--------------------------- MODULE MCSessionQueue ---------------------------
(***************************************************************************)
(* Small instances of SessionQueue for TLC.                                *)
(*                                                                         *)
(* Handlers, drain slots and sessions are interchangeable.  Safety runs    *)
(* say so with Symmetry.  A liveness run may not: there they are numbers,  *)
(* and InOrder lets the lowest free one go first.                          *)
(***************************************************************************)
EXTENDS SessionQueue, TLC

Symmetry == Permutations(Session) \cup Permutations(Client) \cup Permutations(Drain)

InOrder ==
  /\ \A c \in Client : client'[c].pc # "idle" =>
       \A b \in Client : b < c => client'[b].pc # "idle"
  /\ \A s \in Session : status'[s] # "none" =>
       \A r \in Session : r < s => status'[r] # "none"
  /\ \A d \in Drain : drain[d].pc = "idle" /\ drain'[d].pc # "idle" =>
       \A e \in Drain : e < d => drain[e].pc # "idle"
=============================================================================
