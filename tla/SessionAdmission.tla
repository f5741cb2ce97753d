-------------------------- MODULE SessionAdmission --------------------------
(***************************************************************************)
(* What the scheduler promises, with no lock, drain, launch or restart: a  *)
(* request waits, is claimed by one run, and is gone; reading the capacity *)
(* and starting a run is one step.                                         *)
(***************************************************************************)
EXTENDS Integers, FiniteSets

CONSTANTS Session, Pos, Limit

VARIABLES
  busy,   \* sessions with an active run
  fate    \* what became of the request at a queue position

admissionVars == <<busy, fate>>

Fates == {"absent", "waiting", "claimed", "gone"}

Init ==
  /\ busy = {}
  /\ fate = [p \in Pos |-> "absent"]

Start(s) ==
  /\ s \notin busy
  /\ Cardinality(busy) < Limit
  /\ busy' = busy \cup {s}

StartDirect(s) ==
  /\ Start(s)
  /\ UNCHANGED fate

(* An accepted request waits, or belongs to a run that is being launched. *)
Submit(p) ==
  /\ fate[p] = "absent"
  /\ \E f \in {"waiting", "claimed"} : fate' = [fate EXCEPT ![p] = f]
  /\ UNCHANGED busy

Claim(p, s) ==
  /\ fate[p] = "waiting"
  /\ fate' = [fate EXCEPT ![p] = "claimed"]
  /\ Start(s)

(* A claimed request waits again only when its run is given up with it. *)
Return(p, s) ==
  /\ fate[p] = "claimed"
  /\ s \in busy
  /\ fate' = [fate EXCEPT ![p] = "waiting"]
  /\ busy' = busy \ {s}

(* A run ends, or requests are done with, or both. *)
Finish(S, D) ==
  /\ \A p \in D : fate[p] # "absent"
  /\ busy' = busy \ S
  /\ fate' = [p \in Pos |-> IF p \in D THEN "gone" ELSE fate[p]]

Next ==
  \/ \E s \in Session : StartDirect(s)
  \/ \E p \in Pos : Submit(p) \/ \E s \in Session : Claim(p, s) \/ Return(p, s)
  \/ \E S \in SUBSET Session, D \in SUBSET Pos : Cardinality(S) <= 1 /\ Finish(S, D)

Spec == Init /\ [][Next]_admissionVars

=============================================================================
