---------------------------- MODULE RelayDocument ----------------------------
(***************************************************************************)
(* One encrypted document at the relay: services/relay/src/storage.        *)
(*                                                                         *)
(* The relay cannot open what it stores.  It keeps a log of updates with   *)
(* consecutive sequence numbers, and latest states: full copies made by    *)
(* devices, each claiming to cover the updates up to a sequence.  A state  *)
(* is replaced by compare-and-swap on its id.  Covered updates and         *)
(* replaced states stay for a grace period.                                *)
(*                                                                         *)
(* What an envelope holds is a set of edits.  State ids number the states  *)
(* in the order they were accepted; 0 is the null id.  Every operation is  *)
(* one database transaction, hence one step.                               *)
(***************************************************************************)
EXTENDS Integers, Sequences, FiniteSets

CONSTANTS
  Edit,        \* what users do to the document
  MaxUpdates,  \* bound: updates in the log
  MaxStates    \* bound: latest states ever accepted

ASSUME BoundsAssumption == MaxUpdates \in Nat /\ MaxStates \in Nat

VARIABLES
  log,        \* the edits of every update ever accepted, by sequence
  kept,       \* sequences whose rows are still stored
  states,     \* every latest state ever accepted: its edits, and what it covers
  keptStates  \* ids of states whose rows are still stored

relayVars == <<log, kept, states, keptStates>>

State == [edits : SUBSET Edit, through : Nat]

RelayTypeOK ==
  /\ log \in Seq(SUBSET Edit)
  /\ kept \subseteq 1..Len(log)
  /\ states \in Seq(State)
  /\ keptStates \subseteq 1..Len(states)

RelayInit ==
  /\ log = <<>>
  /\ kept = {}
  /\ states = <<>>
  /\ keptStates = {}

Last == Len(log)
Latest == Len(states)
EditsOf(id) == IF id = 0 THEN {} ELSE states[id].edits

Through(id) == IF id = 0 THEN 0 ELSE states[id].through
Newer(after) == {s \in 1..Last : s > after}

(* What a device that reads everything from nothing gets. *)
RelayEdits == EditsOf(Latest) \cup UNION {log[s] : s \in Newer(Through(Latest))}

(* A read finds updates missing that the client still needs: cleanup took
   them, so the client must begin at the latest state. *)
StateRequired(after) == after > Last \/ Cardinality(kept \cap Newer(after)) # Last - after

AppendUpdate(edits) ==
  /\ Last < MaxUpdates
  /\ log' = Append(log, edits)
  /\ kept' = kept \cup {Last + 1}
  /\ UNCHANGED <<states, keptStates>>

(* Accepts a state built on any other. *)
ReplaceableMutant(from, cover) == cover <= Last

(* The compare-and-swap guard; what a client sends beyond it is refused. *)
Replaceable(from, cover) ==
  /\ from = Latest
  /\ Through(Latest) <= cover
  /\ cover <= Last

(* Accepts a state and retires: what an earlier state replaced goes at once,
   with the updates the replaced state covers. *)
ReplaceState(from, edits, cover) ==
  /\ Latest < MaxStates
  /\ Replaceable(from, cover)
  /\ states' = Append(states, [edits |-> edits, through |-> cover])
  /\ keptStates' = (keptStates \cap {Latest}) \cup {Latest + 1}
  /\ kept' = kept \ (1..Through(Latest))
  /\ UNCHANGED log

(* The cleanup of one run, two statements.  Rows are removed when their mark is
   older than the grace period; marks are set state by state, so what is
   removed is what some accepted state covers or replaced. *)
CleanUpdates ==
  /\ \E id \in 1..Latest : kept' = kept \ (1..Through(id))
  /\ kept' # kept
  /\ UNCHANGED <<log, states, keptStates>>

CleanStates ==
  /\ \E id \in 1..Latest : keptStates' = keptStates \ (1..(id - 1))
  /\ keptStates' # keptStates
  /\ UNCHANGED <<log, kept, states>>

RelayCleanup == CleanUpdates \/ CleanStates
=============================================================================
