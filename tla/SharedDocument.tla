---------------------------- MODULE SharedDocument ----------------------------
(***************************************************************************)
(* What synchronisation promises, with no word of states, cursors or       *)
(* passes: devices edit documents of their own; edits become shared, and   *)
(* what is shared stays shared; a device receives only what is shared and  *)
(* never loses what it has; and what it reports as synced is shared.       *)
(***************************************************************************)
CONSTANTS Edit, Device

VARIABLES
  document,  \* the edits each device has
  shared,    \* the edits anyone can download
  reported   \* what each device says is synced

docVars == <<document, shared, reported>>

Everywhere == UNION {document[d] : d \in Device}

DocInit ==
  /\ document = [d \in Device |-> {}]
  /\ shared = {}
  /\ reported = [d \in Device |-> {}]

NewEdit(d) ==
  /\ \E e \in Edit \ Everywhere : document' = [document EXCEPT ![d] = @ \cup {e}]
  /\ UNCHANGED <<shared, reported>>

Share ==
  /\ \E edits \in SUBSET Everywhere : shared' = shared \cup edits
  /\ UNCHANGED <<document, reported>>

Receive(d) ==
  /\ \E edits \in SUBSET shared : document' = [document EXCEPT ![d] = @ \cup edits]
  /\ UNCHANGED <<shared, reported>>

(* A report covers the whole document of the device, or what it covered before,
   or nothing when the device starts anew. *)
Report(d) ==
  /\ document[d] \subseteq shared
  /\ reported' = [reported EXCEPT ![d] = document[d]]
  /\ UNCHANGED <<document, shared>>

Withdraw(d) ==
  /\ reported' = [reported EXCEPT ![d] = {}]
  /\ UNCHANGED <<document, shared>>

DocNext ==
  \/ Share
  \/ \E d \in Device : NewEdit(d) \/ Receive(d) \/ Report(d) \/ Withdraw(d)

DocSpec == DocInit /\ [][DocNext]_docVars
=============================================================================
