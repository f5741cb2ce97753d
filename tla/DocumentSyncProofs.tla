-------------------------- MODULE DocumentSyncProofs --------------------------
(***************************************************************************)
(* What DocumentSync and DocumentConnection keep for every number of       *)
(* devices, edits, updates, states and faults.                             *)
(*                                                                         *)
(* SyncStep is a little more than a step of DocumentSync: a pass may also  *)
(* be interrupted at any time, and a fault may pass without effect on a    *)
(* replica.  That is what DocumentConnection adds, so that the lemmas      *)
(* about a SyncStep serve both.                                            *)
(***************************************************************************)
EXTENDS DocumentConnection, TLAPS, SequenceTheorems

USE BoundsAssumption, FaultsAssumption

Interrupted(d) == Stop(d) /\ UNCHANGED <<relayVars, local, engineVars>> /\ faults' \in 0..MaxFaults

OnlyAFault ==
  UNCHANGED <<relayVars, local, engineVars, passVars>> /\ faults' \in 0..MaxFaults

SyncStep == Next \/ (\E d \in Device : Interrupted(d)) \/ OnlyAFault

-----------------------------------------------------------------------------
(* The relay *)

\* What the relay stores is in order: states cover ever more, never more than
\* there is, and what the latest state does not cover is still stored.
RelayInv ==
  /\ RelayTypeOK
  /\ Last <= MaxUpdates /\ Latest <= MaxStates
  /\ \A id \in 0..Latest : Through(id) <= Through(Latest)
  /\ Through(Latest) <= Last
  /\ TailIsStored

\* What was accepted once stays what it was.
Grows ==
  /\ Last <= Last' /\ Latest <= Latest'
  /\ \A s \in 1..Last : log'[s] = log[s]
  /\ \A id \in 0..Latest : EditsOf(id)' = EditsOf(id) /\ Through(id)' = Through(id)

LEMMA RelayTypes ==
  ASSUME RelayTypeOK
  PROVE  /\ Last \in Nat /\ Latest \in Nat
         /\ \A s \in 1..Last : log[s] \in SUBSET Edit
         /\ \A id \in 0..Latest : EditsOf(id) \in SUBSET Edit /\ Through(id) \in Nat
<1>1. Last \in Nat /\ Latest \in Nat
  BY DEF RelayTypeOK, Last, Latest
<1>2. \A s \in 1..Last : log[s] \in SUBSET Edit
  BY DEF RelayTypeOK, Last
<1>3. \A id \in 1..Latest : states[id] \in State
  BY DEF RelayTypeOK, Latest
<1>4. \A id \in 1..Latest : states[id].edits \in SUBSET Edit /\ states[id].through \in Nat
  BY <1>3 DEF State
<1>5. \A id \in 0..Latest : id = 0 \/ id \in 1..Latest
  BY <1>1
<1> QED
  BY <1>1, <1>2, <1>4, <1>5 DEF EditsOf, Through

LEMMA Appends ==
  ASSUME RelayInv, NEW edits \in SUBSET Edit, AppendUpdate(edits)
  PROVE  /\ RelayInv' /\ Grows
         /\ Latest' = Latest /\ Last' = Last + 1 /\ log'[Last + 1] = edits
<1>1. /\ log' \in Seq(SUBSET Edit) /\ Last' = Last + 1 /\ log'[Last + 1] = edits
      /\ \A s \in 1..Last : log'[s] = log[s]
  BY DEF RelayInv, RelayTypeOK, AppendUpdate, Last
<1>2. states' = states /\ Latest' = Latest /\ keptStates' = keptStates
  BY DEF AppendUpdate, Latest
<1>3. \A id : EditsOf(id)' = EditsOf(id) /\ Through(id)' = Through(id)
  BY <1>2 DEF EditsOf, Through
<1>4. Last \in Nat /\ Latest \in Nat /\ Through(Latest) \in Nat /\ \A id \in 0..Latest : Through(id) \in Nat
  BY RelayTypes DEF RelayInv
<1>5. RelayTypeOK'
  <2>1. kept \subseteq 1..Last /\ kept' = kept \cup {Last + 1}
    BY DEF RelayInv, RelayTypeOK, AppendUpdate, Last
  <2>2. kept' \subseteq 1..Last'
    BY <2>1, <1>1, <1>4
  <2> QED
    BY <2>2, <1>1, <1>2 DEF RelayInv, RelayTypeOK, Last
<1>6. Last' <= MaxUpdates /\ Latest' <= MaxStates
  BY <1>1, <1>2, <1>4 DEF AppendUpdate, RelayInv
<1>7. TailIsStored'
  <2>1. Through(Latest)' = Through(Latest)
    BY <1>2 DEF Through, Latest
  <2>2. Newer(Through(Latest))' = {s \in 1..(Last + 1) : s > Through(Latest)}
    BY <1>1, <2>1 DEF Newer
  <2>3. Newer(Through(Latest))' \subseteq Newer(Through(Latest)) \cup {Last + 1}
    BY <2>2, <1>4 DEF Newer
  <2> QED
    BY <2>3, <1>2 DEF TailIsStored, RelayInv, AppendUpdate
<1> QED
  BY <1>1, <1>2, <1>3, <1>4, <1>5, <1>6, <1>7 DEF RelayInv, Grows, Latest, Through

LEMMA Replaces ==
  ASSUME RelayInv, NEW from, NEW edits \in SUBSET Edit, NEW cover \in Nat,
         ReplaceState(from, edits, cover)
  PROVE  /\ RelayInv' /\ Grows
         /\ from = Latest /\ Latest' = Latest + 1 /\ log' = log
         /\ Through(Latest) <= cover /\ cover <= Last
         /\ EditsOf(Latest)' = edits /\ Through(Latest)' = cover
<1>1. /\ from = Latest /\ Through(Latest) <= cover /\ cover <= Last /\ log' = log /\ Last' = Last
      /\ Latest < MaxStates
  BY DEF ReplaceState, Replaceable, Last
<1>2. Last \in Nat /\ Latest \in Nat /\ \A id \in 0..Latest : Through(id) \in Nat
  BY RelayTypes DEF RelayInv
<1>3. [edits |-> edits, through |-> cover] \in State
  BY DEF State
<1>4. /\ states' \in Seq(State) /\ Latest' = Latest + 1
      /\ \A id \in 1..Latest : states'[id] = states[id]
      /\ states'[Latest + 1] = [edits |-> edits, through |-> cover]
  BY <1>3 DEF RelayInv, RelayTypeOK, ReplaceState, Latest
<1>5. \A id \in 0..Latest : EditsOf(id)' = EditsOf(id) /\ Through(id)' = Through(id)
  BY <1>2, <1>4 DEF EditsOf, Through
<1>6. EditsOf(Latest)' = edits /\ Through(Latest)' = cover
  <2>1. Latest' # 0
    BY <1>2, <1>4
  <2> QED
    BY <2>1, <1>4 DEF EditsOf, Through
<1>7. \A id \in 0..Latest' : Through(id)' <= cover
  <2> SUFFICES ASSUME NEW id \in 0..Latest' PROVE Through(id)' <= cover
    OBVIOUS
  <2>1. CASE id \in 0..Latest
    BY <2>1, <1>1, <1>2, <1>5 DEF RelayInv
  <2>2. CASE id = Latest + 1
    BY <2>2, <1>2, <1>4 DEF Through
  <2> QED
    BY <2>1, <2>2, <1>2, <1>4
<1>8. RelayTypeOK'
  <2>1. kept \subseteq 1..Last /\ kept' \subseteq kept
    BY DEF RelayInv, RelayTypeOK, ReplaceState, Last
  <2>2. keptStates \subseteq 1..Latest /\ keptStates' \subseteq keptStates \cup {Latest + 1}
    BY DEF RelayInv, RelayTypeOK, ReplaceState, Latest
  <2>3. kept' \subseteq 1..Last' /\ keptStates' \subseteq 1..Latest'
    BY <2>1, <2>2, <1>1, <1>2, <1>4
  <2> QED
    BY <2>3, <1>1, <1>4 DEF RelayInv, RelayTypeOK, Last, Latest
<1>9. TailIsStored'
  <2>1. Newer(Through(Latest))' = {s \in 1..Last : s > cover}
    BY <1>1, <1>6 DEF Newer
  <2>2. Newer(Through(Latest))' \subseteq kept'
    BY <2>1, <1>1, <1>2 DEF RelayInv, TailIsStored, Newer, ReplaceState
  <2>3. Latest' \in keptStates'
    BY <1>4 DEF ReplaceState
  <2> QED
    BY <2>2, <2>3 DEF TailIsStored
<1> QED
  BY <1>1, <1>2, <1>4, <1>5, <1>6, <1>7, <1>8, <1>9 DEF RelayInv, Grows

LEMMA Cleans ==
  ASSUME RelayInv, RelayCleanup
  PROVE  RelayInv' /\ Grows /\ log' = log /\ states' = states
<1>1. log' = log /\ states' = states /\ Last' = Last /\ Latest' = Latest
  BY DEF RelayCleanup, CleanUpdates, CleanStates, Last, Latest
<1>2. \A id : EditsOf(id)' = EditsOf(id) /\ Through(id)' = Through(id)
  BY <1>1 DEF EditsOf, Through
<1>3. Last \in Nat /\ Latest \in Nat /\ \A id \in 0..Latest : Through(id) \in Nat
  BY RelayTypes DEF RelayInv
<1>4. RelayTypeOK'
  BY <1>1 DEF RelayInv, RelayTypeOK, RelayCleanup, CleanUpdates, CleanStates
<1>5. TailIsStored'
  <2>1. Newer(Through(Latest))' = Newer(Through(Latest)) /\ Through(Latest)' = Through(Latest)
    BY <1>1 DEF Newer, Through
  <2>2. CASE CleanUpdates
    <3>1. PICK id \in 1..Latest : kept' = kept \ (1..Through(id))
      BY <2>2 DEF CleanUpdates
    <3>2. Through(id) <= Through(Latest)
      BY <1>3 DEF RelayInv
    <3>3. Newer(Through(Latest)) \subseteq kept'
      BY <3>1, <3>2, <1>3 DEF RelayInv, TailIsStored, Newer
    <3> QED
      BY <2>1, <2>2, <3>3, <1>1 DEF TailIsStored, RelayInv, CleanUpdates
  <2>3. CASE CleanStates
    BY <2>1, <2>3, <1>1, <1>3 DEF TailIsStored, RelayInv, CleanStates
  <2> QED
    BY <2>2, <2>3 DEF RelayCleanup
<1>6. Through(Latest)' = Through(Latest)
  BY <1>1 DEF Through
<1> QED
  BY <1>1, <1>2, <1>3, <1>4, <1>5, <1>6 DEF RelayInv, Grows

LEMMA Rests ==
  ASSUME RelayInv, UNCHANGED relayVars
  PROVE  RelayInv' /\ Grows /\ RelayEdits' = RelayEdits
<1>1. Last' = Last /\ Latest' = Latest
  BY DEF relayVars, Last, Latest
<1>2. \A id : EditsOf(id)' = EditsOf(id) /\ Through(id)' = Through(id)
  BY DEF relayVars, EditsOf, Through
<1>3. Last \in Nat /\ Latest \in Nat
  BY RelayTypes DEF RelayInv
<1> QED
  BY <1>1, <1>2, <1>3 DEF relayVars, RelayInv, RelayTypeOK, TailIsStored, Newer, Grows, RelayEdits,
    Last, Latest, Through, EditsOf

-----------------------------------------------------------------------------
(* Types and positions, whatever devices cannot open *)

\* A device knows no state and no update that the relay did not accept, and its
\* cursor is never before the state its replica was built on.
Bounded(d) ==
  /\ base[d] <= Latest /\ want[d] <= Latest
  /\ Through(base[d]) <= after[d] /\ after[d] <= Last
  /\ late[d].kind = "state" => late[d].from <= Latest /\ late[d].cover <= Last

TypeInv == TypeOK /\ RelayInv /\ \A d \in Device : Bounded(d)

-----------------------------------------------------------------------------
(* Contents, when devices can open every latest state *)

\* No accepted state holds an edit that is not on the relay any more.
RelayHoldsAll ==
  /\ StateHoldsWhatItCovers
  /\ \A id \in 0..Latest : EditsOf(id) \subseteq RelayEdits

\* A replica holds what its position stands for, and nothing else.
ReplicaHolds(d) ==
  /\ EditsOf(base[d]) \subseteq remote[d]
  /\ ~incomplete[d] => \A s \in 1..after[d] : log[s] \subseteq remote[d]
  /\ remote[d] \cup ack[d] \subseteq RelayEdits

\* What a pass sends holds the replica and comes from the local document.
PassHolds(d) ==
  /\ pc[d] \in {"send", "publish"} => remote[d] \subseteq draft[d] /\ draft[d] \subseteq local[d]
  /\ pc[d] \in {"compact", "finish"} => remote[d] \subseteq local[d]

\* A request that was given up is as good as it was when it was made.
LateHolds(d) ==
  /\ late[d].kind # "none" => late[d].edits \subseteq local[d]
  /\ late[d].kind = "state" =>
       /\ EditsOf(late[d].from) \subseteq late[d].edits
       /\ \A s \in 1..late[d].cover : log[s] \subseteq late[d].edits

\* What was acknowledged is in a complete replica once it has been read to the
\* end of the log, and a device says so only of such a replica.
AckHolds(d) ==
  /\ downloaded[d] =>
       /\ ~incomplete[d] /\ ack[d] \subseteq remote[d] /\ remote[d] \subseteq local[d]
       /\ pc[d] \notin {"send", "publish", "compact", "finish"}
  /\ pc[d] \in {"merge", "send", "publish", "compact", "finish"} /\ ~incomplete[d] =>
       ack[d] \subseteq remote[d]

ContentInv ==
  /\ RelayHoldsAll
  /\ \A d \in Device : ReplicaHolds(d) /\ PassHolds(d) /\ LateHolds(d) /\ AckHolds(d)

-----------------------------------------------------------------------------
(* Every step keeps types and positions. *)

LEMMA RequestKinds ==
  ASSUME NEW r \in Requests
  PROVE  /\ r.kind \in {"none", "update", "state"}
         /\ r.kind # "none" => r.edits \in SUBSET Edit
         /\ r.kind = "state" => r.from \in 0..MaxStates /\ r.cover \in 0..MaxUpdates
<1>1. CASE r = Nothing
  BY <1>1 DEF Nothing
<1>2. CASE r \in [kind : {"update"}, edits : SUBSET Edit]
  BY <1>2
<1>3. CASE r \in [kind : {"state"}, edits : SUBSET Edit, from : 0..MaxStates, cover : 0..MaxUpdates]
  BY <1>3
<1> QED
  BY <1>1, <1>2, <1>3 DEF Requests

LEMMA CoverTypes ==
  ASSUME TypeInv, NEW d \in Device
  PROVE  /\ Last \in 0..MaxUpdates /\ Latest \in 0..MaxStates
         /\ base[d] \in 0..Latest /\ want[d] \in 0..Latest /\ after[d] \in 0..Last
         /\ Through(base[d]) \in Nat /\ Through(want[d]) \in Nat
         /\ Covered(d) \in 0..Last /\ Through(base[d]) <= Covered(d) /\ Covered(d) <= after[d]
<1>1. Last \in Nat /\ Latest \in Nat
  BY RelayTypes DEF TypeInv, RelayInv
<1>2. Last \in 0..MaxUpdates /\ Latest \in 0..MaxStates
  BY <1>1 DEF TypeInv, RelayInv
<1>3. base[d] \in Nat /\ want[d] \in Nat /\ after[d] \in Nat
  BY DEF TypeInv, TypeOK
<1>4. base[d] \in 0..Latest /\ want[d] \in 0..Latest /\ after[d] \in 0..Last
  BY <1>1, <1>3 DEF TypeInv, Bounded
<1>5. Through(base[d]) \in Nat /\ Through(want[d]) \in Nat
  BY <1>4, RelayTypes DEF TypeInv, RelayInv
<1>6. Through(base[d]) <= after[d]
  BY DEF TypeInv, Bounded
<1> QED
  BY <1>2, <1>3, <1>4, <1>5, <1>6 DEF Covered

LEMMA RequestTyped ==
  ASSUME TypeInv, NEW d \in Device
  PROVE  /\ Request(d) \in Requests
         /\ Request(d).kind = "state" => Request(d).from <= Latest /\ Request(d).cover <= Last
<1>1. /\ Missing(d) \in SUBSET Edit /\ draft[d] \in SUBSET Edit /\ remote[d] \in SUBSET Edit
      /\ base[d] \in 0..MaxStates
  BY DEF TypeInv, TypeOK, Missing
<1>2. Covered(d) \in 0..Last /\ Covered(d) \in 0..MaxUpdates /\ base[d] <= Latest
  BY CoverTypes
<1>3. CASE pc[d] = "send"
  BY <1>3, <1>1 DEF Request, Requests
<1>4. CASE pc[d] = "publish"
  BY <1>4, <1>1, <1>2 DEF Request, Requests
<1>5. CASE pc[d] = "compact" /\ MayCompact(d)
  BY <1>5, <1>1, <1>2 DEF Request, Requests
<1>6. CASE pc[d] # "send" /\ pc[d] # "publish" /\ ~(pc[d] = "compact" /\ MayCompact(d))
  BY <1>6 DEF Request, Requests, Nothing
<1> QED
  BY <1>3, <1>4, <1>5, <1>6

\* What a device knows of the relay stays true of it when the relay moves on.
LEMMA BoundedKept ==
  ASSUME TypeInv, RelayInv', Grows, NEW d \in Device,
         base'[d] = base[d], want'[d] = want[d], after'[d] = after[d], late'[d] = late[d]
  PROVE  Bounded(d)'
<1>1. base[d] \in 0..Latest /\ want[d] \in 0..Latest /\ after[d] \in 0..Last /\ Last \in Nat /\ Latest \in Nat
  BY CoverTypes
<1>2. Last' \in Nat /\ Latest' \in Nat /\ Last <= Last' /\ Latest <= Latest'
  <2>1. Last' \in Nat /\ Latest' \in Nat
    BY DEF RelayInv, RelayTypeOK, Last, Latest
  <2> QED
    BY <2>1 DEF Grows
<1>3. Through(base[d])' = Through(base[d])
  BY <1>1 DEF Grows, Through
<1>4. late[d].kind = "state" => late[d].from \in 0..MaxStates /\ late[d].cover \in 0..MaxUpdates
  BY RequestKinds DEF TypeInv, TypeOK
<1> QED
  BY <1>1, <1>2, <1>3, <1>4 DEF TypeInv, Bounded

\* Whatever a step does at the relay, it leaves the relay in order and takes
\* nothing back.
LEMMA RelaySteps ==
  ASSUME TypeInv, SyncStep
  PROVE  RelayInv' /\ Grows
<1>1. RelayInv
  BY DEF TypeInv
<1>2. CASE UNCHANGED relayVars
  BY <1>1, <1>2, Rests
<1>3. CASE \E d \in Device : SendUpdate(d)
  <2>1. PICK d \in Device : SendUpdate(d)
    BY <1>3
  <2>2. Missing(d) \in SUBSET Edit
    BY DEF TypeInv, TypeOK, Missing
  <2> QED
    BY <1>1, <2>1, <2>2, Appends DEF SendUpdate
<1>4. CASE \E d \in Device : Publish(d) \/ Compact(d)
  <2>1. PICK d \in Device : Publish(d) \/ Compact(d)
    BY <1>4
  <2>2. draft[d] \in SUBSET Edit /\ remote[d] \in SUBSET Edit /\ Covered(d) \in Nat
    <3>1. Covered(d) \in 0..Last
      BY CoverTypes
    <3> QED
      BY <3>1 DEF TypeInv, TypeOK
  <2>3. CASE ReplaceState(base[d], draft[d], Covered(d))
    BY <1>1, <2>2, <2>3, Replaces
  <2>4. CASE ReplaceState(base[d], remote[d], Covered(d))
    BY <1>1, <2>2, <2>4, Replaces
  <2> QED
    BY <1>2, <2>1, <2>3, <2>4 DEF Publish, Compact
<1>5. CASE \E d \in Device : LateRequest(d)
  <2>1. PICK d \in Device : LateRequest(d)
    BY <1>5
  <2> DEFINE r == late[d]
  <2>2. r \in Requests
    BY DEF TypeInv, TypeOK
  <2>3. CASE r.kind = "update" /\ AppendUpdate(r.edits)
    BY <1>1, <2>2, <2>3, RequestKinds, Appends
  <2>4. CASE r.kind = "state" /\ ReplaceState(r.from, r.edits, r.cover)
    <3>1. r.edits \in SUBSET Edit /\ r.cover \in Nat
      BY <2>2, <2>4, RequestKinds
    <3> QED
      BY <1>1, <2>4, <3>1, Replaces
  <2> QED
    BY <1>2, <2>1, <2>3, <2>4 DEF LateRequest
<1>6. CASE RelayCleanup
  BY <1>1, <1>6, Cleans
<1> QED
  BY <1>2, <1>3, <1>4, <1>5, <1>6 DEF SyncStep, Interrupted, OnlyAFault, Next, RequestStep, LocalStep,
    MakeEdit, StartPass, ReopenAndStart, ReadNewState, LoadState, ReadPage, SavePage, MergeLocal,
    TooLarge, SkipCompaction, FinishPass, RequestFails, RelayRefuses, Crash

\* The steps of a device leave the other devices alone.
Untouched(x) ==
  /\ local'[x] = local[x] /\ remote'[x] = remote[x] /\ base'[x] = base[x] /\ after'[x] = after[x]
  /\ incomplete'[x] = incomplete[x] /\ downloaded'[x] = downloaded[x] /\ ack'[x] = ack[x]
  /\ pc'[x] = pc[x] /\ want'[x] = want[x] /\ draft'[x] = draft[x] /\ late'[x] = late[x]

DeviceStep(d) ==
  \/ MakeEdit(d) \/ StartPass(d) \/ ReopenAndStart(d)
  \/ ReadNewState(d) \/ LoadState(d) \/ ReadPage(d) \/ SendUpdate(d) \/ TooLarge(d) \/ Publish(d) \/ Compact(d)
  \/ SavePage(d) \/ MergeLocal(d) \/ SkipCompaction(d) \/ FinishPass(d)
  \/ RequestFails(d) \/ RelayRefuses(d) \/ Crash(d) \/ LateRequest(d) \/ Interrupted(d)

LEMMA StepSplit ==
  ASSUME SyncStep
  PROVE  \/ \E d \in Device : DeviceStep(d)
         \/ RelayCleanup /\ UNCHANGED deviceVars
         \/ OnlyAFault
BY DEF SyncStep, Next, DeviceStep, RequestStep, LocalStep

LEMMA OthersUntouched ==
  ASSUME TypeOK, NEW d \in Device, DeviceStep(d), NEW x \in Device \ {d}
  PROVE  Untouched(x)
<1>1. CASE MakeEdit(d)
  BY <1>1 DEF TypeOK, MakeEdit, Untouched, engineVars, passVars
<1>2. CASE StartPass(d) \/ ReadNewState(d) \/ TooLarge(d) \/ SkipCompaction(d)
  BY <1>2 DEF TypeOK, StartPass, ReadNewState, TooLarge, SkipCompaction, Goto, Untouched, engineVars, passVars
<1>3. CASE ReopenAndStart(d)
  BY <1>3 DEF TypeOK, ReopenAndStart, EmptyReplica, Goto, Untouched, engineVars, passVars
<1>4. CASE LoadState(d)
  BY <1>4 DEF TypeOK, LoadState, Downloads, NotDownloaded, Goto, Untouched
<1>5. CASE ReadPage(d)
  BY <1>5 DEF TypeOK, ReadPage, Downloads, Goto, Untouched
<1>6. CASE SendUpdate(d)
  BY <1>6 DEF TypeOK, SendUpdate, Goto, Untouched, engineVars
<1>7. CASE Publish(d) \/ Compact(d)
  BY <1>7 DEF TypeOK, Publish, Compact, Adopt, Downloads, Goto, Untouched, engineVars
<1>8. CASE SavePage(d) \/ MergeLocal(d) \/ FinishPass(d)
  BY <1>8 DEF TypeOK, SavePage, MergeLocal, FinishPass, NotDownloaded, Goto, Untouched, engineVars
<1>9. CASE RequestFails(d) \/ RelayRefuses(d) \/ Interrupted(d)
  BY <1>9 DEF TypeOK, RequestFails, RelayRefuses, Interrupted, Stop, Goto, Untouched, engineVars
<1>10. CASE Crash(d)
  BY <1>10 DEF TypeOK, Crash, EmptyReplica, Stop, Goto, Untouched
<1>11. CASE LateRequest(d)
  BY <1>11 DEF TypeOK, LateRequest, Untouched, engineVars
<1> QED
  BY <1>1, <1>2, <1>3, <1>4, <1>5, <1>6, <1>7, <1>8, <1>9, <1>10, <1>11 DEF DeviceStep

LEMMA DeviceTypes ==
  ASSUME TypeInv, NEW d \in Device, DeviceStep(d), RelayInv', Grows
  PROVE  TypeOK' /\ Bounded(d)'
<1> USE DEF Goto, Downloads, NotDownloaded
<1>1. RelayTypeOK' /\ TypeOK
  BY DEF RelayInv, TypeInv
<1>2. /\ Last \in 0..MaxUpdates /\ Latest \in 0..MaxStates
      /\ base[d] \in 0..Latest /\ want[d] \in 0..Latest /\ after[d] \in 0..Last
      /\ Through(base[d]) \in Nat /\ Through(want[d]) \in Nat
  BY CoverTypes
<1>3. Bounded(d)
  BY DEF TypeInv
<1>4. Last' \in Nat /\ Latest' \in Nat /\ Last' <= MaxUpdates /\ Latest' <= MaxStates
      /\ Last <= Last' /\ Latest <= Latest'
  BY DEF RelayInv, RelayTypeOK, Last, Latest, Grows
<1>5. CASE MakeEdit(d)
  <2>1. Bounded(d)'
    BY <1>5, BoundedKept DEF MakeEdit, engineVars, passVars
  <2> QED
    BY <2>1, <1>1, <1>5 DEF TypeOK, MakeEdit, engineVars, passVars
<1>6. CASE StartPass(d) \/ TooLarge(d) \/ SkipCompaction(d)
  <2>1. Bounded(d)'
    BY <1>6, BoundedKept DEF StartPass, TooLarge, SkipCompaction, engineVars
  <2> QED
    BY <2>1, <1>1, <1>6 DEF TypeOK, StartPass, TooLarge, SkipCompaction, engineVars
<1>7. CASE ReopenAndStart(d)
  <2>1. TypeOK'
    BY <1>1, <1>7 DEF TypeOK, ReopenAndStart, EmptyReplica
  <2>2. base'[d] = 0 /\ after'[d] = 0 /\ want' = want /\ late' = late /\ Through(0)' = 0
    BY <1>1, <1>7 DEF TypeOK, ReopenAndStart, EmptyReplica, Through
  <2>3. Last' = Last /\ Latest' = Latest
    BY <1>7 DEF ReopenAndStart, relayVars, Last, Latest
  <2>4. Through(base[d])' = 0
    BY <2>2 DEF Through
  <2> QED
    BY <2>1, <2>2, <2>3, <2>4, <1>2, <1>3 DEF Bounded
<1>8. CASE ReadNewState(d)
  <2>1. TypeOK'
    BY <1>1, <1>2, <1>8 DEF TypeOK, ReadNewState, engineVars
  <2>2. want'[d] = Latest /\ base' = base /\ after' = after /\ late' = late /\ relayVars' = relayVars
    BY <1>1, <1>8 DEF TypeOK, ReadNewState, engineVars
  <2>3. Last' = Last /\ Latest' = Latest /\ Through(base[d])' = Through(base[d])
    BY <2>2 DEF relayVars, Last, Latest, Through
  <2> QED
    BY <2>1, <2>2, <2>3, <1>2, <1>3 DEF Bounded
<1>9. CASE LoadState(d)
  <2>1. /\ base'[d] = want[d] /\ after'[d] = Through(want[d]) /\ want'[d] = 0 /\ late' = late
        /\ relayVars' = relayVars
    BY <1>1, <1>9 DEF TypeOK, LoadState
  <2>2. Last' = Last /\ Latest' = Latest /\ Through(base[d])' = Through(want[d])
    BY <2>1 DEF relayVars, Last, Latest, Through
  <2>3. Through(want[d]) \in 0..Last
    <3>1. Through(Latest) \in Nat
      BY <1>1, <1>2, RelayTypes DEF TypeOK
    <3> QED
      BY <3>1, <1>2 DEF TypeInv, RelayInv
  <2>4. EditsOf(want[d]) \in SUBSET Edit
    BY <1>1, <1>2, RelayTypes DEF TypeOK
  <2>5. faults' \in 0..MaxFaults
    BY <1>1, <1>9 DEF LoadState, TypeOK, Fault
  <2>6. Through(want[d]) \in 0..MaxUpdates
    BY <2>3, <1>2
  <2>7. TypeOK'
    <3>1. remote' \in [Device -> SUBSET Edit] /\ incomplete' \in [Device -> BOOLEAN]
      <4>1. \/ remote' = [remote EXCEPT ![d] = EditsOf(want[d])] /\ incomplete' = [incomplete EXCEPT ![d] = FALSE]
            \/ remote' = [remote EXCEPT ![d] = {}] /\ incomplete' = [incomplete EXCEPT ![d] = TRUE]
        BY <1>9 DEF LoadState
      <4> QED
        <5>1. remote \in [Device -> SUBSET Edit] /\ incomplete \in [Device -> BOOLEAN]
          BY <1>1 DEF TypeOK
        <5>2. PICK E \in SUBSET Edit, b \in BOOLEAN :
                remote' = [remote EXCEPT ![d] = E] /\ incomplete' = [incomplete EXCEPT ![d] = b]
          BY <2>4, <4>1
        <5> QED
          BY <5>1, <5>2
    <3>2. base' \in [Device -> 0..MaxStates] /\ after' \in [Device -> 0..MaxUpdates]
      BY <1>1, <1>9, <2>6 DEF TypeOK, LoadState
    <3> QED
      BY <1>1, <1>9, <2>5, <3>1, <3>2 DEF TypeOK, LoadState
  <2> QED
    BY <2>1, <2>2, <2>3, <2>7, <1>2, <1>3 DEF Bounded
<1>10. CASE ReadPage(d)
  <2>1. PICK n \in after[d]..Last :
          LET page == (after[d] + 1)..n IN
          /\ \E bad \in SUBSET page :
               /\ IF bad = {} THEN UNCHANGED faults ELSE Fault("update")
               /\ remote' = [remote EXCEPT ![d] = remote[d] \cup UNION {log[s] : s \in page \ bad}]
               /\ incomplete' = [incomplete EXCEPT ![d] = @ \/ bad # {}]
          /\ downloaded' = [downloaded EXCEPT ![d] = StillDownloaded(d, page)]
          /\ after' = [after EXCEPT ![d] = n]
          /\ pc' = [pc EXCEPT ![d] = IF n < Last THEN "page"
                     ELSE IF downloaded'[d] /\ ~Pending(d) THEN "idle" ELSE "merge"]
    BY <1>10 DEF ReadPage
  <2> DEFINE page == (after[d] + 1)..n
  <2>2. PICK bad \in SUBSET page :
               /\ IF bad = {} THEN UNCHANGED faults ELSE Fault("update")
               /\ remote' = [remote EXCEPT ![d] = remote[d] \cup UNION {log[s] : s \in page \ bad}]
               /\ incomplete' = [incomplete EXCEPT ![d] = @ \/ bad # {}]
    BY <2>1
  <2>3. \A s \in page : log[s] \in SUBSET Edit
    BY <1>1, <1>2, RelayTypes DEF TypeOK
  <2>4. remote[d] \cup UNION {log[s] : s \in page \ bad} \in SUBSET Edit
    BY <1>1, <2>3 DEF TypeOK
  <2>5. remote' \in [Device -> SUBSET Edit]
    BY <2>2, <2>4, <1>1 DEF TypeOK
  <2>6. faults' \in 0..MaxFaults
    BY <2>2, <1>1 DEF TypeOK, Fault
  <2>7. incomplete' \in [Device -> BOOLEAN]
    BY <2>2, <1>1 DEF TypeOK
  <2>8. StillDownloaded(d, page) \in BOOLEAN
    BY DEF StillDownloaded
  <2>9. downloaded' \in [Device -> BOOLEAN]
    BY <2>1, <2>8, <1>1 DEF TypeOK
  <2>10. n \in 0..MaxUpdates
    BY <1>2
  <2>11. TypeOK'
    BY <1>1, <1>10, <2>1, <2>5, <2>6, <2>7, <2>9, <2>10 DEF TypeOK, ReadPage
  <2>12. base' = base /\ want' = want /\ late' = late /\ relayVars' = relayVars /\ after'[d] = n
    BY <1>1, <1>10, <2>1 DEF TypeOK, ReadPage
  <2>13. Last' = Last /\ Latest' = Latest /\ Through(base[d])' = Through(base[d])
    BY <2>12 DEF relayVars, Last, Latest, Through
  <2> QED
    BY <2>11, <2>12, <2>13, <1>2, <1>3 DEF Bounded
<1>11. CASE SavePage(d) \/ MergeLocal(d)
  <2>1. Bounded(d)'
    BY <1>11, BoundedKept DEF SavePage, MergeLocal, engineVars
  <2>2. CASE SavePage(d)
    BY <2>1, <2>2, <1>1 DEF TypeOK, SavePage, engineVars
  <2>3. CASE MergeLocal(d)
    <3>1. local[d] \cup remote[d] \in SUBSET Edit
      BY <1>1 DEF TypeOK
    <3>2. draft' \in [Device -> SUBSET Edit] /\ local' \in [Device -> SUBSET Edit]
      BY <2>3, <3>1, <1>1 DEF TypeOK, MergeLocal
    <3> QED
      BY <2>1, <2>3, <3>2, <1>1 DEF TypeOK, MergeLocal
  <2> QED
    BY <1>11, <2>2, <2>3
<1>12. CASE FinishPass(d)
  <2>1. Bounded(d)'
    BY <1>12, BoundedKept DEF FinishPass
  <2> QED
    BY <2>1, <1>1, <1>12 DEF TypeOK, FinishPass, Acknowledged
<1>13. CASE SendUpdate(d)
  <2>1. Bounded(d)'
    BY <1>13, BoundedKept DEF SendUpdate, engineVars
  <2> QED
    BY <2>1, <1>1, <1>13 DEF TypeOK, SendUpdate, engineVars
<1>14. CASE Publish(d) \/ Compact(d)
  <2>1. draft[d] \in SUBSET Edit /\ remote[d] \in SUBSET Edit
    BY <1>1 DEF TypeOK
  <2>2. CASE UNCHANGED engineVars
    <3>1. Bounded(d)'
      BY <1>14, <2>2, BoundedKept DEF Publish, Compact, engineVars
    <3> QED
      BY <3>1, <1>1, <1>14, <2>2 DEF TypeOK, Publish, Compact, engineVars
  <2>3. ASSUME NEW edits \in {draft[d], remote[d]}, ReplaceState(base[d], edits, Covered(d)), Adopt(d, edits)
        PROVE  TypeOK' /\ Bounded(d)'
    <3>1. Covered(d) \in 0..Last /\ Covered(d) <= after[d]
      BY CoverTypes
    <3>2. Latest' = Latest + 1 /\ Through(Latest)' = Covered(d)
      BY <2>1, <2>3, <3>1, Replaces DEF TypeInv
    <3>3. TypeOK'
      BY <1>1, <1>2, <1>4, <1>14, <2>1, <2>3, <3>2 DEF TypeOK, Publish, Compact, Adopt
    <3>4. base'[d] = Latest' /\ after' = after /\ want' = want /\ late' = late
      BY <1>1, <1>14, <2>3 DEF TypeOK, Publish, Compact, Adopt
    <3>5. Through(base[d])' = Covered(d)
      BY <3>2, <3>4 DEF Through
    <3>6. late[d].kind = "state" => late[d].from \in 0..MaxStates /\ late[d].cover \in 0..MaxUpdates
      BY <1>1, RequestKinds DEF TypeOK
    <3> QED
      BY <3>1, <3>2, <3>3, <3>4, <3>5, <3>6, <1>2, <1>3, <1>4 DEF Bounded
  <2> QED
    BY <1>14, <2>2, <2>3 DEF Publish, Compact
<1>15. CASE RequestFails(d) \/ RelayRefuses(d) \/ Crash(d) \/ Interrupted(d)
  <2>1. Request(d) \in Requests
        /\ (Request(d).kind = "state" => Request(d).from <= Latest /\ Request(d).cover <= Last)
    BY RequestTyped
  <2>2. Stop(d) /\ relayVars' = relayVars
    BY <1>15 DEF RequestFails, RelayRefuses, Crash, Interrupted
  <2>3. /\ pc' = [pc EXCEPT ![d] = "idle"] /\ want' = [want EXCEPT ![d] = 0]
        /\ draft' = [draft EXCEPT ![d] = {}]
        /\ late' = late \/ late' = [late EXCEPT ![d] = Request(d)]
    BY <2>2 DEF Stop
  <2>4. late' \in [Device -> Requests]
    BY <2>1, <2>3, <1>1 DEF TypeOK
  <2>5. faults' \in 0..MaxFaults /\ local' = local
    BY <1>15, <1>1 DEF TypeOK, RequestFails, RelayRefuses, Crash, Interrupted, Fault
  <2>6. UNCHANGED engineVars \/ EmptyReplica(d)
    BY <1>15 DEF RequestFails, RelayRefuses, Crash, Interrupted
  <2>7. TypeOK'
    <3>1. /\ remote' \in [Device -> SUBSET Edit] /\ base' \in [Device -> 0..MaxStates]
          /\ after' \in [Device -> 0..MaxUpdates] /\ incomplete' \in [Device -> BOOLEAN]
          /\ downloaded' \in [Device -> BOOLEAN] /\ ack' \in [Device -> SUBSET Edit]
      <4>1. CASE UNCHANGED engineVars
        BY <4>1, <1>1 DEF TypeOK, engineVars
      <4>2. CASE EmptyReplica(d)
        BY <4>2, <1>1 DEF TypeOK, EmptyReplica
      <4> QED
        BY <2>6, <4>1, <4>2
    <3> QED
      BY <2>3, <2>4, <2>5, <3>1, <1>1 DEF TypeOK
  <2>8. Last' = Last /\ Latest' = Latest
    BY <2>2 DEF relayVars, Last, Latest
  <2>9. late'[d].kind = "state" => late'[d].from <= Latest' /\ late'[d].cover <= Last'
    BY <2>1, <2>3, <2>8, <1>1, <1>3 DEF TypeOK, Bounded
  <2>10. \/ base'[d] = base[d] /\ after'[d] = after[d]
         \/ base'[d] = 0 /\ after'[d] = 0
    BY <2>6, <1>1 DEF TypeOK, EmptyReplica, engineVars
  <2>11. Through(base[d])' = IF base'[d] = 0 THEN 0 ELSE Through(base[d])
    BY <2>2, <2>10 DEF Through, relayVars
  <2>12. want'[d] = 0
    BY <2>3, <1>1 DEF TypeOK
  <2> QED
    BY <2>7, <2>8, <2>9, <2>10, <2>11, <2>12, <1>2, <1>3 DEF Bounded, Through
<1>16. CASE LateRequest(d)
  <2>1. Nothing \in Requests /\ Nothing.kind # "state"
    BY DEF Nothing, Requests
  <2>2. late' = [late EXCEPT ![d] = Nothing] /\ UNCHANGED <<local, engineVars, pc, want, draft, faults>>
    BY <1>16 DEF LateRequest
  <2>3. TypeOK'
    BY <2>1, <2>2, <1>1 DEF TypeOK, engineVars
  <2>4. base' = base /\ after' = after /\ want' = want /\ late'[d] = Nothing
    BY <2>2, <1>1 DEF TypeOK, engineVars
  <2>5. Through(base[d])' = Through(base[d])
    BY <2>4, <1>2 DEF Grows, Through
  <2> QED
    BY <2>1, <2>3, <2>4, <2>5, <1>2, <1>3, <1>4 DEF Bounded
<1> QED
  BY <1>5, <1>6, <1>7, <1>8, <1>9, <1>10, <1>11, <1>12, <1>13, <1>14, <1>15, <1>16 DEF DeviceStep

LEMMA TypeStep ==
  ASSUME TypeInv, SyncStep
  PROVE  TypeInv' /\ Grows
<1>1. RelayInv' /\ Grows
  BY RelaySteps
<1>2. TypeOK
  BY DEF TypeInv
<1>3. ASSUME NEW d \in Device, DeviceStep(d) PROVE TypeInv'
  <2>1. TypeOK' /\ Bounded(d)'
    BY <1>1, <1>3, DeviceTypes
  <2>2. ASSUME NEW x \in Device \ {d} PROVE Bounded(x)'
    BY <1>1, <1>2, <1>3, OthersUntouched, BoundedKept DEF Untouched
  <2> QED
    BY <1>1, <2>1, <2>2 DEF TypeInv
<1>4. CASE (RelayCleanup /\ UNCHANGED deviceVars) \/ OnlyAFault
  <2>1. UNCHANGED <<local, engineVars, passVars>> /\ faults' \in 0..MaxFaults
    BY <1>2, <1>4 DEF OnlyAFault, deviceVars, TypeOK
  <2>2. RelayTypeOK'
    BY <1>1 DEF RelayInv
  <2>3. TypeOK'
    BY <1>2, <2>1, <2>2 DEF TypeOK, engineVars, passVars
  <2>4. \A x \in Device : Bounded(x)'
    BY <1>1, <2>1, BoundedKept DEF engineVars, passVars
  <2> QED
    BY <1>1, <2>3, <2>4 DEF TypeInv
<1> QED
  BY <1>1, <1>3, <1>4, StepSplit

LEMMA TypesInit == Init => TypeInv
<1> SUFFICES ASSUME Init PROVE TypeInv
  OBVIOUS
<1>1. Last = 0 /\ Latest = 0 /\ Through(0) = 0
  BY DEF Init, RelayInit, Last, Latest, Through
<1>2. RelayTypeOK
  BY DEF Init, RelayInit, RelayTypeOK, State
<1>3. RelayInv
  BY <1>1, <1>2 DEF RelayInv, TailIsStored, Newer
<1>4. Nothing \in Requests /\ Nothing.kind = "none"
  BY DEF Nothing, Requests
<1>5. TypeOK
  BY <1>2, <1>4 DEF Init, TypeOK
<1>6. ASSUME NEW d \in Device PROVE Bounded(d)
  BY <1>1, <1>4 DEF Init, Bounded
<1> QED
  BY <1>3, <1>5, <1>6 DEF TypeInv

LEMMA TypesAlways == Spec => []TypeInv
<1>1. TypeInv /\ [Next]_vars => TypeInv'
  <2> SUFFICES ASSUME TypeInv, [Next]_vars PROVE TypeInv'
    OBVIOUS
  <2>1. CASE Next
    BY <2>1, TypeStep DEF SyncStep
  <2>2. CASE UNCHANGED vars
    <3>1. OnlyAFault
      BY <2>2 DEF OnlyAFault, vars, deviceVars, TypeInv, TypeOK
    <3> QED
      BY <3>1, TypeStep DEF SyncStep
  <2> QED
    BY <2>1, <2>2
<1> QED
  BY <1>1, TypesInit, PTL DEF Spec

\* The variables of document-sync.ts and of the relay keep their types.
THEOREM SyncTypes == Spec => []TypeOK
<1>1. TypeInv => TypeOK
  BY DEF TypeInv
<1> QED
  BY <1>1, TypesAlways, PTL

\* Whatever retirement and cleanup take from the relay, its latest state and
\* every update after it are there (services/relay/src/storage), also when
\* devices cannot open what they get.
THEOREM TailAlwaysStored == Spec => []TailIsStored
<1>1. TypeInv => TailIsStored
  BY DEF TypeInv, RelayInv
<1> QED
  BY <1>1, TypesAlways, PTL

-----------------------------------------------------------------------------
(* What can be downloaded only grows, by edits that some device has. *)

LEMMA RelayHas ==
  ASSUME RelayInv, StateHoldsWhatItCovers
  PROVE  /\ \A s \in 1..Last : log[s] \subseteq RelayEdits
         /\ EditsOf(Latest) \subseteq RelayEdits
         /\ \A s \in 1..Through(Latest) : log[s] \subseteq EditsOf(Latest)
<1>1. Last \in Nat /\ Latest \in Nat /\ Through(Latest) \in Nat
  BY RelayTypes DEF RelayInv
<1>2. ASSUME NEW s \in 1..Through(Latest) PROVE log[s] \subseteq EditsOf(Latest)
  <2>1. Latest \in 1..Latest
    BY <1>1, <1>2 DEF Through
  <2> QED
    BY <1>2, <2>1 DEF StateHoldsWhatItCovers
<1>3. EditsOf(Latest) \subseteq RelayEdits
  BY DEF RelayEdits
<1>4. ASSUME NEW s \in 1..Last PROVE log[s] \subseteq RelayEdits
  <2>1. CASE s \in 1..Through(Latest)
    BY <2>1, <1>2, <1>3
  <2>2. CASE s \in Newer(Through(Latest))
    BY <2>2 DEF RelayEdits
  <2> QED
    BY <1>1, <2>1, <2>2 DEF Newer
<1> QED
  BY <1>2, <1>3, <1>4

LEMMA AppendShares ==
  ASSUME RelayInv, RelayHoldsAll, NEW edits \in SUBSET Edit, AppendUpdate(edits)
  PROVE  RelayHoldsAll' /\ RelayEdits' = RelayEdits \cup edits
<1>1. /\ Grows /\ Latest' = Latest /\ Last' = Last + 1 /\ log'[Last + 1] = edits
      /\ \A s \in 1..Last : log'[s] = log[s]
  BY Appends DEF Grows
<1>2. /\ Last \in Nat /\ Latest \in Nat /\ Through(Latest) \in Nat
      /\ \A id \in 0..Latest : Through(id) \in Nat /\ Through(id) <= Last
  BY RelayTypes DEF RelayInv
<1>3. \A id \in 0..Latest : EditsOf(id)' = EditsOf(id) /\ Through(id)' = Through(id)
  BY <1>1 DEF Grows
<1>4. EditsOf(Latest)' = EditsOf(Latest) /\ Through(Latest)' = Through(Latest)
  BY <1>1 DEF AppendUpdate, EditsOf, Through, Latest
<1>5. Newer(Through(Latest))' = Newer(Through(Latest)) \cup {Last + 1}
  BY <1>1, <1>2, <1>4 DEF Newer, RelayInv
<1>6. UNION {log'[s] : s \in Newer(Through(Latest))'} = (UNION {log[s] : s \in Newer(Through(Latest))}) \cup edits
  <2>1. \A s \in Newer(Through(Latest)) : log'[s] = log[s]
    BY <1>1 DEF Newer
  <2> DEFINE N == Newer(Through(Latest))
             L(s) == log[s]
             M(s) == log'[s]
  <2>2. UNION {M(s) : s \in N \cup {Last + 1}} = (UNION {M(s) : s \in N}) \cup M(Last + 1)
    OBVIOUS
  <2>3. {M(s) : s \in N} = {L(s) : s \in N}
    BY <2>1
  <2> QED
    BY <2>2, <2>3, <1>1, <1>5
<1>7. RelayEdits' = RelayEdits \cup edits
  <2>1. RelayEdits' = EditsOf(Latest)' \cup UNION {log'[s] : s \in Newer(Through(Latest))'}
    BY DEF RelayEdits
  <2>2. RelayEdits = EditsOf(Latest) \cup UNION {log[s] : s \in Newer(Through(Latest))}
    BY DEF RelayEdits
  <2> QED
    BY <2>1, <2>2, <1>4, <1>6
<1>8. StateHoldsWhatItCovers'
  <2> SUFFICES ASSUME NEW id \in 1..Latest', NEW s \in 1..Through(id)' PROVE log'[s] \subseteq EditsOf(id)'
    BY DEF StateHoldsWhatItCovers
  <2>1. id \in 1..Latest /\ id \in 0..Latest
    BY <1>1, <1>2
  <2>2. s \in 1..Through(id) /\ s \in 1..Last
    BY <2>1, <1>2, <1>3
  <2> QED
    BY <2>1, <2>2, <1>1, <1>3 DEF RelayHoldsAll, StateHoldsWhatItCovers
<1> QED
  BY <1>1, <1>3, <1>7, <1>8 DEF RelayHoldsAll

LEMMA ReplaceShares ==
  ASSUME RelayInv, RelayHoldsAll, NEW from, NEW edits \in SUBSET Edit, NEW cover \in Nat,
         ReplaceState(from, edits, cover),
         EditsOf(from) \subseteq edits, \A s \in 1..cover : log[s] \subseteq edits
  PROVE  RelayHoldsAll' /\ RelayEdits' = RelayEdits \cup edits
<1>1. /\ Grows /\ from = Latest /\ Latest' = Latest + 1 /\ log' = log
      /\ Through(Latest) <= cover /\ cover <= Last
      /\ EditsOf(Latest)' = edits /\ Through(Latest)' = cover
  BY Replaces
<1>2. /\ Last \in Nat /\ Latest \in Nat /\ Through(Latest) \in Nat
      /\ \A id \in 0..Latest : Through(id) \in Nat /\ Through(id) <= Last
  BY RelayTypes DEF RelayInv
<1>3. \A id \in 0..Latest : EditsOf(id)' = EditsOf(id) /\ Through(id)' = Through(id)
  BY <1>1 DEF Grows
<1>4. Newer(Through(Latest))' = {s \in 1..Last : s > cover}
  BY <1>1 DEF Newer, Last
<1>5. RelayEdits' = edits \cup UNION {log[s] : s \in {x \in 1..Last : x > cover}}
  BY <1>1, <1>4 DEF RelayEdits
<1>6. RelayEdits' \subseteq RelayEdits \cup edits
  <2>1. \A s \in 1..Last : log[s] \subseteq RelayEdits
    BY RelayHas DEF RelayHoldsAll
  <2> QED
    BY <2>1, <1>5
<1>7. RelayEdits \subseteq RelayEdits'
  <2>1. ASSUME NEW s \in Newer(Through(Latest)) PROVE log[s] \subseteq RelayEdits'
    <3>1. CASE s <= cover
      <4>1. s \in 1..cover
        BY <3>1, <1>2 DEF Newer
      <4> QED
        BY <4>1, <1>5
    <3>2. CASE s > cover
      BY <3>2, <1>5 DEF Newer
    <3> QED
      BY <3>1, <3>2, <1>2 DEF Newer
  <2>2. EditsOf(Latest) \subseteq RelayEdits'
    BY <1>1, <1>5
  <2> QED
    BY <2>1, <2>2 DEF RelayEdits
<1>8. StateHoldsWhatItCovers'
  <2> SUFFICES ASSUME NEW id \in 1..Latest', NEW s \in 1..Through(id)' PROVE log'[s] \subseteq EditsOf(id)'
    BY DEF StateHoldsWhatItCovers
  <2>1. CASE id \in 1..Latest
    BY <2>1, <1>1, <1>2, <1>3 DEF RelayHoldsAll, StateHoldsWhatItCovers
  <2>2. CASE id = Latest + 1
    <3>1. EditsOf(id)' = edits /\ Through(id)' = cover
      BY <2>2, <1>1 DEF EditsOf, Through
    <3> QED
      BY <3>1, <1>1
  <2> QED
    BY <2>1, <2>2, <1>1, <1>2
<1>9. ASSUME NEW id \in 0..Latest' PROVE EditsOf(id)' \subseteq RelayEdits'
  <2>1. CASE id \in 0..Latest
    BY <2>1, <1>3, <1>7 DEF RelayHoldsAll
  <2>2. CASE id = Latest + 1
    <3>1. EditsOf(id)' = edits
      BY <2>2, <1>1 DEF EditsOf
    <3> QED
      BY <3>1, <1>5
  <2> QED
    BY <2>1, <2>2, <1>1, <1>2
<1>10. edits \subseteq RelayEdits'
  BY <1>5
<1> QED
  BY <1>6, <1>7, <1>8, <1>9, <1>10 DEF RelayHoldsAll

LEMMA NothingShared ==
  ASSUME RelayInv, RelayHoldsAll, log' = log, states' = states
  PROVE  RelayHoldsAll' /\ RelayEdits' = RelayEdits
<1>1. Last' = Last /\ Latest' = Latest
  BY DEF Last, Latest
<1>2. \A id : EditsOf(id)' = EditsOf(id) /\ Through(id)' = Through(id)
  BY DEF EditsOf, Through
<1>3. EditsOf(Latest)' = EditsOf(Latest) /\ Through(Latest)' = Through(Latest)
  BY <1>1 DEF EditsOf, Through
<1>4. Newer(Through(Latest))' = Newer(Through(Latest))
  BY <1>1, <1>3 DEF Newer
<1>5. RelayEdits' = RelayEdits
  BY <1>3, <1>4 DEF RelayEdits
<1> QED
  BY <1>1, <1>2, <1>5 DEF RelayHoldsAll, StateHoldsWhatItCovers

\* What a device claims to cover is in its replica, also when it had to skip
\* an update.
LEMMA CoveredHeld ==
  ASSUME TypeInv, ContentInv, NEW d \in Device
  PROVE  \A s \in 1..Covered(d) : log[s] \subseteq remote[d]
<1>1. /\ base[d] \in 0..Latest /\ after[d] \in 0..Last /\ Last \in Nat /\ Latest \in Nat
      /\ Covered(d) \in 0..Last /\ Through(base[d]) \in Nat
  BY CoverTypes
<1>2. CASE ~incomplete[d]
  BY <1>2 DEF ContentInv, ReplicaHolds, Covered
<1>3. CASE incomplete[d]
  <2> SUFFICES ASSUME NEW s \in 1..Through(base[d]) PROVE log[s] \subseteq remote[d]
    BY <1>3 DEF Covered
  <2>1. base[d] \in 1..Latest
    BY <1>1 DEF Through
  <2>2. log[s] \subseteq EditsOf(base[d])
    BY <2>1 DEF ContentInv, RelayHoldsAll, StateHoldsWhatItCovers
  <2> QED
    BY <2>2 DEF ContentInv, ReplicaHolds
<1> QED
  BY <1>2, <1>3

\* What a step adds to the relay, some device has.
LEMMA RelayShares ==
  ASSUME TypeInv, ContentInv, SyncStep
  PROVE  /\ RelayHoldsAll' /\ RelayEdits \subseteq RelayEdits'
         /\ \E edits \in SUBSET Shared!Everywhere : RelayEdits' = RelayEdits \cup edits
<1>1. RelayInv /\ RelayHoldsAll
  BY DEF TypeInv, ContentInv
<1>2. \A d \in Device : local[d] \subseteq Shared!Everywhere
  BY DEF Shared!Everywhere
<1>3. CASE log' = log /\ states' = states
  <2>1. {} \in SUBSET Shared!Everywhere /\ RelayEdits \cup {} = RelayEdits
    OBVIOUS
  <2> QED
    BY <1>1, <1>3, <2>1, NothingShared
<1>4. ASSUME NEW d \in Device, NEW edits \in SUBSET Edit, edits \subseteq local[d], AppendUpdate(edits)
      PROVE  RelayHoldsAll' /\ \E x \in SUBSET Shared!Everywhere : RelayEdits' = RelayEdits \cup x
  <2>1. edits \in SUBSET Shared!Everywhere
    BY <1>2, <1>4
  <2> QED
    BY <1>1, <1>4, <2>1, AppendShares
<1>5. ASSUME NEW d \in Device, NEW from, NEW edits \in SUBSET Edit, NEW cover \in Nat,
             edits \subseteq local[d], ReplaceState(from, edits, cover),
             EditsOf(from) \subseteq edits, \A s \in 1..cover : log[s] \subseteq edits
      PROVE  RelayHoldsAll' /\ \E x \in SUBSET Shared!Everywhere : RelayEdits' = RelayEdits \cup x
  <2>1. edits \in SUBSET Shared!Everywhere
    BY <1>2, <1>5
  <2> QED
    BY <1>1, <1>5, <2>1, ReplaceShares
<1>6. CASE \E d \in Device : SendUpdate(d)
  <2>1. PICK d \in Device : SendUpdate(d)
    BY <1>6
  <2>2. Missing(d) \in SUBSET Edit /\ Missing(d) \subseteq local[d]
    BY <2>1 DEF TypeInv, TypeOK, Missing, SendUpdate, ContentInv, PassHolds
  <2> QED
    BY <2>1, <2>2, <1>4 DEF SendUpdate
<1>7. CASE \E d \in Device : Publish(d) \/ Compact(d)
  <2>1. PICK d \in Device : Publish(d) \/ Compact(d)
    BY <1>7
  <2>2. draft[d] \in SUBSET Edit /\ remote[d] \in SUBSET Edit /\ Covered(d) \in Nat
    <3>1. Covered(d) \in 0..Last
      BY CoverTypes
    <3> QED
      BY <3>1 DEF TypeInv, TypeOK
  <2>3. EditsOf(base[d]) \subseteq remote[d] /\ \A s \in 1..Covered(d) : log[s] \subseteq remote[d]
    BY CoveredHeld DEF ContentInv, ReplicaHolds
  <2>4. CASE pc[d] = "publish" /\ ReplaceState(base[d], draft[d], Covered(d))
    <3>1. remote[d] \subseteq draft[d] /\ draft[d] \subseteq local[d]
      BY <2>4 DEF ContentInv, PassHolds
    <3>2. EditsOf(base[d]) \subseteq draft[d] /\ \A s \in 1..Covered(d) : log[s] \subseteq draft[d]
      BY <3>1, <2>3
    <3> QED
      BY <2>2, <2>4, <3>1, <3>2, <1>5
  <2>5. CASE pc[d] = "compact" /\ ReplaceState(base[d], remote[d], Covered(d))
    <3>1. remote[d] \subseteq local[d]
      BY <2>5 DEF ContentInv, PassHolds
    <3> QED
      BY <2>2, <2>3, <2>5, <3>1, <1>5
  <2> QED
    BY <1>3, <2>1, <2>4, <2>5 DEF Publish, Compact, relayVars
<1>8. CASE \E d \in Device : LateRequest(d)
  <2>1. PICK d \in Device : LateRequest(d)
    BY <1>8
  <2> DEFINE r == late[d]
  <2>2. r \in Requests
    BY DEF TypeInv, TypeOK
  <2>3. LateHolds(d)
    BY DEF ContentInv
  <2>4. CASE r.kind = "update" /\ AppendUpdate(r.edits)
    <3>1. r.edits \in SUBSET Edit /\ r.edits \subseteq local[d]
      BY <2>2, <2>3, <2>4, RequestKinds DEF LateHolds
    <3> QED
      BY <2>4, <3>1, <1>4
  <2>5. CASE r.kind = "state" /\ ReplaceState(r.from, r.edits, r.cover)
    <3>1. r.edits \in SUBSET Edit /\ r.cover \in Nat
      BY <2>2, <2>5, RequestKinds
    <3>2. /\ r.edits \subseteq local[d] /\ EditsOf(r.from) \subseteq r.edits
          /\ \A s \in 1..r.cover : log[s] \subseteq r.edits
      BY <2>3, <2>5 DEF LateHolds
    <3> QED
      BY <2>5, <3>1, <3>2, <1>5
  <2> QED
    BY <1>3, <2>1, <2>4, <2>5 DEF LateRequest, relayVars
<1>9. CASE RelayCleanup
  BY <1>1, <1>3, <1>9, Cleans
<1>10. UNCHANGED relayVars \/ (\E d \in Device : SendUpdate(d) \/ Publish(d) \/ Compact(d) \/ LateRequest(d))
       \/ RelayCleanup
  BY DEF SyncStep, Interrupted, OnlyAFault, Next, RequestStep, LocalStep,
    MakeEdit, StartPass, ReopenAndStart, ReadNewState, LoadState, ReadPage, SavePage, MergeLocal,
    TooLarge, SkipCompaction, FinishPass, RequestFails, RelayRefuses, Crash
<1>11. CASE UNCHANGED relayVars
  BY <1>11, <1>3 DEF relayVars
<1>12. RelayHoldsAll' /\ \E edits \in SUBSET Shared!Everywhere : RelayEdits' = RelayEdits \cup edits
  BY <1>6, <1>7, <1>8, <1>9, <1>10, <1>11
<1>13. \A edits : RelayEdits \subseteq RelayEdits \cup edits
  OBVIOUS
<1> QED
  BY <1>12, <1>13

-----------------------------------------------------------------------------
(* Every step keeps the contents. *)

LEMMA ReplicaKept ==
  ASSUME TypeInv, ContentInv, Grows, RelayEdits \subseteq RelayEdits', NEW d \in Device,
         remote'[d] = remote[d], base'[d] = base[d], after'[d] = after[d],
         incomplete'[d] = incomplete[d], ack'[d] = ack[d]
  PROVE  ReplicaHolds(d)'
<1>1. base[d] \in 0..Latest /\ after[d] \in 0..Last /\ Last \in Nat
  BY CoverTypes
<1>2. EditsOf(base[d])' = EditsOf(base[d])
  BY <1>1 DEF Grows, EditsOf
<1>3. ReplicaHolds(d)
  BY DEF ContentInv
<1>4. \A s \in 1..after[d] : log'[s] = log[s]
  BY <1>1 DEF Grows
<1> QED
  BY <1>2, <1>3, <1>4 DEF ReplicaHolds

LEMMA LateKept ==
  ASSUME TypeInv, ContentInv, Grows, NEW d \in Device, late'[d] = late[d], local[d] \subseteq local'[d]
  PROVE  LateHolds(d)'
<1>1. LateHolds(d) /\ Bounded(d) /\ late[d] \in Requests
  BY DEF ContentInv, TypeInv, TypeOK
<1>2. ASSUME late[d].kind = "state"
      PROVE  /\ EditsOf(late[d].from)' = EditsOf(late[d].from)
             /\ \A s \in 1..late[d].cover : log'[s] = log[s]
  <2>1. late[d].from \in Nat /\ late[d].cover \in Nat
    BY <1>1, <1>2, RequestKinds
  <2>2. late[d].from \in 0..Latest /\ late[d].cover \in 0..Last /\ Last \in Nat
    <3>1. Last \in Nat /\ Latest \in Nat
      BY RelayTypes DEF TypeInv, RelayInv
    <3> QED
      BY <1>1, <1>2, <2>1, <3>1 DEF Bounded
  <2> QED
    BY <2>2 DEF Grows, EditsOf
<1>3. late'[d].kind = "state" =>
        /\ EditsOf(late[d].from)' \subseteq late'[d].edits
        /\ \A s \in 1..late'[d].cover : log'[s] \subseteq late'[d].edits
  BY <1>1, <1>2 DEF LateHolds
<1>4. late'[d].kind # "none" => late'[d].edits \subseteq local'[d]
  BY <1>1 DEF LateHolds
<1> QED
  BY <1>3, <1>4 DEF LateHolds

\* A request is good when it is made.
LEMMA RequestHolds ==
  ASSUME TypeInv, ContentInv, NEW d \in Device
  PROVE  /\ Request(d).kind # "none" => Request(d).edits \subseteq local[d]
         /\ Request(d).kind = "state" =>
              /\ EditsOf(Request(d).from) \subseteq Request(d).edits
              /\ \A s \in 1..Request(d).cover : log[s] \subseteq Request(d).edits
<1>1. EditsOf(base[d]) \subseteq remote[d] /\ \A s \in 1..Covered(d) : log[s] \subseteq remote[d]
  BY CoveredHeld DEF ContentInv, ReplicaHolds
<1>2. PassHolds(d)
  BY DEF ContentInv
<1>3. CASE pc[d] = "send"
  BY <1>2, <1>3 DEF Request, Missing, PassHolds
<1>4. CASE pc[d] = "publish"
  BY <1>1, <1>2, <1>4 DEF Request, PassHolds
<1>5. CASE pc[d] = "compact" /\ MayCompact(d)
  BY <1>1, <1>2, <1>5 DEF Request, PassHolds
<1>6. CASE pc[d] # "send" /\ pc[d] # "publish" /\ ~(pc[d] = "compact" /\ MayCompact(d))
  BY <1>6 DEF Request, Nothing
<1> QED
  BY <1>3, <1>4, <1>5, <1>6

\* A replica without gaps that was read to the end of the log, from the latest
\* state, holds all that can be downloaded.
LEMMA ReadToTheEnd ==
  ASSUME TypeInv, NEW d \in Device, Latest \in {0, base[d]}, NEW edits,
         EditsOf(base[d]) \subseteq edits, \A s \in 1..Last : log[s] \subseteq edits
  PROVE  RelayEdits \subseteq edits
<1>1. EditsOf(Latest) \subseteq edits
  BY DEF EditsOf
<1>2. \A s \in Newer(Through(Latest)) : log[s] \subseteq edits
  BY DEF Newer
<1> QED
  BY <1>1, <1>2 DEF RelayEdits

DeviceHolds(d) == ReplicaHolds(d) /\ PassHolds(d) /\ LateHolds(d) /\ AckHolds(d)

LEMMA PageContent ==
  ASSUME TypeInv, ContentInv, Grows, RelayEdits \subseteq RelayEdits', NEW d \in Device, ReadPage(d)
  PROVE  DeviceHolds(d)'
<1>1. TypeOK /\ DeviceHolds(d)
  BY DEF TypeInv, ContentInv, DeviceHolds
<1>2. /\ Last \in Nat /\ Latest \in Nat /\ base[d] \in 0..Latest /\ after[d] \in 0..Last
  BY CoverTypes
<1>3. /\ pc[d] = "read" /\ Latest \in {0, base[d]}
      /\ UNCHANGED <<relayVars, local, base, ack, want, draft, late>>
  BY DEF ReadPage
<1>4. PICK n \in after[d]..Last :
        LET page == (after[d] + 1)..n IN
        /\ n = after[d] => n = Last
        /\ \E bad \in SUBSET page :
             /\ remote' = [remote EXCEPT ![d] = remote[d] \cup UNION {log[s] : s \in page \ bad}]
             /\ incomplete' = [incomplete EXCEPT ![d] = @ \/ bad # {}]
        /\ downloaded' = [downloaded EXCEPT ![d] = StillDownloaded(d, page)]
        /\ after' = [after EXCEPT ![d] = n]
        /\ pc' = [pc EXCEPT ![d] = IF n < Last THEN "page"
                   ELSE IF downloaded'[d] /\ ~Pending(d) THEN "idle" ELSE "merge"]
  BY DEF ReadPage, Downloads, Goto
<1> DEFINE page == (after[d] + 1)..n
<1>5. PICK bad \in SUBSET page :
        /\ remote' = [remote EXCEPT ![d] = remote[d] \cup UNION {log[s] : s \in page \ bad}]
        /\ incomplete' = [incomplete EXCEPT ![d] = @ \/ bad # {}]
  BY <1>4
<1>6. /\ remote'[d] = remote[d] \cup UNION {log[s] : s \in page \ bad}
      /\ incomplete'[d] = (incomplete[d] \/ bad # {})
      /\ downloaded'[d] = StillDownloaded(d, page) /\ after'[d] = n
  BY <1>1, <1>4, <1>5 DEF TypeOK
<1>7. /\ pc'[d] \in {"page", "idle", "merge"}
      /\ pc'[d] \in {"idle", "merge"} => n = Last
  BY <1>1, <1>2, <1>4 DEF TypeOK
<1>8. \A s \in 1..Last : log[s] \subseteq RelayEdits
  BY RelayHas DEF TypeInv, ContentInv, RelayHoldsAll
<1>9. ReplicaHolds(d)'
  <2>1. EditsOf(base[d])' = EditsOf(base[d]) /\ RelayEdits' = RelayEdits
    BY <1>3 DEF EditsOf, relayVars, RelayEdits, Newer, Through, Last, Latest
  <2>2. \A s \in page \ bad : log[s] \subseteq RelayEdits
    BY <1>2, <1>8
  <2>3. remote'[d] \subseteq RelayEdits
    BY <1>1, <1>6, <2>2 DEF DeviceHolds, ReplicaHolds
  <2>4. ASSUME ~incomplete'[d], NEW s \in 1..n PROVE log[s] \subseteq remote'[d]
    <3>1. CASE s \in 1..after[d]
      BY <3>1, <2>4, <1>1, <1>6 DEF DeviceHolds, ReplicaHolds
    <3>2. CASE s \in page
      BY <3>2, <2>4, <1>6
    <3> QED
      BY <3>1, <3>2, <1>2
  <2>5. EditsOf(base[d]) \subseteq remote'[d] /\ ack[d] \subseteq RelayEdits
    BY <1>1, <1>6 DEF DeviceHolds, ReplicaHolds
  <2> QED
    BY <1>3, <1>6, <2>1, <2>3, <2>4, <2>5 DEF ReplicaHolds, relayVars
<1>10. PassHolds(d)'
  BY <1>7 DEF PassHolds
<1>11. LateHolds(d)'
  BY <1>3, LateKept
<1>12. AckHolds(d)'
  <2>1. ASSUME downloaded'[d]
        PROVE  /\ ~incomplete'[d] /\ ack'[d] \subseteq remote'[d] /\ remote'[d] \subseteq local'[d]
    <3>1. downloaded[d] /\ page = {}
      BY <2>1, <1>6 DEF StillDownloaded
    <3>2. remote'[d] = remote[d] /\ incomplete'[d] = incomplete[d]
      <4>1. bad = {} /\ page \ bad = {}
        BY <3>1
      <4>2. UNION {log[s] : s \in {}} = {}
        OBVIOUS
      <4> QED
        BY <4>1, <4>2, <1>6, <1>1 DEF TypeOK
    <3> QED
      BY <3>1, <3>2, <1>1, <1>3 DEF DeviceHolds, AckHolds
  <2>2. ASSUME pc'[d] = "merge", ~incomplete'[d] PROVE ack'[d] \subseteq remote'[d]
    <3>1. n = Last
      BY <2>2, <1>7
    <3>2. EditsOf(base[d]) \subseteq remote'[d] /\ \A s \in 1..Last : log[s] \subseteq remote'[d]
      <4>1. EditsOf(base[d])' = EditsOf(base[d])
        BY <1>3 DEF EditsOf, relayVars
      <4> QED
        BY <1>3, <1>6, <1>9, <2>2, <3>1, <4>1 DEF ReplicaHolds, relayVars
    <3>3. RelayEdits \subseteq remote'[d]
      BY <1>3, <3>2, ReadToTheEnd
    <3> QED
      BY <1>1, <1>3, <3>3 DEF DeviceHolds, ReplicaHolds
  <2> QED
    BY <1>7, <2>1, <2>2 DEF AckHolds
<1> QED
  BY <1>9, <1>10, <1>11, <1>12 DEF DeviceHolds

LEMMA DeviceContent ==
  ASSUME TypeInv, ContentInv, Grows, RelayEdits \subseteq RelayEdits', RelayHoldsAll', RelayInv',
         "state" \notin FaultKinds, NEW d \in Device, DeviceStep(d)
  PROVE  DeviceHolds(d)'
<1> USE DEF Goto, Downloads, NotDownloaded
<1>1. TypeOK /\ DeviceHolds(d)
  BY DEF TypeInv, ContentInv, DeviceHolds
<1>2. /\ Last \in Nat /\ Latest \in Nat /\ base[d] \in 0..Latest /\ want[d] \in 0..Latest /\ after[d] \in 0..Last
      /\ Covered(d) \in 0..Last
  BY CoverTypes
<1>3. CASE MakeEdit(d) \/ StartPass(d) \/ ReadNewState(d) \/ TooLarge(d) \/ SavePage(d) \/ SkipCompaction(d)
  <2> USE DEF MakeEdit, StartPass, ReadNewState, TooLarge, SavePage, SkipCompaction
  <2>1. UNCHANGED <<engineVars, draft, late>> /\ local[d] \subseteq local'[d]
    BY <1>1, <1>3 DEF TypeOK, passVars
  <2>2. \/ pc'[d] = pc[d]
        \/ pc[d] = "send" /\ pc'[d] = "publish"
        \/ pc[d] = "compact" /\ pc'[d] = "finish"
        \/ pc'[d] \in {"read", "load"}
    BY <1>1, <1>3 DEF TypeOK, passVars
  <2>3. ReplicaHolds(d)'
    BY <2>1, ReplicaKept DEF engineVars
  <2>4. PassHolds(d)'
    BY <2>1, <2>2, <1>1 DEF DeviceHolds, PassHolds, engineVars
  <2>5. LateHolds(d)'
    BY <2>1, LateKept
  <2>6. AckHolds(d)'
    BY <2>1, <2>2, <1>1 DEF DeviceHolds, AckHolds, engineVars
  <2> QED
    BY <2>3, <2>4, <2>5, <2>6 DEF DeviceHolds
<1>4. ASSUME EmptyReplica(d) PROVE ReplicaHolds(d)'
  <2>1. /\ remote'[d] = {} /\ base'[d] = 0 /\ after'[d] = 0 /\ ack'[d] = {}
    BY <1>1, <1>4 DEF TypeOK, EmptyReplica
  <2>2. EditsOf(base[d])' = {}
    BY <2>1 DEF EditsOf
  <2> QED
    BY <2>1, <2>2 DEF ReplicaHolds
<1>5. CASE ReopenAndStart(d)
  <2>1. pc'[d] = "read" /\ downloaded'[d] = FALSE /\ UNCHANGED <<local, late>> /\ EmptyReplica(d)
    BY <1>1, <1>5 DEF TypeOK, ReopenAndStart, EmptyReplica
  <2> QED
    BY <2>1, <1>4, LateKept DEF DeviceHolds, PassHolds, AckHolds
<1>6. CASE LoadState(d)
  <2>1. /\ remote'[d] = EditsOf(want[d]) /\ base'[d] = want[d] /\ after'[d] = Through(want[d])
        /\ pc'[d] = "read" /\ downloaded'[d] = FALSE
        /\ UNCHANGED <<relayVars, local, ack, draft, late>>
    BY <1>1, <1>6 DEF TypeOK, LoadState, Fault
  <2>2. EditsOf(base[d])' = EditsOf(want[d]) /\ RelayEdits' = RelayEdits
    BY <2>1 DEF EditsOf, relayVars, RelayEdits, Newer, Through, Last, Latest
  <2>3. \A s \in 1..Through(want[d]) : log[s] \subseteq EditsOf(want[d])
    <3>1. CASE want[d] = 0
      BY <3>1 DEF Through
    <3>2. CASE want[d] \in 1..Latest
      BY <3>2 DEF ContentInv, RelayHoldsAll, StateHoldsWhatItCovers
    <3> QED
      BY <3>1, <3>2, <1>2
  <2>4. EditsOf(want[d]) \subseteq RelayEdits
    BY <1>2 DEF ContentInv, RelayHoldsAll
  <2>5. ReplicaHolds(d)'
    BY <2>1, <2>2, <2>3, <2>4, <1>1 DEF DeviceHolds, ReplicaHolds, relayVars
  <2> QED
    BY <2>1, <2>5, LateKept DEF DeviceHolds, PassHolds, AckHolds
<1>7. CASE ReadPage(d)
  BY <1>7, PageContent
<1>8. CASE MergeLocal(d)
  <2>1. /\ local'[d] = local[d] \cup remote[d] /\ downloaded'[d] = FALSE
        /\ UNCHANGED <<remote, base, after, incomplete, ack, late>> /\ pc[d] = "merge"
        /\ pc'[d] = "compact" \/ (pc'[d] = "send" /\ draft'[d] = local[d] \cup remote[d])
    BY <1>1, <1>8 DEF TypeOK, MergeLocal
  <2>2. ReplicaHolds(d)'
    BY <2>1, ReplicaKept
  <2>3. PassHolds(d)'
    BY <2>1 DEF PassHolds
  <2>4. LateHolds(d)'
    BY <2>1, LateKept
  <2>5. AckHolds(d)'
    BY <2>1, <1>1 DEF DeviceHolds, AckHolds
  <2> QED
    BY <2>2, <2>3, <2>4, <2>5 DEF DeviceHolds
<1>9. CASE SendUpdate(d)
  <2>1. UNCHANGED <<local, engineVars, late>> /\ pc'[d] = "read" /\ pc[d] = "send"
    BY <1>1, <1>9 DEF TypeOK, SendUpdate
  <2>2. ReplicaHolds(d)'
    BY <2>1, ReplicaKept DEF engineVars
  <2>3. LateHolds(d)'
    BY <2>1, LateKept
  <2>4. AckHolds(d)'
    BY <2>1, <1>1 DEF DeviceHolds, AckHolds, engineVars
  <2> QED
    BY <2>1, <2>2, <2>3, <2>4 DEF DeviceHolds, PassHolds
<1>10. ASSUME NEW edits \in SUBSET Edit, ReplaceState(base[d], edits, Covered(d)), Adopt(d, edits),
              remote[d] \subseteq edits
       PROVE  ReplicaHolds(d)'
  <2>1. Covered(d) \in Nat
    BY <1>2
  <2>2. Latest' = Latest + 1 /\ EditsOf(Latest)' = edits /\ log' = log
    BY <2>1, <1>10, Replaces DEF TypeInv
  <2>3. remote'[d] = edits /\ base'[d] = Latest' /\ UNCHANGED <<after, incomplete, ack>>
    BY <1>1, <1>10 DEF TypeOK, Adopt
  <2>4. EditsOf(base[d])' = edits
    BY <2>2, <2>3 DEF EditsOf
  <2>5. edits \subseteq RelayEdits'
    <3>1. Latest' \in 0..Latest'
      BY <2>2, <1>2
    <3> QED
      BY <3>1, <2>2 DEF RelayHoldsAll, EditsOf
  <2> QED
    BY <2>2, <2>3, <2>4, <2>5, <1>1, <1>10 DEF DeviceHolds, ReplicaHolds
<1>11. CASE Publish(d)
  <2>1. /\ pc[d] = "publish" /\ pc'[d] = "read" /\ UNCHANGED <<local, late, downloaded>>
        /\ draft[d] \in SUBSET Edit
    BY <1>1, <1>11 DEF TypeOK, Publish, Adopt, engineVars
  <2>2. remote[d] \subseteq draft[d]
    BY <2>1, <1>1 DEF DeviceHolds, PassHolds
  <2>3. ReplicaHolds(d)'
    BY <2>1, <2>2, <1>10, <1>11, ReplicaKept DEF Publish, engineVars
  <2>4. LateHolds(d)'
    BY <2>1, LateKept
  <2>5. AckHolds(d)'
    BY <2>1, <1>1 DEF DeviceHolds, AckHolds
  <2> QED
    BY <2>1, <2>3, <2>4, <2>5 DEF DeviceHolds, PassHolds
<1>12. CASE Compact(d)
  <2>1. /\ pc[d] = "compact" /\ pc'[d] \in {"read", "finish"} /\ UNCHANGED <<local, late, downloaded>>
        /\ remote[d] \in SUBSET Edit /\ remote'[d] = remote[d] /\ UNCHANGED <<incomplete, ack>>
    BY <1>1, <1>12 DEF TypeOK, Compact, Adopt, engineVars
  <2>2. ReplicaHolds(d)'
    BY <2>1, <1>10, <1>12, ReplicaKept DEF Compact, engineVars
  <2>3. LateHolds(d)'
    BY <2>1, LateKept
  <2>4. PassHolds(d)' /\ AckHolds(d)'
    BY <2>1, <1>1 DEF DeviceHolds, PassHolds, AckHolds
  <2> QED
    BY <2>2, <2>3, <2>4 DEF DeviceHolds
<1>13. CASE FinishPass(d)
  <2>1. /\ pc[d] = "finish" /\ pc'[d] = "idle" /\ downloaded'[d] = ~incomplete[d]
        /\ ack'[d] = Acknowledged(d)
        /\ UNCHANGED <<relayVars, local, remote, base, after, incomplete, late>>
    BY <1>1, <1>13 DEF TypeOK, FinishPass
  <2>2. EditsOf(base[d])' = EditsOf(base[d]) /\ RelayEdits' = RelayEdits
    BY <2>1 DEF EditsOf, relayVars, RelayEdits, Newer, Through, Last, Latest
  <2>3. ReplicaHolds(d)'
    BY <2>1, <2>2, <1>1 DEF DeviceHolds, ReplicaHolds, Acknowledged, relayVars
  <2>4. LateHolds(d)'
    BY <2>1, LateKept
  <2>5. AckHolds(d)'
    BY <2>1, <1>1 DEF DeviceHolds, AckHolds, PassHolds, Acknowledged
  <2> QED
    BY <2>1, <2>3, <2>4, <2>5 DEF DeviceHolds, PassHolds
<1>14. CASE RequestFails(d) \/ RelayRefuses(d) \/ Crash(d) \/ Interrupted(d)
  <2>1. Stop(d) /\ UNCHANGED <<relayVars, local>> /\ (UNCHANGED engineVars \/ EmptyReplica(d))
    BY <1>14 DEF RequestFails, RelayRefuses, Crash, Interrupted
  <2>2. pc'[d] = "idle" /\ (late' = late \/ late'[d] = Request(d))
    BY <1>1, <2>1 DEF TypeOK, Stop
  <2>3. LateHolds(d)'
    <3>1. CASE late' = late
      BY <2>1, <3>1, LateKept
    <3>2. CASE late'[d] = Request(d)
      <4>1. states' = states /\ log' = log
        BY <2>1 DEF relayVars
      <4> QED
        BY <2>1, <3>2, <4>1, RequestHolds DEF LateHolds, relayVars, EditsOf
    <3> QED
      BY <2>2, <3>1, <3>2
  <2>4. CASE UNCHANGED engineVars
    BY <2>2, <2>3, <2>4, <2>1, <1>1, ReplicaKept DEF DeviceHolds, PassHolds, AckHolds, engineVars
  <2>5. CASE EmptyReplica(d)
    <3>1. downloaded'[d] = FALSE
      BY <2>5, <1>1 DEF TypeOK, EmptyReplica
    <3> QED
      BY <2>2, <2>3, <2>5, <3>1, <1>4 DEF DeviceHolds, PassHolds, AckHolds
  <2> QED
    BY <2>1, <2>4, <2>5
<1>15. CASE LateRequest(d)
  <2>1. late'[d].kind = "none" /\ UNCHANGED <<local, engineVars, pc, want, draft>>
    BY <1>1, <1>15 DEF TypeOK, LateRequest, Nothing
  <2>2. ReplicaHolds(d)'
    BY <2>1, ReplicaKept DEF engineVars
  <2> QED
    BY <2>1, <2>2, <1>1 DEF DeviceHolds, PassHolds, LateHolds, AckHolds, engineVars
<1> QED
  BY <1>3, <1>5, <1>6, <1>7, <1>8, <1>9, <1>11, <1>12, <1>13, <1>14, <1>15 DEF DeviceStep

LEMMA ContentStep ==
  ASSUME TypeInv, ContentInv, SyncStep, "state" \notin FaultKinds
  PROVE  ContentInv'
<1>1. RelayInv' /\ Grows /\ RelayHoldsAll' /\ RelayEdits \subseteq RelayEdits'
  BY RelaySteps, RelayShares
<1>2. TypeOK
  BY DEF TypeInv
<1>3. ASSUME NEW x \in Device, Untouched(x) PROVE DeviceHolds(x)'
  <2>1. ReplicaHolds(x)' /\ LateHolds(x)'
    BY <1>1, <1>3, ReplicaKept, LateKept DEF Untouched
  <2>2. PassHolds(x)' /\ AckHolds(x)'
    BY <1>3 DEF Untouched, ContentInv, PassHolds, AckHolds
  <2> QED
    BY <2>1, <2>2 DEF DeviceHolds
<1>4. ASSUME NEW d \in Device, DeviceStep(d) PROVE ContentInv'
  <2>1. DeviceHolds(d)'
    BY <1>1, <1>4, DeviceContent
  <2>2. ASSUME NEW x \in Device \ {d} PROVE DeviceHolds(x)'
    BY <1>2, <1>3, <1>4, OthersUntouched
  <2> QED
    BY <1>1, <2>1, <2>2 DEF ContentInv, DeviceHolds
<1>5. CASE (RelayCleanup /\ UNCHANGED deviceVars) \/ OnlyAFault
  <2>1. \A x \in Device : Untouched(x)
    BY <1>5 DEF OnlyAFault, deviceVars, engineVars, passVars, Untouched
  <2> QED
    BY <2>1, <1>1, <1>3 DEF ContentInv, DeviceHolds
<1> QED
  BY <1>4, <1>5, StepSplit

LEMMA ContentInit == Init => ContentInv
<1> SUFFICES ASSUME Init PROVE ContentInv
  OBVIOUS
<1>1. Last = 0 /\ Latest = 0 /\ EditsOf(0) = {}
  BY DEF Init, RelayInit, Last, Latest, EditsOf
<1>2. RelayHoldsAll
  BY <1>1 DEF RelayHoldsAll, StateHoldsWhatItCovers
<1>3. \A d \in Device : ReplicaHolds(d) /\ PassHolds(d) /\ LateHolds(d) /\ AckHolds(d)
  BY <1>1 DEF Init, Nothing, ReplicaHolds, PassHolds, LateHolds, AckHolds
<1> QED
  BY <1>2, <1>3 DEF ContentInv

LEMMA ContentAlways ==
  ASSUME "state" \notin FaultKinds
  PROVE  Spec => [](TypeInv /\ ContentInv)
<1>1. TypeInv /\ ContentInv /\ [Next]_vars => ContentInv'
  <2> SUFFICES ASSUME TypeInv, ContentInv, [Next]_vars PROVE ContentInv'
    OBVIOUS
  <2>1. CASE Next
    BY <2>1, ContentStep DEF SyncStep
  <2>2. CASE UNCHANGED vars
    <3>1. OnlyAFault
      BY <2>2 DEF OnlyAFault, vars, deviceVars, TypeInv, TypeOK
    <3> QED
      BY <3>1, ContentStep DEF SyncStep
  <2> QED
    BY <2>1, <2>2
<1> QED
  BY <1>1, ContentInit, TypesAlways, PTL DEF Spec

-----------------------------------------------------------------------------
(* What follows for a document whose states its devices can open *)

\* Compaction loses nothing (document-sync.ts, replace and compact): every
\* accepted state holds the edits of the updates it covers.
THEOREM StatesHold ==
  ASSUME "state" \notin FaultKinds
  PROVE  Spec => []StateHoldsWhatItCovers
<1>1. ContentInv => StateHoldsWhatItCovers
  BY DEF ContentInv, RelayHoldsAll
<1> QED
  BY <1>1, ContentAlways, PTL

\* What a device ever reported as synced can be downloaded by anyone
\* (document-sync.ts, status and acknowledge).
THEOREM SyncedStaysOnRelay ==
  ASSUME "state" \notin FaultKinds
  PROVE  Spec => []SyncedIsOnRelay
<1>1. ContentInv => SyncedIsOnRelay
  BY DEF ContentInv, ReplicaHolds, SyncedIsOnRelay
<1> QED
  BY <1>1, ContentAlways, PTL

\* A device that reports a complete download with nothing pending has the
\* document it downloaded (document-sync.ts, status).
THEOREM SyncedIsSame ==
  ASSUME "state" \notin FaultKinds
  PROVE  Spec => []SyncedMeansSame
<1>1. ContentInv => SyncedMeansSame
  BY DEF ContentInv, AckHolds, SyncedMeansSame, Synced, Pending
<1> QED
  BY <1>1, ContentAlways, PTL

-----------------------------------------------------------------------------
(* The refinement *)

\* Every step is a step of the shared document, or none.
LEMMA SharedStep ==
  ASSUME TypeInv, ContentInv, SyncStep
  PROVE  [Shared!DocNext]_(Shared!docVars)
<1>1. TypeOK /\ RelayInv
  BY DEF TypeInv
<1>2. CASE local' = local /\ ack' = ack
  <2>1. \E edits \in SUBSET Shared!Everywhere : RelayEdits' = RelayEdits \cup edits
    BY RelayShares
  <2> QED
    BY <1>2, <2>1 DEF Shared!DocNext, Shared!Share
<1>3. ASSUME UNCHANGED relayVars PROVE RelayEdits' = RelayEdits
  BY <1>1, <1>3, Rests
<1>4. ASSUME NEW d \in Device, MakeEdit(d) PROVE Shared!NewEdit(d)
  <2>1. RelayEdits' = RelayEdits /\ ack' = ack
    BY <1>3, <1>4 DEF MakeEdit, engineVars
  <2>2. PICK e \in Edit : /\ \A other \in Device : e \notin local[other]
                          /\ local' = [local EXCEPT ![d] = @ \cup {e}]
    BY <1>4 DEF MakeEdit
  <2>3. e \in Edit \ Shared!Everywhere
    BY <2>2 DEF Shared!Everywhere
  <2> QED
    BY <2>1, <2>2, <2>3 DEF Shared!NewEdit
<1>5. ASSUME NEW d \in Device, SavePage(d) \/ MergeLocal(d) PROVE Shared!Receive(d)
  <2>1. RelayEdits' = RelayEdits /\ ack' = ack /\ local' = [local EXCEPT ![d] = @ \cup remote[d]]
    BY <1>3, <1>5 DEF SavePage, MergeLocal, engineVars
  <2>2. remote[d] \in SUBSET RelayEdits
    BY DEF ContentInv, ReplicaHolds
  <2> QED
    BY <2>1, <2>2 DEF Shared!Receive
<1>6. ASSUME NEW d \in Device, FinishPass(d) PROVE Shared!Report(d) \/ (local' = local /\ ack' = ack)
  <2>1. RelayEdits' = RelayEdits /\ local' = local /\ ack' = [ack EXCEPT ![d] = Acknowledged(d)]
    BY <1>3, <1>6 DEF FinishPass
  <2>2. CASE local[d] \subseteq remote[d]
    <3>1. local[d] \subseteq RelayEdits
      BY <2>2 DEF ContentInv, ReplicaHolds
    <3> QED
      BY <2>1, <2>2, <3>1 DEF Shared!Report, Acknowledged
  <2>3. CASE ~(local[d] \subseteq remote[d])
    BY <2>1, <2>3, <1>1 DEF Acknowledged, TypeOK
  <2> QED
    BY <2>2, <2>3
<1>7. ASSUME NEW d \in Device, ReopenAndStart(d) \/ Crash(d) PROVE Shared!Withdraw(d)
  <2>1. RelayEdits' = RelayEdits /\ local' = local /\ ack' = [ack EXCEPT ![d] = {}]
    BY <1>3, <1>7 DEF ReopenAndStart, Crash, EmptyReplica
  <2> QED
    BY <2>1 DEF Shared!Withdraw
<1>8. \/ local' = local /\ ack' = ack
      \/ \E d \in Device : \/ MakeEdit(d) \/ SavePage(d) \/ MergeLocal(d) \/ FinishPass(d)
                           \/ ReopenAndStart(d) \/ Crash(d)
  BY DEF SyncStep, Interrupted, OnlyAFault, Next, RequestStep, LocalStep, deviceVars, engineVars,
    StartPass, ReadNewState, LoadState, ReadPage, SendUpdate, TooLarge, Publish, Compact, Adopt,
    SkipCompaction, RequestFails, RelayRefuses, LateRequest
<1> QED
  BY <1>2, <1>4, <1>5, <1>6, <1>7, <1>8 DEF Shared!DocNext

LEMMA SharedInit == Init => Shared!DocInit
<1> SUFFICES ASSUME Init PROVE Shared!DocInit
  OBVIOUS
<1>1. Last = 0 /\ Latest = 0 /\ EditsOf(0) = {}
  BY DEF Init, RelayInit, Last, Latest, EditsOf
<1>2. Newer(Through(Latest)) = {}
  BY <1>1 DEF Newer
<1>3. RelayEdits = {}
  BY <1>1, <1>2 DEF RelayEdits
<1> QED
  BY <1>3 DEF Init, Shared!DocInit

\* document-sync implements the shared document: for any number of devices and
\* edits, whatever is lost, repeated, late or restarted, what was shared stays
\* shared, what a device has stays on it, a device receives only what was
\* shared, and reports as synced only what is.
THEOREM SyncImplements ==
  ASSUME "state" \notin FaultKinds
  PROVE  Spec => ImplementsSharedDocument
<1>1. TypeInv /\ ContentInv /\ [Next]_vars => [Shared!DocNext]_(Shared!docVars)
  <2> SUFFICES ASSUME TypeInv, ContentInv, [Next]_vars PROVE [Shared!DocNext]_(Shared!docVars)
    OBVIOUS
  <2>1. CASE Next
    BY <2>1, SharedStep DEF SyncStep
  <2>2. CASE UNCHANGED vars
    <3>1. OnlyAFault
      BY <2>2 DEF OnlyAFault, vars, deviceVars, TypeInv, TypeOK
    <3> QED
      BY <3>1, SharedStep DEF SyncStep
  <2> QED
    BY <2>1, <2>2
<1> QED
  BY <1>1, SharedInit, ContentAlways, PTL DEF Spec, ImplementsSharedDocument, Shared!DocSpec
-----------------------------------------------------------------------------
(* The document under its connection: whenever the drain starts, aborts and  *)
(* repeats passes, and whatever the live socket does, the document stays     *)
(* what was shown of it.  Every step of DocumentConnection is a SyncStep, or *)
(* does not touch the document.                                              *)

LEMMA ConnStep ==
  ASSUME TypeOK, [ConnNext]_allVars
  PROVE  SyncStep
<1>1. ASSUME faults' = faults \/ \E kind : Fault(kind) PROVE faults' \in 0..MaxFaults
  BY <1>1, FaultsAssumption DEF TypeOK, Fault
<1>2. CASE UNCHANGED vars
  BY <1>1, <1>2 DEF SyncStep, OnlyAFault, vars, deviceVars
<1>3. ASSUME NEW d \in Device,
             \/ EditAndWake(d) \/ BeginPass(d) \/ PassStep(d) \/ PassFails(d)
             \/ CrashHost(d) \/ LateChange(d)
      PROVE  SyncStep
  BY <1>3 DEF EditAndWake, BeginPass, PassStep, PassFails, CrashHost, LateChange, SyncStep, Next
<1>4. ASSUME NEW d \in Device, PassAborted(d) PROVE SyncStep
  BY <1>1, <1>4 DEF PassAborted, SyncStep, Interrupted
<1>5. ASSUME NEW d \in Device, GoOffline(d) \/ RenewSocket(d) PROVE SyncStep
  BY <1>1, <1>5 DEF GoOffline, RenewSocket, SyncStep, OnlyAFault
<1>6. ASSUME NEW d \in Device,
             LeaveDrain(d) \/ RetryTimer(d) \/ SocketReady(d) \/ Admitted(d) \/ Changed(d)
      PROVE  SyncStep
  BY <1>2, <1>6 DEF LeaveDrain, RetryTimer, SocketReady, Admitted, Changed
<1>7. CASE RelayCleanup /\ UNCHANGED <<deviceVars, connVars>>
  BY <1>7 DEF SyncStep, Next
<1>8. CASE UNCHANGED allVars \/ Announce
  BY <1>2, <1>8 DEF allVars, Announce
<1> QED
  BY <1>3, <1>4, <1>5, <1>6, <1>7, <1>8 DEF ConnNext

LEMMA ConnTypesAlways == ConnSpec => []TypeInv
<1>1. ConnInit => Init
  BY DEF ConnInit
<1>2. Init => TypeInv
  BY TypesInit
<1>3. TypeInv /\ [ConnNext]_allVars => TypeInv'
  BY ConnStep, TypeStep DEF TypeInv
<1> QED
  BY <1>1, <1>2, <1>3, PTL DEF ConnSpec

LEMMA ConnContentAlways ==
  ASSUME "state" \notin FaultKinds
  PROVE  ConnSpec => [](TypeInv /\ ContentInv)
<1>1. TypeInv /\ ContentInv /\ [ConnNext]_allVars => ContentInv'
  BY ConnStep, ContentStep DEF TypeInv
<1>2. ConnInit => Init
  BY DEF ConnInit
<1> QED
  BY <1>1, <1>2, ContentInit, ConnTypesAlways, PTL DEF ConnSpec

\* The relay can bring a device up to date whenever its drain asks
\* (document-connection.ts over services/relay/src/storage).
THEOREM ConnTailStored == ConnSpec => []TailIsStored
<1>1. TypeInv => TailIsStored
  BY DEF TypeInv, RelayInv
<1> QED
  BY <1>1, ConnTypesAlways, PTL

\* What status() reports stays true however the drain schedules its passes:
\* a synced device has the document it downloaded (document-connection.ts).
THEOREM ConnSyncedIsSame ==
  ASSUME "state" \notin FaultKinds
  PROVE  ConnSpec => []SyncedMeansSame
<1>1. ContentInv => SyncedMeansSame
  BY DEF ContentInv, AckHolds, SyncedMeansSame, Synced, Pending
<1> QED
  BY <1>1, ConnContentAlways, PTL

\* The document under its connection implements the shared document: a pass
\* aborted by a lost socket, a retry and a late answer take nothing back.
THEOREM ConnImplements ==
  ASSUME "state" \notin FaultKinds
  PROVE  ConnSpec => ImplementsSharedDocument
<1>1. ConnInit => Shared!DocInit
  BY SharedInit DEF ConnInit
<1>2. TypeInv /\ ContentInv /\ [ConnNext]_allVars => [Shared!DocNext]_(Shared!docVars)
  BY ConnStep, SharedStep DEF TypeInv
<1> QED
  BY <1>1, <1>2, ConnContentAlways, PTL DEF ConnSpec, ImplementsSharedDocument, Shared!DocSpec

-----------------------------------------------------------------------------
(* The drain of a device: its types, and why it never sleeps on work.         *)

DrainTypes ==
  /\ socket \in [Device -> {"down", "up", "renewing"}]
  /\ topic \in [Device -> {"none", "awaiting", "admitted"}]
  /\ notice \in [Device -> BOOLEAN]
  /\ dirty \in [Device -> BOOLEAN]
  /\ running \in [Device -> BOOLEAN]
  /\ aborted \in [Device -> BOOLEAN]
  /\ former \in [Device -> BOOLEAN]
  /\ retry \in [Device -> BOOLEAN]
  /\ stale \in [Device -> BOOLEAN]
  /\ waiting \in SUBSET Device
  /\ orphans \in Nat
  /\ told \in [updates : 0..Last, states : 0..Latest]

\* What was told stays told: the log and the states only grow.
LEMMA ToldStaysTold ==
  ASSUME TypeInv, DrainTypes, [ConnNext]_allVars
  PROVE  told \in [updates : 0..Last', states : 0..Latest']
<1>1. SyncStep
  BY ConnStep DEF TypeInv
<1>2. RelayInv' /\ Grows
  BY <1>1, RelaySteps
<1>3. Last \in Nat /\ Latest \in Nat /\ Last' \in Nat /\ Latest' \in Nat
  BY <1>2 DEF TypeInv, RelayInv, RelayTypeOK, Last, Latest
<1>4. 0..Last \subseteq 0..Last' /\ 0..Latest \subseteq 0..Latest'
  BY <1>2, <1>3 DEF Grows
<1> QED
  BY <1>4 DEF DrainTypes

LEMMA UnansweredTypes ==
  ASSUME DrainTypes, NEW d \in Device, Unanswered(d)
  PROVE  waiting' \in SUBSET Device /\ orphans' \in Nat /\ told' = told
BY DEF DrainTypes, Unanswered

LEMMA WakeTypes ==
  ASSUME DrainTypes, NEW d \in Device, NEW connectedNow \in BOOLEAN, NEW abortedNow \in BOOLEAN,
         WakeWith(d, connectedNow, abortedNow)
  PROVE  dirty' \in [Device -> BOOLEAN] /\ running' \in [Device -> BOOLEAN]
BY DEF DrainTypes, WakeWith, Set

\* The flags of the drain apart from what the relay has announced.
FlagTypes ==
  /\ socket \in [Device -> {"down", "up", "renewing"}]
  /\ topic \in [Device -> {"none", "awaiting", "admitted"}]
  /\ notice \in [Device -> BOOLEAN]
  /\ dirty \in [Device -> BOOLEAN]
  /\ running \in [Device -> BOOLEAN]
  /\ aborted \in [Device -> BOOLEAN]
  /\ former \in [Device -> BOOLEAN]
  /\ retry \in [Device -> BOOLEAN]
  /\ stale \in [Device -> BOOLEAN]

LEMMA FlagStep ==
  ASSUME DrainTypes, [ConnNext]_allVars
  PROVE  FlagTypes'
<1>1. ASSUME NEW d \in Device
      PROVE  Connected(d) \in BOOLEAN /\ aborted[d] \in BOOLEAN
  BY DEF DrainTypes, Connected
<1>2. ASSUME NEW d \in Device, EditAndWake(d) \/ Admitted(d) \/ Changed(d) PROVE FlagTypes'
  <2>1. Wake(d)
    BY <1>2 DEF EditAndWake, Admitted, Changed
  <2>2. dirty' \in [Device -> BOOLEAN] /\ running' \in [Device -> BOOLEAN]
    BY <1>1, <2>1, WakeTypes DEF Wake
  <2>3. /\ topic' \in [Device -> {"none", "awaiting", "admitted"}]
        /\ notice' \in [Device -> BOOLEAN]
    BY <1>2 DEF EditAndWake, Admitted, Changed, DrainTypes, Set
  <2> QED
    BY <1>2, <2>2, <2>3 DEF EditAndWake, Admitted, Changed, DrainTypes, FlagTypes
<1>3. ASSUME NEW d \in Device, BeginPass(d) \/ LeaveDrain(d) PROVE FlagTypes'
  BY <1>3 DEF BeginPass, LeaveDrain, EndOfDrain, Connected, DrainTypes, FlagTypes, Set
<1>4. ASSUME NEW d \in Device, PassStep(d) \/ LateChange(d) PROVE FlagTypes'
  BY <1>4 DEF PassStep, LateChange, DrainTypes, FlagTypes
<1>5. ASSUME NEW d \in Device, PassFails(d) \/ PassAborted(d) PROVE FlagTypes'
  BY <1>5 DEF PassFails, PassAborted, EndOfDrain, Connected, DrainTypes, FlagTypes, Set
<1>6. ASSUME NEW d \in Device, RetryTimer(d) \/ SocketReady(d) PROVE FlagTypes'
  <2>1. dirty' \in [Device -> BOOLEAN] /\ running' \in [Device -> BOOLEAN]
    BY <1>1, <1>6, WakeTypes DEF RetryTimer, SocketReady
  <2>2. NewAttempt(d) \/ UNCHANGED <<aborted, retry, stale, former>>
    BY <1>6 DEF RetryTimer, SocketReady
  <2>3. /\ aborted' \in [Device -> BOOLEAN] /\ retry' \in [Device -> BOOLEAN]
        /\ stale' \in [Device -> BOOLEAN] /\ former' \in [Device -> BOOLEAN]
    BY <2>2 DEF NewAttempt, DrainTypes, Set
  <2> QED
    BY <1>6, <2>1, <2>3 DEF RetryTimer, SocketReady, DrainTypes, FlagTypes, Set
<1>7. ASSUME NEW d \in Device, GoOffline(d) \/ RenewSocket(d) PROVE FlagTypes'
  BY <1>7 DEF GoOffline, RenewSocket, SocketLost, DrainTypes, FlagTypes, Set
<1>8. ASSUME NEW d \in Device, CrashHost(d) PROVE FlagTypes'
  BY <1>8 DEF CrashHost, DrainTypes, FlagTypes, Set
<1>9. CASE Announce
  BY <1>9 DEF Announce, DrainTypes, FlagTypes
<1>10. CASE UNCHANGED connVars
  BY <1>10 DEF connVars, DrainTypes, FlagTypes
<1> QED
  BY <1>2, <1>3, <1>4, <1>5, <1>6, <1>7, <1>8, <1>9, <1>10 DEF ConnNext, allVars

LEMMA NewsStep ==
  ASSUME TypeInv, DrainTypes, [ConnNext]_allVars
  PROVE  /\ waiting' \in SUBSET Device
         /\ orphans' \in Nat
         /\ told' \in [updates : 0..Last', states : 0..Latest']
<1>1. told \in [updates : 0..Last', states : 0..Latest']
  BY ToldStaysTold
<1>2. ASSUME NEW d \in Device, Unanswered(d)
      PROVE  waiting' \in SUBSET Device /\ orphans' \in Nat /\ told' = told
  BY <1>2, UnansweredTypes
<1>3. ASSUME NEW d \in Device, PassStep(d) \/ LateChange(d)
      PROVE  waiting' \in SUBSET Device /\ orphans' \in Nat /\ told' = told
  BY <1>3 DEF DrainTypes, PassStep, LateChange
<1>4. CASE UNCHANGED newsVars
  BY <1>1, <1>4 DEF newsVars, DrainTypes
<1>5. CASE Announce
  <2>1. waiting' \in SUBSET Device /\ orphans' \in Nat
    BY <1>5 DEF Announce, DrainTypes
  <2>2. Last' = Last /\ Latest' = Latest
    BY <1>5 DEF Announce, vars, relayVars, Last, Latest
  <2>3. Last \in Nat /\ Latest \in Nat
    BY DEF TypeInv, RelayInv, RelayTypeOK, Last, Latest
  <2>4. told' = [updates |-> Last, states |-> Latest]
    BY <1>5 DEF Announce
  <2> QED
    BY <2>1, <2>2, <2>3, <2>4
<1>6. CASE UNCHANGED allVars
  BY <1>4, <1>6 DEF allVars, connVars
<1>7. CASE RelayCleanup /\ UNCHANGED <<deviceVars, connVars>>
  BY <1>4, <1>7 DEF connVars
<1>8. ASSUME NEW d \in Device,
             \/ EditAndWake(d) \/ BeginPass(d) \/ LeaveDrain(d) \/ RetryTimer(d)
             \/ GoOffline(d) \/ RenewSocket(d) \/ SocketReady(d) \/ Admitted(d) \/ Changed(d)
      PROVE  UNCHANGED newsVars
  BY <1>8 DEF EditAndWake, BeginPass, LeaveDrain, RetryTimer, GoOffline, RenewSocket, SocketReady,
              Admitted, Changed
<1>9. ASSUME NEW d \in Device, PassFails(d) \/ PassAborted(d) \/ CrashHost(d)
      PROVE  Unanswered(d)
  BY <1>9 DEF PassFails, PassAborted, CrashHost
<1> QED
  BY <1>1, <1>2, <1>3, <1>4, <1>5, <1>6, <1>7, <1>8, <1>9 DEF ConnNext

LEMMA DrainStep ==
  ASSUME TypeInv, DrainTypes, [ConnNext]_allVars
  PROVE  DrainTypes'
<1>1. FlagTypes'
  BY FlagStep
<1> QED
  BY <1>1, NewsStep DEF FlagTypes, DrainTypes

LEMMA DrainInit == ConnInit => DrainTypes
<1> SUFFICES ASSUME ConnInit PROVE DrainTypes
  OBVIOUS
<1>1. Last = 0 /\ Latest = 0
  BY DEF ConnInit, Init, RelayInit, Last, Latest
<1> QED
  BY <1>1 DEF ConnInit, DrainTypes

\* Every variable of the connection keeps its type with those of the document
\* (document-connection.ts).
THEOREM ConnTypes == ConnSpec => []ConnTypeOK
<1>1. ConnInit => DrainTypes
  BY DrainInit
<1>2. TypeInv /\ DrainTypes /\ [ConnNext]_allVars => DrainTypes'
  BY DrainStep
<1>3. TypeInv /\ DrainTypes => ConnTypeOK
  <2> SUFFICES ASSUME TypeInv, DrainTypes PROVE ConnTypeOK
    OBVIOUS
  <2>1. Last \in Nat /\ Latest \in Nat /\ Last <= MaxUpdates /\ Latest <= MaxStates
    BY DEF TypeInv, RelayInv, RelayTypeOK, Last, Latest
  <2>2. 0..Last \subseteq 0..MaxUpdates /\ 0..Latest \subseteq 0..MaxStates
    BY <2>1
  <2>3. told \in [updates : 0..MaxUpdates, states : 0..MaxStates]
    BY <2>2 DEF DrainTypes
  <2> QED
    BY <2>3 DEF TypeInv, DrainTypes, ConnTypeOK
<1> QED
  BY <1>1, <1>2, <1>3, ConnTypesAlways, PTL DEF ConnSpec

\* Something will bring the device to begin a pass.
Called(d) == dirty[d] \/ notice[d] \/ retry[d] \/ socket[d] # "up" \/ topic[d] = "awaiting"

\* The flags of a drain hold together: who is marked dirty on an open socket
\* runs or waits for its timer, a pass belongs to a running drain, an attempt is
\* aborted by a failure that set the timer or by the socket, the drain of a
\* former attempt is followed by another, and only a first pass subscribes.
FlagsInv(d) ==
  /\ dirty[d] => running[d] \/ retry[d] \/ socket[d] # "up"
  /\ pc[d] # "idle" => running[d]
  /\ aborted[d] => retry[d] \/ socket[d] # "up"
  /\ former[d] => dirty[d]
  /\ topic[d] = "none" => dirty[d] \/ socket[d] # "up"

\* A pass that has read to the end leaves nothing behind unless something will
\* call the device again: what came later has announced itself.
WorkInv(d) ==
  /\ LacksNews(d) /\ pc[d] \in {"idle", "merge", "compact", "finish"} => Called(d)
  /\ Pending(d) /\ pc[d] = "idle" => Called(d)
  /\ pc[d] \in {"compact", "finish"} /\ ~(local[d] \subseteq remote[d]) => Called(d)

WakeInv == \A d \in Device : FlagsInv(d) /\ WorkInv(d)

SameFlags(d) ==
  /\ socket'[d] = socket[d] /\ topic'[d] = topic[d] /\ dirty'[d] = dirty[d] /\ running'[d] = running[d]
  /\ aborted'[d] = aborted[d] /\ former'[d] = former[d] /\ retry'[d] = retry[d]

SamePass(d) ==
  /\ local'[d] = local[d] /\ remote'[d] = remote[d] /\ base'[d] = base[d] /\ after'[d] = after[d]
  /\ ack'[d] = ack[d] /\ pc'[d] = pc[d]

\* The relay announced nothing, and no notice of the device was lost or delivered.
Silent(d) == told' = told /\ notice'[d] = notice[d]

\* What the relay announces, every device hears that has nothing else to wake it.
LEMMA Heard ==
  ASSUME DrainTypes, NEW d \in Device, FlagsInv(d), SameFlags(d), Announce
  PROVE  Called(d)'
<1>1. notice'[d] = (notice[d] \/ (socket[d] = "up" /\ topic[d] = "admitted"))
  BY DEF Announce
<1>2. topic[d] \in {"none", "awaiting", "admitted"}
  BY DEF DrainTypes
<1>3. CASE socket[d] = "up" /\ topic[d] = "admitted"
  BY <1>1, <1>3 DEF Called
<1>4. CASE socket[d] # "up" \/ topic[d] = "awaiting"
  BY <1>4 DEF Called, SameFlags
<1>5. CASE socket[d] = "up" /\ topic[d] = "none"
  BY <1>5 DEF FlagsInv, Called, SameFlags
<1> QED
  BY <1>2, <1>3, <1>4, <1>5

\* A device that took no part in the step.
LEMMA BystanderWakes ==
  ASSUME DrainTypes, NEW d \in Device, FlagsInv(d), WorkInv(d),
         SameFlags(d), SamePass(d), Announce \/ Silent(d)
  PROVE  FlagsInv(d)' /\ WorkInv(d)'
<1>1. FlagsInv(d)'
  BY DEF FlagsInv, SameFlags, SamePass
<1>2. CASE Announce
  <2>1. Called(d)'
    BY <1>2, Heard
  <2> QED
    BY <1>1, <2>1 DEF WorkInv
<1>3. CASE Silent(d)
  <2>1. Called(d)' = Called(d)
    BY <1>3 DEF Called, SameFlags, Silent
  <2>2. LacksNews(d)' = LacksNews(d) /\ Pending(d)' = Pending(d)
    BY <1>3 DEF LacksNews, Pending, SamePass, Silent
  <2> QED
    BY <1>1, <2>1, <2>2 DEF WorkInv, SamePass
<1> QED
  BY <1>2, <1>3

\* The steps that are about one device.
DrivenStep(d) ==
  \/ EditAndWake(d) \/ BeginPass(d) \/ LeaveDrain(d) \/ PassStep(d)
  \/ PassFails(d) \/ PassAborted(d) \/ RetryTimer(d)
  \/ GoOffline(d) \/ RenewSocket(d) \/ SocketReady(d) \/ Admitted(d) \/ Changed(d)
  \/ CrashHost(d) \/ LateChange(d)

\* The step of one device leaves the others as they are, except that they hear of it.
LEMMA OthersSleepOn ==
  ASSUME TypeInv, DrainTypes, NEW d \in Device, NEW x \in Device \ {d},
         DrivenStep(d)
  PROVE  SameFlags(x) /\ SamePass(x) /\ Silent(x)
<1>1. TypeOK /\ x # d
  BY DEF TypeInv
<1>2. told' = told
  <2>1. ASSUME Unanswered(d) PROVE told' = told
    BY <2>1 DEF Unanswered
  <2>2. Unanswered(d) \/ UNCHANGED newsVars \/ UNCHANGED told
    BY DEF DrivenStep, EditAndWake, BeginPass, LeaveDrain, PassStep, PassFails, PassAborted, RetryTimer,
           GoOffline, RenewSocket, SocketReady, Admitted, Changed, CrashHost, LateChange
  <2> QED
    BY <2>1, <2>2 DEF newsVars
<1>3. ASSUME DeviceStep(d) PROVE SamePass(x)
  BY <1>1, <1>3, OthersUntouched DEF Untouched, SamePass
<1>4. ASSUME UNCHANGED vars PROVE SamePass(x)
  BY <1>4 DEF vars, deviceVars, engineVars, passVars, SamePass
<1>5. ASSUME Wake(d) PROVE dirty'[x] = dirty[x] /\ running'[x] = running[x]
  BY <1>5 DEF Wake, WakeWith, Set, DrainTypes
<1>6. CASE EditAndWake(d)
  <2>1. SamePass(x)
    BY <1>3, <1>6 DEF EditAndWake, DeviceStep
  <2> QED
    BY <1>2, <1>5, <1>6, <2>1 DEF EditAndWake, SameFlags, Silent
<1>7. CASE BeginPass(d)
  <2>1. SamePass(x)
    BY <1>3, <1>7 DEF BeginPass, DeviceStep
  <2> QED
    BY <1>2, <1>7, <2>1, <1>1 DEF BeginPass, Set, DrainTypes, SameFlags, Silent
<1>8. CASE LeaveDrain(d)
  BY <1>1, <1>2, <1>4, <1>8 DEF LeaveDrain, EndOfDrain, Set, DrainTypes, SameFlags, Silent
<1>9. CASE PassStep(d)
  <2>1. SamePass(x)
    BY <1>3, <1>9 DEF PassStep, DeviceStep, LocalStep, RequestStep
  <2> QED
    BY <1>2, <1>9, <2>1 DEF PassStep, SameFlags, Silent
<1>10. CASE PassFails(d)
  <2>1. SamePass(x)
    BY <1>3, <1>10 DEF PassFails, DeviceStep
  <2> QED
    BY <1>1, <1>2, <1>10, <2>1 DEF PassFails, EndOfDrain, Set, DrainTypes, SameFlags, Silent
<1>11. CASE PassAborted(d)
  <2>1. SamePass(x)
    BY <1>1, <1>11 DEF PassAborted, Stop, Goto, TypeOK, engineVars, SamePass
  <2> QED
    BY <1>1, <1>2, <1>11, <2>1 DEF PassAborted, EndOfDrain, Set, DrainTypes, SameFlags, Silent
<1>12. CASE RetryTimer(d)
  BY <1>1, <1>2, <1>4, <1>12 DEF RetryTimer, NewAttempt, WakeWith, Set, DrainTypes, SameFlags, Silent
<1>13. CASE GoOffline(d) \/ RenewSocket(d)
  <2>1. SamePass(x)
    BY <1>13 DEF GoOffline, RenewSocket, engineVars, passVars, SamePass
  <2> QED
    BY <1>1, <1>2, <1>13, <2>1 DEF GoOffline, RenewSocket, SocketLost, Set, DrainTypes, SameFlags, Silent
<1>14. CASE SocketReady(d)
  <2>1. NewAttempt(d) \/ UNCHANGED <<aborted, retry, stale, former>>
    BY <1>14 DEF SocketReady
  <2>2. aborted'[x] = aborted[x] /\ former'[x] = former[x] /\ retry'[x] = retry[x]
    BY <1>1, <2>1 DEF NewAttempt, Set, DrainTypes
  <2> QED
    BY <1>1, <1>2, <1>4, <1>14, <2>2 DEF SocketReady, WakeWith, Set, DrainTypes, SameFlags, Silent
<1>15. CASE Admitted(d) \/ Changed(d)
  BY <1>1, <1>2, <1>4, <1>5, <1>15 DEF Admitted, Changed, Set, DrainTypes, SameFlags, Silent
<1>16. CASE CrashHost(d)
  <2>1. SamePass(x)
    BY <1>3, <1>16 DEF CrashHost, DeviceStep
  <2> QED
    BY <1>1, <1>2, <1>16, <2>1 DEF CrashHost, Set, DrainTypes, SameFlags, Silent
<1>17. CASE LateChange(d)
  <2>1. SamePass(x)
    BY <1>3, <1>17 DEF LateChange, DeviceStep
  <2> QED
    BY <1>2, <1>17, <2>1 DEF LateChange, SameFlags, Silent
<1> QED
  BY <1>6, <1>7, <1>8, <1>9, <1>10, <1>11, <1>12, <1>13, <1>14, <1>15, <1>16, <1>17
    DEF DrivenStep

\* Any reason to be called again is enough.
LEMMA CalledWorks ==
  ASSUME NEW d \in Device, Called(d)'
  PROVE  WorkInv(d)'
BY DEF WorkInv

\* The steps of the pass: only its last stages, which follow a read to the end,
\* have to leave nothing behind.
LEMMA PassWakes ==
  ASSUME TypeInv, DrainTypes, NEW d \in Device, FlagsInv(d), WorkInv(d), PassStep(d)
  PROVE  FlagsInv(d)' /\ WorkInv(d)'
<1>1. TypeOK /\ SameFlags(d) /\ Silent(d)
  BY DEF TypeInv, PassStep, SameFlags, Silent
<1>2. Called(d)' = Called(d) /\ told' = told
  BY <1>1 DEF Called, SameFlags, Silent
<1>3. FlagsInv(d)'
  <2>1. pc[d] # "idle"
    BY DEF PassStep, LocalStep, RequestStep, ReadNewState, LoadState, ReadPage, SendUpdate, TooLarge,
           Publish, Compact, SavePage, MergeLocal, SkipCompaction, FinishPass
  <2> QED
    BY <1>1, <2>1 DEF FlagsInv, SameFlags
<1>4. CASE Called(d)'
  BY <1>3, <1>4, CalledWorks
<1>5. CASE ~Called(d)'
  <2>1. ~Called(d) /\ told' = told
    BY <1>2, <1>5
  <2>2. CASE \/ ReadNewState(d) \/ LoadState(d) \/ SendUpdate(d) \/ TooLarge(d) \/ Publish(d) \/ SavePage(d)
    <3>1. pc'[d] \in {"read", "load", "publish"}
      BY <1>1, <2>2 DEF TypeOK, ReadNewState, LoadState, SendUpdate, TooLarge, Publish, SavePage, Goto
    <3> QED
      BY <1>3, <3>1 DEF WorkInv
  <2>3. CASE ReadPage(d)
    <3>1. PICK n \in after[d]..Last :
            /\ downloaded' = [downloaded EXCEPT ![d] = StillDownloaded(d, (after[d] + 1)..n)]
            /\ after' = [after EXCEPT ![d] = n]
            /\ Goto(d, IF n < Last THEN "page"
                       ELSE IF downloaded'[d] /\ ~Pending(d) THEN "idle" ELSE "merge")
      BY <2>3 DEF ReadPage
    <3>2. /\ pc'[d] = IF n < Last THEN "page"
                      ELSE IF downloaded'[d] /\ ~Pending(d) THEN "idle" ELSE "merge"
          /\ after'[d] = n
      BY <1>1, <3>1 DEF Goto, TypeOK
    <3>3. Latest \in {0, base[d]} /\ base' = base /\ local' = local /\ ack' = ack
      BY <2>3 DEF ReadPage
    <3>4. Last \in Nat /\ after[d] \in Nat
      BY <1>1, RelayTypes DEF TypeInv, TypeOK, RelayTypeOK
    <3>5. CASE n < Last
      BY <1>3, <3>2, <3>5 DEF WorkInv
    <3>6. CASE n = Last
      <4>1. told.updates \in 0..Last /\ told.states \in 0..Latest /\ base[d] \in Nat /\ Latest \in Nat
        BY <1>1 DEF DrainTypes, TypeInv, TypeOK, RelayTypeOK, Latest
      <4>2. ~LacksNews(d)'
        BY <2>1, <3>2, <3>3, <3>4, <3>6, <4>1 DEF LacksNews
      <4>3. pc'[d] = "idle" => ~Pending(d)'
        BY <3>2, <3>3, <3>4, <3>6 DEF Pending
      <4>4. pc'[d] \in {"idle", "merge"}
        BY <3>2, <3>4, <3>6
      <4> QED
        BY <1>3, <4>2, <4>3, <4>4 DEF WorkInv
    <3> QED
      BY <3>4, <3>5, <3>6
  <2>4. CASE MergeLocal(d)
    <3>1. /\ local'[d] = local[d] \cup remote[d] /\ remote' = remote /\ base' = base /\ after' = after
          /\ pc[d] = "merge"
          /\ \/ pc'[d] = "compact" /\ local'[d] \subseteq remote[d]
             \/ pc'[d] = "send"
      BY <1>1, <2>4 DEF MergeLocal, Goto, TypeOK
    <3>2. LacksNews(d)' = LacksNews(d)
      BY <2>1, <3>1 DEF LacksNews
    <3> QED
      BY <1>3, <2>1, <3>1, <3>2 DEF WorkInv
  <2>5. CASE SkipCompaction(d)
    <3>1. /\ local' = local /\ remote' = remote /\ base' = base /\ after' = after
          /\ pc[d] = "compact" /\ pc'[d] = "finish"
      BY <1>1, <2>5 DEF SkipCompaction, Goto, TypeOK, engineVars
    <3>2. LacksNews(d)' = LacksNews(d)
      BY <2>1, <3>1 DEF LacksNews
    <3> QED
      BY <1>3, <2>1, <3>1, <3>2 DEF WorkInv
  <2>6. CASE Compact(d)
    <3>1. CASE pc'[d] = "read"
      BY <1>3, <3>1 DEF WorkInv
    <3>2. CASE pc'[d] # "read"
      <4>1. /\ pc[d] = "compact" /\ pc'[d] = "finish" /\ local' = local /\ remote'[d] = remote[d]
            /\ base'[d] = Latest' /\ after' = after
        BY <1>1, <2>6, <3>2 DEF Compact, Adopt, Downloads, Goto, TypeOK
      <4>2. told \in [updates : 0..Last', states : 0..Latest']
        <5>1. ConnNext
          BY DEF ConnNext
        <5> QED
          BY <5>1, ToldStaysTold
      <4>3. told.states \in 0..Latest' /\ Latest' \in Nat
        <5>1. RelayInv'
          BY <2>6, RelaySteps DEF SyncStep, Next, RequestStep
        <5> QED
          BY <4>2, <5>1 DEF RelayInv, RelayTypeOK, Latest
      <4>4. LacksNews(d)' => LacksNews(d)
        BY <2>1, <4>1, <4>3 DEF LacksNews
      <4> QED
        BY <1>3, <2>1, <4>1, <4>4 DEF WorkInv
    <3> QED
      BY <3>1, <3>2
  <2>7. CASE FinishPass(d)
    <3>1. /\ pc[d] = "finish" /\ pc'[d] = "idle" /\ local' = local /\ base' = base /\ after' = after
          /\ ack'[d] = Acknowledged(d)
      BY <1>1, <2>7 DEF FinishPass, Goto, TypeOK
    <3>2. LacksNews(d)' = LacksNews(d)
      BY <2>1, <3>1 DEF LacksNews
    <3>3. local[d] \subseteq remote[d]
      BY <2>1, <3>1 DEF WorkInv
    <3>4. ~Pending(d)'
      BY <3>1, <3>3 DEF Pending, Acknowledged
    <3> QED
      BY <1>3, <2>1, <3>1, <3>2, <3>4 DEF WorkInv
  <2> QED
    BY <2>2, <2>3, <2>4, <2>5, <2>6, <2>7 DEF PassStep, LocalStep, RequestStep
<1> QED
  BY <1>4, <1>5

\* The step of a device keeps its own flags together.
LEMMA OwnWakes ==
  ASSUME TypeInv, DrainTypes, NEW d \in Device, FlagsInv(d), WorkInv(d),
         DrivenStep(d)
  PROVE  FlagsInv(d)' /\ WorkInv(d)'
<1>1. TypeOK
  BY DEF TypeInv
<1>2. ASSUME Wake(d)
      PROVE  /\ dirty'[d] /\ Called(d)'
             /\ running'[d] = (running[d] \/ (Connected(d) /\ ~aborted[d]))
  BY <1>2 DEF Wake, WakeWith, Set, DrainTypes, Called
<1>3. CASE EditAndWake(d) \/ Admitted(d) \/ Changed(d)
  <2>1. /\ Wake(d) /\ UNCHANGED <<socket, aborted, former, retry>> /\ pc'[d] = pc[d]
        /\ UNCHANGED topic \/ topic'[d] = "admitted"
    BY <1>3 DEF EditAndWake, Admitted, Changed, MakeEdit, vars, deviceVars, passVars, Set, DrainTypes
  <2>2. FlagsInv(d)'
    BY <1>2, <2>1 DEF FlagsInv, Connected
  <2> QED
    BY <1>2, <2>1, <2>2, CalledWorks
<1>4. CASE BeginPass(d)
  <2>1. pc'[d] = "read"
    BY <1>1, <1>4 DEF BeginPass, StartPass, ReopenAndStart, Goto, TypeOK
  <2>2. /\ running[d] /\ ~aborted[d] /\ ~former[d] /\ ~dirty'[d]
        /\ running'[d] = running[d] /\ aborted'[d] = aborted[d] /\ former'[d] = former[d]
        /\ topic'[d] # "none"
    BY <1>4 DEF BeginPass, Live, Set, DrainTypes
  <2>3. FlagsInv(d)'
    BY <2>1, <2>2 DEF FlagsInv
  <2> QED
    BY <2>1, <2>3 DEF WorkInv
<1>5. CASE LeaveDrain(d)
  <2>1. SamePass(d) /\ told' = told /\ pc[d] = "idle"
    BY <1>5 DEF LeaveDrain, SamePass, vars, deviceVars, engineVars, passVars, newsVars
  <2>2. /\ UNCHANGED <<socket, topic, notice, dirty, aborted, retry>>
        /\ running'[d] = (dirty[d] /\ Connected(d) /\ ~aborted[d])
        /\ ~former'[d]
    BY <1>5 DEF LeaveDrain, EndOfDrain, Set, DrainTypes
  <2>3. FlagsInv(d)'
    BY <2>1, <2>2 DEF FlagsInv, SamePass, Connected
  <2>4. Called(d)' = Called(d) /\ LacksNews(d)' = LacksNews(d) /\ Pending(d)' = Pending(d)
    BY <2>1, <2>2 DEF Called, LacksNews, Pending, SamePass
  <2> QED
    BY <2>1, <2>3, <2>4 DEF WorkInv, SamePass
<1>6. CASE PassStep(d)
  BY <1>6, PassWakes
<1>7. CASE PassFails(d)
  <2>1. pc'[d] = "idle"
    BY <1>1, <1>7 DEF PassFails, RequestFails, RelayRefuses, Stop, Goto, TypeOK
  <2>2. /\ UNCHANGED <<socket, topic, dirty>>
        /\ aborted'[d] /\ retry'[d] /\ ~former'[d]
    BY <1>7 DEF PassFails, EndOfDrain, Set, DrainTypes
  <2>3. FlagsInv(d)' /\ Called(d)'
    BY <2>1, <2>2 DEF FlagsInv, Called
  <2> QED
    BY <2>3, CalledWorks
<1>8. CASE PassAborted(d)
  <2>1. pc'[d] = "idle"
    BY <1>1, <1>8 DEF PassAborted, Stop, Goto, TypeOK
  <2>2. /\ UNCHANGED <<socket, topic, notice, dirty, aborted, retry>>
        /\ running'[d] = (dirty[d] /\ Connected(d) /\ ~aborted[d])
        /\ ~former'[d]
        /\ aborted[d] \/ former[d]
    BY <1>8 DEF PassAborted, Live, EndOfDrain, Set, DrainTypes
  <2>3. FlagsInv(d)'
    BY <2>1, <2>2 DEF FlagsInv, Connected
  <2>4. Called(d)'
    BY <2>2 DEF FlagsInv, Called
  <2> QED
    BY <2>3, <2>4, CalledWorks
<1>9. CASE RetryTimer(d)
  <2>1. /\ UNCHANGED <<socket, topic>> /\ pc'[d] = pc[d]
        /\ dirty'[d] /\ ~aborted'[d]
        /\ running'[d] = (running[d] \/ Connected(d))
    BY <1>9 DEF RetryTimer, NewAttempt, WakeWith, Set, DrainTypes, vars, deviceVars, passVars
  <2>2. FlagsInv(d)' /\ Called(d)'
    BY <2>1 DEF FlagsInv, Connected, Called
  <2> QED
    BY <2>2, CalledWorks
<1>10. CASE SocketReady(d)
  <2>1. pc'[d] = pc[d] /\ dirty'[d] /\ running'[d]
    BY <1>10 DEF SocketReady, WakeWith, Set, DrainTypes, vars, deviceVars, passVars
  <2>2. ~aborted'[d]
    BY <1>10 DEF SocketReady, NewAttempt, Set, DrainTypes
  <2>3. FlagsInv(d)' /\ Called(d)'
    BY <2>1, <2>2 DEF FlagsInv, Called
  <2> QED
    BY <2>3, CalledWorks
<1>11. CASE GoOffline(d) \/ RenewSocket(d)
  <2>1. /\ socket'[d] # "up" /\ pc'[d] = pc[d]
        /\ UNCHANGED <<dirty, running, former>>
    BY <1>11 DEF GoOffline, RenewSocket, Set, DrainTypes, passVars
  <2>2. FlagsInv(d)' /\ Called(d)'
    BY <2>1 DEF FlagsInv, Called
  <2> QED
    BY <2>2, CalledWorks
<1>12. CASE CrashHost(d)
  <2>1. pc'[d] = "idle"
    BY <1>1, <1>12 DEF CrashHost, Crash, Stop, Goto, TypeOK
  <2>2. socket'[d] = "down" /\ ~former'[d]
    BY <1>12 DEF CrashHost, Set, DrainTypes
  <2>3. FlagsInv(d)' /\ Called(d)'
    BY <2>1, <2>2 DEF FlagsInv, Called
  <2> QED
    BY <2>3, CalledWorks
<1>13. CASE LateChange(d)
  <2>1. SameFlags(d) /\ SamePass(d) /\ Silent(d)
    BY <1>13 DEF LateChange, LateRequest, SameFlags, SamePass, Silent, engineVars
  <2> QED
    BY <2>1, BystanderWakes
<1> QED
  BY <1>3, <1>4, <1>5, <1>6, <1>7, <1>8, <1>9, <1>10, <1>11, <1>12, <1>13 DEF DrivenStep

LEMMA WakeStep ==
  ASSUME TypeInv, DrainTypes, WakeInv, [ConnNext]_allVars
  PROVE  WakeInv'
<1> SUFFICES ASSUME NEW x \in Device PROVE FlagsInv(x)' /\ WorkInv(x)'
  BY DEF WakeInv
<1>1. FlagsInv(x) /\ WorkInv(x)
  BY DEF WakeInv
<1>2. ASSUME NEW d \in Device, DrivenStep(d)
      PROVE  FlagsInv(x)' /\ WorkInv(x)'
  <2>1. CASE x = d
    BY <1>1, <1>2, <2>1, OwnWakes
  <2>2. CASE x # d
    <3>1. SameFlags(x) /\ SamePass(x) /\ Silent(x)
      BY <1>2, <2>2, OthersSleepOn
    <3> QED
      BY <1>1, <3>1, BystanderWakes
  <2> QED
    BY <2>1, <2>2
<1>3. CASE RelayCleanup /\ UNCHANGED <<deviceVars, connVars>>
  <2>1. SameFlags(x) /\ SamePass(x) /\ Silent(x)
    BY <1>3 DEF deviceVars, engineVars, passVars, connVars, newsVars, SameFlags, SamePass, Silent
  <2> QED
    BY <1>1, <2>1, BystanderWakes
<1>4. CASE UNCHANGED allVars
  <2>1. SameFlags(x) /\ SamePass(x) /\ Silent(x)
    BY <1>4 DEF allVars, vars, deviceVars, engineVars, passVars, connVars, newsVars,
                SameFlags, SamePass, Silent
  <2> QED
    BY <1>1, <2>1, BystanderWakes
<1>5. CASE Announce
  <2>1. SameFlags(x) /\ SamePass(x)
    BY <1>5 DEF Announce, vars, deviceVars, engineVars, passVars, SameFlags, SamePass
  <2> QED
    BY <1>1, <1>5, <2>1, BystanderWakes
<1> QED
  BY <1>2, <1>3, <1>4, <1>5 DEF ConnNext, DrivenStep

\* No device that lacks what the relay has announced, or has an edit it has not
\* reported, is without something that will make its drain begin a pass
\* (document-connection.ts): the safety that EveryoneSettles rests on, for any
\* number of devices and faults.
THEOREM NoneForgotten == ConnSpec => []NoDeviceForgotten
<1>1. ConnInit => TypeInv /\ DrainTypes /\ WakeInv
  <2> SUFFICES ASSUME ConnInit PROVE TypeInv /\ DrainTypes /\ WakeInv
    OBVIOUS
  <2>1. TypeInv /\ DrainTypes
    BY TypesInit, DrainInit DEF ConnInit
  <2>2. ASSUME NEW d \in Device PROVE FlagsInv(d) /\ WorkInv(d)
    BY DEF ConnInit, Init, FlagsInv, WorkInv, Called
  <2> QED
    BY <2>1, <2>2 DEF WakeInv
<1>2. TypeInv /\ DrainTypes /\ WakeInv /\ [ConnNext]_allVars => (TypeInv /\ DrainTypes /\ WakeInv)'
  <2>1. TypeInv /\ [ConnNext]_allVars => TypeInv'
    BY ConnStep, TypeStep DEF TypeInv
  <2> QED
    BY <2>1, DrainStep, WakeStep
<1>3. TypeInv /\ WakeInv => NoDeviceForgotten
  <2> SUFFICES ASSUME TypeInv, WakeInv, NEW d \in Device, LacksNews(d) \/ Pending(d)
               PROVE  Attended(d)
    BY DEF NoDeviceForgotten
  <2>1. FlagsInv(d) /\ WorkInv(d)
    BY DEF WakeInv
  <2>2. CASE pc[d] = "idle"
    <3>1. Called(d)
      BY <2>1, <2>2 DEF WorkInv
    <3> QED
      BY <2>1, <3>1 DEF FlagsInv, Called, Attended
  <2>3. CASE pc[d] # "idle"
    BY <2>1, <2>3 DEF FlagsInv, Attended
  <2> QED
    BY <2>2, <2>3
<1> QED
  BY <1>1, <1>2, <1>3, PTL DEF ConnSpec
=============================================================================
