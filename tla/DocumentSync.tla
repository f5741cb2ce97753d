----------------------------- MODULE DocumentSync -----------------------------
(***************************************************************************)
(* Devices that share one document through the relay:                      *)
(* packages/pstdio-sync/src/relay/document-sync.ts (createDocumentSync).   *)
(*                                                                         *)
(* A device has a durable local document and, in memory, a replica of what *)
(* the relay holds, with the state it was built on and a cursor into the   *)
(* update log.  A pass (synchronize) reads to the end of the log, merges   *)
(* into the local document, sends what the relay lacks, compacts, and      *)
(* acknowledges.  Every await of the pass is a step boundary, so passes of *)
(* several devices, new edits, cleanup, failures and crashes interleave.   *)
(*                                                                         *)
(* Documents are sets of edits: merging is union and the missing update of *)
(* two documents their difference, which is what Yjs promises of both.     *)
(* The revision of the local document is the document itself, for it       *)
(* grows with every change.  Counters behind the compaction limit, update  *)
(* sizes and page sizes are free: data decides them.                       *)
(***************************************************************************)
EXTENDS RelayDocument

CONSTANTS
  Device,
  FaultKinds,  \* "update", "state": an envelope that a device cannot open;
               \* "fail": a request or its answer is lost; "crash";
               \* "offline", "renew": the live socket goes down, or is renewed
  MaxFaults    \* bound: faults in a behaviour

ASSUME FaultsAssumption ==
  /\ FaultKinds \subseteq {"update", "state", "fail", "crash", "offline", "renew"}
  /\ MaxFaults \in Nat

VARIABLES
  local,       \* the durable document of the device
  remote,      \* its replica of the relay
  base,        \* the state the replica was built on
  after,       \* the sequence up to which the replica has read
  incomplete,  \* an envelope could not be opened and was set aside
  downloaded,
  ack,         \* acknowledgedRevision: the local document last found on the relay
  pc,          \* where the pass is
  want,        \* the state whose payload it is about to fetch
  draft,       \* the document a pass is about to send or publish
  late,        \* a request the device gave up on and the relay may still execute
  faults

engineVars == <<remote, base, after, incomplete, downloaded, ack>>
passVars == <<pc, want, draft, late>>
deviceVars == <<local, engineVars, passVars, faults>>
vars == <<relayVars, deviceVars>>

Nothing == [kind |-> "none"]
Requests ==
  {Nothing} \cup [kind : {"update"}, edits : SUBSET Edit]
            \cup [kind : {"state"}, edits : SUBSET Edit, from : 0..MaxStates, cover : 0..MaxUpdates]

TypeOK ==
  /\ RelayTypeOK
  /\ local \in [Device -> SUBSET Edit]
  /\ remote \in [Device -> SUBSET Edit]
  /\ base \in [Device -> 0..MaxStates]
  /\ after \in [Device -> 0..MaxUpdates]
  /\ incomplete \in [Device -> BOOLEAN]
  /\ downloaded \in [Device -> BOOLEAN]
  /\ ack \in [Device -> SUBSET Edit]
  /\ pc \in [Device -> {"idle", "read", "load", "page", "merge", "send", "publish", "compact", "finish"}]
  /\ want \in [Device -> 0..MaxStates]
  /\ draft \in [Device -> SUBSET Edit]
  /\ late \in [Device -> Requests]
  /\ faults \in 0..MaxFaults

Init ==
  /\ RelayInit
  /\ local = [d \in Device |-> {}]
  /\ remote = [d \in Device |-> {}]
  /\ base = [d \in Device |-> 0]
  /\ after = [d \in Device |-> 0]
  /\ incomplete = [d \in Device |-> FALSE]
  /\ downloaded = [d \in Device |-> FALSE]
  /\ ack = [d \in Device |-> {}]
  /\ pc = [d \in Device |-> "idle"]
  /\ want = [d \in Device |-> 0]
  /\ draft = [d \in Device |-> {}]
  /\ late = [d \in Device |-> Nothing]
  /\ faults = MaxFaults

Fault(kind) ==
  /\ kind \in FaultKinds
  /\ faults > 0
  /\ faults' = faults - 1

Goto(d, place) == pc' = [pc EXCEPT ![d] = place]

(* What status() reports. *)
Pending(d) == local[d] # ack[d]
Synced(d) == downloaded[d] /\ ~Pending(d) /\ ~incomplete[d]

-----------------------------------------------------------------------------
(* Users, and the beginning of a pass. *)

MakeEdit(d) ==
  /\ \E e \in Edit :
       /\ \A other \in Device : e \notin local[other]
       /\ local' = [local EXCEPT ![d] = @ \cup {e}]
  /\ UNCHANGED <<relayVars, engineVars, passVars, faults>>

StartPass(d) ==
  /\ pc[d] = "idle"
  /\ Goto(d, "read")
  /\ UNCHANGED <<relayVars, local, engineVars, want, draft, late, faults>>

(* An empty replica: the device has read nothing. *)
EmptyReplica(d) ==
  /\ remote' = [remote EXCEPT ![d] = {}]
  /\ base' = [base EXCEPT ![d] = 0]
  /\ after' = [after EXCEPT ![d] = 0]
  /\ incomplete' = [incomplete EXCEPT ![d] = FALSE]
  /\ downloaded' = [downloaded EXCEPT ![d] = FALSE]
  /\ ack' = [ack EXCEPT ![d] = {}]

(* A new attempt closes the replica and creates it again before its pass. *)
ReopenAndStart(d) ==
  /\ pc[d] = "idle"
  /\ EmptyReplica(d)
  /\ Goto(d, "read")
  /\ UNCHANGED <<relayVars, local, want, draft, late, faults>>

-----------------------------------------------------------------------------
(* read: first a latest state the replica was not built on, then pages. *)

Downloads(d, edits) == remote' = [remote EXCEPT ![d] = edits]
NotDownloaded(d) == downloaded' = [downloaded EXCEPT ![d] = FALSE]

(* The page names another state: it is discarded, and its state loaded. *)
ReadNewState(d) ==
  /\ pc[d] = "read"
  /\ Latest \notin {0, base[d]}
  /\ want' = [want EXCEPT ![d] = Latest]
  /\ Goto(d, "load")
  /\ UNCHANGED <<relayVars, local, engineVars, draft, late, faults>>

(* loadState: whatever comes out of the envelope replaces the replica.  A state
   that cannot be opened is set aside and leaves an empty replica. *)
LoadState(d) ==
  /\ pc[d] = "load"
  /\ want[d] \in keptStates
  /\ \/ /\ Downloads(d, EditsOf(want[d]))
        /\ incomplete' = [incomplete EXCEPT ![d] = FALSE]
        /\ UNCHANGED faults
     \/ /\ Fault("state")
        /\ Downloads(d, {})
        /\ incomplete' = [incomplete EXCEPT ![d] = TRUE]
  /\ NotDownloaded(d)
  /\ base' = [base EXCEPT ![d] = want[d]]
  /\ after' = [after EXCEPT ![d] = Through(want[d])]
  /\ want' = [want EXCEPT ![d] = 0]
  /\ Goto(d, "read")
  /\ UNCHANGED <<relayVars, local, ack, draft, late>>

(* Whatever arrives makes the last download out of date. *)
StillDownloadedMutant(d, page) == downloaded[d]
StillDownloaded(d, page) == downloaded[d] /\ page = {}

(* A page of any length.  Updates that cannot be opened are skipped: the cursor
   moves past them.  An unchanged pass ends at once. *)
ReadPage(d) ==
  /\ pc[d] = "read"
  /\ Latest \in {0, base[d]}
  /\ ~StateRequired(after[d])
  /\ \E n \in after[d]..Last :
       LET page == (after[d] + 1)..n IN
       /\ n = after[d] => n = Last
       /\ \E bad \in SUBSET page :
            /\ IF bad = {} THEN UNCHANGED faults ELSE Fault("update")
            /\ Downloads(d, remote[d] \cup UNION {log[s] : s \in page \ bad})
            /\ incomplete' = [incomplete EXCEPT ![d] = @ \/ bad # {}]
       /\ downloaded' = [downloaded EXCEPT ![d] = StillDownloaded(d, page)]
       /\ after' = [after EXCEPT ![d] = n]
       /\ Goto(d, IF n < Last THEN "page"
                  ELSE IF downloaded'[d] /\ ~Pending(d) THEN "idle" ELSE "merge")
  /\ UNCHANGED <<relayVars, local, base, ack, want, draft, late>>

(* Between two pages: the edits received so far are made durable. *)
SavePage(d) ==
  /\ pc[d] = "page"
  /\ local' = [local EXCEPT ![d] = @ \cup remote[d]]
  /\ Goto(d, "read")
  /\ UNCHANGED <<relayVars, engineVars, want, draft, late, faults>>

-----------------------------------------------------------------------------
(* synchronizeLocal. *)

(* The transaction that merges the replica into the local document.  What it
   returns is a copy: edits made afterwards are not in it. *)
MergeLocal(d) ==
  /\ pc[d] = "merge"
  /\ LET merged == local[d] \cup remote[d] IN
     /\ local' = [local EXCEPT ![d] = merged]
     /\ IF merged \subseteq remote[d]
        THEN /\ Goto(d, "compact")
             /\ UNCHANGED draft
        ELSE /\ Goto(d, "send")
             /\ draft' = [draft EXCEPT ![d] = merged]
  /\ NotDownloaded(d)
  /\ UNCHANGED <<relayVars, remote, base, after, incomplete, ack, want, late, faults>>

Missing(d) == draft[d] \ remote[d]

(* The pass does not jump to the sequence of its receipt: it reads again. *)
SendUpdate(d) ==
  /\ pc[d] = "send"
  /\ AppendUpdate(Missing(d))
  /\ draft' = [draft EXCEPT ![d] = {}]
  /\ Goto(d, "read")
  /\ UNCHANGED <<local, engineVars, want, late, faults>>

(* The update does not fit a frame; the document goes as a latest state. *)
TooLarge(d) ==
  /\ pc[d] = "send"
  /\ Goto(d, "publish")
  /\ UNCHANGED <<relayVars, local, engineVars, want, draft, late, faults>>

(* Compacts an unreadable update away. *)
CoveredMutant(d) == after[d]

(* What a state published by the device claims to cover: an update it had to
   skip stays in the tail. *)
Covered(d) == IF incomplete[d] THEN Through(base[d]) ELSE after[d]

Adopt(d, edits) ==
  /\ Downloads(d, edits)
  /\ base' = [base EXCEPT ![d] = Latest']
  /\ UNCHANGED <<after, incomplete, downloaded, ack>>

Publish(d) ==
  /\ pc[d] = "publish"
  /\ \/ /\ ReplaceState(base[d], draft[d], Covered(d))
        /\ Adopt(d, draft[d])
     \/ /\ base[d] # Latest
        /\ UNCHANGED <<relayVars, engineVars>>
  /\ draft' = [draft EXCEPT ![d] = {}]
  /\ Goto(d, "read")
  /\ UNCHANGED <<local, want, late, faults>>

(* compact: needs a replica without gaps that has outgrown its state. *)
MayCompact(d) == ~incomplete[d] /\ after[d] > Through(base[d])

SkipCompaction(d) ==
  /\ pc[d] = "compact"
  /\ Goto(d, "finish")
  /\ UNCHANGED <<relayVars, local, engineVars, want, draft, late, faults>>

Compact(d) ==
  /\ pc[d] = "compact"
  /\ MayCompact(d)
  /\ \/ /\ ReplaceState(base[d], remote[d], Covered(d))
        /\ Adopt(d, remote[d])
        /\ Goto(d, "finish")
     \/ /\ base[d] # Latest
        /\ Goto(d, "read")
        /\ UNCHANGED <<relayVars, engineVars>>
  /\ UNCHANGED <<local, want, draft, late, faults>>

(* Acknowledges edits made while the pass was running. *)
AcknowledgedMutant(d) == local[d]

(* What is acknowledged: the local document as it is now, unless an edit made
   since the merge is missing from the replica. *)
Acknowledged(d) == IF local[d] \subseteq remote[d] THEN local[d] ELSE ack[d]

FinishPass(d) ==
  /\ pc[d] = "finish"
  /\ downloaded' = [downloaded EXCEPT ![d] = ~incomplete[d]]
  /\ ack' = [ack EXCEPT ![d] = Acknowledged(d)]
  /\ Goto(d, "idle")
  /\ UNCHANGED <<relayVars, local, remote, base, after, incomplete, want, draft, late, faults>>

-----------------------------------------------------------------------------
(* Failures. *)

(* The request the pass is waiting for. *)
Request(d) ==
  CASE pc[d] = "send" -> [kind |-> "update", edits |-> Missing(d)]
    [] pc[d] = "publish" ->
         [kind |-> "state", edits |-> draft[d], from |-> base[d], cover |-> Covered(d)]
    [] pc[d] = "compact" /\ MayCompact(d) ->
         [kind |-> "state", edits |-> remote[d], from |-> base[d], cover |-> Covered(d)]
    [] OTHER -> Nothing

(* The pass throws and leaves the replica as it is.  Its request is lost, or
   under way: the relay may execute it at any time, now or much later. *)
Stop(d) ==
  /\ Goto(d, "idle")
  /\ want' = [want EXCEPT ![d] = 0]
  /\ draft' = [draft EXCEPT ![d] = {}]
  /\ \/ UNCHANGED late
     \/ late[d] = Nothing /\ late' = [late EXCEPT ![d] = Request(d)]

RequestFails(d) ==
  /\ pc[d] # "idle"
  /\ Fault("fail")
  /\ Stop(d)
  /\ UNCHANGED <<relayVars, local, engineVars>>

(* The relay took away what the pass needs: the state it was told to load, or
   updates after a state it already has. *)
RelayRefuses(d) ==
  /\ \/ pc[d] = "load" /\ want[d] \notin keptStates
     \/ pc[d] = "read" /\ Latest \in {0, base[d]} /\ StateRequired(after[d])
  /\ Stop(d)
  /\ UNCHANGED <<relayVars, local, engineVars, faults>>

Crash(d) ==
  /\ Fault("crash")
  /\ Stop(d)
  /\ EmptyReplica(d)
  /\ UNCHANGED <<relayVars, local>>

(* A request whose sender is gone reaches the relay. *)
LateRequest(d) ==
  LET request == late[d] IN
  /\ \/ /\ request.kind = "update"
        /\ AppendUpdate(request.edits)
     \/ /\ request.kind = "state"
        /\ \/ ReplaceState(request.from, request.edits, request.cover)
           \/ ~Replaceable(request.from, request.cover) /\ UNCHANGED relayVars
  /\ late' = [late EXCEPT ![d] = Nothing]
  /\ UNCHANGED <<local, engineVars, pc, want, draft, faults>>

-----------------------------------------------------------------------------
RequestStep(d) ==
  \/ ReadNewState(d) \/ LoadState(d) \/ ReadPage(d)
  \/ SendUpdate(d) \/ TooLarge(d) \/ Publish(d) \/ Compact(d)

LocalStep(d) == SavePage(d) \/ MergeLocal(d) \/ SkipCompaction(d) \/ FinishPass(d)

Next ==
  \/ \E d \in Device :
       \/ MakeEdit(d) \/ StartPass(d) \/ ReopenAndStart(d)
       \/ RequestStep(d) \/ LocalStep(d)
       \/ RequestFails(d) \/ RelayRefuses(d) \/ Crash(d) \/ LateRequest(d)
  \/ RelayCleanup /\ UNCHANGED deviceVars

Spec == Init /\ [][Next]_vars

-----------------------------------------------------------------------------
(* Correctness. *)

(* What every device that reads from nothing gets is what the abstract document
   shares: document-sync implements SharedDocument.  Compaction, cleanup, lost
   answers, late requests and crashes never take an edit back that some device
   was told is synced, and no device loses what it has. *)
Shared == INSTANCE SharedDocument
            WITH document <- local, shared <- RelayEdits, reported <- ack
ImplementsSharedDocument == Shared!DocSpec

(* A latest state holds the edits of every update it covers, so that removing
   those updates loses nothing (document-sync.ts, replace and compact). *)
StateHoldsWhatItCovers ==
  \A id \in 1..Latest : \A s \in 1..Through(id) : log[s] \subseteq EditsOf(id)

(* Whoever reports edits as synced can rely on the relay to have them
   (document-sync.ts, status and acknowledge). *)
SyncedIsOnRelay == \A d \in Device : ack[d] \subseteq RelayEdits

(* The relay still stores its latest state and every update after it: whatever
   cleanup and retirement took, a device can always catch up from there. *)
TailIsStored ==
  /\ Latest = 0 \/ Latest \in keptStates
  /\ Newer(Through(Latest)) \subseteq kept

(* Between passes, a device that reports a complete download with nothing
   pending has merged all of its replica and added nothing to it. *)
SyncedMeansSame == \A d \in Device : pc[d] = "idle" /\ Synced(d) => local[d] = remote[d]
=============================================================================
