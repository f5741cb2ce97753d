---------------------------- MODULE SessionQueue ----------------------------
(***************************************************************************)
(* The durable session queue and the scheduler that drains it.             *)
(*                                                                         *)
(* Rows of `sessions` and `session_queue_entries` survive a restart.  The  *)
(* scheduling lock, request handlers, drains, store owners and launches    *)
(* live in the host process and do not.  One action is one database        *)
(* transaction, or one stretch of code between two awaits.                 *)
(***************************************************************************)
EXTENDS Integers, FiniteSets

CONSTANTS
  Session,      \* session ids
  Client,       \* request handlers; each serves one request
  Drain,        \* slots for concurrently running drains (a bound)
  MaxEntry,     \* bound on the queue positions handed out
  Limit,        \* max_concurrent_sessions
  Ops,          \* the kinds of request and event a run of the model allows
  MaxRestarts,  \* bound on host crashes
  MaxRetries,   \* bound on retryable workspace failures
  Nobody,       \* holder of the free scheduling lock
  NoSession     \* no session

Pos == 1..MaxEntry
AllOps == {"create", "followUp", "cancel", "remove", "patch", "abort",
           "hookFails", "files", "fails", "reattach"}

ASSUME SlotsAssumption ==
  /\ MaxEntry \in Nat
  /\ Limit \in Nat \ {0}
  /\ MaxRestarts \in Nat
  /\ MaxRetries \in Nat
  /\ Client \cap Drain = {}
  /\ Nobody \notin Client \cup Drain
  /\ NoSession \notin Session
ASSUME FiniteAssumption == IsFiniteSet(Session)

VARIABLES
  status,     \* sessions.status; "none" before the row exists
  run,        \* sessions.last_request_started as an ordinal, 0 for null
  mark,       \* per queue position: what became of the entry
  of,         \* session_queue_entries.session_id
  files,      \* the entry submits attachments
  nextPos,    \* the identity sequence of queue_position
  lock,       \* who runs inside withSchedulingLock
  client,     \* the request handlers
  drain,      \* the drains
  owner,      \* SessionStore: run whose launch owns the session's slot, 0 for none
  stopping,   \* runs whose ActiveSession has cancellationRequested set
  launches,   \* spawn, resume and reattach calls and the harness runs they made
  broken,     \* runs whose conversation never became ready and that are waited for
  cleanup,    \* entries whose removal was issued after acceptance
  recovery,   \* the startup sweep
  restarts, retries,
  handed      \* how often the prompt of an entry was given to a harness

dbVars == <<status, run, mark, of, files, nextPos>>
hostVars == <<owner, stopping, launches, broken, cleanup>>
auxVars == <<recovery, restarts, retries>>
vars == <<dbVars, lock, client, drain, hostVars, auxVars, handed>>

-----------------------------------------------------------------------------
Statuses == {"none", "queued", "in_progress", "completed", "failed",
             "cancelled", "disconnected"}
Terminal == {"completed", "failed", "cancelled", "disconnected"}
RequeueableMutant == Terminal
Requeueable == Terminal \ {"cancelled"}
Marks == {"unused", "pending", "dispatched", "removed"}
Phases == {"preparing", "starting", "running", "exiting", "unready", "failing",
           "unsaved", "failed", "closing"}

ClientPc == {"idle", "create", "createFull", "created", "dropQueued", "insert", "capacity",
             "queue", "resume", "launch", "undo", "stop", "stopQueued",
             "awaitDrain", "done"}
DrainPc == {"idle", "want", "requeue", "scan", "admit", "claim", "launch"}

IdleClient == [pc |-> "idle", s |-> NoSession, run |-> 0, own |-> 0,
               pos |-> 0]
IdleDrain == [pc |-> "idle", rel |-> NoSession, todo |-> {}, cur |-> 0,
              only |-> Pos]
ServedClient == [IdleClient EXCEPT !.pc = "done"]
NoRecovery == [pc |-> "off", claims |-> {}, only |-> {}, stale |-> {}]

Clients == [pc: ClientPc, s: Session \cup {NoSession}, run: Nat, own: Nat,
            pos: Pos \cup {0}]
Drains == [pc: DrainPc, rel: Session \cup {NoSession}, todo: SUBSET Pos,
           cur: Pos \cup {0}, only: SUBSET Pos]
Launches == [s: Session, run: Nat, pos: Pos \cup {0}, phase: Phases,
             queued: BOOLEAN, prev: Nat]
Recoveries == [pc: {"off", "claims", "orphans"}, claims: SUBSET Pos,
               only: SUBSET Pos, stale: SUBSET (Session \X Nat)]

TypeOK ==
  /\ status \in [Session -> Statuses]
  /\ run \in [Session -> Nat]
  /\ mark \in [Pos -> Marks]
  /\ of \in [Pos -> Session \cup {NoSession}]
  /\ files \in [Pos -> BOOLEAN]
  /\ nextPos \in Nat \ {0}
  /\ lock \in Client \cup Drain \cup {Nobody}
  /\ client \in [Client -> Clients]
  /\ drain \in [Drain -> Drains]
  /\ owner \in [Session -> Nat]
  /\ stopping \subseteq Session \X Nat
  /\ launches \subseteq Launches
  /\ broken \subseteq Session \X Nat
  /\ cleanup \subseteq Pos
  /\ recovery \in Recoveries
  /\ restarts \in Nat
  /\ retries \in Nat
  /\ handed \in [Pos -> Nat]

Init ==
  /\ status = [s \in Session |-> "none"]
  /\ run = [s \in Session |-> 0]
  /\ mark = [p \in Pos |-> "unused"]
  /\ of = [p \in Pos |-> NoSession]
  /\ files = [p \in Pos |-> FALSE]
  /\ nextPos = 1
  /\ lock = Nobody
  /\ client = [c \in Client |-> IdleClient]
  /\ drain = [d \in Drain |-> IdleDrain]
  /\ owner = [s \in Session |-> 0]
  /\ stopping = {}
  /\ launches = {}
  /\ broken = {}
  /\ cleanup = {}
  /\ recovery = NoRecovery
  /\ restarts = 0
  /\ retries = 0
  /\ handed = [p \in Pos |-> 0]

-----------------------------------------------------------------------------
(* Shared pieces of the handlers. *)

Active == {s \in Session : status[s] = "in_progress"}
AtCapacity == Cardinality(Active) >= Limit
Pending == {p \in Pos : mark[p] = "pending"}
PendingOf(s) == {p \in Pending : of[p] = s}

(* A new row of session_queue_entries, pending or already dispatch-started. *)
Insert(s, m) ==
  /\ nextPos \in Pos
  /\ \E f \in IF "files" \in Ops THEN BOOLEAN ELSE {FALSE} :
       files' = [files EXCEPT ![nextPos] = f]
  /\ mark' = [mark EXCEPT ![nextPos] = m]
  /\ of' = [of EXCEPT ![nextPos] = s]
  /\ nextPos' = nextPos + 1

WithoutEntriesOfMutant(s) ==
  [p \in Pos |-> IF of[p] = s THEN status[s] ELSE mark[p]]

(* Deleting every row of a session deletes the dispatch-started ones too. *)
WithoutEntriesOf(s) ==
  [p \in Pos |-> IF of[p] = s /\ mark[p] # "unused" THEN "removed" ELSE mark[p]]

(* DELETE ... WHERE queue_position = p, whatever state the row is in. *)
WithoutEntry(p) ==
  IF p \in Pos /\ mark[p] # "unused" THEN [mark EXCEPT ![p] = "removed"] ELSE mark

StartDrainMutant(rel, only) ==
  \E d \in Drain :
    /\ drain[d].pc = "idle"
    /\ drain' = [drain EXCEPT ![d] =
          [pc |-> "want", rel |-> NoSession, todo |-> {}, cur |-> 0, only |-> only]]

StartDrain(rel, only) ==
  \E d \in Drain :
    /\ drain[d].pc = "idle"
    /\ drain' = [drain EXCEPT ![d] =
          [pc |-> "want", rel |-> rel, todo |-> {}, cur |-> 0, only |-> only]]

(* updateSessionStatus to a terminal status, followed by the drain that
   transitionStatus starts for the released session.  Only a user stop cancels
   what is cancelled already. *)
EndRun(s, st, userStop) ==
  /\ status' = [status EXCEPT ![s] = st]
  /\ mark' = IF \/ st = "cancelled" /\ (userStop \/ status[s] # "cancelled")
                \/ status[s] = "queued"
             THEN WithoutEntriesOf(s) ELSE mark
  /\ StartDrain(s, Pos)
  /\ UNCHANGED <<run, of, files, nextPos>>

(* initializeConversation: the launch takes the session's slot in the store,
   and remembers whose slot it was. *)
Launch(s, r, p, ph, q) ==
  /\ launches' = launches \cup
       {[s |-> s, run |-> r, pos |-> p, phase |-> ph, queued |-> q, prev |-> owner[s]]}
  /\ owner' = [owner EXCEPT ![s] = r]
  /\ UNCHANGED <<stopping, broken, cleanup>>

MoveLaunch(l, ph) == launches' = (launches \ {l}) \cup {[l EXCEPT !.phase = ph]}

Release(c) ==
  /\ lock' = Nobody
  /\ client' = [client EXCEPT ![c] = ServedClient]

Enter(c, next) ==
  /\ client[c].pc = "idle"
  /\ lock = Nobody
  /\ lock' = c
  /\ client' = [client EXCEPT ![c] = next]

-----------------------------------------------------------------------------
(* createSession *)

CreateEnter(c, s) ==
  /\ "create" \in Ops
  /\ status[s] = "none"
  /\ Enter(c, [IdleClient EXCEPT !.s = s, !.pc =
               IF AtCapacity THEN "createFull" ELSE "create"])
  /\ UNCHANGED <<dbVars, drain, hostVars, auxVars, handed>>

CreateQueued(c) ==
  LET s == client[c].s IN
  /\ client[c].pc = "createFull"
  /\ status' = [status EXCEPT ![s] = "queued"]
  /\ Insert(s, "pending")
  /\ \/ Release(c)
     \/ /\ Ops \cap {"abort", "hookFails"} # {}
        /\ client' = [client EXCEPT ![c].pc = "dropQueued"]
        /\ UNCHANGED lock
  /\ UNCHANGED <<run, drain, hostVars, auxVars, handed>>

(* onCreated failed, or the request was aborted: cancel() has found the session
   queued.  cancelQueued writes nothing when another cancel came first. *)
CreateDropQueued(c) ==
  LET s == client[c].s IN
  /\ client[c].pc = "dropQueued"
  /\ \/ /\ status[s] = "queued"
        /\ status' = [status EXCEPT ![s] = "cancelled"]
        /\ mark' = WithoutEntriesOf(s)
     \/ /\ status[s] # "queued"
        /\ UNCHANGED <<status, mark>>
  /\ Release(c)
  /\ UNCHANGED <<run, of, files, nextPos, drain, hostVars, auxVars, handed>>

CreateStarted(c) ==
  LET s == client[c].s IN
  /\ client[c].pc = "create"
  /\ status' = [status EXCEPT ![s] = "in_progress"]
  /\ run' = [run EXCEPT ![s] = @ + 1]
  /\ client' = [client EXCEPT ![c].pc = "created", ![c].run = run[s] + 1]
  /\ UNCHANGED <<mark, of, files, nextPos, lock, drain, hostVars, auxVars, handed>>

CreateHookFailsMutant(c) ==
  /\ "hookFails" \in Ops
  /\ client[c].pc = "created"
  /\ EndRun(client[c].s, "failed", FALSE)
  /\ client' = [client EXCEPT ![c].pc = "awaitDrain"]
  /\ UNCHANGED <<lock, hostVars, auxVars, handed>>

(* runOnCreated failed: the session fails without draining under the lock;
   the handler awaits the drain that follows after it has left the lock. *)
CreateHookFails(c) ==
  LET s == client[c].s IN
  /\ "hookFails" \in Ops
  /\ client[c].pc = "created"
  /\ status' = [status EXCEPT ![s] = "failed"]
  /\ mark' = IF status[s] = "queued" THEN WithoutEntriesOf(s) ELSE mark
  /\ lock' = Nobody
  /\ client' = [client EXCEPT ![c].pc = "awaitDrain"]
  /\ StartDrain(NoSession, Pos)
  /\ UNCHANGED <<run, of, files, nextPos, hostVars, auxVars, handed>>

(* cancel() of a session it does not find queued: aborted after the row was
   created, or dropped after another request ended it.  It writes, and awaits
   the drain, inside the scheduling lock. *)
CancelsInLock(c) ==
  \/ "abort" \in Ops /\ client[c].pc = "created"
  \/ client[c].pc = "dropQueued" /\ status[client[c].s] # "queued"

CreateAborted(c) ==
  LET s == client[c].s IN
  /\ CancelsInLock(c)
  /\ EndRun(s, "cancelled", TRUE)
  /\ client' = [client EXCEPT ![c].pc = "awaitDrain"]
  /\ UNCHANGED <<lock, hostVars, auxVars, handed>>

(* The drain it awaits is over and the request fails.  An aborted create has
   waited inside the lock. *)
CreateThrows(c) ==
  /\ client[c].pc = "awaitDrain"
  /\ \A d \in Drain : drain[d].rel # client[c].s
  /\ lock' = IF lock = c THEN Nobody ELSE lock
  /\ client' = [client EXCEPT ![c] = ServedClient]
  /\ UNCHANGED <<dbVars, drain, hostVars, auxVars, handed>>

(* The first request is saved as already dispatched, then launched. *)
CreateLaunch(c) ==
  LET s == client[c].s IN
  /\ client[c].pc = "created"
  /\ Insert(s, "dispatched")
  /\ Launch(s, client[c].run, nextPos, "preparing", FALSE)
  /\ Release(c)
  /\ UNCHANGED <<status, run, drain, auxVars, handed>>

-----------------------------------------------------------------------------
(* startOrQueueExisting for an ordinary follow-up *)

FollowUpEnter(c, s) ==
  /\ "followUp" \in Ops
  /\ status[s] # "none"
  /\ Enter(c, [IdleClient EXCEPT !.s = s, !.pc =
               IF status[s] \in Terminal THEN "capacity" ELSE "insert"])
  /\ UNCHANGED <<dbVars, drain, hostVars, auxVars, handed>>

(* insertEntryForActive refuses only a session cancelled meanwhile. *)
FollowUpInsert(c) ==
  LET s == client[c].s IN
  /\ client[c].pc = "insert"
  /\ \/ /\ status[s] = "cancelled"
        /\ Release(c)
        /\ UNCHANGED dbVars
     \/ /\ status[s] # "cancelled"
        /\ Insert(s, "pending")
        /\ UNCHANGED <<status, run>>
        /\ \/ Release(c)
           \/ /\ "abort" \in Ops
              /\ client' = [client EXCEPT ![c].pc = "undo", ![c].pos = nextPos]
              /\ UNCHANGED lock
  /\ UNCHANGED <<drain, hostVars, auxVars, handed>>

FollowUpCapacityMutant(c) ==
  /\ client[c].pc = "capacity"
  /\ client' = [client EXCEPT ![c].pc = "resume"]
  /\ UNCHANGED <<dbVars, lock, drain, hostVars, auxVars, handed>>

FollowUpCapacity(c) ==
  /\ client[c].pc = "capacity"
  /\ client' = [client EXCEPT ![c].pc = IF AtCapacity THEN "queue" ELSE "resume"]
  /\ UNCHANGED <<dbVars, lock, drain, hostVars, auxVars, handed>>

(* queueExistingWithEntry moves the session to queued from any status. *)
FollowUpQueue(c) ==
  LET s == client[c].s IN
  /\ client[c].pc = "queue"
  /\ status' = [status EXCEPT ![s] = "queued"]
  /\ Insert(s, "pending")
  /\ \/ Release(c)
     \/ /\ "abort" \in Ops
        /\ client' = [client EXCEPT ![c].pc = "undo", ![c].pos = nextPos]
        /\ UNCHANGED lock
  /\ UNCHANGED <<run, drain, hostVars, auxVars, handed>>

(* insertAbortAwareFollowUp removes the entry it inserted, and only that. *)
FollowUpUndo(c) ==
  /\ client[c].pc = "undo"
  /\ mark' = WithoutEntry(client[c].pos)
  /\ Release(c)
  /\ UNCHANGED <<status, run, of, files, nextPos, drain, hostVars, auxVars, handed>>

FollowUpResume(c) ==
  LET s == client[c].s IN
  /\ client[c].pc = "resume"
  /\ status' = [status EXCEPT ![s] = "in_progress"]
  /\ run' = [run EXCEPT ![s] = @ + 1]
  /\ client' = [client EXCEPT ![c].pc = "launch", ![c].run = run[s] + 1]
  /\ UNCHANGED <<mark, of, files, nextPos, lock, drain, hostVars, auxVars, handed>>

(* A follow-up with attachments is saved as dispatched; one without is held
   in memory only. *)
FollowUpLaunch(c) ==
  LET s == client[c].s IN
  /\ client[c].pc = "launch"
  /\ \/ /\ "files" \in Ops
        /\ Insert(s, "dispatched")
        /\ files'[nextPos]
        /\ Launch(s, client[c].run, nextPos, "preparing", FALSE)
     \/ /\ Launch(s, client[c].run, 0, "preparing", FALSE)
        /\ UNCHANGED <<mark, of, files, nextPos>>
  /\ Release(c)
  /\ UNCHANGED <<status, run, drain, auxVars, handed>>

-----------------------------------------------------------------------------
(* Requests outside the scheduler *)

(* cancel() outside the scheduling lock: read the row, mark the owner. *)
CancelRead(c, s) ==
  /\ "cancel" \in Ops
  /\ client[c].pc = "idle"
  /\ status[s] # "none"
  /\ client' = [client EXCEPT ![c] =
       [IdleClient EXCEPT !.s = s, !.run = run[s], !.own = owner[s],
        !.pc = IF status[s] = "queued" THEN "stopQueued" ELSE "stop"]]
  /\ stopping' = IF status[s] # "queued" /\ owner[s] # 0
                 THEN stopping \cup {<<s, owner[s]>>} ELSE stopping
  /\ UNCHANGED <<dbVars, lock, drain, owner, launches, broken, cleanup, auxVars, handed>>

(* cancelQueued loses to a claim that came first and reports nothing. *)
CancelQueued(c) ==
  LET s == client[c].s IN
  /\ client[c].pc = "stopQueued"
  /\ \/ /\ status[s] = "queued"
        /\ status' = [status EXCEPT ![s] = "cancelled"]
        /\ mark' = WithoutEntriesOf(s)
     \/ /\ status[s] # "queued"
        /\ UNCHANGED <<status, mark>>
  /\ client' = [client EXCEPT ![c] = ServedClient]
  /\ UNCHANGED <<run, of, files, nextPos, lock, drain, hostVars, auxVars, handed>>

CancelOwns(c) ==
  LET s == client[c].s IN
  owner[s] \in {0, client[c].own} /\ run[s] = client[c].run

(* After stop() resolved: write only if neither the owner nor the run moved. *)
CancelWrite(c) ==
  LET s == client[c].s IN
  /\ client[c].pc = "stop"
  /\ \/ /\ CancelOwns(c)
        /\ EndRun(s, "cancelled", TRUE)
     \/ /\ ~CancelOwns(c)
        /\ UNCHANGED <<dbVars, drain>>
  /\ client' = [client EXCEPT ![c] = ServedClient]
  /\ UNCHANGED <<lock, hostVars, auxVars, handed>>

(* DELETE /sessions/{id}/queued-follow-ups/{pos} *)
RemoveQueued(c, p) ==
  /\ "remove" \in Ops
  /\ client[c].pc = "idle"
  /\ lock = Nobody
  /\ mark[p] = "pending"
  /\ mark' = WithoutEntry(p)
  /\ client' = [client EXCEPT ![c] = ServedClient]
  /\ UNCHANGED <<status, run, of, files, nextPos, lock, drain, hostVars, auxVars, handed>>

(* PATCH /sessions/{id}/status with a terminal status other than cancelled. *)
PatchStatus(c, s, st) ==
  /\ "patch" \in Ops
  /\ client[c].pc = "idle"
  /\ status[s] \notin {"none", st}
  /\ EndRun(s, st, FALSE)
  /\ client' = [client EXCEPT ![c] = ServedClient]
  /\ UNCHANGED <<lock, hostVars, auxVars, handed>>

-----------------------------------------------------------------------------
(* createSessionQueueDrain and dispatchQueuedEntry *)

MoveDrain(d, pc, todo, cur) ==
  drain' = [drain EXCEPT ![d] = [pc |-> pc, rel |-> drain[d].rel, todo |-> todo,
                                 cur |-> cur, only |-> drain[d].only]]
Scan(d) == MoveDrain(d, "scan", drain[d].todo, 0)

ListedMutant(d) ==
  {p \in Pending \cap drain[d].only : drain[d].rel \in {NoSession, of[p]}}

Listed(d) == Pending \cap drain[d].only

OwesRequeueMutant(s) == s # NoSession /\ status[s] \in Requeueable
OwesRequeue(s) ==
  s # NoSession /\ status[s] \in Requeueable /\ PendingOf(s) # {}

DrainList(d) ==
  /\ drain[d].pc = "want"
  /\ lock = Nobody
  /\ \/ /\ OwesRequeue(drain[d].rel)
        /\ lock' = d
        /\ MoveDrain(d, "requeue", drain[d].todo, drain[d].cur)
     \/ /\ ~OwesRequeue(drain[d].rel)
        /\ MoveDrain(d, "scan", Listed(d), 0)
        /\ UNCHANGED lock
  /\ UNCHANGED <<dbVars, client, hostVars, auxVars, handed>>

DrainRequeue(d) ==
  LET s == drain[d].rel IN
  /\ drain[d].pc = "requeue"
  /\ status' = IF status[s] \in Requeueable
               THEN [status EXCEPT ![s] = "queued"] ELSE status
  /\ MoveDrain(d, "scan", Listed(d), 0)
  /\ lock' = Nobody
  /\ UNCHANGED <<run, mark, of, files, nextPos, client, hostVars, auxVars, handed>>

(* Outside the lock: skip entries of sessions that are not queued. *)
DrainNext(d) ==
  /\ drain[d].pc = "scan"
  /\ \/ /\ drain[d].todo = {}
        /\ drain' = [drain EXCEPT ![d] = IdleDrain]
     \/ \E p \in drain[d].todo :
          /\ \A q \in drain[d].todo : p <= q
          /\ IF of[p] \in Session /\ status[of[p]] = "queued"
             THEN MoveDrain(d, "admit", drain[d].todo \ {p}, p)
             ELSE MoveDrain(d, "scan", drain[d].todo \ {p}, 0)
  /\ UNCHANGED <<dbVars, lock, client, hostVars, auxVars, handed>>

(* Inside the lock: read the status again and the capacity. *)
DrainAdmitMutant(d) ==
  LET s == of[drain[d].cur] IN
  /\ drain[d].pc = "admit"
  /\ \/ /\ status[s] = "queued" /\ ~AtCapacity
        /\ MoveDrain(d, "claim", drain[d].todo, drain[d].cur)
     \/ /\ status[s] # "queued" \/ AtCapacity
        /\ Scan(d)
  /\ UNCHANGED <<dbVars, lock, client, hostVars, auxVars, handed>>

DrainAdmit(d) ==
  LET s == of[drain[d].cur] IN
  /\ drain[d].pc = "admit"
  /\ lock = Nobody
  /\ \/ /\ status[s] = "queued" /\ ~AtCapacity
        /\ lock' = d
        /\ MoveDrain(d, "claim", drain[d].todo, drain[d].cur)
     \/ /\ status[s] # "queued" \/ AtCapacity
        /\ Scan(d)
        /\ UNCHANGED lock
  /\ UNCHANGED <<dbVars, client, hostVars, auxVars, handed>>

Claimable(s, p) == status[s] = "queued" /\ mark[p] = "pending"

(* claimQueuedForDispatch: both rows change, or neither. *)
DrainClaim(d) ==
  LET p == drain[d].cur
      s == of[p]
  IN
  /\ drain[d].pc = "claim"
  /\ \/ /\ Claimable(s, p)
        /\ status' = [status EXCEPT ![s] = "in_progress"]
        /\ run' = [run EXCEPT ![s] = @ + 1]
        /\ mark' = [mark EXCEPT ![p] = "dispatched"]
        /\ MoveDrain(d, "launch", drain[d].todo, drain[d].cur)
        /\ UNCHANGED lock
     \/ /\ ~Claimable(s, p)
        /\ Scan(d)
        /\ lock' = Nobody
        /\ UNCHANGED <<status, run, mark>>
  /\ UNCHANGED <<of, files, nextPos, client, hostVars, auxVars, handed>>

(* The attachments are resolved before the launch takes the slot; when that
   fails the launch fails without ever owning it. *)
DrainLaunch(d) ==
  LET p == drain[d].cur
      s == of[p]
  IN
  /\ drain[d].pc = "launch"
  /\ \/ Launch(s, run[s], p, "preparing", TRUE)
     \/ /\ "fails" \in Ops
        /\ files[p]
        /\ launches' = launches \cup
             {[s |-> s, run |-> run[s], pos |-> p, phase |-> "unready", queued |-> TRUE,
               prev |-> 0]}
        /\ UNCHANGED <<owner, stopping, broken, cleanup>>
  /\ Scan(d)
  /\ lock' = Nobody
  /\ UNCHANGED <<dbVars, client, auxVars, handed>>

-----------------------------------------------------------------------------
(* spawnAgentSession, resumeAgentSession, trackHarnessSession *)

OwnsSlot(l) == owner[l.s] = l.run /\ <<l.s, l.run>> \notin stopping

Predecessor(l) == <<l.s, l.prev>>
AwaitsPredecessor(l) ==
  \E k \in launches : k.s = l.s /\ k.run = l.prev /\ k.phase = "preparing"

(* Initialization waited for the conversation of the predecessor and succeeded;
   harness.start or harness.resume is called. *)
HarnessStart(l) ==
  /\ l.phase = "preparing"
  /\ OwnsSlot(l)
  /\ ~AwaitsPredecessor(l)
  /\ Predecessor(l) \notin broken
  /\ MoveLaunch(l, "starting")
  /\ handed' = IF l.pos \in Pos THEN [handed EXCEPT ![l.pos] = @ + 1] ELSE handed
  /\ UNCHANGED <<dbVars, lock, client, drain, owner, stopping, broken, cleanup, auxVars>>

(* setSession accepts the run; an entry without attachments may now go. *)
HarnessAccept(l) ==
  /\ l.phase = "starting"
  /\ OwnsSlot(l)
  /\ status[l.s] # "cancelled"
  /\ MoveLaunch(l, "running")
  /\ cleanup' = IF l.pos \in Pos /\ ~files[l.pos] THEN cleanup \cup {l.pos} ELSE cleanup
  /\ UNCHANGED <<dbVars, lock, client, drain, owner, stopping, broken, auxVars, handed>>

RemoveAccepted(p) ==
  /\ p \in cleanup
  /\ mark' = WithoutEntry(p)
  /\ cleanup' = cleanup \ {p}
  /\ UNCHANGED <<status, run, of, files, nextPos, lock, client, drain,
                 owner, stopping, launches, broken, auxVars, handed>>

(* The slot is given up only by the launch that holds it. *)
GiveUpSlot(l) == owner' = [owner EXCEPT ![l.s] = IF @ = l.run THEN 0 ELSE @]
Forget(l) == stopping' = stopping \ {<<l.s, l.run>>}

(* Whoever waits for the conversation of the launch will never get it. *)
NeverReady(l) ==
  broken' = broken \cup {Predecessor(k) : k \in {k \in launches : k.s = l.s /\ k.prev = l.run}}

(* A failed initialization hands the slot back to the predecessor, even to one
   that is gone. *)
HandBackSlot(l) == owner' = [owner EXCEPT ![l.s] = IF @ = l.run THEN l.prev ELSE @]

(* Initialization failed, or the launch lost its slot or was cancelled during it. *)
InitFails(l) ==
  /\ l.phase = "preparing"
  /\ ~AwaitsPredecessor(l)
  /\ "fails" \in Ops \/ ~OwnsSlot(l) \/ Predecessor(l) \in broken
  /\ HandBackSlot(l)
  /\ NeverReady(l)
  /\ MoveLaunch(l, "unready")
  /\ UNCHANGED <<dbVars, lock, client, drain, stopping, cleanup, auxVars, handed>>

(* The harness failed to start; or it started too late, is stopped again, and
   the conversation leaves the store. *)
StartFails(l) ==
  /\ l.phase = "starting"
  /\ \/ "fails" \in Ops /\ UNCHANGED owner
     \/ (~OwnsSlot(l) \/ status[l.s] = "cancelled") /\ GiveUpSlot(l)
  /\ MoveLaunch(l, "failing")
  /\ UNCHANGED <<dbVars, lock, client, drain, stopping, broken, cleanup, auxVars, handed>>

(* cleanUpFailedStart saves the conversation if it still has the slot, and
   removes the submitted entry unless that holds attachments not saved ... *)
FailRemovesEntry(l) ==
  LET saved == l.phase = "failing" /\ owner[l.s] = l.run IN
  /\ l.phase \in {"unready", "failing"}
  /\ MoveLaunch(l, IF saved THEN "failed" ELSE "unsaved")
  /\ \/ mark' = WithoutEntry(l.pos)
     \/ /\ l.phase = "failing" /\ ~saved
        /\ l.pos \in Pos /\ files[l.pos]
        /\ UNCHANGED mark
  /\ UNCHANGED <<status, run, of, files, nextPos, lock, client, drain,
                 owner, stopping, broken, cleanup, auxVars, handed>>

(* ... and fails the run, if it still is the run that was launched.  A
   conversation that was not saved stays in the store. *)
FailWrites(l) == run[l.s] = l.run

FailEndsRun(l) ==
  /\ \/ l.phase = "failed" /\ MoveLaunch(l, "closing") /\ UNCHANGED stopping
     \/ l.phase = "unsaved" /\ launches' = launches \ {l} /\ Forget(l)
  /\ \/ /\ FailWrites(l)
        /\ EndRun(l.s, IF <<l.s, l.run>> \in stopping THEN "cancelled" ELSE "failed", FALSE)
     \/ /\ ~FailWrites(l)
        /\ UNCHANGED <<dbVars, drain>>
  /\ UNCHANGED <<lock, client, owner, broken, cleanup, auxVars, handed>>

(* After the status write and its drain the entry leaves the store. *)
LaunchCloses(l) ==
  /\ l.phase = "closing"
  /\ launches' = launches \ {l}
  /\ GiveUpSlot(l)
  /\ Forget(l)
  /\ UNCHANGED <<dbVars, lock, client, drain, broken, cleanup, auxVars, handed>>

(* The guards of recoverQueuedDispatchClaim. *)
ClaimIsStale(s, p, r) ==
  /\ status[s] = "in_progress"
  /\ run[s] = r
  /\ mark[p] = "dispatched"

(* WorkspaceSessionNotReadyError, retryable: store.remove names no expected
   owner, and the claim is released for the next drain. *)
LaunchRetries(l) ==
  LET s == l.s IN
  /\ retries < MaxRetries
  /\ retries' = retries + 1
  /\ l.phase = "preparing"
  /\ l.queued
  /\ ~AwaitsPredecessor(l)
  /\ Predecessor(l) \notin broken
  /\ launches' = launches \ {l}
  /\ owner' = [owner EXCEPT ![s] = 0]
  /\ NeverReady(l)
  /\ Forget(l)
  /\ \/ /\ ClaimIsStale(s, l.pos, l.run)
        /\ mark' = [mark EXCEPT ![l.pos] = "pending"]
        /\ status' = [status EXCEPT ![s] = "queued"]
        /\ StartDrain(NoSession, Pos)
     \/ /\ ~ClaimIsStale(s, l.pos, l.run)
        /\ UNCHANGED <<status, mark, drain>>
  /\ UNCHANGED <<run, of, files, nextPos, lock, client, cleanup,
                 recovery, restarts, handed>>

(* The harness exited; its tracker saves the conversation, which lets an
   entry with attachments go, and reads the status. *)
ExitRead(l) ==
  LET owns == owner[l.s] = l.run IN
  /\ l.phase = "running"
  /\ \/ /\ owns
        /\ status[l.s] # "cancelled"
        /\ MoveLaunch(l, "exiting")
        /\ UNCHANGED <<owner, stopping>>
     \/ /\ ~owns \/ status[l.s] = "cancelled"
        /\ launches' = launches \ {l}
        /\ GiveUpSlot(l)
        /\ Forget(l)
  /\ mark' = IF l.pos \in Pos /\ owns THEN WithoutEntry(l.pos) ELSE mark
  /\ UNCHANGED <<status, run, of, files, nextPos, lock, client, drain,
                 broken, cleanup, auxVars, handed>>

(* transitionStatus(exit.status) under expectedOwner: the status is not read
   again. *)
ExitWrite(l) ==
  /\ l.phase = "exiting"
  /\ MoveLaunch(l, "closing")
  /\ \/ /\ owner[l.s] = l.run
        /\ \E st \in {"completed", "failed"} : EndRun(l.s, st, FALSE)
     \/ /\ owner[l.s] # l.run
        /\ UNCHANGED <<dbVars, drain>>
  /\ UNCHANGED <<lock, client, owner, stopping, broken, cleanup, auxVars, handed>>

-----------------------------------------------------------------------------
(* Crash, restart, and the startup sweep *)

StaleRunsMutant == {<<s, run[s]>> : s \in
  {s \in Active : \E p \in Pos : of[p] = s /\ mark[p] = "dispatched"}}
StaleRuns == {<<s, run[s]>> : s \in Active}

Restart ==
  /\ restarts < MaxRestarts
  /\ restarts' = restarts + 1
  /\ lock' = Nobody
  /\ client' = [c \in Client |->
       IF client[c].pc = "idle" THEN IdleClient ELSE ServedClient]
  /\ drain' = [d \in Drain |-> IdleDrain]
  /\ owner' = [s \in Session |-> 0]
  /\ stopping' = {}
  /\ launches' = {}
  /\ broken' = {}
  /\ cleanup' = {}
  /\ recovery' = [pc |-> "claims",
                  claims |-> {p \in Pos : mark[p] = "dispatched"},
                  only |-> {p \in Pos : mark[p] \in {"pending", "dispatched"}},
                  stale |-> StaleRuns]
  /\ UNCHANGED <<dbVars, retries, handed>>

Unowned(s) == status[s] = "in_progress" /\ owner[s] = 0

RecoverClaimMutant(p) ==
  LET s == of[p] IN
  /\ recovery.pc # "off"
  /\ mark[p] = "dispatched"
  /\ recovery' = [recovery EXCEPT !.claims = @ \ {p}]
  /\ Unowned(s)
  /\ mark' = [mark EXCEPT ![p] = "pending"]
  /\ status' = [status EXCEPT ![s] = "queued"]
  /\ UNCHANGED <<run, of, files, nextPos, lock, client, drain, hostVars,
                 restarts, retries, handed>>

(* prepareQueuedSessionRecovery: release claims that no owner can finish. *)
RecoverClaim(p) ==
  LET s == of[p] IN
  /\ recovery.pc = "claims"
  /\ p \in recovery.claims
  /\ recovery' = [recovery EXCEPT !.claims = @ \ {p}]
  /\ \/ /\ Unowned(s) /\ mark[p] = "dispatched"
        /\ mark' = [mark EXCEPT ![p] = "pending"]
        /\ status' = [status EXCEPT ![s] = "queued"]
     \/ /\ ~(Unowned(s) /\ mark[p] = "dispatched")
        /\ UNCHANGED <<mark, status>>
  /\ UNCHANGED <<run, of, files, nextPos, lock, client, drain, hostVars,
                 restarts, retries, handed>>

RecoverDrainMutant ==
  /\ recovery.pc = "claims"
  /\ recovery.claims = {}
  /\ recovery' = [recovery EXCEPT !.pc = "orphans"]
  /\ UNCHANGED <<dbVars, lock, client, drain, hostVars, restarts, retries, handed>>

(* The sweep's drain only sees the positions that existed before admission. *)
RecoverDrain ==
  /\ recovery.pc = "claims"
  /\ recovery.claims = {}
  /\ StartDrain(NoSession, recovery.only)
  /\ recovery' = [recovery EXCEPT !.pc = "orphans"]
  /\ UNCHANGED <<dbVars, lock, client, hostVars, restarts, retries, handed>>

(* resolveOrphanedSession: an active run from before the restart that nobody
   owns is disconnected, or its harness is attached again. *)
ResolveOrphan(s, n) ==
  LET orphan == Unowned(s) /\ run[s] = n IN
  /\ recovery.pc = "orphans"
  /\ <<s, n>> \in recovery.stale
  /\ \A d \in Drain : drain[d].only = Pos
  /\ recovery' = [recovery EXCEPT !.stale = @ \ {<<s, n>>}]
  /\ \/ /\ orphan
        /\ EndRun(s, "disconnected", FALSE)
        /\ UNCHANGED hostVars
     \/ /\ orphan
        /\ "reattach" \in Ops
        /\ Launch(s, n, 0, "starting", FALSE)
        /\ UNCHANGED <<dbVars, drain>>
     \/ /\ ~orphan
        /\ UNCHANGED <<dbVars, drain, hostVars>>
  /\ UNCHANGED <<lock, client, restarts, retries, handed>>

-----------------------------------------------------------------------------
ClientStep(c) ==
  \/ CreateQueued(c) \/ CreateDropQueued(c) \/ CreateStarted(c)
  \/ CreateHookFails(c) \/ CreateAborted(c) \/ CreateThrows(c)
  \/ CreateLaunch(c)
  \/ FollowUpInsert(c) \/ FollowUpCapacity(c) \/ FollowUpQueue(c)
  \/ FollowUpUndo(c) \/ FollowUpResume(c) \/ FollowUpLaunch(c)
  \/ CancelQueued(c) \/ CancelWrite(c)

Request(c) ==
  \/ \E s \in Session :
       \/ CreateEnter(c, s) \/ FollowUpEnter(c, s) \/ CancelRead(c, s)
       \/ \E st \in {"completed", "failed"} : PatchStatus(c, s, st)
  \/ \E p \in Pos : RemoveQueued(c, p)

DrainStep(d) ==
  \/ DrainList(d) \/ DrainRequeue(d) \/ DrainNext(d)
  \/ DrainAdmit(d) \/ DrainClaim(d) \/ DrainLaunch(d)

LaunchStep(l) ==
  \/ HarnessStart(l) \/ HarnessAccept(l) \/ InitFails(l) \/ StartFails(l)
  \/ FailRemovesEntry(l) \/ FailEndsRun(l) \/ LaunchRetries(l)
  \/ LaunchCloses(l)
  \/ ExitRead(l) \/ ExitWrite(l)

SweepStep ==
  \/ \E p \in Pos : RemoveAccepted(p) \/ RecoverClaim(p)
  \/ RecoverDrain
  \/ \E sn \in recovery.stale : ResolveOrphan(sn[1], sn[2])

Next ==
  \/ \E c \in Client : Request(c) \/ ClientStep(c)
  \/ \E d \in Drain : DrainStep(d)
  \/ \E l \in launches : LaunchStep(l)
  \/ SweepStep
  \/ Restart

Spec == Init /\ [][Next]_vars

(* The event loop runs every continuation; promises behind the scheduling lock
   are served in order, so a drain that waits for the lock gets it in the end;
   a harness exits, or its activity timeout stops it.  Requests, aborts and
   crashes need never happen. *)
Fairness ==
  /\ \A c \in Client : WF_vars(ClientStep(c))
  /\ \A d \in Drain : SF_vars(DrainStep(d))
  /\ WF_vars(\E l \in launches : LaunchStep(l))
  /\ WF_vars(SweepStep)

FairSpec == Spec /\ Fairness

-----------------------------------------------------------------------------
(* Safety properties *)

Owed(s) == PendingOf(s) # {}

(* A queued session has a request to run.  No constraint of the database says
   so: drains, cancels, late writes and recoveries keep the two tables together
   between them.  Withdrawing the last entry of a queued session does not
   ("remove", "abort"), and neither does a late write that turns a cancelled
   session into a finished one while a drain is about to queue it again. *)
QueuedHasEntry == \A s \in Session : status[s] = "queued" => Owed(s)

(* No interleaving of requests, drains and ending runs starts more runs than
   max_concurrent_sessions, although the count is read several awaits before
   the status is written. *)
WithinLimit == Cardinality(Active) <= Limit

Holding == {"preparing", "starting"}

(* A claimed entry belongs to one launch: while a launch holds it no other
   launch and no drain has it, and it does not wait in the queue. *)
ClaimExclusive ==
  /\ \A l \in launches : l.phase \in Holding /\ l.pos \in Pos =>
       /\ mark[l.pos] # "pending"
       /\ \A k \in launches : k.phase \in Holding /\ k.pos = l.pos => k = l
       /\ \A d \in Drain : drain[d].pc = "launch" => drain[d].cur # l.pos
  /\ \A d, e \in Drain : drain[d].pc = "launch" /\ drain[e].pc = "launch"
       /\ drain[d].cur = drain[e].cur => d = e

(* A session waits in the queue only when no run of its own is under way, except
   one that a cancellation is already stopping: no recovery, retry or end of an
   earlier run queues a session that runs.  It speaks of runs that no request
   ends: a launch overlooks a cancel or a PATCH that came between the start of
   its run and the launch. *)
QueuedHasNoRun ==
  \A l \in launches :
    /\ status[l.s] = "queued"
    /\ owner[l.s] = l.run
    /\ l.phase \in {"preparing", "starting", "running"}
    => <<l.s, l.run>> \in stopping

(* The prompt of one request reaches a harness once; after a crash it may be
   sent once more, because nothing tells whether the first run used it. *)
AtMostOncePerBoot == \A p \in Pos : handed[p] <= 1 + restarts

(* A finished session with waiting requests is not forgotten: the drain that
   its release started has still to look at it.  Without it nothing would ever
   queue the session again. *)
StrandedOwed ==
  \A s \in Session : status[s] \in Requeueable /\ Owed(s) =>
    \/ \E d \in Drain : drain[d].rel = s /\ drain[d].pc \in {"want", "requeue"}
    \/ lock \in Client /\ client[lock].s = s

(* The drain has still to read the queue, or to reach the entry in its list. *)
Looks(d, p) ==
  \/ drain[d].pc \in {"want", "requeue"} /\ p \in drain[d].only
  \/ p \in drain[d].todo
  \/ drain[d].pc \in {"admit", "claim"} /\ drain[d].cur = p

(* No queued session waits beside free capacity without a drain on its way to
   one of its requests: nobody would ever start it.  An entry that is accepted
   while its session is queued counts on a drain that comes for another one, so
   this speaks of requests that nobody withdraws ("remove", "abort"). *)
NoIdleCapacity ==
  \A s \in Session : status[s] = "queued" /\ PendingOf(s) # {} =>
    AtCapacity \/ \E p \in PendingOf(s), d \in Drain : Looks(d, p)

(* Nobody forgets a session that takes up capacity: the end of its run lies with
   its launch or harness, with the handler or drain that is about to launch it,
   or, after any number of crashes, with the sweep.  Without one of them the
   capacity would be gone until the next restart. *)
ActiveIsAttended ==
  \A s \in Active :
    \/ \E l \in launches : l.s = s /\ l.run = run[s] /\ l.phase # "closing"
    \/ <<s, run[s]>> \in recovery.stale
    \/ \E c \in Client : client[c].pc \in {"created", "launch"} /\ client[c].s = s
    \/ \E d \in Drain : drain[d].pc = "launch" /\ of[drain[d].cur] = s

(* Once a session is queued for its next run, only a request of the user takes
   its waiting entries away: the late cleanup of the run before does not. *)
CleanupSparesQueuedWork ==
  [][\A p \in Pos :
       /\ mark[p] = "pending" /\ mark'[p] = "removed"
       /\ status[of[p]] = "queued"
       => client' # client]_vars

(* A cancelled session runs again only on a new request, whatever drains and
   launches were under way when it was cancelled. *)
CancelledNeedsRequest ==
  [][\A s \in Session : status[s] = "cancelled" /\ status'[s] \in {"queued", "in_progress"}
       => client' # client]_vars

(* Cleanup does not reinterpret a run that was cancelled. *)
CancelledRunStaysCancelled ==
  [][\A s \in Session : status[s] = "cancelled" /\ run'[s] = run[s]
       => status'[s] \notin {"completed", "failed"}]_vars

(* A handoff that failed leaves the session with a conversation that a later
   launch can read. *)
FailedHandoffStaysReadable == \A s \in Session : <<s, owner[s]>> \notin broken

(* The requests of one queued session are claimed in the order of the queue. *)
ClaimedInOrder ==
  [][\A p, q \in Pos :
       /\ mark[p] = "pending" /\ mark'[p] = "dispatched"
       /\ mark[q] = "pending" /\ of[q] = of[p]
       => p <= q]_vars

(* Liveness properties *)

(* Every waiting request is taken up, or withdrawn by the user. *)
QueuedEventuallyServed ==
  \A p \in Pos : mark[p] = "pending" ~> mark[p] # "pending"

(* A queued session leaves the queue, also when the host crashes meanwhile. *)
QueuedSessionEventuallyRuns ==
  \A s \in Session : status[s] = "queued" ~> status[s] # "queued"

(* Whoever enters the scheduling lock leaves it. *)
SchedulerNeverWedges == \A c \in Client : lock = c ~> lock # c

Driven(s) == \E l \in launches : l.s = s /\ l.run = run[s]

(* No session stays active without a launch or a harness of its present run that
   would end it, also when the host crashed in between. *)
ActiveEventuallyOwned ==
  \A s \in Session : status[s] = "in_progress" /\ ~Driven(s)
    ~> status[s] # "in_progress" \/ Driven(s)

-----------------------------------------------------------------------------
(* The scheduler implements the abstract admission. *)

Fate(p) == CASE mark[p] = "unused" -> "absent"
             [] mark[p] = "pending" -> "waiting"
             [] mark[p] = "dispatched" -> "claimed"
             [] mark[p] = "removed" -> "gone"

Admission == INSTANCE SessionAdmission
  WITH busy <- Active, fate <- [p \in Pos |-> Fate(p)]

(* Reading the capacity under the lock and writing the status later looks like
   one step, and a claimed request waits again only together with its run. *)
ImplementsAdmission == Admission!Spec

=============================================================================
