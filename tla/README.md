# Verification of the prompt-studio host

prompt-studio runs coding agents ("harnesses") for a user. A host process owns a PGlite database, starts
agent sessions, keeps the requests that do not fit under the concurrency limit in a durable queue, runs
scheduled extension commands, and shares the user's records with other devices through a relay that cannot
read them. A desktop app and the `pst` commands find, start and stop the host. This directory models the parts
of that system where order, concurrency and crashes decide correctness. The modules are TLA+, checked with
TLC; the theorems are proved with TLAPS.

Paths below are relative to `src/packages/` unless they begin with `src/`.
`PROJECT.json` maps each definition to the lines it translates.

## 1. Inventory

### The system's parts

| Part | State | Operations | Talks to |
| --- | --- | --- | --- |
| Session scheduler (`pstdio-api/src/features/sessions/session-scheduler*.ts`, `session-queue-*.ts`) | a promise chain as scheduling lock | createSession, startOrQueueExisting, drainQueue, recoverQueuedSessions | session service, queue entries, launches |
| Session rows and queue entries (`pstdio-db/src/services/sessions`, `.../session-queue-entries`) | `sessions`, `session_queue_entries` | claim, requeue, recover, cancel, status transitions, insert, remove, edit, move, combine | everyone |
| Session service (`pstdio-api/src/services/session-service.ts`) | none; owns the store | cancel, archive, resume, transitionStatus, which starts a drain when capacity is released | rows, store, drains |
| Session store and launches (`session-store.ts`, `spawn-agent.ts`, `initialize-conversation.ts`) | one slot per session | create (takes the slot), setSession, markCancellationRequested, remove | harness, service |
| Run tracking and failed starts (`track-harness-session.ts`, `session-startup-failure.ts`) | continuations of a launch | save the conversation, write the final status, drop the slot | service, rows |
| Startup recovery (`session-queue-recovery.ts`, `startup.ts`) | snapshots taken before requests are admitted | release claims, drain, disconnect or reattach | rows, store, drains |
| Waiting requests (`queued-request-operations.ts`, `endpoints/queued-follow-ups.ts`) | revisions of entries | edit, move, combine, delete | rows, drains, steering |
| Steering (`steering-delivery.ts`, `session-steering.ts`) | delivery identity on an entry, open controls of a run | claim, gate, deliver, accept, release, reconcile | store, harness, checkpoints |
| Cron scheduler (`pstdio-scheduler/src`) | armed jobs, watermarks and their file, refresh loop | refresh, fire, catch up, dispose | runJob, watermark file |
| Extension schedules (`pstdio-api/src/features/extensions/extension-scheduler.ts`, `extension-schedule-admission/`) | automation journal | listJobs, runJob, claim, finish | cron scheduler, extension catalog |
| Document synchronisation (`pstdio-sync/src/relay`) | local documents; per document a replica, its base state, a cursor | read, merge, send, compact, acknowledge; connect, wake, retry | relay, local store |
| Relay (`src/services/relay/src`) | per document a log of updates, the latest state, what cleanup has not taken | append, replace, read, clean up, notify | devices |
| Runtime descriptor (`pstdio/src/features/runtime`) | `runtime.json`, the directory of claim files | publish, promote, clean up, discover, reclaim | runtimes, `pst`, desktop |
| Desktop app (`src/clients/desktop/src`) | lifecycle state, the attached runtime, spawned children, receipts | start, attach, recover, quit, confirm | runtimes, descriptor |
| Workspaces, installation of extensions, user interface, harness drivers | — | — | see "Not modelled" |

The host, the app and each device run on one event loop: two pieces of code interleave only at an `await`. Database
transactions are atomic. The database, the watermark file and the automation journal survive a crash; the
lock, the store, the drains, the launches and the cron entries do not. A device keeps its local documents and
forgets its replicas; the relay keeps everything; claim files, the descriptor and the receipt outlive whoever
wrote them.

### What is hard, and what makes each part correct

- *Scheduler.* Capacity is counted, and several awaits later a status is written. The lock must cover that
  distance: never more active sessions than the limit. A drain works on a list that may be stale. A session
  that ended is queued again for its next request by a drain that runs after the end: no request may be
  forgotten in between. Code that runs inside the lock must not wait for code that needs it.
- *Rows.* A claim changes two tables; a claimed entry has one owner; a queued session has a request; the late
  end of one run must not disturb the next.
- *Store and launches.* Launches of one session overlap: a successor takes the slot, stops the predecessor
  and waits for its conversation. A launch that fails hands the slot back. A cancelled session starts again
  only on a new request, and a prompt is given to a harness once.
- *Recovery.* The sweep runs beside new requests. It must end or adopt every run of the last boot and touch
  none of this boot. A prompt may be sent again only because of a crash.
- *Cron scheduler and journal.* A minute is claimed once although live firings, catch-up, a lost or old
  watermark file and restarts compete for it; an assigned occurrence is never executed twice; the journal
  tells what really happened; shutdown stops everything and ends although commands may not.
- *Waiting requests and steering.* A position is a slot whose contents move; who acts on what it saw must act
  on that. A message is in one place until it is delivered or given up, is delivered as last saved, and is
  never sent twice, although it may go to a live run, whose answer may be lost, or to the next run.
- *Synchronisation.* The relay cannot check what devices upload. A latest state that lacks what it covers
  destroys updates for everyone; a device that reports "synced" too early loses an edit with its disk; a notice
  that nobody hears leaves a device behind.
- *Descriptor.* One process works on the file at a time, although claims are plain files and their owners die;
  whoever serves is found; a late cleanup removes nobody else's descriptor.
- *Desktop.* A quit leaves no child behind and always ends; what was stopped on purpose is not started again.

`PROJECT.json` lists the main hazards, each at its line, with the properties that cover it or the reason none
does.

## 2. Modules

| Module | Models |
| --- | --- |
| `SessionAdmission` | abstract promise: reading the capacity and starting is one step; a request waits, is claimed by one run, is gone |
| `SessionQueue` | scheduler, rows, service, store, launches, tracking, crash and startup sweep |
| `MCSessionQueue` | symmetry, and an order on interchangeable ids for liveness runs |
| `SessionQueueProofs` | types, the concurrency limit, claims, prompts, stranded and queued sessions, cancelled sessions, free capacity, one run per session, active sessions attended |
| `SessionAdmissionProofs` | `SessionQueue` implements `SessionAdmission` |
| `CronScheduler` | cron scheduler, admission of a run, automation journal |
| `MCCronScheduler` | the constraint that bounds its instance |
| `CronSchedulerProofs` | every safety and action property of the cron scheduler and its journal |
| `QueuedRequests` | the waiting requests of one session: editing, steering, the runs that take them |
| `QueuedRequestsProofs` | every safety property of the waiting requests |
| `NumberLemmas` | least and greatest elements, minimum and maximum, which moves and the catch-up are defined by |
| `SharedDocument` | abstract promise of synchronisation: what is shared stays shared, what is reported is shared |
| `RelayDocument` | one document at the relay |
| `DocumentSync` | devices that share a document through `RelayDocument`, pass by pass; implements `SharedDocument` |
| `DocumentConnection` | the drain, the live socket and the notices that start the passes of `DocumentSync` |
| `DocumentSyncProofs` | the safety properties and the refinement of the synchronisation, with and without its connection; no device is forgotten |
| `RuntimeDescriptor` | the descriptor file and the bakery of claim files around it |
| `RuntimeDescriptorProofs` | mutual exclusion, and that a serving runtime is found |
| `DesktopLifecycle` | the desktop app and the runtimes it meets |
| `DesktopLifecycleProofs` | no orphan, no unwanted restart |
| `MCQueuedRequests`, `MCDocumentSync`, `MCDocumentConnection`, `MCRuntimeDescriptor`, `MCDesktopLifecycle` | small instances, with their symmetry |

### SessionQueue

One action is one transaction, or one stretch of code between two awaits. Some actions:

| State | In the code |
| --- | --- |
| `status`, `run` | `sessions.status`, `sessions.last_request_started` (as an ordinal: each start is later than the last) |
| `mark`, `of`, `files` | rows of `session_queue_entries`: not there, pending, dispatched, removed; their session; attachments |
| `lock` | who is between `await previous` and `resolve()` in `withSchedulingLock` |
| `client`, `drain` | program counters of the request handlers and of running drains |
| `owner`, `stopping` | `SessionStore`: the run whose `ActiveSession` is in the slot; its `cancellationRequested` |
| `launches` | calls of spawn, resume and reattach, then the harness run. Phases: `preparing` (initialization), `starting` (`harness.start`), `running`, `exiting` (the exit handler has read the status), `unready`, `failing`, `failed`, `unsaved` (stages of `cleanUpFailedStart`), `closing` |
| `broken` | predecessors whose `conversationReady` is rejected for good |
| `cleanup` | removals of accepted entries that were issued and not yet done |
| `recovery` | snapshots of the startup sweep |
| `handed` | history: how often an entry's prompt was given to a harness |

The request handlers are `Create*`, `FollowUp*`, `Cancel*`, `RemoveQueued`, `PatchStatus`; the drain is
`DrainList` (requeue the released session, list) `DrainNext`, `DrainAdmit` (lock, status, capacity),
`DrainClaim`, `DrainLaunch`; a launch goes through `HarnessStart`, `HarnessAccept`, `ExitRead`, `ExitWrite`,
`LaunchCloses`, or `InitFails`, `StartFails`, `FailRemovesEntry`, `FailEndsRun`, or `LaunchRetries`.
`EndRun` is `updateSessionStatus` with a terminal status: it writes the status, deletes entries where the
code does, and starts the drain that `transitionStatus` starts. A create that is given up calls `cancel` inside the
lock, which does what it finds: it deletes a queued session's entries (`CreateDropQueued`) or ends the run and waits
for a drain while it holds the lock (`CreateAborted`). The second happens to an aborted create, which is
`find_wedge`, and to a queued session that another request cancelled first (`CancelsInLock`); no run has an instance
large enough for that, the theorems cover it.

Abstractions, each of them deliberate:

- Prompts, models, parameters and agents are left out; an entry is its position and whether it has files.
- A launch follows the release of the lock within a few turns of the event loop and before the next holder's
  first database call returns; `CreateLaunch`, `FollowUpLaunch` and `DrainLaunch` do both in one step.
- The capacity count belongs to the step that takes the lock in `CreateEnter` and `DrainAdmit`: nothing that
  the count could see differs between the two.
- `awaiting_input` counts as `in_progress`: both take capacity, both are swept.
- Saving a conversation succeeds; harness stops succeed. Attachments that were not saved may keep the entry
  after a failed start, as in the code.
- A status is set from outside (`PatchStatus`) to completed or failed; PATCH to an active status, archive,
  permanent deletion and workspace limits are not in the module. Edits, moves and steering of entries are in
  `QueuedRequests`.

### CronScheduler

A minute is a small number, a cron expression the set of minutes it fires (or an expression that the backend
refuses). `active` holds the armed entries with their identity, `runs` the calls of `runJob` with their
phase: called, admitted, claimed in the journal, executing or skipping. `refresher` is the refresh loop with
`pendingRefresh`; `saves` is `watermarkWriteQueue`; `file` is what `load()` would read. `cursor` and
`occurrence` are the journal; `effects` is history: how often a command was executed.

Left out: an assigned schedule with an invalid expression, changes of the assignment to the device
(`Assigned` is a constant), journal commits that fail, the loop that re-reads the catalog before a dispatch
(it ends with one consistent reading, which is the step). A change of the enabled schedules and the refresh
that its event requests are one step. `Bun.cron` is external: a handle may fire late, once, for a minute that
is due, does not fire again for one it has fired for, and throws on an invalid expression. The clock of the
machine is external too: it may be set back, which is what makes a minute come twice for handles armed anew
and what the watermark and the journal's cursor are compared for.

### QueuedRequests

Where `SessionQueue` asks which session runs, this module follows the text of each message of one session. What
happens under the scheduling lock is one action. An entry has the versions of the messages it holds, a
revision, its creation order and the delivery that holds it. `shown` is the queue as the dashboard last loaded
it: every edit, deletion and steering call names a revision from there. `steer` are the calls of
`deliverSteering`, from the claim to the release or the removal of the row; while one is open, the end of its
run waits (`OpenControls`). `talk`, `history` and `native` are the live conversation, the saved one and the
harness's own: `Accept` saves before it deletes, a later run loads the saved conversation and perhaps the
harness's, and `Reconcile` recognises a delivered message after a lost answer or a crash.

The end of a run is the exit handler await by await: `ExitSeen` (wait for the open controls), `ExitSaves`,
`ExitReads` (the status; a cancelled session is left alone), `ExitWrites`, `ExitRemoves`. `ExitWrites` ends whatever
it finds, and in a session that is queued by then it deletes the waiting requests, as `updateSessionStatus` does.
That can only be a session its user stopped and that was queued again by a follow-up before the end of the stopped
run was written. `swept` is history: the messages that went this way.

Abstractions: other sessions show as capacity that may be missing (`"busy"`). A checkpoint file that is missing or
does not parse (`checkpoint_unreadable` in `session-history.ts`) is left out: the code then continues from the
harness's history, or from none, and the next save replaces the file, so `AcceptedIsSaved` speaks of files that
can be read. Launches that fail, and a cancel
while a launch is being prepared, are left to `SessionQueue`. A crash and the startup after it are one step.
Attachments, models and questions appear only as a refusal. Revisions are random ids in the code and counters
here, which is why `RevisionNamesText` compares contents; `created_at` is the order of insertion.

### RelayDocument, DocumentSync and DocumentConnection

A document is the set of edits it contains: merging is union and what another document lacks is the
difference, which is what Yjs promises of both. Each await of `synchronize` ends a step: `ReadNewState`,
`LoadState`, `ReadPage`, `SavePage`, `MergeLocal`, `SendUpdate`, `Publish`, `Compact`, `FinishPass`. `late` is a
request whose sender gave up and which the relay may still execute. The relay keeps every state and update ever
accepted as history and, in `kept` and `keptStates`, what is still stored. Page sizes, the size at which an
update is too large, and the compaction limit are free choices. `DocumentConnection` adds the flags of the drain
(`dirty`, `running`, `aborted`, `former`, `retry`) and the socket; passes begin only where the drain begins them.

At the relay a commit and its notice are two steps. `store` (`documents.ts:104`) returns or throws after the
transaction; only when it returned is `changed` called, and then the request answered. So a device whose commit went
through is `waiting` until `Announce`; if it gave up meanwhile, the relay's handler still announces (`orphans`). A
request given up may also be stored without a word (`LateChange`): the database's answer was lost, or the abort cut
the connection while it was committing. `told` is history: how far the log and the states were at the last notice.
A crash of the relay itself is left out: all sockets open again after it, which makes every device look.

The architecture text 0026 says each completed page is saved before the next read; a loaded latest state is not
a page, and the module saves nothing there, as the code. Left out: the idempotence of `updateId` and the retry of a
device's own state, stores with an `initialHistory`, blobs and quotas, jobs over several documents, the read-only
`download`, the ordered record stream, presence, and device commands.

### RuntimeDescriptor

`at` is how far a process's claim is: `choosing` (the `.choosing` file is written), `numbered`, `waiting`,
`looking` (the names of the choosing files are listed), `in`, `checked` (the descriptor is read), `done`. The
claim file of a dead process stays until a lister removes it. A listing is one step, its consequences are not: a
name that has gone by then is skipped among the choosing and makes the reader begin again otherwise, so that the
list of waiting claims and the rename to `.active` are one step (`Enter`). Ids are fresh among the claims that
exist; process ids are not reused; a runtime starts once. The time limit of five seconds is checked after a look
that failed (`TimeOut`).

### DesktopLifecycle

`start`, `quit`, `confirm` and `leave` are the app's async functions, suspended at an await; `watch` is the control
stream, `receipt` is `runtime.json.shutdown`, `child` and `seen` are the closures of spawned processes. The
descriptor behaves as `RuntimeDescriptor` proves: the runtime that holds the database lock is the one it names. The
polls of a start are one step each. One timing assumption is explicit (`Noticed`): the exit event of a child is
handled before the next click or the answer of a probe. A runtime that is closing answers no further shutdown.
Left out: a given external runtime, updates, windows, and the wording of dialogs.

## 3. Runs

All runs bound the number of requests: a client serves one. `CHECK_DEADLOCK FALSE` because the system then
rightly stops. `Ops` and `Faults` name the events a run allows; together the runs take every action.

| Run | Instance | Shows |
| --- | --- | --- |
| `queue_safety` | 2 sessions, 3 requests of create, follow-up, cancel; failing starts, 1 retry; limit 1 | types, limit, stranded requests, free capacity, cancelled sessions, refinement |
| `queue_restart` | 2 requests, attachments, aborts, deletions, failing hooks and starts, reattach; 2 crashes | claims and prompts across restarts; a queued session has no run, an active one is attended |
| `queue_liveness` | 3 requests of create, follow-up, PATCH; fair | every waiting request is served |
| `queue_restart_live` | 2 requests, 1 crash, reattach, hook failures; fair | queue empties, no session stays active undriven, lock is returned |
| `cron_safety` | 1 assigned and 1 local schedule, 3 minutes; 2 of: edit, clock set back, crash (at most 1), shutdown; lost projects, failed listings, a torn file | everything stated about the cron scheduler |
| `requests_safety` | 2 messages, 2 deliveries, 2 positions, 2 revisions each, 3 runs; a lost answer or a crash | places, revisions and deliveries of messages; the only ones that go unasked are those queued behind a stopped run whose end is still to be written |
| `sync_safety` | 2 devices, 2 edits, 3 updates, 3 states; an unreadable update, a lost or late request or a crash | states hold what they cover, the tail is stored, refinement of `SharedDocument` |
| `sync_live` | 2 devices, 1 edit; 1 fault of five kinds; fair | no device is left behind what the relay has announced, everyone settles |
| `descriptor` | 2 runtimes, 1 client, 3 ids, 1 crash or given-up claim; fair | exclusion, the descriptor is current, waiters get in |
| `desktop` | 2 runtimes, 1 crash, 2 quits, 1 Retry, 1 `pst serve`; fair | no orphan, no unwanted restart, every quit ends |
| `find_cleanup`, `find_wedge` | the smallest instance that shows the disagreement | see section 5 |

Why these bounds suffice for the question asked. In the queue runs the limit is 1 and there are two sessions, so
one always waits for the other: the smallest instance in which capacity is contended. Three requests are needed
for a request that overtakes another and a third that ends a run between them; four actors interleave (three
handlers and a drain) plus launches. `MaxEntry` is not smaller than the number of requests, so an insert never
blocks. There are two drain slots: one drain under way when another starts; a step that starts a drain waits for
a free slot, which delays and never loses a drain. Two crashes let the second hit the recovery from the first.

In `cron_safety` the clock starts before the first minute, so that three minutes let one be claimed, one missed
and one compete with the catch-up. `Small` leaves out the states in which both schedules are enabled: they share
the refresher and the file, which enabling them in turn exercises, and only the order of the watermark snapshots
of one pass depends on both. It also gives edits, clock changes, crashes and the shutdown a budget of two: enough
for a restarted or newly armed job to meet a minute that was claimed before, and for a refresh after an edit or a
restart to meet the shutdown. A failed write of the watermark file is in the module (`"save"`) and not in the run:
a crash before the write loses the same claim. `CatchupSteps` stands for the 200,000 iterations of
`findCatchupMinute`; no instance here exhausts them.

In `requests_safety` two positions are the least that can be moved or combined, and three runs let a message meet
the run it was steered to, the next one, and one after a crash. In the sync runs two devices race for a state;
three states let one be replaced whose replacement is replaced, which is when retirement removes rows. Two edits
tell a device that has both from one that has either. In `descriptor` three processes contend, so that one may die
between two others, and a predecessor's late cleanup meets its successor and a client's reclaim. In `desktop` the
two runtimes are the attached one and its replacement, which is what a restart, a promotion and a foreign shutdown
need; two quits let the second follow a failed one.

Symmetry is used for safety only, and not where ids are compared. Liveness runs of the queue number sessions,
handlers and drains, and `InOrder` lets the lowest unused one go first, which loses no behaviour up to renaming.
The descriptor and desktop runs do the same with their runtimes: one of them always comes first.
Each module's `TypeOK` is proved (section 4), some are invariants of a run too. `QueuedRequests.TypeOK` is the
exception: it may be added to the INVARIANTS of its cfg and holds there; the proofs use the part they need
(`Types` in `QueuedRequestsProofs`), because the list of a drain is sorted by a recursive operator.

Five properties of `SessionQueue` hold only of some events, and the runs that check them leave the others out.

- `QueuedHasEntry` is checked without `"remove"` and `"abort"`, where taking back the last entry of a queued session
  violates it (0018-session-queue.md:169 says queued sessions always have entries). What is left is not true for every
  instance either: a late write over a cancelled status makes a drain queue a session whose entries the cancel has
  deleted. That takes five requests, or four with a PATCH (`FindEmptyQueue.cfg`), and the run has three. The theorem
  `EntriesQueued` excludes the late write by name, and holds of every instance.
- `StrandedOwed` is not checked across restarts, where a crash between the end of a run and its drain violates it.
- `QueuedHasNoRun` is checked without `"cancel"` and `"patch"`. A request that ends a run between its start and its
  launch is overlooked by the launch, and a follow-up then queues the session that is being launched
  (`FindLateCancel.cfg`). Claims and prompts stay exclusive even so: `ClaimsExclusive` and `SentOncePerBoot` are
  proved with every kind of event. Without those two events the property is the theorem `QueuedIsIdle`.
- `NoIdleCapacity` is checked without `"remove"` and `"abort"`. A follow-up to a session that is queued is inserted
  without counting and without a drain: it relies on the one that comes for the entry the session was queued for.
  Withdraw that entry, and the later one waits beside free capacity (`FindIdle.cfg`). `CapacityOffered` is the theorem.
- `QueuedEventuallyServed` fails for the same reason as soon as there are four requests, one of them a deletion, so
  `queue_liveness` has none; three requests with deletions satisfy it, which says little.

### Fairness

`FairSpec` of `SessionQueue`: weak fairness of each handler, of the launches together and of the sweep, since
the event loop runs every continuation and a harness exits or is stopped by the activity timeout of ten
minutes; strong fairness of each drain, since the scheduling lock is a chain of promises served first come
first served, so a drain that waits is not overtaken for ever although the lock is taken again and again.
Requests, aborts, failures and crashes are never forced. In `CronScheduler` listing, loading and saving
return and run deadlines are timers; firing, edits, the command of a run and shutdown are not forced.

`ConnSpec` of `DocumentConnection`: a drain and its pass proceed while their attempt lives, retry timers fire, the
transport opens a socket that is down again (it retries for ever), a subscription on an open socket is admitted,
a handler of the relay whose commit returned goes on to announce it, and a notice on an open socket arrives. That the
access token of a socket is renewed some day, which makes a device look again, is not assumed: a device left behind by
a silent commit may stay behind, and `EveryoneSettles` asks of it only what was announced. Edits and faults are not forced, and are bounded: the property speaks of
what happens after the last of them. In `RuntimeDescriptor` a process that asked for the lock keeps running until
it crashes; nobody has to ask. In `DesktopLifecycle` a runtime that was told to stop stops, exits of children are
handled, a child that is being given up is killed, and the threads of a quit proceed; no runtime has to become
ready and no user has to click.

## 4. Proofs

Session scheduler. Everything is proved from `SlotsAssumption` (limits are natural numbers, the limit is positive,
handlers, drains and `Nobody` are different) and `FiniteAssumption` (finitely many sessions), for any number of
sessions, handlers, drains, entries, retries and crashes.

- `TypeCorrect`: `Spec => []TypeOK`. `TypeInv` adds to the types what steps rely on: a handler past its first
  step and a drain that works on an entry name a session, and entries in use have one.
- `NeverOverLimit`: `Spec => []WithinLimit`. `WithinLimit` alone is not inductive: a drain at `claim` or a
  handler at `create` or `resume` will raise the count without looking again. The invariant is
  `AdmissionInv = TypeInv /\ LockInv /\ RoomInv /\ IdleInv`: who stands between counting and writing holds the
  lock (`LockInv`); while it stands there, there is room for one more (`RoomInv`); and the session it is about
  to start is not active (`IdleInv`). Steps without the lock only end runs. Lemmas `ClientAdmission`,
  `DrainAdmission`, `LaunchAdmission`, `SweepAdmission`, `RestartAdmission` take the actions in turn.
- `ClaimsExclusive`: `Spec => []ClaimExclusive`, and `SentOncePerBoot`: `Spec => []AtMostOncePerBoot`, both from
  `QueueInv = AdmissionInv /\ ClaimInv`. `HeldInv` strengthens the claim to all phases of a launch, all drains about to
  launch and all claims the sweep has still to look at: an entry taken out of the queue has one of them. `CleanInv` says
  that an entry whose removal was issued is none that a sweep, a drain or a retry can return, so that a late removal
  never hits an entry that waits again. `SentInv` says of each place from which a prompt can still be sent that it was not
  sent in this boot. Frame lemmas (`ClaimsKept`, `NewLaunch`, `NewClaim`, `ClaimReturned`) say what a step may do
  with launches and marks; the lemmas for the actions only show which of them applies.
- `FinishedIsOwed`: `Spec => [](restarts = 0 => StrandedOwed)`. `StrandInv` adds to `QueueInv` that rows belong to
  sessions that exist, that a session being created has no entry yet, and that a handler about to insert for a finished
  session has kept the drain of that session outside the lock.
- `RevivedOnRequest`: `Spec => CancelledNeedsRequest`, from the types: every other action that queues or starts a session
  looks at the status in the same step.
- `EntriesQueued`: if no request withdraws entries, `Spec /\ CancelledRunStaysCancelled => []QueuedHasEntry`. The drain
  that requeues does not look at the entries again, so `EntryInv` says that they are still there. The hypothesis about
  late writes is the property that `FindCancelled.cfg` violates; without it the theorem is false.
- `QueuedIsIdle`: without cancel and PATCH (`NobodyInterrupts`), `Spec => []QueuedHasNoRun`, over any number of crashes.
  `RunInv` says in whose hands a run is: a launch that is not closing is the only one of its session and the session is
  active in its run; it owns the slot until its start has failed; before the launch exists, the handler or the drain
  that holds the lock has it; after a crash, the sweep's snapshot; and the entry in flight goes with it. `RunsAlone` (a
  session never has two launches under way beside each other) follows from the same invariant. `FindLateCancel.cfg`
  shows that the hypothesis is needed.
- `CapacityAttended`: under the same hypothesis, `Spec => []ActiveIsAttended`: a session that counts against the limit
  has somebody to end its run, who is a handler or drain about to launch it, a launch, or the sweep. Most steps pass the
  run on in one piece; two could drop it. A retry that finds its claim gone ends the launch and leaves the session
  active, so `FirmInv` says that the entry of a queued run stays dispatched until its launch has left the preparation;
  and a sweep that finds a stale run owned lets go of it, which `StaleInv` of `RunInv` excludes. It is the safety half of
  `ActiveEventuallyOwned`. With cancel and PATCH TLC finds no violation either (one session, four requests, no crash),
  but `RunInv` does not hold there, so that is not proved.
- `CapacityOffered`: without `"remove"` and `"abort"` (`NobodyWithdraws`),
  `Spec /\ CancelledRunStaysCancelled => [](restarts = 0 => NoIdleCapacity)`: free capacity never meets a waiting request
  that no drain has still to look at. A handler queues a request because the host was full when it counted, and a run may
  have ended before it writes. `FullDecisions` says why that is harmless: the handler holds the lock, and the drain that
  the end of the run started has still to list. `WholeQueue` says that no drain is restricted to some entries, as those
  of the startup sweep are. Both hypotheses are needed: `FindIdle.cfg` violates the
  property with a deletion; the second is the one of `EntriesQueued`.
- `CancelledStays`: without cancel and PATCH, `Spec => CancelledRunStaysCancelled`: whoever writes the end of a run finds
  the session in that run. So `OrdinaryService`: hosts that serve creates and follow-ups only, with any failures, keep
  `QueuedHasEntry` always and `NoIdleCapacity` while they are not interrupted, with no further hypothesis.
- `SchedulerImplementsAdmission`: `Spec => ImplementsAdmission`. Each step is shown to be a step or a stutter of
  `SessionAdmission` with `busy` the active sessions and `fate` read off `mark`; the guard of the abstract `Start`
  is what `RoomInv` and `IdleInv` provide.

Runtime descriptor, from `DescriptorAssumption` (runtimes and clients are different processes, ids are ordered),
for any number of processes, ids, crashes and given-up claims.

- `DescriptorTypes`: the types, with the fact that the database lock belongs to a runtime that starts or serves.
- `LockIsExclusive`: `Spec => []OneHolder`. The argument is the bakery's: `Queueing` says that a process that
  has listed the choosers has a smaller ticket than anyone who has numbered itself since and is not on that list, and
  that whoever is inside is ahead of everybody else, whatever the others do next. A dead process's claim counts
  until it is removed, and removing it lets nobody in who was not first without it.
- `DescriptorIsCurrent`: `Spec => []PublishedIsFound`. `Purposes` says which operation a process in each state of
  its life may be doing: the target of a cleanup is a runtime that closes or is gone, and who starts or serves holds
  the database lock. `Current` says that the descriptor of a serving runtime is its own, that one read as matching
  inside the lock still names its target, and that one published inside is still there. So a late cleanup either
  reads the successor's descriptor and does not match, or read its own before, with the successor still outside.

Cron scheduler and journal, from `JobsAssumption` (finitely many jobs, some of them assigned; an invalid expression is
not a set of minutes), for any minutes, edits, crashes and steps of the catch-up.

- `CronTypes`, `AssignedOnce`, `LocalOnce`, `JournalTells`, `ShutdownFlushes`: `TypeOK`, `AssignedAtMostOnce`,
  `LocalOncePerBoot`, `JournalTruthful` and `ShutdownFlushed` are invariants. The chain is: once the watermark file is
  read nothing is ahead of the claims, neither the file nor a snapshot that waits to be written (`MarksInv`), so each
  call of `runJob` follows a claim of its own (`RunsInv`); the run that owns an occurrence of the journal finds it
  started and has executed exactly if it says so (`JournalInv`); a minute has run at most once per crash before it is
  claimed in this boot (`LocalInv`). `Claiming` is what firing, catch-up and a refresh that throws have in common.
- `RunsForward`, `DisposedStartsNothing`: the action properties `RunsMoveForward` and `NoRunAfterDispose`.
  `CatchupIsNew` proves of `findCatchupMinute` that what it returns was not claimed.

Waiting requests and steering, from `RequestsAssumption` (bounds are numbers, `NoSteer` is no delivery), for any number
of messages, positions, deliveries, runs, losses and crashes.

- `MessagesKept`: `NothingForgotten` is an invariant: a message is in at most one row, and in one (or in the memory of
  a launch) until it was delivered, given up, or swept; and what `ExitWrites` is about to sweep belongs to a session
  whose user stopped the run that ends. The form without that exception is `NobodySwept`, which `FindForgotten.cfg`
  violates.
- `SeenIsMeant`, `AcceptedStaysSaved`, `NoneStranded`: `RevisionNamesText`, `AcceptedIsSaved` and `NoRequestStranded` are
  invariants; `NoneReplayed`, `SavedIsDelivered`: `NeverReplayed` and
  `DeliversWhatIsSaved`. None is inductive by itself: a message may be in a row, in the memory of a launch, with a
  harness, in a conversation or given up, and each property speaks of two of these. `Inv` follows the message through all
  of them (`PlaceInv` to `KeptInv`); an open steering call holds its row and its run is still there (`SteerInv`); the slot
  belongs to the newest run (`HostInv`); what is saved is in the live conversation, which a later save writes again
  (`SavedInv`).
- A move is a permutation of the pending rows between two positions. It is defined by next and previous elements, and
  `NumberLemmas` provides that these exist: a set of numbers has a least element, proved from the library's
  well-founded order, and no induction over data is needed.

Synchronisation, from `BoundsAssumption` and `FaultsAssumption` (bounds are numbers, `FaultKinds` is a subset of the
six kinds), for any number of devices, edits, updates, states and faults. A lemma about `SyncStep` (a step of
`DocumentSync`, or a device that stops) covers every step of `DocumentConnection` too, so each result is proved for both.

- `SyncTypes`, `ConnTypes`, `TailAlwaysStored` and `ConnTailStored`: types, and `TailIsStored` with `RelayInv` (states cover ever more,
  never more than there is) and `Bounded` (no device is ahead of the relay or before the state it was built on).
- Under `"state" \notin FaultKinds`: `StatesHold` (`StateHoldsWhatItCovers`), `SyncedStaysOnRelay` (`SyncedIsOnRelay`),
  `SyncedIsSame` and `ConnSyncedIsSame` (`SyncedMeansSame`), `SyncImplements` and `ConnImplements` (the refinement of
  `SharedDocument`, step by step). A state that cannot be opened breaks them: that is what `FindUnreadable.cfg` shows, so
  the hypothesis excludes a behaviour the code really has, and nothing else. `ContentInv` says what each stage of a pass
  holds: a complete replica has every update up to its position, what is about to be published contains the replica, and
  a request that was given up is as good as when it was made, however late the relay executes it (`LateHolds`).
- `NoneForgotten`: `ConnSpec => []NoDeviceForgotten`, with every kind of fault, commits that nobody announces included.
  The property speaks of what the relay has announced (`told`), because that is what the relay's notices can promise: a
  device that lacks it, or has something to send, has somebody to remember that it must look again. That whatever is
  stored gets announced is false (`NobodyStaysBehind`, violated by `FindSilentCommit.cfg`). `WorkInv` says what a
  pass that has read to the end may leave behind: nothing, unless the drain is called once more; `FlagsInv` ties that
  call to a flag of the drain, a timer, a notice under way, or a socket whose opening will ask again. A
  notice goes to every device whose subscription was admitted; the others read after theirs is.
  With fairness, which only TLC checks, this is what `EveryoneSettles` rests on.

Desktop app, from `DesktopAssumption` (bounds are numbers, crashes happen in states of a living runtime), for any number of
runtimes, crashes, quits, retries and `pst serve`.

- `DesktopTypes`, `QuitLeavesNoOrphan` (`NoOrphan`), `StoppedStaysStopped` (the action property `NeverRestartsStopped`).
  `ChildInv` ties each child to the start that spawned it or to the attachment; `QuitInv` says that behind the cancellation a
  quit meets no start and behind the answer of the runtime no child that serves. For restarts, `ReceiptInv` says that
  every receipt the app remembers is older than the shutdown of the runtime it remembers it for, so that a missed event
  still shows in the receipt.

Model-checked only: the liveness properties (`QueuedEventuallyServed`, `QueuedSessionEventuallyRuns`,
`ActiveEventuallyOwned`, `SchedulerNeverWedges`, `ShutdownEnds`, `EveryoneSettles`, `WaiterGetsIn`, `QuitReturns`),
since the prover has no fairness or ENABLED; and `QueuedRequests.TypeOK` as a whole (section 3). Every other property of
a passing run is a theorem.

## 5. Where code and its own words disagree

Two are runs that TLC ends with a trace; `PROJECT.json` quotes the line.

- `find_cleanup`: the cleanup of a late ending deletes requests accepted after that run.
- `find_wedge`: an aborted create waits for a drain, which waits for the lock that create holds.

The others have a configuration of their own beside the runs: `tlc -config <cfg> <module>` prints the trace.

| Configuration, module | What it shows | What the repository says |
| --- | --- | --- |
| `FindCancelled.cfg`, `MCSessionQueue` | the exit handler overwrites a cancelled run as completed or failed | pstdio-db `session-status.ts:45`: "Cleanup cannot reinterpret an execution that has already been cancelled." |
| `FindEmptyQueue.cfg`, `MCSessionQueue` | a drain has decided to queue a finished session; a cancel deletes its entries, a PATCH or a late exit overwrites the cancelled status, and the drain queues the session with no entry, for ever | 0018-session-queue.md:169: queued sessions always have entries |
| `FindLateCancel.cfg`, `MCSessionQueue` | a cancel between the start of a run and its launch is not noticed by the launch; a follow-up at full capacity queues the session that is being launched, and the harness runs on uncounted | — |
| `FindIdle.cfg`, `MCSessionQueue` | a session is queued for a request that the user withdraws; its drain then lists nothing, and a follow-up that joined or joins the queued session waits for ever beside free capacity. The shortest way takes four requests; the same happens if the withdrawal comes between the listing and the claim | 0020-sessions.md:151: "Follow-up → `in_progress` or `queued`, depending on runtime capacity" |
| `FindOrder.cfg`, `MCSessionQueue` | a drain's scan goes on after an entry found no capacity, and a later request of the session is claimed first | 0020-sessions.md:112: entries are ordered by `queue_position` |
| `FindHandoff.cfg`, `MCSessionQueue` | after a cancel and a failed hand-over the store keeps a conversation nobody can read | — |
| `FindReorder.cfg`, `MCQueuedRequests` | a moved request keeps its creation time, and `listPending` sorts by it first: the queue is not dispatched in the order shown | 0020-sessions.md:112, 0018-session-queue.md:183 |
| `FindUnreadable.cfg`, `MCDocumentSync` | a device that cannot open the latest state publishes over it; edits reported as synced are gone from the relay | the comment at document-sync.ts:117 |
| `FindForgotten.cfg`, `MCQueuedRequests` | a user stops a run, a follow-up finds no capacity and waits, and the end of the stopped run ends the queued session and deletes it: an accepted message is gone. It is `find_cleanup` seen from the message | 0020-sessions.md:151: "Follow-up → `in_progress` or `queued`" |
| `FindSilentCommit.cfg`, `MCDocumentConnection` | the relay stores an update and loses the commit's answer: the request fails, the retry is a duplicate, and neither is announced; the other device stays behind until something else wakes it | documents.ts:100: "a commit whose reply was lost is safe", which is said of the stored bytes and holds for them |
| `FindQuitHang.cfg`, `MCDesktopLifecycle` | a runtime that dies while closing leaves its descriptor; the quit waits for ever | quit-flow.ts:110: "Every outcome must free the next quit request." |
| `FindPromotion.cfg`, `MCDesktopLifecycle` | a promotion between the refresh and the shutdown request is not seen, and the persistent runtime stopped | 0006-desktop.md: a promotion "is observed and the promoted runtime is not stopped" |

Seen in the models and covered by no property: a crash while the confirmation is being shown is ignored, because a
quit is under way, although 0006-desktop.md:36 says it opens recovery; an app that leaves with its runtime, or after
a confirmation, does not cancel a start that Retry began, although 0006-desktop.md:26 says quitting does, so
`NoOrphan` excludes those two ways; a follow-up that loses to a cancel is reported as dispatched; the cancel of a
session that was just claimed reports that it does not exist; PATCH may set a session active past the scheduler; a
refresh of the cron scheduler asked for between the end of the loop and the reset of its promise waits for the next
event; an invalid cron expression ends the pass, and the jobs after it stay as they were; a crash before a
follow-up without attachments starts loses it, as the code's comment says.

## 6. Not modelled, and the plan

The repository has some 450,000 lines, most of them user interface, extensions, previews and tests, which keep no
state that the questions above are about. Not modelled: workspace creation and limits, archive and deletion,
answers to questions and approvals, extension installation, upgrade and catalog, the transfer of assets, the
ordered record stream and presence, blobs and quotas of the relay, notifications, windows, harness drivers. What
interacts with modelled state comes first on the plan:

1. Workspace lifecycle, with `SessionQueue`'s wait for a workspace and the limit per workspace; asset transfers
   (`pstdio-api/src/services/asset-transfer-service.ts`); extension reload beside admitted schedules.
2. Questions and approvals answered in place, beside steering; failed checkpoints of one slot.
3. Proofs: lemmas on the relay's retirement; the types of the todo lists in `QueuedRequests`, once sorting can be
   reasoned about; which parts of `RunInv` survive a cancel and a PATCH.
