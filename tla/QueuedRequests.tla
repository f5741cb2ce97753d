--------------------------- MODULE QueuedRequests ---------------------------
(***************************************************************************)
(* The waiting requests of one session while the user edits, moves,        *)
(* combines, deletes and steers them, and the runs that consume them.      *)
(*                                                                         *)
(* SessionQueue models which session runs; this module follows the text of *)
(* each message.  What happens under the scheduling lock is one action.    *)
(* Other sessions only show as capacity that is there or not ("busy").     *)
(***************************************************************************)
EXTENDS Integers, FiniteSets, Sequences
LOCAL INSTANCE SequencesExt

CONSTANTS
  Message,      \* what users send
  Steer,        \* steering deliveries, each with an identity of its own
  MaxPos,       \* bound on queue positions handed out
  MaxRevision,  \* bound on the revisions of a position
  MaxRuns,      \* bound on the runs of the session
  MaxDrains,    \* bound on the drains that run at once
  Ops,          \* what users do in a run of the model
  Faults,       \* of {"busy", "question", "lost", "crash"}
  MaxFaults,    \* bound on losses and crashes
  NoSteer

ASSUME RequestsAssumption ==
  /\ MaxPos \in Nat /\ MaxRevision \in Nat \ {0} /\ MaxRuns \in Nat \ {0}
  /\ MaxDrains \in Nat /\ MaxFaults \in Nat
  /\ NoSteer \notin Steer

Pos == 1..MaxPos
Run == 1..MaxRuns

VARIABLES
  entry,      \* session_queue_entries by queue_position
  nextPos,    \* the identity sequence of queue_position
  status,     \* sessions.status
  run,        \* sessions.last_request_started as an ordinal
  history,    \* deliveries whose user message is in the session's file
  native,     \* deliveries in the harness's own history
  slot,       \* the session's ActiveSession, its launch and its exit handler
  stopping,   \* its cancellationRequested
  talk,       \* per run: deliveries in its live conversation
  steer,      \* the calls of deliverSteering
  cancelling, \* the run a cancel is stopping, 0 for none
  owed,       \* a drain that has to start: "no", "wake", or "release" of this session
  todo,       \* per running drain: the entries it has listed and not visited
  accepted,   \* entries whose removal was issued after acceptance
  shown,      \* the queue as the user last saw it
  newest,     \* per message the version saved last, 0 before it is sent
  turned, steered, \* how often a message was sent as a turn, or given to a live run
  got,        \* message versions that reached the harness
  dropped,    \* messages given up: deleted, cancelled, rejected or lost
  swept,      \* messages whose rows the end of a run deleted, nobody asking
  faults, crashes

rows == <<entry, nextPos, status, run, history>>
host == <<slot, stopping, talk, steer, cancelling, owed, todo, accepted>>
fate == <<newest, turned, steered, got, dropped, swept>>
vars == <<rows, native, host, shown, fate, faults, crashes>>

-----------------------------------------------------------------------------
Text == SUBSET (Message \X (1..(MaxRevision * MaxPos)))
Marks == {"unused", "pending", "held", "dispatched", "gone"}
Statuses == {"in_progress", "queued", "completed", "cancelled", "disconnected"}
Ended == {"completed", "cancelled", "disconnected"}
Requeueable == Ended \ {"cancelled"}

NoEntry == [mark |-> "unused", texts |-> {}, rev |-> 0, made |-> 0, by |-> NoSteer]
EmptySlot == [phase |-> "empty", run |-> 0, texts |-> {}, pos |-> 0, prev |-> 0]
Deleted == [NoEntry EXCEPT !.mark = "gone"]
IdleSteer == [phase |-> "idle", pos |-> 0, run |-> 0, fresh |-> FALSE]

TypeOK ==
  /\ entry \in [Pos -> [mark: Marks, texts: Text, rev: 0..MaxRevision,
                        made: 0..MaxPos, by: Steer \cup {NoSteer}]]
  /\ nextPos \in 1..(MaxPos + 1)
  /\ status \in Statuses
  /\ run \in Run
  /\ history \subseteq Steer /\ native \subseteq Steer
  /\ slot \in [phase: {"empty", "starting", "live", "closing", "saved", "writing", "ended"},
               run: 0..MaxRuns, texts: Text, pos: 0..MaxPos, prev: 0..MaxRuns]
  /\ stopping \in BOOLEAN
  /\ talk \in [Run -> SUBSET Steer]
  /\ steer \in [Steer -> [phase: {"idle", "claimed", "sent", "taken", "refused", "done"},
                          pos: 0..MaxPos, run: 0..MaxRuns, fresh: BOOLEAN]]
  /\ cancelling \in 0..MaxRuns
  /\ owed \in {"no", "wake", "release"}
  /\ todo \subseteq Seq([pos: Pos, texts: Text]) \ {<<>>}
  /\ accepted \subseteq Pos
  /\ shown \in [Pos -> [rev: 0..MaxRevision, texts: Text]]
  /\ newest \in [Message -> Nat]
  /\ turned \in [Message -> Nat] /\ steered \in [Message -> Nat]
  /\ got \subseteq Message \X Nat
  /\ dropped \subseteq Message /\ swept \subseteq Message
  /\ faults \in 0..MaxFaults /\ crashes \in 0..MaxFaults

\* A session whose first run is under way.
Init ==
  /\ entry = [p \in Pos |-> NoEntry]
  /\ nextPos = 1
  /\ status = "in_progress" /\ run = 1
  /\ history = {} /\ native = {}
  /\ slot = [EmptySlot EXCEPT !.phase = "live", !.run = 1]
  /\ stopping = FALSE
  /\ talk = [r \in Run |-> {}]
  /\ steer = [s \in Steer |-> IdleSteer]
  /\ cancelling = 0 /\ owed = "no" /\ todo = {} /\ accepted = {}
  /\ shown = [p \in Pos |-> [rev |-> 0, texts |-> {}]]
  /\ newest = [m \in Message |-> 0]
  /\ turned = [m \in Message |-> 0] /\ steered = [m \in Message |-> 0]
  /\ got = {} /\ dropped = {} /\ swept = {}
  /\ faults = 0 /\ crashes = 0

-----------------------------------------------------------------------------
Of(texts) == {t[1] : t \in texts}
Marked(mark) == {p \in Pos : entry[p].mark = mark}
Pending == Marked("pending")
InOrderOf(positions, before(_, _)) == SetToSortSeq(positions, before)

Counted(count, texts) == [m \in Message |-> count[m] + (IF m \in Of(texts) THEN 1 ELSE 0)]
Given(texts) == got' = got \cup texts

(* Each edit gives the row at p a new revision. *)
RevisedMutant(p, texts) == [entry[p] EXCEPT !.texts = texts]
Revised(p, texts) == [entry[p] EXCEPT !.texts = texts, !.rev = @ + 1]

(* Rows that a cancel deletes: all but those held for a steering delivery. *)
Cancellable == Pending \cup Marked("dispatched")
Cleared == [p \in Pos |-> IF p \in Cancellable THEN Deleted ELSE entry[p]]
TextsAt(positions) == UNION {entry[p].texts : p \in positions}

(* The caller's expectedRevision names the row it saw. *)
Expected(p) == shown[p].rev = entry[p].rev

CanRevise(positions) == \A p \in positions : entry[p].rev < MaxRevision

(* The steering calls that keep the conversation of run r open. *)
Controls(r) == {s \in Steer : steer[s].run = r
                  /\ steer[s].phase \in {"claimed", "sent", "taken", "refused"}}

CanFail(kind) == kind \in Faults /\ faults < MaxFaults

-----------------------------------------------------------------------------
(* Requests of the user.  The dashboard reloads the queue now and then. *)

Refresh ==
  LET current == [p \in Pos |-> [rev |-> entry[p].rev, texts |-> entry[p].texts]]
  IN  /\ shown # current
      /\ shown' = current
      /\ UNCHANGED <<rows, native, host, fate, faults, crashes>>

(* A follow-up: into the queue of an active or queued session, straight into a
   run of an ended one, or into its queue when there is no capacity. *)
NewEntry(m, mark, by) ==
  /\ newest[m] = 0
  /\ nextPos <= MaxPos
  /\ entry' = [entry EXCEPT ![nextPos] =
       [mark |-> mark, texts |-> {<<m, 1>>}, rev |-> 1, made |-> nextPos, by |-> by]]
  /\ nextPos' = nextPos + 1
  /\ newest' = [newest EXCEPT ![m] = 1]

Launch(texts, p) ==
  /\ run < MaxRuns
  /\ run' = run + 1
  /\ status' = "in_progress"
  /\ slot' = [phase |-> "starting", run |-> run + 1, texts |-> texts, pos |-> p,
              prev |-> slot.run]
  /\ stopping' = FALSE

FollowUpWaits(m) ==
  /\ status \in {"in_progress", "queued"} \/ "busy" \in Faults
  /\ NewEntry(m, "pending", NoSteer)
  /\ status' = IF status = "in_progress" THEN status ELSE "queued"
  /\ UNCHANGED <<run, history, native, host, shown, turned, steered, got, dropped,
                 swept, faults, crashes>>

FollowUpStarts(m) ==
  /\ status \in Ended
  /\ newest[m] = 0
  /\ Launch({<<m, 1>>}, 0)
  /\ newest' = [newest EXCEPT ![m] = 1]
  /\ UNCHANGED <<entry, nextPos, history, native, talk, steer, cancelling, owed, todo,
                 accepted, shown, turned, steered, got, dropped, swept, faults, crashes>>

(* updateQueuedRequest *)
Edit(p) ==
  /\ "edit" \in Ops
  /\ p \in Pending /\ Expected(p) /\ CanRevise({p})
  /\ newest' = Counted(newest, entry[p].texts)
  /\ entry' = [entry EXCEPT ![p] = Revised(p, {<<m, newest[m] + 1>> : m \in Of(entry[p].texts)})]
  /\ UNCHANGED <<nextPos, status, run, history, native, host, shown, turned, steered, got,
                 dropped, swept, faults, crashes>>

Delete(p) ==
  /\ "delete" \in Ops
  /\ p \in Pending /\ Expected(p)
  /\ entry' = [entry EXCEPT ![p] = Deleted]
  /\ dropped' = dropped \cup Of(entry[p].texts)
  /\ UNCHANGED <<nextPos, status, run, history, native, host, shown, newest, turned, steered,
                 got, swept, faults, crashes>>

(* movePending: the payload of p, with its created_at, takes the slot of q, and
   those between move up or down by one. *)
MovableMutant == Pending \cup Marked("held")
Movable == Pending
Span(p, q) == {k \in Movable : (p <= k /\ k <= q) \/ (q <= k /\ k <= p)}
Reordered(p, q) ==
  LET next(k) == CHOOSE n \in Span(p, q) : n > k /\ \A o \in Span(p, q) : o > k => n <= o
      previous(k) == CHOOSE n \in Span(p, q) : n < k /\ \A o \in Span(p, q) : o < k => o <= n
      source(k) == IF k = q THEN p ELSE IF p < q THEN next(k) ELSE previous(k)
  IN  [k \in Pos |-> IF k \in Span(p, q)
                     THEN [Revised(k, entry[source(k)].texts) EXCEPT !.made = entry[source(k)].made]
                     ELSE entry[k]]

Move(p, q) ==
  /\ "move" \in Ops
  /\ {p, q} \subseteq Movable /\ p # q /\ Expected(p)
  /\ CanRevise(Span(p, q))
  /\ entry' = Reordered(p, q)
  /\ UNCHANGED <<nextPos, status, run, history, native, host, shown, fate, faults, crashes>>

(* combinePending: q takes the text of both, p is deleted. *)
Combine(p, q) ==
  /\ "combine" \in Ops
  /\ {p, q} \subseteq Pending /\ p # q /\ Expected(p) /\ Expected(q) /\ CanRevise({q})
  /\ entry' = [entry EXCEPT ![q] = Revised(q, entry[p].texts \cup entry[q].texts), ![p] = Deleted]
  /\ UNCHANGED <<nextPos, status, run, history, native, host, shown, fate, faults, crashes>>

(* sessionService.cancel of a queued session, and of an active one: the handle is
   stopped first, and the row is written when the owner is still the same. *)
CancelQueued ==
  /\ "cancel" \in Ops
  /\ status = "queued"
  /\ status' = "cancelled"
  /\ entry' = Cleared
  /\ dropped' = dropped \cup Of(TextsAt(Cancellable))
  /\ UNCHANGED <<nextPos, run, history, native, host, shown, newest, turned, steered, got,
                 swept, faults, crashes>>

CancelStops ==
  /\ "cancel" \in Ops
  /\ cancelling = 0
  /\ status = "in_progress" /\ slot.phase \in {"live", "closing", "saved", "writing"}
  /\ stopping' = TRUE
  /\ cancelling' = run
  /\ UNCHANGED <<rows, native, slot, talk, steer, owed, todo, accepted, shown, fate, faults,
                 crashes>>

CancelWrites ==
  /\ cancelling # 0
  /\ cancelling' = 0
  /\ IF run = cancelling /\ slot.run \in {0, cancelling}
     THEN /\ status' = "cancelled"
          /\ entry' = Cleared
          /\ dropped' = dropped \cup Of(TextsAt(Cancellable))
          /\ owed' = "release"
     ELSE UNCHANGED <<status, entry, dropped, owed>>
  /\ UNCHANGED <<nextPos, run, history, native, slot, stopping, talk, steer, todo, accepted,
                 shown, newest, turned, steered, got, swept, faults, crashes>>

-----------------------------------------------------------------------------
(* deliverSteering.  A control is open from the claim until the call is over. *)

Steerable(r) == slot.phase = "live" /\ slot.run = r /\ ~stopping
                /\ status = "in_progress" /\ run = r

Finished == [IdleSteer EXCEPT !.phase = "done"]
Finish(s) == steer' = [steer EXCEPT ![s] = Finished]
StepTo(s, phase) == steer' = [steer EXCEPT ![s].phase = phase]

(* steerQueuedFollowUp: the revision the user saw is held for this delivery. *)
Claim(s, p) ==
  /\ "steer" \in Ops
  /\ steer[s].phase = "idle"
  /\ Steerable(run)
  /\ p \in Pending /\ Expected(p)
  /\ entry' = [entry EXCEPT ![p].mark = "held", ![p].by = s]
  /\ steer' = [steer EXCEPT ![s] = [phase |-> "claimed", pos |-> p, run |-> run, fresh |-> FALSE]]
  /\ UNCHANGED <<nextPos, status, run, history, native, slot, stopping, talk, cancelling, owed,
                 todo, accepted, shown, fate, faults, crashes>>

(* steerSession: a new message, held from the start. *)
SteerNew(s, m) ==
  /\ "steerNew" \in Ops
  /\ steer[s].phase = "idle"
  /\ Steerable(run)
  /\ NewEntry(m, "held", s)
  /\ steer' = [steer EXCEPT ![s] = [phase |-> "claimed", pos |-> nextPos, run |-> run, fresh |-> TRUE]]
  /\ UNCHANGED <<status, run, history, native, slot, stopping, talk, cancelling, owed, todo,
                 accepted, shown, turned, steered, got, dropped, swept, faults, crashes>>

(* deliveryGate, and the call of the harness behind it. *)
Gate(s) ==
  /\ steer[s].phase = "claimed"
  /\ \/ Steerable(steer[s].run) /\ StepTo(s, "sent")
     \/ ~Steerable(steer[s].run) /\ StepTo(s, "refused")
     \/ "question" \in Faults /\ StepTo(s, "refused")
  /\ UNCHANGED <<rows, native, slot, stopping, talk, cancelling, owed, todo, accepted, shown,
                 fate, faults, crashes>>

(* The harness puts the message in its history and in the conversation, and then
   answers "accepted"; or it answers "rejected" and does neither. *)
HarnessTakes(s) ==
  LET texts == entry[steer[s].pos].texts IN
  /\ steer[s].phase = "sent"
  /\ slot.run = steer[s].run /\ slot.phase = "live"
  /\ native' = native \cup {s}
  /\ talk' = [talk EXCEPT ![steer[s].run] = @ \cup {s}]
  /\ steered' = Counted(steered, texts)
  /\ Given(texts)
  /\ StepTo(s, "taken")
  /\ UNCHANGED <<rows, slot, stopping, cancelling, owed, todo, accepted, shown, newest, turned,
                 dropped, swept, faults, crashes>>

HarnessRejects(s) ==
  /\ steer[s].phase = "sent"
  /\ StepTo(s, "refused")
  /\ UNCHANGED <<rows, native, slot, stopping, talk, cancelling, owed, todo, accepted, shown,
                 fate, faults, crashes>>

(* A definite rejection: a queued request waits again, a new one is discarded. *)
Release(s) ==
  LET p == steer[s].pos IN
  /\ steer[s].phase = "refused"
  /\ Finish(s)
  /\ IF steer[s].fresh
     THEN /\ entry' = [entry EXCEPT ![p] = Deleted]
          /\ dropped' = dropped \cup Of(entry[p].texts)
     ELSE /\ entry' = IF entry[p].by = s
                      THEN [entry EXCEPT ![p].mark = "pending", ![p].by = NoSteer]
                      ELSE entry
          /\ UNCHANGED dropped
  /\ UNCHANGED <<nextPos, status, run, history, native, slot, stopping, talk, cancelling, owed,
                 todo, accepted, shown, newest, turned, steered, got, swept, faults, crashes>>

(* Acceptance: the conversation with the message is saved before the row goes. *)
AcceptedRows(s) == [entry EXCEPT ![steer[s].pos] = Deleted]
Accept(s) ==
  /\ steer[s].phase = "taken"
  /\ s \in talk[steer[s].run]
  /\ Finish(s)
  /\ history' = talk[steer[s].run]
  /\ entry' = AcceptedRows(s)
  /\ UNCHANGED <<nextPos, status, run, native, slot, stopping, talk, cancelling, owed, todo,
                 accepted, shown, fate, faults, crashes>>

(* The answer does not arrive: the row stays held, for nobody to send again. *)
AnswerLostMutant(s) ==
  /\ CanFail("lost")
  /\ steer[s].phase \in {"sent", "taken"}
  /\ StepTo(s, "refused")
  /\ faults' = faults + 1
  /\ UNCHANGED <<rows, native, slot, stopping, talk, cancelling, owed, todo, accepted, shown,
                 fate, crashes>>
AnswerLost(s) ==
  /\ CanFail("lost")
  /\ steer[s].phase \in {"sent", "taken"}
  /\ Finish(s)
  /\ faults' = faults + 1
  /\ UNCHANGED <<rows, native, slot, stopping, talk, cancelling, owed, todo, accepted, shown,
                 fate, crashes>>

(* loadSessionHistory: the saved conversation, and what the harness's own history
   adds to it when that can be read.  A checkpoint file that is missing or does not
   parse is left out: the code then goes on with the harness's history, or with
   none, and the next save replaces the file. *)
LoadedMutant(known) == {{}, native}
Loaded(known) == {known, known \cup native}

(* reconcileQueuedSteering: with no owner about, a held row whose message is in
   the history is done. *)
Reconcile ==
  /\ slot.phase = "empty"
  /\ \E messages \in Loaded(history) :
       LET proven == {p \in Marked("held") : entry[p].by \in messages} IN
       /\ proven # {}
       /\ history' = messages
       /\ entry' = [p \in Pos |-> IF p \in proven THEN Deleted ELSE entry[p]]
  /\ UNCHANGED <<nextPos, status, run, native, host, shown, fate, faults, crashes>>

-----------------------------------------------------------------------------
(* Runs.  A launch first checkpoints the conversation of the owner it replaced. *)

Begin ==
  /\ slot.phase = "starting"
  /\ Controls(slot.prev) = {}
  /\ LET known == IF slot.prev = 0 THEN history ELSE talk[slot.prev] IN
     /\ history' = known
     /\ \E messages \in Loaded(known) : talk' = [talk EXCEPT ![slot.run] = messages]
  /\ slot' = [slot EXCEPT !.phase = "live", !.texts = {}, !.pos = 0, !.prev = 0]
  /\ accepted' = accepted \cup ({slot.pos} \ {0})
  /\ turned' = Counted(turned, slot.texts)
  /\ Given(slot.texts)
  /\ UNCHANGED <<entry, nextPos, status, run, native, stopping, steer, cancelling, owed, todo,
                 shown, newest, steered, dropped, swept, faults, crashes>>

RemoveAccepted(p) ==
  /\ p \in accepted
  /\ accepted' = accepted \ {p}
  /\ entry' = [entry EXCEPT ![p] = Deleted]
  /\ UNCHANGED <<nextPos, status, run, history, native, slot, stopping, talk, steer, cancelling,
                 owed, todo, shown, fate, faults, crashes>>

(* trackHarnessSession: the handle goes, then the open controls are awaited, then
   the conversation is saved, then the row is written. *)
Step(phase) == slot' = [slot EXCEPT !.phase = phase]

ExitSeen ==
  /\ slot.phase = "live"
  /\ Step("closing")
  /\ UNCHANGED <<rows, native, stopping, talk, steer, cancelling, owed, todo, accepted, shown,
                 fate, faults, crashes>>

OpenControlsMutant == {}
OpenControls == Controls(slot.run)
ExitSaves ==
  /\ slot.phase = "closing"
  /\ OpenControls = {}
  /\ history' = talk[slot.run]
  /\ Step("saved")
  /\ UNCHANGED <<entry, nextPos, status, run, native, stopping, talk, steer, cancelling, owed,
                 todo, accepted, shown, fate, faults, crashes>>

(* The status is read, and written in a transaction of its own. *)
ExitReads ==
  /\ slot.phase = "saved"
  /\ IF status = "cancelled"
     THEN slot' = EmptySlot /\ stopping' = FALSE
     ELSE Step("writing") /\ UNCHANGED stopping
  /\ UNCHANGED <<rows, native, talk, steer, cancelling, owed, todo, accepted, shown, fate,
                 faults, crashes>>

(* updateSessionStatus ends whatever it finds: a session that was stopped and has
   a request waiting again is "queued", and the requests of a queued session go
   when it ends. *)
ExitWrites ==
  /\ slot.phase = "writing"
  /\ Step("ended")
  /\ status' = "completed"
  /\ owed' = "release"
  /\ IF status = "queued"
     THEN entry' = Cleared /\ swept' = swept \cup Of(TextsAt(Cancellable))
     ELSE UNCHANGED <<entry, swept>>
  /\ UNCHANGED <<nextPos, run, history, native, stopping, talk, steer, cancelling, todo,
                 accepted, shown, newest, turned, steered, got, dropped, faults, crashes>>

ExitRemoves ==
  /\ slot.phase = "ended"
  /\ slot' = EmptySlot /\ stopping' = FALSE
  /\ UNCHANGED <<rows, native, talk, steer, cancelling, owed, todo, accepted, shown,
                 fate, faults, crashes>>

-----------------------------------------------------------------------------
(* createSessionQueueDrain and dispatchQueuedEntry *)

(* listPending: by created_at, then by position. *)
Earlier(p, q) == \/ entry[p].made < entry[q].made
                 \/ entry[p].made = entry[q].made /\ p < q
Listed ==
  LET positions == InOrderOf(Pending, Earlier)
  IN  [i \in DOMAIN positions |-> [pos |-> positions[i], texts |-> entry[positions[i]].texts]]

(* Capacity was released elsewhere. *)
Woken ==
  /\ owed = "no" /\ status = "queued"
  /\ owed' = "wake"
  /\ UNCHANGED <<rows, native, slot, stopping, talk, steer, cancelling, todo, accepted, shown,
                 fate, faults, crashes>>

DrainLists ==
  /\ owed # "no"
  /\ Cardinality(todo) < MaxDrains
  /\ owed' = "no"
  /\ todo' = todo \cup ({Listed} \ {<<>>})
  /\ status' = IF owed = "release" /\ status \in Requeueable /\ Pending # {}
               THEN "queued" ELSE status
  /\ UNCHANGED <<entry, nextPos, run, history, native, slot, stopping, talk, steer, cancelling,
                 accepted, shown, fate, faults, crashes>>

Dispatchable(e) == status = "queued" /\ e.pos \in Pending
Visited(list) == todo' = (todo \ {list}) \cup ({Tail(list)} \ {<<>>})

DrainSkips(list) ==
  /\ ~Dispatchable(Head(list)) \/ "busy" \in Faults
  /\ Visited(list)
  /\ UNCHANGED <<rows, native, slot, stopping, talk, steer, cancelling, owed, accepted, shown,
                 fate, faults, crashes>>

(* The request is read again: the list may be older than an edit. *)
SavedMutant(e) == e.texts
Saved(e) == entry[e.pos].texts
DrainDispatches(list) ==
  /\ Dispatchable(Head(list))
  /\ Launch(Saved(Head(list)), Head(list).pos)
  /\ entry' = [entry EXCEPT ![Head(list).pos].mark = "dispatched"]
  /\ Visited(list)
  /\ UNCHANGED <<nextPos, history, native, talk, steer, cancelling, owed, accepted, shown, fate,
                 faults, crashes>>

(* A crash, and the startup that follows it: the claim of an active session is
   released, an active session without one is disconnected.  A follow-up that was
   launched straight away was only in memory. *)
Crash ==
  /\ CanFail("crash")
  /\ faults' = faults + 1 /\ crashes' = crashes + 1
  /\ \/ status = "in_progress" /\ \E p \in Marked("dispatched") :
          /\ entry' = [entry EXCEPT ![p].mark = "pending"]
          /\ status' = "queued"
     \/ status = "in_progress" /\ Marked("dispatched") = {}
          /\ status' = "disconnected" /\ UNCHANGED entry
     \/ status # "in_progress" /\ UNCHANGED <<entry, status>>
  /\ dropped' = IF slot.phase = "starting" /\ slot.pos = 0
                THEN dropped \cup Of(slot.texts) ELSE dropped
  /\ slot' = EmptySlot /\ stopping' = FALSE
  /\ talk' = [r \in Run |-> {}]
  /\ steer' = [s \in Steer |-> IF steer[s].phase = "idle" THEN IdleSteer ELSE Finished]
  /\ cancelling' = 0 /\ owed' = "wake" /\ todo' = {} /\ accepted' = {}
  /\ UNCHANGED <<nextPos, run, history, native, shown, newest, turned, steered, got, swept>>

-----------------------------------------------------------------------------
UserStep ==
  \/ Refresh \/ CancelQueued \/ CancelStops
  \/ \E m \in Message : FollowUpWaits(m) \/ FollowUpStarts(m)
  \/ \E p \in Pos : Edit(p) \/ Delete(p)
  \/ \E p, q \in Pos : Move(p, q) \/ Combine(p, q)
  \/ \E s \in Steer : \/ \E p \in Pos : Claim(s, p)
                      \/ \E m \in Message : SteerNew(s, m)

SteerStep(s) ==
  Gate(s) \/ HarnessTakes(s) \/ HarnessRejects(s) \/ Release(s) \/ Accept(s) \/ AnswerLost(s)

HostStep ==
  \/ CancelWrites \/ Reconcile
  \/ Begin \/ ExitSeen \/ ExitSaves \/ ExitReads \/ ExitWrites \/ ExitRemoves
  \/ Woken \/ DrainLists
  \/ \E list \in todo : DrainSkips(list) \/ DrainDispatches(list)
  \/ \E p \in Pos : RemoveAccepted(p)

Next == UserStep \/ HostStep \/ Crash \/ \E s \in Steer : SteerStep(s)

Spec == Init /\ [][Next]_vars

-----------------------------------------------------------------------------
(* What the queue promises for the messages entrusted to it. *)

Sent == {m \in Message : newest[m] > 0}
Deliveries(m) == turned[m] + steered[m]
Homes(m) == {p \in Pos : entry[p].mark \in {"pending", "held", "dispatched"}
                         /\ m \in Of(entry[p].texts)}
InMemory(m) == slot.phase = "starting" /\ slot.pos = 0 /\ m \in Of(slot.texts)

Waits(m) == Homes(m) # {} \/ InMemory(m)

\* A message that was accepted is waiting in exactly one row until it has been
\* delivered or given up, whatever is edited, moved, combined, held or released.
\* Excepted are the rows of a session that its user stopped, and that was queued
\* again before the end of the stopped run was written: see NobodySwept.
NothingForgotten ==
  /\ \A m \in Sent :
       /\ Cardinality(Homes(m)) <= 1
       /\ Waits(m) \/ Deliveries(m) > 0 \/ m \in dropped \/ m \in swept
  /\ slot.phase = "writing" /\ status = "queued" => stopping

\* No message goes with the end of a run that has nothing to do with it (this
\* fails: see README).
NobodySwept == \A m \in Sent : Waits(m) \/ Deliveries(m) > 0 \/ m \in dropped

\* A message given to a live run is never sent again, neither as a turn nor as
\* another delivery, and one sent as a turn is only sent again after a crash.
NeverReplayed ==
  [][\A m \in Message : Deliveries(m)' > Deliveries(m)
       => /\ steered[m] = 0
          /\ turned[m] = 0 \/ crashes > 0]_vars

\* What reaches the harness is the version saved last, of a message that was not
\* given up, although drains and steering calls read rows before they use them.
DeliversWhatIsSaved ==
  [][\A t \in got' \ got : t[2] = newest[t[1]] /\ t[1] \notin dropped]_vars

\* A position and a revision name one text: who acts on what it saw acts on that,
\* although positions are reused by moves and combinations.
RevisionNamesText ==
  \A p \in Pos : entry[p].mark \in {"pending", "held"} /\ Expected(p)
    => shown[p].texts = entry[p].texts

\* Once the row of a delivered steering message is gone, the message is in the
\* saved conversation, and no later save takes it out.
AcceptedIsSaved ==
  \A s \in native : (\A p \in Pos : entry[p].by # s) => s \in history

\* An uninterrupted host does not leave requests waiting in an ended session that
\* was not cancelled: a drain is about to queue it again.
NoRequestStranded ==
  crashes = 0 /\ status \in Requeueable /\ Pending # {} => owed = "release"

\* A drain takes the first request of the session in the order of its queue.
DispatchedInQueueOrder ==
  [][\A p \in Pos : entry[p].mark = "pending" /\ entry'[p].mark = "dispatched"
       => \A q \in Pending : p <= q]_vars
=============================================================================
