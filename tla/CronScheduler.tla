--------------------------- MODULE CronScheduler ---------------------------
(***************************************************************************)
(* The scheduler of extension commands: pstdio-scheduler, the admission of *)
(* a run, and the journal of the automations assigned to this device.      *)
(*                                                                         *)
(* A schedule is the set of minutes its cron expression fires.  The        *)
(* watermark file and the journal survive a crash; the rest does not.      *)
(***************************************************************************)
EXTENDS Integers, FiniteSets, Sequences

CONSTANTS
  Job,           \* schedules of the installed extensions
  Assigned,      \* those assigned to this device, kept in the journal
  MaxMinute,     \* bound on the clock
  Crons,         \* the expressions schedules may carry
  Invalid,       \* an expression that the cron backend refuses
  CatchupSteps,  \* iterations of the search for a missed minute
  Faults,        \* "list", "project", "save", "tear", "clock": what may go wrong
  MaxEdits,      \* bound on changes of the enabled schedules and of the clock
  MaxCrashes     \* bound on host crashes

Minute == 1..MaxMinute
Never == {}      \* of a schedule that is not enabled

ASSUME JobsAssumption ==
  /\ IsFiniteSet(Job)
  /\ Assigned \subseteq Job
  /\ MaxMinute \in Nat
  /\ Crons \subseteq SUBSET Minute
  /\ Invalid \notin Crons \cup {Never}
  /\ CatchupSteps \in Nat
  /\ MaxEdits \in Nat
  /\ MaxCrashes \in Nat

VARIABLES
  clock,
  plan,        \* the enabled schedules, as listJobs and the admission read them
  active,      \* armed jobs by key; gen is the identity of the entry
  gens,
  runs,        \* calls of runJob
  watermarks,  \* last claimed minute by key, 0 for none
  saves,       \* watermarkWriteQueue
  file,        \* the watermark file; unreadable reads as all 0
  refresher,   \* refreshPromise, pendingRefresh, watermarksLoaded
  disposal,
  initialized, \* assigned jobs whose missed occurrences were skipped
  cursor, occurrence,   \* the automation journal
  effects,     \* how often the command of an occurrence was executed
  edits, crashes

planVars == <<clock, plan, edits>>
claimVars == <<watermarks, saves>>
journalVars == <<cursor, occurrence>>
jobVars == <<active, gens>>
vars == <<planVars, jobVars, runs, claimVars, file, refresher, disposal,
          initialized, journalVars, effects, crashes>>

-----------------------------------------------------------------------------
Specs == Crons \cup {Never, Invalid}
RunPhases == {"called", "admitted", "claimed", "executing", "skipping"}
Statuses == {"none", "started", "skipped", "completed", "failed"}
NoEntry == [gen |-> 0, cron |-> Never, checked |-> FALSE, armed |-> FALSE, last |-> 0]
NoMarks == [j \in Job |-> 0]

Marks == [Job -> 0..MaxMinute]
Entries == [gen: Nat, cron: Specs, checked: BOOLEAN, armed: BOOLEAN, last: 0..MaxMinute]
Runs == [job: Job, gen: Nat, minute: Minute, cron: Specs, phase: RunPhases, late: BOOLEAN]

TypeOK ==
  /\ clock \in 0..MaxMinute
  /\ plan \in [Job -> Specs]
  /\ active \in [Job -> Entries]
  /\ gens \in Nat
  /\ runs \subseteq Runs
  /\ watermarks \in Marks
  /\ saves \in Seq(Marks)
  /\ file \in Marks
  /\ refresher \in [pc: {"idle", "list", "load", "apply", "settle"}, got: [Job -> Specs],
                    pending: BOOLEAN, loaded: BOOLEAN]
  /\ disposal \in {"no", "refresh", "runs", "saves", "done"}
  /\ initialized \subseteq Assigned
  /\ cursor \in Marks
  /\ occurrence \in [Job -> [Minute -> Statuses]]
  /\ effects \in [Job -> [Minute -> Nat]]
  /\ edits \in 0..MaxEdits
  /\ crashes \in 0..MaxCrashes

Nothing == [j \in Job |-> Never]
FreshRefresher == [pc |-> "list", got |-> Nothing, pending |-> FALSE, loaded |-> FALSE]

Init ==
  /\ clock = 0
  /\ plan \in [Job -> Crons \cup {Never}]
  /\ active = [j \in Job |-> NoEntry]
  /\ gens = 0
  /\ runs = {}
  /\ watermarks = NoMarks
  /\ saves = <<>>
  /\ file = NoMarks
  /\ refresher = FreshRefresher
  /\ disposal = "no"
  /\ initialized = {}
  /\ cursor = NoMarks
  /\ occurrence = [j \in Job |-> [m \in Minute |-> "none"]]
  /\ effects = [j \in Job |-> [m \in Minute |-> 0]]
  /\ edits = 0
  /\ crashes = 0

-----------------------------------------------------------------------------
(* The journal of assigned automations *)

OpenMutant(j, cron, end) == {m \in cron : m <= end}

(* Occurrences up to the minute that the journal does not know yet. *)
Open(j, cron, end) ==
  {m \in cron : cursor[j] < m /\ m <= end /\ occurrence[j][m] = "none"}

(* advance: one commit moves the cursor and records every occurrence passed;
   the one that is dispatched is "started". *)
Advance(j, cron, end, dispatch) ==
  IF cursor[j] >= end THEN UNCHANGED journalVars
  ELSE /\ cursor' = [cursor EXCEPT ![j] = end]
       /\ occurrence' = [occurrence EXCEPT ![j] = [m \in Minute |->
            CASE m \notin Open(j, cron, end) -> occurrence[j][m]
              [] m \in Open(j, cron, end) /\ m = end /\ dispatch -> "started"
              [] OTHER -> "skipped"]]

ClaimedRunMutant(j, cron, end) == end \in cron
ClaimedRun(j, cron, end) == cursor[j] < end /\ end \in Open(j, cron, end)

-----------------------------------------------------------------------------
(* refresh, doRefresh *)

(* doRefresh returned: once more, if a refresh was asked for meanwhile. *)
Loop ==
  LET again == refresher.pending /\ disposal = "no" IN
  refresher' = [refresher EXCEPT !.pc = IF again THEN "list" ELSE "settle",
                                 !.got = Nothing,
                                 !.pending = IF again THEN FALSE ELSE @]

(* A change of the enabled schedules and the event it emits: a refresh that is
   under way runs once more, or none is and one starts. *)
EditPlan(j, cron) ==
  /\ edits < MaxEdits
  /\ cron # plan[j]
  /\ cron = Invalid => j \notin Assigned
  /\ edits' = edits + 1
  /\ plan' = [plan EXCEPT ![j] = cron]
  /\ refresher' = CASE disposal # "no" -> refresher
                    [] disposal = "no" /\ refresher.pc = "idle" -> [refresher EXCEPT !.pc = "list"]
                    [] OTHER -> [refresher EXCEPT !.pending = TRUE]
  /\ UNCHANGED <<clock, jobVars, runs, claimVars, file, disposal, initialized, journalVars,
                 effects, crashes>>

Journaled(got) == {j \in Assigned : got[j] # Never}

(* listJobs: an assigned job that is new to this host skips what it missed.  A
   project that cannot be read drops out of the list. *)
RefreshList ==
  /\ refresher.pc = "list"
  /\ disposal = "no"
  /\ \E lost \in IF "project" \in Faults THEN SUBSET Job ELSE {{}} :
       LET got == [j \in Job |-> IF j \in lost THEN Never ELSE plan[j]]
           new == {j \in Journaled(got) \ initialized : cursor[j] < clock}
       IN
       /\ initialized' = Journaled(got)
       /\ cursor' = [j \in Job |-> IF j \in new THEN clock ELSE cursor[j]]
       /\ occurrence' = [j \in Job |-> [m \in Minute |->
            IF j \in new /\ m \in Open(j, got[j], clock) THEN "skipped" ELSE occurrence[j][m]]]
       /\ refresher' = [refresher EXCEPT !.got = got,
                          !.pc = IF refresher.loaded THEN "apply" ELSE "load"]
  /\ UNCHANGED <<planVars, jobVars, runs, claimVars, file, disposal, effects, crashes>>

(* Listing failed, or the scheduler was disposed before this round. *)
RefreshStops ==
  /\ refresher.pc = "list"
  /\ disposal # "no" \/ "list" \in Faults
  /\ Loop
  /\ UNCHANGED <<planVars, jobVars, runs, claimVars, file, disposal, initialized, journalVars,
                 effects, crashes>>

RefreshLoadMutant ==
  /\ refresher.pc = "load"
  /\ refresher' = [refresher EXCEPT !.pc = "apply", !.loaded = TRUE]
  /\ UNCHANGED <<planVars, jobVars, runs, claimVars, file, disposal, initialized, journalVars,
                 effects, crashes>>

RefreshLoad ==
  /\ refresher.pc = "load"
  /\ watermarks' = file
  /\ refresher' = [refresher EXCEPT !.pc = "apply", !.loaded = TRUE]
  /\ UNCHANGED <<planVars, jobVars, runs, saves, file, disposal, initialized, journalVars,
                 effects, crashes>>

CatchupMinuteMutant(j, cron) ==
  LET due == {m \in cron : watermarks[j] <= m /\ m < clock}
  IN IF watermarks[j] = 0 \/ due = {} THEN 0
     ELSE CHOOSE m \in due : \A k \in due : k <= m

(* findCatchupMinute: the last minute missed before now, if the search for it
   does not stop earlier; 0 for none. *)
CatchupMinute(j, cron) ==
  LET due == {m \in cron : watermarks[j] < m /\ m < clock}
      reached == {m \in due : Cardinality({k \in due : k <= m}) <= CatchupSteps}
  IN IF watermarks[j] = 0 \/ reached = {} THEN 0
     ELSE CHOOSE m \in reached : \A k \in reached : k <= m

Busy(j, gen) == \E r \in runs : r.job = j /\ r.gen = gen

Call(j, gen, minute) ==
  [job |-> j, gen |-> gen, minute |-> minute, cron |-> Never, phase |-> "called", late |-> FALSE]

(* The orders in which a pass over the jobs may claim the minutes it catches up. *)
Orders(S) == {o \in [1..Cardinality(S) -> S] : \A a, b \in DOMAIN o : o[a] = o[b] => a = b}

Kept(j) == active[j].gen # 0 /\ active[j].cron = refresher.got[j]

CatchesUpMutant(j) ==
  /\ j \notin Assigned /\ (Kept(j) => ~active[j].checked)
  /\ CatchupMinute(j, refresher.got[j]) # 0
CatchesUp(j) ==
  /\ disposal = "no"
  /\ j \notin Assigned
  /\ Kept(j) => ~active[j].checked /\ ~Busy(j, active[j].gen)
  /\ CatchupMinute(j, refresher.got[j]) # 0

Entry(j) ==
  CASE refresher.got[j] = Never -> NoEntry
    [] refresher.got[j] # Never /\ Kept(j) -> [active[j] EXCEPT !.checked = @ \/ j \notin Assigned]
    [] OTHER -> [gen |-> gens + 1, cron |-> refresher.got[j], checked |-> j \notin Assigned,
                 armed |-> TRUE, last |-> clock]

(* A pass over the listed jobs, without an await: stop, arm, catch up, and claim
   each minute caught up.  Entries armed by one pass share a number. *)
Pass(jobs) ==
  LET caught == {j \in jobs : refresher.got[j] # Never /\ CatchesUp(j)}
      minute(j) == CatchupMinute(j, refresher.got[j])
      upTo(o, i) == [j \in Job |-> IF \E k \in 1..i : o[k] = j THEN minute(j) ELSE watermarks[j]]
  IN
  /\ gens' = IF \E j \in jobs : Entry(j).gen = gens + 1 THEN gens + 1 ELSE gens
  /\ runs' = runs \cup {Call(j, Entry(j).gen, minute(j)) : j \in caught}
  /\ \E o \in Orders(caught) :
       /\ watermarks' = upTo(o, Len(o))
       /\ saves' = saves \o [i \in 1..Len(o) |-> upTo(o, i)]
  /\ UNCHANGED <<planVars, file, disposal, initialized, journalVars, effects, crashes>>

RefreshApply ==
  /\ refresher.pc = "apply"
  /\ \A j \in Job : refresher.got[j] # Invalid
  /\ active' = [j \in Job |-> Entry(j)]
  /\ Pass(Job)
  /\ Loop

(* The backend refuses an expression: the pass ends there, the old handle of the
   entry is stopped already, and a pending refresh is not made up for. *)
RefreshThrows(j) ==
  /\ refresher.pc = "apply"
  /\ refresher.got[j] = Invalid
  /\ \E before \in SUBSET {k \in Job : refresher.got[k] \in Crons} :
       /\ active' = [k \in Job |-> CASE k \in before -> Entry(k)
                                     [] k = j -> [active[k] EXCEPT !.armed = FALSE]
                                     [] OTHER -> active[k]]
       /\ Pass(before)
  /\ refresher' = [refresher EXCEPT !.pc = "settle", !.got = Nothing]

(* refreshPromise is reset one turn after the loop has ended. *)
RefreshSettles ==
  /\ refresher.pc = "settle"
  /\ refresher' = [refresher EXCEPT !.pc = "idle"]
  /\ UNCHANGED <<planVars, jobVars, runs, claimVars, file, disposal, initialized, journalVars,
                 effects, crashes>>

-----------------------------------------------------------------------------
(* tryClaimMinute, dispatchRun *)

Claimable(j, minute) == minute > watermarks[j]

(* The handle of an armed job fires for a minute that is due, maybe late: what is
   scheduled is the minute of the firing.  Unless the entry has a run in flight
   or the minute is claimed, the claim is queued for the file and the run made. *)
Fire(j) ==
  LET e == active[j]
      starts == disposal = "no" /\ ~Busy(j, e.gen) /\ Claimable(j, clock)
  IN
  /\ e.armed
  /\ \E m \in e.cron : e.last < m /\ m <= clock
  /\ active' = [active EXCEPT ![j].last = clock]
  /\ runs' = IF starts THEN runs \cup {Call(j, e.gen, clock)} ELSE runs
  /\ watermarks' = IF starts THEN [watermarks EXCEPT ![j] = clock] ELSE watermarks
  /\ saves' = IF starts THEN Append(saves, watermarks') ELSE saves
  /\ UNCHANGED <<planVars, gens, file, refresher, disposal, initialized, journalVars, effects,
                 crashes>>

(* persistWatermarks: snapshots are written one after the other. *)
Save ==
  /\ saves # <<>>
  /\ saves' = Tail(saves)
  /\ \/ file' = Head(saves)
     \/ "save" \in Faults /\ UNCHANGED file
  /\ UNCHANGED <<planVars, jobVars, runs, watermarks, refresher, disposal, initialized,
                 journalVars, effects, crashes>>

-----------------------------------------------------------------------------
(* runJob: admission, claim, and the final check before the command *)

Move(r, phase) == runs' = (runs \ {r}) \cup {[r EXCEPT !.phase = phase]}
runUnchanged == <<planVars, jobVars, claimVars, file, refresher, disposal, initialized, crashes>>

(* The run reads the schedules again and goes by what they say now. *)
RunAdmit(r) ==
  /\ r.phase = "called"
  /\ runs' = (runs \ {r}) \cup
       (IF plan[r.job] = Never THEN {}
        ELSE {[r EXCEPT !.phase = "admitted", !.cron = plan[r.job]]})
  /\ UNCHANGED <<runUnchanged, journalVars, effects>>

(* The claim of an assigned occurrence is durable before its command runs. *)
RunClaim(r) ==
  /\ r.phase = "admitted"
  /\ IF r.job \in Assigned
     THEN /\ Advance(r.job, r.cron, r.minute, TRUE)
          /\ IF ClaimedRun(r.job, r.cron, r.minute) THEN Move(r, "claimed")
             ELSE runs' = runs \ {r}
     ELSE Move(r, "claimed") /\ UNCHANGED journalVars
  /\ UNCHANGED <<runUnchanged, effects>>

(* The inputs of the run are checked again in the turn that dispatches it. *)
RunDispatch(r) ==
  /\ r.phase = "claimed"
  /\ IF plan[r.job] = r.cron
     THEN /\ Move(r, "executing")
          /\ effects' = [effects EXCEPT ![r.job][r.minute] = @ + 1]
     ELSE Move(r, "skipping") /\ UNCHANGED effects
  /\ UNCHANGED <<runUnchanged, journalVars>>

(* finish: the command ended, the dispatch was refused, or preparing it failed. *)
RunFinish(r) ==
  /\ r.phase \in {"claimed", "executing", "skipping"}
  /\ runs' = runs \ {r}
  /\ \E st \in CASE r.phase = "executing" -> {"completed", "failed"}
                 [] r.phase = "skipping" -> {"skipped"}
                 [] r.phase = "claimed" -> {"failed"} :
       occurrence' = IF r.job \in Assigned
                     THEN [occurrence EXCEPT ![r.job][r.minute] = st] ELSE occurrence
  /\ UNCHANGED <<runUnchanged, cursor, effects>>

(* startActiveRun: after its deadline a run no longer holds up the shutdown, and
   stays in flight for its entry.  Only a shutdown can tell when that was. *)
RunDeadline(r) ==
  /\ disposal = "runs"
  /\ ~r.late
  /\ runs' = (runs \ {r}) \cup {[r EXCEPT !.late = TRUE]}
  /\ UNCHANGED <<runUnchanged, journalVars, effects>>

-----------------------------------------------------------------------------
(* dispose, crash, time *)

Dispose ==
  /\ disposal = "no"
  /\ disposal' = "refresh"
  /\ UNCHANGED <<planVars, jobVars, runs, claimVars, file, refresher, initialized, journalVars,
                 effects, crashes>>

DisposeStopsMutant ==
  /\ disposal = "refresh"
  /\ active' = [j \in Job |-> NoEntry]
  /\ disposal' = "runs"
  /\ UNCHANGED <<planVars, gens, runs, claimVars, file, refresher, initialized, journalVars,
                 effects, crashes>>

(* Handles are stopped once no refresh can arm another. *)
DisposeStops ==
  /\ disposal = "refresh"
  /\ refresher.pc = "idle"
  /\ active' = [j \in Job |-> NoEntry]
  /\ disposal' = "runs"
  /\ UNCHANGED <<planVars, gens, runs, claimVars, file, refresher, initialized, journalVars,
                 effects, crashes>>

DisposeRunsMutant ==
  /\ disposal = "runs"
  /\ runs = {}
  /\ disposal' = "saves"
  /\ UNCHANGED <<planVars, jobVars, runs, claimVars, file, refresher, initialized, journalVars,
                 effects, crashes>>

DisposeRuns ==
  /\ disposal = "runs"
  /\ \A r \in runs : r.late
  /\ disposal' = "saves"
  /\ UNCHANGED <<planVars, jobVars, runs, claimVars, file, refresher, initialized, journalVars,
                 effects, crashes>>

DisposeSaves ==
  /\ disposal = "saves"
  /\ saves = <<>>
  /\ disposal' = "done"
  /\ UNCHANGED <<planVars, jobVars, runs, claimVars, file, refresher, initialized, journalVars,
                 effects, crashes>>

(* The process ends, and starts again.  A write that was under way may have left
   a file that cannot be read. *)
Crash ==
  /\ crashes < MaxCrashes
  /\ crashes' = crashes + 1
  /\ active' = [j \in Job |-> NoEntry]
  /\ gens' = 0
  /\ runs' = {}
  /\ watermarks' = NoMarks
  /\ saves' = <<>>
  /\ refresher' = FreshRefresher
  /\ disposal' = "no"
  /\ initialized' = {}
  /\ file' \in {file} \cup IF "tear" \in Faults /\ saves # <<>> THEN {NoMarks} ELSE {}
  /\ UNCHANGED <<planVars, journalVars, effects>>

(* Time passes.  The clock of the machine may also be set back. *)
Tick ==
  /\ \/ clock < MaxMinute /\ clock' = clock + 1 /\ UNCHANGED edits
     \/ /\ "clock" \in Faults
        /\ clock > 0 /\ clock' = clock - 1
        /\ edits < MaxEdits /\ edits' = edits + 1
  /\ UNCHANGED <<plan, jobVars, runs, claimVars, file, refresher, disposal, initialized,
                 journalVars, effects, crashes>>

RefreshStep ==
  \/ RefreshList \/ RefreshStops \/ RefreshLoad \/ RefreshApply \/ RefreshSettles
  \/ \E j \in Job : RefreshThrows(j)

RunStep(r) == RunAdmit(r) \/ RunClaim(r) \/ RunDispatch(r) \/ RunFinish(r)
DisposeStep == DisposeStops \/ DisposeRuns \/ DisposeSaves

Next ==
  \/ \E j \in Job : Fire(j) \/ \E cron \in Specs : EditPlan(j, cron)
  \/ RefreshStep
  \/ \E r \in runs : RunStep(r) \/ RunDeadline(r)
  \/ Save
  \/ Dispose \/ DisposeStep
  \/ Crash
  \/ Tick

Spec == Init /\ [][Next]_vars

(* Listing, loading and saving return; deadlines are timers; the command of a run
   may never end. *)
FairSpec ==
  /\ Spec
  /\ WF_vars(RefreshStep)
  /\ WF_vars(Save)
  /\ WF_vars(DisposeStep)
  /\ WF_vars(\E r \in runs : RunDeadline(r))

-----------------------------------------------------------------------------
(* Properties *)

(* An assigned occurrence is dispatched at most once, whatever crashes, edits and
   lost watermarks lie between two attempts at its minute. *)
AssignedAtMostOnce == \A j \in Assigned, m \in Minute : effects[j][m] <= 1

(* A schedule without a journal repeats a minute only after a crash. *)
LocalOncePerBoot == \A j \in Job \ Assigned, m \in Minute : effects[j][m] <= 1 + crashes

(* The journal tells the truth: what it calls skipped or does not know has not
   run, what it calls completed has, and each passed occurrence is recorded. *)
JournalTruthful ==
  \A j \in Assigned, m \in Minute :
    /\ effects[j][m] > 0 => occurrence[j][m] \in {"started", "completed", "failed"}
    /\ occurrence[j][m] = "completed" => effects[j][m] = 1
    /\ occurrence[j][m] # "none" => m <= cursor[j]

(* A run is never for a minute that the watermark file already covers: the file
   is read before the first job is armed, and claims only move forward. *)
RunsMoveForward ==
  [][\A r \in runs' : (\A q \in runs : q.job # r.job \/ q.minute # r.minute)
       => r.minute > file[r.job]]_vars

(* Once dispose() has been called no run is dispatched any more, although a
   refresh that is under way still arms and catches up its jobs. *)
NoRunAfterDispose ==
  [][disposal # "no" /\ disposal' # "no" =>
       \A r \in runs' : \E q \in runs : q.job = r.job /\ q.minute = r.minute /\ q.gen = r.gen]_vars

(* After dispose() no handle is armed and every claim has been handed to the
   file. *)
ShutdownFlushed ==
  disposal = "done" =>
    /\ \A j \in Job : ~active[j].armed
    /\ saves = <<>>
    /\ refresher.pc = "idle"

(* Shutdown ends, even when the command of a run never does. *)
ShutdownEnds == disposal = "refresh" ~> disposal \in {"no", "done"}

=============================================================================
