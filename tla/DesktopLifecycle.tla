-------------------------- MODULE DesktopLifecycle --------------------------
(***************************************************************************)
(* The desktop app and the host processes ("runtimes") it attaches to,     *)
(* starts and stops.                                                       *)
(*                                                                         *)
(*   runtime-manager.ts    start, attach, shutdown, loss of a runtime      *)
(*   runtime-recovery.ts   one automatic restart, Retry                    *)
(*   quit-flow.ts          quit, confirmation of active work               *)
(*   main.ts               what the three do to each other                 *)
(*                                                                         *)
(* Four threads of control run beside each other, each an async function   *)
(* suspended at an await: the start, the quit, the confirmed quit and the  *)
(* leave that follows somebody else's shutdown.  Beside them the user      *)
(* clicks, runs `pst serve` and `pst close`, and runtimes die.  The        *)
(* descriptor file is taken as RuntimeDescriptor shows it: whoever serves  *)
(* is found.  The isolated mode that attaches to a given runtime only is   *)
(* left out, as are the update manager and what the windows show.          *)
(***************************************************************************)
EXTENDS Integers

CONSTANTS
  Runtimes,     \* host processes, each started at most once
  CrashStates,  \* where a runtime may die without a goodbye
  MaxCrashes,   \* bound: such deaths
  MaxQuits,     \* bound: quit requests of the user
  MaxRetries,   \* bound: clicks on Retry
  MaxServes     \* bound: runtimes started with `pst serve`

None == "none"

ASSUME DesktopAssumption ==
  /\ None \notin Runtimes
  /\ CrashStates \subseteq {"launched", "booting", "serving", "closing"}
  /\ {MaxCrashes, MaxQuits, MaxRetries, MaxServes} \subseteq Nat

VARIABLES
  runtime,      \* state and owner type of each runtime
  descriptor,   \* the runtime that runtime.json names
  receipt,      \* the runtime whose announced shutdown runtime.json.shutdown names
  announced,    \* history: every runtime that ever accepted a shutdown
  kind,         \* what the app shows
  managed,      \* the runtime the manager is attached to
  shown,        \* its owner type, as last read
  intentional,  \* the manager knows that the runtime is meant to stop
  watch,        \* the control stream: whose, what receipt was there, attached or spawned
  child,        \* processes the app spawned, until it handled their exit
  seen,         \* the receipt that was there when the start of a child began
  start,        \* the start in progress
  interrupted,  \* the runtime was lost while the workbench was still loading
  auto,         \* one automatic restart is left
  quit, confirm, leave,   \* threads that end in a quit
  done,         \* the app has quit
  crashes, quits, retries, serves

world == <<runtime, descriptor, receipt, announced>>
attached == <<managed, shown, intentional, watch>>
starting == <<start, interrupted, auto>>
threads == <<quit, confirm, leave, done>>
bounds == <<crashes, quits, retries, serves>>
vars == <<world, kind, attached, child, seen, starting, threads, bounds>>

NoStart == [pc |-> "idle", of |-> None, seen |-> None, aborted |-> FALSE]
NoWatch == [of |-> None, seen |-> None, attached |-> FALSE]
Idle == [pc |-> "idle", on |-> None]

Starting == [pc |-> IF descriptor = None THEN "prepare" ELSE "probe",
             of |-> descriptor, seen |-> receipt, aborted |-> FALSE]

\* The app was opened and begins its start, with a runtime published or without.
Init ==
  /\ descriptor \in Runtimes \cup {None}
  /\ \E owner \in {"desktop", "persistent"} :
       runtime = [r \in Runtimes |-> IF r = descriptor
                                     THEN [state |-> "serving", owner |-> owner]
                                     ELSE [state |-> "unused", owner |-> "desktop"]]
  /\ receipt = None
  /\ announced = {}
  /\ kind = "starting"
  /\ managed = None
  /\ shown = "desktop"
  /\ intentional = FALSE
  /\ watch = NoWatch
  /\ child = [r \in Runtimes |-> "no"]
  /\ seen = [r \in Runtimes |-> None]
  /\ start = Starting
  /\ interrupted = FALSE
  /\ auto = TRUE
  /\ quit = Idle
  /\ confirm = Idle
  /\ leave = Idle
  /\ done = FALSE
  /\ crashes = 0 /\ quits = 0 /\ retries = 0 /\ serves = 0

-----------------------------------------------------------------------------
(* Runtimes *)

State(r) == runtime[r].state
Gone(r) == State(r) \in {"exited", "crashed"}
Alive(r) == State(r) \notin {"unused", "exited", "crashed"}
Serves(m) == \E r \in Runtimes : m = r /\ State(r) = "serving"
Put(r, state) == runtime' = [runtime EXCEPT ![r].state = state]

\* The runtime locks the database and publishes its descriptor ...
Boot(r) ==
  /\ State(r) = "launched"
  /\ \A q \in Runtimes : State(q) \notin {"booting", "serving", "closing"}
  /\ Put(r, "booting")
  /\ descriptor' = r
  /\ UNCHANGED <<receipt, announced, kind, attached, child, seen, starting, threads, bounds>>

\* ... or finds it locked and exits with an error.
Refuse(r) ==
  /\ State(r) = "launched"
  /\ \E q \in Runtimes : State(q) \in {"booting", "serving", "closing"}
  /\ Put(r, "crashed")
  /\ UNCHANGED <<descriptor, receipt, announced, kind, attached, child, seen, starting, threads, bounds>>

\* The app is created: requests that waited are answered.
Ready(r) ==
  /\ State(r) = "booting"
  /\ Put(r, "serving")
  /\ UNCHANGED <<descriptor, receipt, announced, kind, attached, child, seen, starting, threads, bounds>>

\* POST /runtime/shutdown: the receipt is written, then the runtime stops.
Accept(r) ==
  /\ Put(r, "closing")
  /\ receipt' = r
  /\ announced' = announced \cup {r}
  /\ UNCHANGED descriptor

\* The database is closed and the descriptor removed.
Cleanup(r) ==
  /\ State(r) = "closing"
  /\ Put(r, "cleaned")
  /\ descriptor' = IF descriptor = r THEN None ELSE descriptor
  /\ UNCHANGED <<receipt, announced, kind, attached, child, seen, starting, threads, bounds>>

Exit(r) ==
  /\ State(r) = "cleaned"
  /\ Put(r, "exited")
  /\ UNCHANGED <<descriptor, receipt, announced, kind, attached, child, seen, starting, threads, bounds>>

Crash(r) ==
  /\ crashes < MaxCrashes
  /\ State(r) \in CrashStates
  /\ Put(r, "crashed")
  /\ crashes' = crashes + 1
  /\ UNCHANGED <<descriptor, receipt, announced, kind, attached, child, seen, starting, threads,
                 quits, retries, serves>>

\* `pst serve` where no runtime is published, or only a dead one.
Serve(r) ==
  /\ serves < MaxServes
  /\ \A q \in Runtimes : descriptor = q => Gone(q)
  /\ State(r) = "unused"
  /\ descriptor' = None
  /\ runtime' = [runtime EXCEPT ![r] = [state |-> "launched", owner |-> "persistent"]]
  /\ serves' = serves + 1
  /\ UNCHANGED <<receipt, announced, kind, attached, child, seen, starting, threads,
                 crashes, quits, retries>>

\* `pst serve` beside a runtime of the desktop app.
Promote(r) ==
  /\ serves < MaxServes
  /\ State(r) = "serving" /\ runtime[r].owner = "desktop"
  /\ runtime' = [runtime EXCEPT ![r].owner = "persistent"]
  /\ serves' = serves + 1
  /\ UNCHANGED <<descriptor, receipt, announced, kind, attached, child, seen, starting, threads,
                 crashes, quits, retries>>

\* `pst close`.
Close(r) ==
  /\ State(r) = "serving"
  /\ Accept(r)
  /\ UNCHANGED <<kind, attached, child, seen, starting, threads, bounds>>

-----------------------------------------------------------------------------
(* Start, restart and loss of a runtime *)

isQuitting == quit.pc # "idle"

\* The screens a failure does not replace.
Leaving == isQuitting \/ kind = "closing"
ShowFailure == kind' = IF Leaving THEN kind ELSE "recovery"

\* DesktopRuntimeManager.start: the receipt and the descriptor are read at once.
Begin ==
  /\ kind' = "starting"
  /\ intentional' = FALSE
  /\ watch' = NoWatch
  /\ interrupted' = FALSE
  /\ start' = Starting

\* How a start ends that found, or lost, a runtime.
Fail ==
  /\ start' = NoStart
  /\ interrupted' = FALSE
  /\ ShowFailure

Attach(r, found) ==
  /\ managed' = r
  /\ shown' = runtime[r].owner
  /\ watch' = [of |-> r, seen |-> start.seen, attached |-> found]
  /\ UNCHANGED intentional

\* The exit of a child is handled in the next turn of the event loop: no click
\* and no answer that a start waits for comes before it.
Noticed == \A r \in Runtimes : Gone(r) => child[r] = "no"

\* Retry, which the recovery screen offers.
Retry ==
  /\ ~done /\ kind = "recovery" /\ ~isQuitting
  /\ Noticed
  /\ retries < MaxRetries
  /\ start.pc = "idle"
  /\ auto' = TRUE
  /\ Begin
  /\ retries' = retries + 1
  /\ UNCHANGED <<world, managed, shown, child, seen, threads, crashes, quits, serves>>

\* The probe of the runtime that the descriptor named is answered: it serves, it
\* is on its way out, or it is dead and its descriptor is removed.
Probe ==
  /\ ~done /\ start.pc = "probe" /\ ~start.aborted /\ Noticed
  /\ \/ /\ State(start.of) = "serving"
        /\ Attach(start.of, TRUE)
        /\ start' = [start EXCEPT !.pc = "loading"]
        /\ UNCHANGED <<kind, interrupted, descriptor>>
     \/ /\ State(start.of) \in {"closing", "cleaned"}
        /\ Fail
        /\ UNCHANGED <<attached, descriptor>>
     \/ /\ Gone(start.of)
        /\ descriptor' = IF descriptor = start.of THEN None ELSE descriptor
        /\ start' = [start EXCEPT !.pc = "prepare"]
        /\ UNCHANGED <<kind, attached, interrupted>>
  /\ UNCHANGED <<runtime, receipt, announced, child, seen, auto, threads, bounds>>

\* The sidecar is verified, the environment resolved, and the process spawned.
Spawn(r) ==
  /\ ~done /\ start.pc = "prepare" /\ ~start.aborted /\ Noticed
  /\ State(r) = "unused"
  /\ runtime' = [runtime EXCEPT ![r] = [state |-> "launched", owner |-> "desktop"]]
  /\ child' = [child EXCEPT ![r] = "unready"]
  /\ seen' = [seen EXCEPT ![r] = start.seen]
  /\ start' = [start EXCEPT !.pc = "await", !.of = r]
  /\ kind' = "starting"
  /\ UNCHANGED <<descriptor, receipt, announced, attached, interrupted, auto, threads, bounds>>

\* The sidecar is broken, or the start was cancelled before it spawned anything.
FailToSpawn ==
  /\ ~done
  /\ start.pc = "prepare" \/ (start.pc = "probe" /\ start.aborted)
  /\ Fail
  /\ UNCHANGED <<world, attached, child, seen, auto, threads, bounds>>

\* waitForDesktopRuntime finds the descriptor of the child, and the child serves.
ChildReady ==
  /\ ~done /\ start.pc = "await" /\ ~start.aborted /\ Noticed
  /\ descriptor = start.of /\ State(start.of) = "serving"
  /\ child' = [child EXCEPT ![start.of] = "ready"]
  /\ Attach(start.of, FALSE)
  /\ start' = [start EXCEPT !.pc = "loading"]
  /\ UNCHANGED <<world, kind, seen, interrupted, auto, threads, bounds>>

\* Another runtime appeared, the child is on its way out or gone, or the start
\* was cancelled: the child gets a SIGTERM.
GiveUpChild ==
  /\ ~done /\ start.pc = "await"
  /\ \/ start.aborted
     \/ \E r \in Runtimes \ {start.of} : descriptor = r /\ State(r) \in {"serving", "closing"}
     \/ descriptor = start.of /\ State(start.of) = "closing"
     \/ child[start.of] = "no"
  /\ Put(start.of, CASE State(start.of) = "launched" -> "crashed"
                     [] State(start.of) \in {"booting", "serving"} -> "closing"
                     [] OTHER -> State(start.of))
  /\ start' = [start EXCEPT !.pc = "stopping"]
  /\ UNCHANGED <<descriptor, receipt, announced, kind, attached, child, seen, interrupted, auto,
                 threads, bounds>>

\* Two seconds later it is killed.
Kill ==
  /\ ~done /\ start.pc = "stopping" /\ Alive(start.of)
  /\ Put(start.of, "crashed")
  /\ UNCHANGED <<descriptor, receipt, announced, kind, attached, child, seen, starting, threads, bounds>>

\* The start fails only when the child is known to be gone.
ChildStoppedMutant ==
  /\ ~done /\ start.pc = "stopping"
  /\ Fail
  /\ UNCHANGED <<world, attached, child, seen, auto, threads, bounds>>
ChildStopped ==
  /\ ~done /\ start.pc = "stopping" /\ child[start.of] = "no"
  /\ Fail
  /\ UNCHANGED <<world, attached, child, seen, auto, threads, bounds>>

\* The workbench is loaded, or its load failed: the start is over.
Loaded ==
  /\ ~done /\ start.pc = "loading"
  /\ \/ Fail
     \/ /\ ~interrupted
        /\ kind' = IF kind = "starting" THEN "workbench" ELSE kind
        /\ start' = NoStart
        /\ UNCHANGED interrupted
  /\ UNCHANGED <<world, attached, child, seen, auto, threads, bounds>>

\* onUnexpectedExit: nothing while leaving; a failure while a start is pending;
\* else one restart for an open workbench.
Recover ==
  /\ managed' = None
  /\ UNCHANGED shown
  /\ \/ /\ Leaving
        /\ watch' = NoWatch
        /\ UNCHANGED <<kind, intentional, starting>>
     \/ /\ ~Leaving /\ start.pc # "idle"
        /\ watch' = NoWatch
        /\ interrupted' = TRUE
        /\ ShowFailure
        /\ UNCHANGED <<intentional, start, auto>>
     \/ /\ ~Leaving /\ start.pc = "idle"
        /\ auto /\ kind = "workbench"
        /\ auto' = FALSE
        /\ Begin
     \/ /\ ~Leaving /\ start.pc = "idle"
        /\ ~(auto /\ kind = "workbench")
        /\ watch' = NoWatch
        /\ ShowFailure
        /\ UNCHANGED <<intentional, starting>>

\* onIntentionalShutdown: the app closes with its runtime.
Follow ==
  IF intentional
  THEN UNCHANGED <<kind, attached, leave>>
  ELSE /\ intentional' = TRUE
       /\ watch' = NoWatch
       /\ kind' = "closing"
       /\ leave' = [pc |-> "waiting", on |-> managed]
       /\ UNCHANGED <<managed, shown>>

WasShutdownMutant(r, before) == receipt = r
WasShutdown(r, before) == receipt # None /\ (receipt = r \/ receipt # before)

\* The exit event of a process the app spawned.
ChildExit(r) ==
  /\ ~done /\ child[r] # "no" /\ Gone(r)
  /\ child' = [child EXCEPT ![r] = "no"]
  /\ \/ /\ child[r] = "unready"
        /\ UNCHANGED <<kind, attached, starting, leave>>
     \/ /\ child[r] = "ready"
        /\ State(r) = "exited" \/ WasShutdown(r, seen[r])
        /\ Follow
        /\ UNCHANGED starting
     \/ /\ child[r] = "ready"
        /\ ~(State(r) = "exited" \/ WasShutdown(r, seen[r]))
        /\ IF intentional THEN UNCHANGED <<kind, attached, starting>> ELSE Recover
        /\ UNCHANGED leave
  /\ UNCHANGED <<world, seen, quit, confirm, done, bounds>>

\* The control stream delivers the shutdown event.
ShutdownEvent ==
  /\ ~done /\ watch.of \in announced
  /\ Follow
  /\ UNCHANGED <<world, child, seen, starting, quit, confirm, done, bounds>>

\* The control stream of an attached runtime breaks: is the process still there?
Disconnected ==
  /\ ~done /\ watch.attached /\ ~intentional
  /\ \/ /\ WasShutdown(watch.of, watch.seen)
        /\ Follow
        /\ UNCHANGED starting
     \/ /\ ~WasShutdown(watch.of, watch.seen) /\ Gone(watch.of)
        /\ Recover
        /\ UNCHANGED leave
  /\ UNCHANGED <<world, child, seen, quit, confirm, done, bounds>>

-----------------------------------------------------------------------------
(* Quit *)

\* cancelStart: the signal ends every wait of a start but the load of the workbench.
CancelledMutant == start
Cancelled == [start EXCEPT !.aborted = start.pc \in {"probe", "prepare", "await", "stopping"}]

\* Quit: a start in progress is cancelled ...
RequestQuit ==
  /\ ~done /\ quit.pc = "idle" /\ kind # "confirming"
  /\ quits < MaxQuits
  /\ quit' = [pc |-> "cancelling", on |-> None]
  /\ start' = Cancelled
  /\ quits' = quits + 1
  /\ UNCHANGED <<world, kind, attached, child, seen, interrupted, auto, confirm, leave, done,
                 crashes, retries, serves>>

\* ... and its end awaited.
StartCancelled ==
  /\ ~done /\ quit.pc = "cancelling"
  /\ start.pc \in {"idle", "loading"}
  /\ quit' = [quit EXCEPT !.pc = "refreshing"]
  /\ UNCHANGED <<world, kind, attached, child, seen, starting, confirm, leave, done, bounds>>

\* The descriptor is read again: a runtime that is gone is forgotten, and one
\* that is persistent by now is left alone.
Refresh ==
  /\ ~done /\ quit.pc = "refreshing"
  /\ LET missing == \A r \in Runtimes : descriptor = r => Gone(r)
         answers == descriptor = managed /\ Serves(managed)
         owner == IF answers THEN runtime[managed].owner ELSE shown
     IN \/ /\ managed = None \/ missing \/ owner = "persistent"
           /\ descriptor' = IF managed # None /\ missing THEN None ELSE descriptor
           /\ done' = TRUE
           /\ UNCHANGED <<quit, shown>>
        \/ /\ managed # None /\ ~missing /\ owner = "desktop"
           /\ shown' = owner
           /\ quit' = [quit EXCEPT !.pc = "asking"]
           /\ UNCHANGED <<descriptor, done>>
  /\ UNCHANGED <<runtime, receipt, announced, kind, managed, intentional, watch, child, seen,
                 starting, confirm, leave, bounds>>

\* requestShutdown(false) reaches the runtime: it has active work and refuses ...
AskActive ==
  /\ ~done /\ quit.pc = "asking"
  /\ Serves(managed)
  /\ kind' = "confirming"
  /\ quit' = [quit EXCEPT !.pc = "showing"]
  /\ UNCHANGED <<world, attached, child, seen, starting, confirm, leave, done, bounds>>

\* ... and the confirmation is shown, in a workbench that may have to load;
ConfirmationShown ==
  /\ ~done /\ quit.pc = "showing"
  /\ quit' = Idle
  /\ \/ UNCHANGED kind
     \/ kind' = "recovery"
  /\ UNCHANGED <<world, attached, child, seen, starting, confirm, leave, done, bounds>>

\* or it accepts.
AskAccepted ==
  /\ ~done /\ quit.pc = "asking"
  /\ Serves(managed)
  /\ Accept(managed)
  /\ quit' = [pc |-> "answered", on |-> managed]
  /\ UNCHANGED <<kind, attached, child, seen, starting, confirm, leave, done, bounds>>

\* Nobody answers, or there is nobody to ask: recovery, and the next quit may begin.
AskFailed ==
  /\ ~done /\ quit.pc = "asking"
  /\ ~Serves(managed)
  /\ quit' = Idle
  /\ kind' = "recovery"
  /\ UNCHANGED <<world, attached, child, seen, starting, confirm, leave, done, bounds>>

Answered ==
  /\ ~done /\ quit.pc = "answered"
  /\ intentional' = TRUE
  /\ kind' = "closing"
  /\ quit' = [quit EXCEPT !.pc = "waiting"]
  /\ UNCHANGED <<world, managed, shown, watch, child, seen, starting, confirm, leave, done, bounds>>

\* waitForRuntimeExit returns: the process is gone and so is its descriptor.
ExitedFor(on) == \A r \in Runtimes : on = r => Gone(r) /\ descriptor # r

WaitOver ==
  /\ ~done
  /\ \E w \in {quit, confirm, leave} : w.pc = "waiting" /\ ExitedFor(w.on)
  /\ done' = TRUE
  /\ UNCHANGED <<world, kind, attached, child, seen, starting, quit, confirm, leave, bounds>>

CancelQuit ==
  /\ ~done /\ kind = "confirming"
  /\ kind' = "workbench"
  /\ UNCHANGED <<world, attached, child, seen, starting, threads, bounds>>

\* The user confirms: active work is to be cancelled.
ConfirmQuit ==
  /\ ~done /\ kind = "confirming" /\ confirm.pc = "idle"
  /\ kind' = "closing"
  /\ confirm' = [pc |-> "asking", on |-> None]
  /\ UNCHANGED <<world, attached, child, seen, starting, quit, leave, done, bounds>>

ConfirmAccepted ==
  /\ ~done /\ confirm.pc = "asking"
  /\ Serves(managed)
  /\ Accept(managed)
  /\ confirm' = [pc |-> "answered", on |-> managed]
  /\ UNCHANGED <<kind, attached, child, seen, starting, quit, leave, done, bounds>>

ConfirmFailed ==
  /\ ~done /\ confirm.pc = "asking"
  /\ ~Serves(managed)
  /\ confirm' = Idle
  /\ kind' = "recovery"
  /\ UNCHANGED <<world, attached, child, seen, starting, quit, leave, done, bounds>>

ConfirmAnswered ==
  /\ ~done /\ confirm.pc = "answered"
  /\ intentional' = TRUE
  /\ confirm' = [confirm EXCEPT !.pc = "waiting"]
  /\ UNCHANGED <<world, kind, managed, shown, watch, child, seen, starting, quit, leave, done, bounds>>

-----------------------------------------------------------------------------

HostStep(r) == Boot(r) \/ Refuse(r) \/ Ready(r) \/ Cleanup(r) \/ Exit(r)

StartStep ==
  \/ Probe \/ (\E r \in Runtimes : Spawn(r)) \/ FailToSpawn \/ ChildReady \/ GiveUpChild
  \/ Kill \/ ChildStopped \/ Loaded

QuitStep ==
  \/ StartCancelled \/ Refresh \/ AskActive \/ ConfirmationShown \/ AskAccepted \/ AskFailed
  \/ Answered \/ WaitOver \/ ConfirmAccepted \/ ConfirmFailed \/ ConfirmAnswered

UserStep == Retry \/ RequestQuit \/ CancelQuit \/ ConfirmQuit

Next ==
  \/ \E r \in Runtimes : HostStep(r) \/ Crash(r) \/ Serve(r) \/ Promote(r) \/ Close(r) \/ ChildExit(r)
  \/ StartStep \/ ShutdownEvent \/ Disconnected \/ QuitStep \/ UserStep

Spec == Init /\ [][Next]_vars

\* What runs goes on: a runtime that was told to stop stops, and the app's own
\* threads proceed.  Nobody has to click, and no runtime has to become ready.
Fairness ==
  /\ \A r \in Runtimes : WF_vars(Cleanup(r) \/ Exit(r)) /\ WF_vars(ChildExit(r))
  /\ WF_vars(GiveUpChild \/ Kill \/ ChildStopped)
  /\ WF_vars(FailToSpawn /\ start.aborted)
  /\ WF_vars(QuitStep)

LiveSpec == Spec /\ Fairness

-----------------------------------------------------------------------------
(* Properties *)

TypeOK ==
  /\ runtime \in [Runtimes -> [state : {"unused", "launched", "booting", "serving", "closing",
                                        "cleaned", "exited", "crashed"},
                               owner : {"desktop", "persistent"}]]
  /\ {descriptor, receipt, managed, leave.on} \subseteq Runtimes \cup {None}
  /\ announced \subseteq Runtimes
  /\ kind \in {"starting", "workbench", "confirming", "closing", "recovery"}
  /\ shown \in {"desktop", "persistent"}
  /\ child \in [Runtimes -> {"no", "unready", "ready"}]
  /\ start.pc \in {"idle", "probe", "prepare", "await", "stopping", "loading"}
  /\ start.pc \in {"await", "stopping", "loading"} => start.of \in Runtimes
  /\ quit.pc \in {"idle", "cancelling", "refreshing", "asking", "showing", "answered", "waiting"}
  /\ confirm.pc \in {"idle", "asking", "answered", "waiting"}
  /\ {intentional, interrupted, auto, done} \subseteq BOOLEAN

\* When the app has quit because it was asked to, no process it spawned is left
\* running for it: one that was still starting is gone, one that served was shut
\* down, or promoted.  (An app that closes after a confirmation, or with its
\* runtime, does not stop a start that Retry began meanwhile.)
NoOrphan ==
  done /\ leave = Idle /\ confirm = Idle =>
    \A r \in Runtimes :
      /\ child[r] # "unready"
      /\ child[r] = "ready" /\ State(r) = "serving" => runtime[r].owner = "persistent"

\* The app restarts a lost runtime on its own only if that runtime was not meant
\* to stop, whatever events were lost and whoever started and stopped since.
NeverRestartsStopped ==
  [][auto /\ ~auto' => managed \notin announced]_vars

\* A runtime that became persistent is not stopped by the app's quit.  The code
\* does not keep this: nobody looks between the refresh and the shutdown request.
PromotedSurvives ==
  [][\A r \in Runtimes : runtime[r].owner = "persistent" /\ r \notin announced /\ r \in announced'
       => quit' = quit /\ confirm' = confirm]_vars

\* Every quit request ends: the app has quit or the next request may begin.  It
\* holds for runtimes that do not die while they stop: with "closing" among the
\* CrashStates a descriptor remains for which the app waits for ever.
QuitReturns == isQuitting ~> ~isQuitting \/ done
=============================================================================
