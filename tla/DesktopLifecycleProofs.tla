------------------------ MODULE DesktopLifecycleProofs ------------------------
(***************************************************************************)
(* What the desktop app keeps for every number of runtimes, and for every  *)
(* number of quits, retries, crashes and serves: it leaves no process      *)
(* behind, and brings none back that was meant to stop.                    *)
(***************************************************************************)
EXTENDS DesktopLifecycle, TLAPS

USE DesktopAssumption

MaybeRuntime == Runtimes \cup {None}
RuntimeStates == {"unused", "launched", "booting", "serving", "closing", "cleaned", "exited", "crashed"}

WorldTypes ==
  /\ runtime \in [Runtimes -> [state : RuntimeStates, owner : {"desktop", "persistent"}]]
  /\ descriptor \in MaybeRuntime /\ receipt \in MaybeRuntime /\ announced \in SUBSET Runtimes

StartTypes ==
  /\ start \in [pc : {"idle", "probe", "prepare", "await", "stopping", "loading"},
                of : MaybeRuntime, seen : MaybeRuntime, aborted : BOOLEAN]
  /\ start.pc \in {"probe", "await", "stopping", "loading"} => start.of \in Runtimes
  /\ interrupted \in BOOLEAN /\ auto \in BOOLEAN

AttachedTypes ==
  /\ managed \in MaybeRuntime /\ shown \in {"desktop", "persistent"} /\ intentional \in BOOLEAN
  /\ watch \in [of : MaybeRuntime, seen : MaybeRuntime, attached : BOOLEAN]

ShowTypes == kind \in {"starting", "workbench", "confirming", "closing", "recovery"}

ChildTypes == child \in [Runtimes -> {"no", "unready", "ready"}] /\ seen \in [Runtimes -> MaybeRuntime]

ThreadTypes ==
  /\ quit \in [pc : {"idle", "cancelling", "refreshing", "asking", "showing", "answered", "waiting"},
               on : MaybeRuntime]
  /\ confirm \in [pc : {"idle", "asking", "answered", "waiting"}, on : MaybeRuntime]
  /\ leave \in [pc : {"idle", "waiting"}, on : MaybeRuntime]
  /\ done \in BOOLEAN

\* The types of all variables, the records too.
Types == WorldTypes /\ StartTypes /\ AttachedTypes /\ ShowTypes /\ ChildTypes /\ ThreadTypes

Holding == {"booting", "serving", "closing"}
Stopping == {"closing", "cleaned", "exited", "crashed"}

\* Whoever holds the database is the one the descriptor names; whoever accepted
\* a shutdown never serves again; the receipt names one of those.
WorldInv ==
  /\ \A r \in Runtimes : State(r) \in Holding => descriptor = r
  /\ \A r \in announced : State(r) \in Stopping
  /\ receipt \in announced \cup {None}

\* Receipts that the app remembers are older than the shutdown of the runtimes
\* it remembers them for, so that this shutdown left another one.
ReceiptInv ==
  /\ start.seen \in announced \cup {None}
  /\ watch.seen \in announced \cup {None}
  /\ watch.of \in announced => receipt \notin {None, watch.seen}
  /\ \A r \in Runtimes :
       /\ seen[r] \in announced \cup {None}
       /\ child[r] # "no" /\ r \in announced => receipt \notin {None, seen[r]}

\* The manager is attached to the child that is ready, unless that child is as
\* good as gone; a child that is not ready belongs to the start in progress.
ChildInv ==
  /\ watch = NoWatch \/ watch.of = managed
  /\ start.pc \in {"await", "stopping"} => child[start.of] # "ready"
  /\ \A r \in Runtimes :
       /\ child[r] = "unready" =>
            start.pc \in {"await", "stopping"} /\ start.of = r /\ State(r) # "unused"
       /\ child[r] = "ready" =>
            /\ State(r) \notin {"unused", "launched", "booting"}
            /\ \/ managed = r
               \/ State(r) \in {"cleaned", "exited"}
               \/ managed = None /\ State(r) = "crashed"

\* Behind the cancellation a quit meets no start; behind the answer of the
\* runtime it meets no child that serves.
QuitInv ==
  /\ quit.pc \notin {"idle", "cancelling"} => start.pc \in {"idle", "loading"}
  /\ quit.pc \in {"answered", "waiting"} =>
       \A r \in Runtimes : ~(child[r] = "ready" /\ State(r) = "serving")

Inv == Types /\ WorldInv /\ ReceiptInv /\ ChildInv /\ QuitInv /\ NoOrphan

-----------------------------------------------------------------------------
(* Types *)

LEMMA StartingTypes ==
  ASSUME WorldTypes
  PROVE  /\ Starting \in [pc : {"idle", "probe", "prepare", "await", "stopping", "loading"},
                          of : MaybeRuntime, seen : MaybeRuntime, aborted : BOOLEAN]
         /\ Starting.pc = "probe" => Starting.of \in Runtimes
         /\ Starting.pc \in {"probe", "prepare"}
         /\ NoWatch \in [of : MaybeRuntime, seen : MaybeRuntime, attached : BOOLEAN]
         /\ NoStart \in [pc : {"idle", "probe", "prepare", "await", "stopping", "loading"},
                         of : MaybeRuntime, seen : MaybeRuntime, aborted : BOOLEAN]
         /\ NoStart.pc = "idle" /\ NoWatch.of = None
BY DEF WorldTypes, Starting, NoWatch, NoStart, MaybeRuntime

LEMMA BeginTypes ==
  ASSUME Types, Begin
  PROVE  /\ start' = Starting /\ intentional' = FALSE /\ watch' = NoWatch /\ interrupted' = FALSE
         /\ ShowTypes'
         /\ auto' \in BOOLEAN => StartTypes'
         /\ managed' \in MaybeRuntime /\ shown' = shown => AttachedTypes'
<1>1. start' = Starting /\ intentional' = FALSE /\ watch' = NoWatch /\ interrupted' = FALSE /\ kind' = "starting"
  BY DEF Begin
<1> QED
  BY <1>1, StartingTypes DEF Types, StartTypes, AttachedTypes, ShowTypes

LEMMA FailTypes ==
  ASSUME Types, Fail, auto' = auto
  PROVE  StartTypes' /\ ShowTypes' /\ start' = NoStart
<1>1. start' = NoStart /\ interrupted' = FALSE /\ kind' \in {kind, "recovery"}
  BY DEF Fail, ShowFailure
<1> QED
  BY <1>1, StartingTypes DEF Types, StartTypes, ShowTypes

LEMMA AttachTypes ==
  ASSUME Types, NEW r \in Runtimes, NEW found \in BOOLEAN, Attach(r, found)
  PROVE  AttachedTypes'
BY DEF Types, WorldTypes, StartTypes, AttachedTypes, Attach, MaybeRuntime

LEMMA FollowTypes ==
  ASSUME Types, Follow
  PROVE  AttachedTypes' /\ ShowTypes' /\ leave' \in [pc : {"idle", "waiting"}, on : MaybeRuntime]
<1>1. CASE intentional
  BY <1>1 DEF Follow, attached, Types, AttachedTypes, ShowTypes, ThreadTypes
<1>2. CASE ~intentional
  BY <1>2, StartingTypes DEF Follow, Types, AttachedTypes, ShowTypes, ThreadTypes
<1> QED
  BY <1>1, <1>2

LEMMA RecoverTypes ==
  ASSUME Types, Recover
  PROVE  AttachedTypes' /\ ShowTypes' /\ StartTypes'
<1>1. managed' \in MaybeRuntime /\ shown' = shown
  BY DEF Recover, MaybeRuntime
<1>2. CASE Begin /\ auto' = FALSE
  BY <1>1, <1>2, BeginTypes
<1>3. CASE watch' = NoWatch /\ kind' \in {kind, "recovery"} /\ UNCHANGED <<intentional, start, auto>>
           /\ interrupted' \in {TRUE, interrupted}
  <2>1. AttachedTypes'
    BY <1>1, <1>3, StartingTypes DEF Types, AttachedTypes
  <2>2. ShowTypes'
    BY <1>3 DEF Types, ShowTypes
  <2>3. interrupted' \in BOOLEAN
    BY <1>3 DEF Types, StartTypes
  <2>4. StartTypes'
    BY <1>3, <2>3 DEF Types, StartTypes
  <2> QED
    BY <2>1, <2>2, <2>4
<1> QED
  BY <1>2, <1>3 DEF Recover, ShowFailure, starting

\* Groups of variables that a step leaves alone keep their types.
LEMMA TypesKept ==
  ASSUME Types
  PROVE  /\ UNCHANGED world => WorldTypes'
         /\ UNCHANGED starting => StartTypes'
         /\ UNCHANGED attached => AttachedTypes'
         /\ UNCHANGED kind => ShowTypes'
         /\ UNCHANGED <<child, seen>> => ChildTypes'
         /\ UNCHANGED threads => ThreadTypes'
<1>1. UNCHANGED world => WorldTypes'
  BY DEF Types, world, WorldTypes
<1>2. UNCHANGED starting => StartTypes'
  BY DEF Types, starting, StartTypes
<1>3. UNCHANGED attached => AttachedTypes'
  BY DEF Types, attached, AttachedTypes
<1>4. UNCHANGED kind => ShowTypes'
  BY DEF Types, ShowTypes
<1>5. UNCHANGED <<child, seen>> => ChildTypes'
  BY DEF Types, ChildTypes
<1>6. UNCHANGED threads => ThreadTypes'
  BY DEF Types, threads, ThreadTypes
<1> QED
  BY <1>1, <1>2, <1>3, <1>4, <1>5, <1>6

LEMMA TypesHost ==
  ASSUME Types, NEW r \in Runtimes,
         HostStep(r) \/ Crash(r) \/ Serve(r) \/ Promote(r) \/ Close(r)
  PROVE  Types'
<1>1. UNCHANGED <<kind, attached, child, seen, starting, threads>>
  BY DEF HostStep, Boot, Refuse, Ready, Cleanup, Exit, Crash, Serve, Promote, Close
<1>2. ASSUME NEW state \in RuntimeStates, Put(r, state)
      PROVE  runtime' \in [Runtimes -> [state : RuntimeStates, owner : {"desktop", "persistent"}]]
  BY <1>2 DEF Put, Types, WorldTypes
<1>3. CASE HostStep(r) \/ Crash(r)
  <2>1. /\ descriptor' \in {descriptor, r, None} /\ UNCHANGED <<receipt, announced>>
        /\ \E state \in RuntimeStates : Put(r, state)
    BY <1>3 DEF HostStep, Boot, Refuse, Ready, Cleanup, Exit, Crash, RuntimeStates
  <2>2. WorldTypes'
    BY <2>1, <1>2 DEF Types, WorldTypes, MaybeRuntime
  <2> QED
    BY <1>1, <2>2, TypesKept DEF Types
<1>4. CASE Serve(r) \/ Promote(r)
  <2>1. WorldTypes'
    BY <1>4 DEF Serve, Promote, Types, WorldTypes, MaybeRuntime, RuntimeStates
  <2> QED
    BY <1>1, <2>1, TypesKept DEF Types
<1>5. CASE Close(r)
  <2>1. Put(r, "closing") /\ receipt' = r /\ announced' = announced \cup {r} /\ descriptor' = descriptor
    BY <1>5 DEF Close, Accept
  <2>2. WorldTypes'
    BY <2>1, <1>2 DEF Types, WorldTypes, MaybeRuntime, RuntimeStates
  <2> QED
    BY <1>1, <2>2, TypesKept DEF Types
<1> QED
  BY <1>3, <1>4, <1>5

\* What an app that is served shuts down is a runtime.
LEMMA AcceptTypes ==
  ASSUME Types, Serves(managed), Accept(managed)
  PROVE  WorldTypes' /\ managed \in Runtimes
<1>1. managed \in Runtimes
  BY DEF Serves
<1>2. runtime' = [runtime EXCEPT ![managed].state = "closing"]
  BY DEF Accept, Put
<1>3. runtime' \in [Runtimes -> [state : RuntimeStates, owner : {"desktop", "persistent"}]]
  BY <1>1, <1>2 DEF Types, WorldTypes, RuntimeStates
<1> QED
  BY <1>1, <1>3 DEF Accept, Types, WorldTypes, MaybeRuntime

LEMMA TypesStart ==
  ASSUME Types, StartStep
  PROVE  Types'
<1>1. ASSUME NEW state \in RuntimeStates, start.of \in Runtimes, Put(start.of, state)
      PROVE  runtime' \in [Runtimes -> [state : RuntimeStates, owner : {"desktop", "persistent"}]]
  BY <1>1 DEF Put, Types, WorldTypes
<1>2. CASE Probe
  <2>1. start.pc = "probe" /\ start.of \in Runtimes /\ UNCHANGED <<runtime, receipt, announced, child, seen, auto, threads>>
    BY <1>2 DEF Probe, Types, StartTypes
  <2>2. WorldTypes'
    <3>1. descriptor' \in {descriptor, None}
      BY <1>2 DEF Probe
    <3> QED
      BY <2>1, <3>1 DEF Types, WorldTypes, MaybeRuntime
  <2>3. CASE Attach(start.of, TRUE) /\ start' = [start EXCEPT !.pc = "loading"] /\ UNCHANGED <<kind, interrupted>>
    <3>1. StartTypes'
      BY <2>1, <2>3 DEF Types, StartTypes
    <3>2. AttachedTypes'
      BY <2>1, <2>3, AttachTypes
    <3> QED
      BY <2>1, <2>2, <2>3, <3>1, <3>2, TypesKept DEF Types
  <2>4. CASE Fail /\ UNCHANGED attached
    BY <2>1, <2>2, <2>4, FailTypes, TypesKept DEF Types
  <2>5. CASE start' = [start EXCEPT !.pc = "prepare"] /\ UNCHANGED <<kind, attached, interrupted>>
    <3>1. StartTypes'
      BY <2>1, <2>5 DEF Types, StartTypes
    <3> QED
      BY <2>1, <2>2, <2>5, <3>1, TypesKept DEF Types
  <2> QED
    BY <1>2, <2>3, <2>4, <2>5 DEF Probe
<1>3. ASSUME NEW r \in Runtimes, Spawn(r) PROVE Types'
  <2>1. /\ UNCHANGED <<descriptor, receipt, announced, attached, interrupted, auto, threads>>
        /\ kind' = "starting" /\ start' = [start EXCEPT !.pc = "await", !.of = r]
        /\ runtime' = [runtime EXCEPT ![r] = [state |-> "launched", owner |-> "desktop"]]
        /\ child' = [child EXCEPT ![r] = "unready"] /\ seen' = [seen EXCEPT ![r] = start.seen]
    BY <1>3 DEF Spawn
  <2>2. WorldTypes'
    BY <2>1 DEF Types, WorldTypes, RuntimeStates
  <2>3. StartTypes'
    BY <2>1 DEF Types, StartTypes, MaybeRuntime
  <2>4. ChildTypes'
    BY <2>1 DEF Types, StartTypes, ChildTypes
  <2>5. ShowTypes'
    BY <2>1 DEF ShowTypes
  <2> QED
    BY <2>1, <2>2, <2>3, <2>4, <2>5, TypesKept DEF Types
<1>4. CASE FailToSpawn \/ ChildStopped
  <2>1. Fail /\ UNCHANGED <<world, attached, child, seen, auto, threads>>
    BY <1>4 DEF FailToSpawn, ChildStopped
  <2> QED
    BY <2>1, FailTypes, TypesKept DEF Types
<1>5. CASE ChildReady
  <2>1. /\ start.of \in Runtimes /\ Attach(start.of, FALSE)
        /\ child' = [child EXCEPT ![start.of] = "ready"] /\ start' = [start EXCEPT !.pc = "loading"]
        /\ UNCHANGED <<world, kind, seen, interrupted, auto, threads>>
    BY <1>5 DEF ChildReady, Types, StartTypes
  <2>2. StartTypes' /\ ChildTypes'
    BY <2>1 DEF Types, StartTypes, ChildTypes
  <2>3. AttachedTypes'
    BY <2>1, AttachTypes
  <2> QED
    BY <2>1, <2>2, <2>3, TypesKept DEF Types
<1>6. CASE GiveUpChild
  <2>1. /\ start.of \in Runtimes /\ start' = [start EXCEPT !.pc = "stopping"]
        /\ UNCHANGED <<descriptor, receipt, announced, kind, attached, child, seen, interrupted, auto, threads>>
    BY <1>6 DEF GiveUpChild, Types, StartTypes
  <2>2. State(start.of) \in RuntimeStates
    BY <2>1 DEF Types, WorldTypes, State
  <2>3. PICK state \in RuntimeStates : Put(start.of, state)
    BY <1>6, <2>2 DEF GiveUpChild, RuntimeStates
  <2>4. WorldTypes'
    BY <1>1, <2>1, <2>3 DEF Types, WorldTypes
  <2>5. StartTypes'
    BY <2>1 DEF Types, StartTypes
  <2> QED
    BY <2>1, <2>4, <2>5, TypesKept DEF Types
<1>7. CASE Kill
  <2>1. /\ start.of \in Runtimes /\ Put(start.of, "crashed")
        /\ UNCHANGED <<descriptor, receipt, announced, kind, attached, child, seen, starting, threads>>
    BY <1>7 DEF Kill, Types, StartTypes
  <2>2. WorldTypes'
    BY <1>1, <2>1 DEF Types, WorldTypes, RuntimeStates
  <2> QED
    BY <2>1, <2>2, TypesKept DEF Types
<1>8. CASE Loaded
  <2>1. UNCHANGED <<world, attached, child, seen, auto, threads>>
    BY <1>8 DEF Loaded
  <2>2. CASE Fail
    BY <2>1, <2>2, FailTypes, TypesKept DEF Types
  <2>3. CASE kind' \in {kind, "workbench"} /\ start' = NoStart /\ UNCHANGED interrupted
    <3>1. StartTypes'
      BY <2>1, <2>3, StartingTypes DEF Types, StartTypes
    <3>2. ShowTypes'
      BY <2>3 DEF Types, ShowTypes
    <3> QED
      BY <2>1, <3>1, <3>2, TypesKept DEF Types
  <2> QED
    BY <1>8, <2>2, <2>3 DEF Loaded
<1> QED
  BY <1>2, <1>3, <1>4, <1>5, <1>6, <1>7, <1>8 DEF StartStep

LEMMA TypesLoss ==
  ASSUME Types, (\E r \in Runtimes : ChildExit(r)) \/ ShutdownEvent \/ Disconnected
  PROVE  Types'
<1>1. UNCHANGED <<world, quit, confirm, done>>
  BY DEF ChildExit, ShutdownEvent, Disconnected
<1>2. UNCHANGED leave => ThreadTypes'
  BY <1>1 DEF Types, ThreadTypes
<1>3. leave' \in [pc : {"idle", "waiting"}, on : MaybeRuntime] => ThreadTypes'
  BY <1>1 DEF Types, ThreadTypes
<1>4. ChildTypes'
  <2>1. UNCHANGED seen /\ (UNCHANGED child \/ \E r \in Runtimes : child' = [child EXCEPT ![r] = "no"])
    BY DEF ChildExit, ShutdownEvent, Disconnected
  <2> QED
    BY <2>1 DEF Types, ChildTypes
<1>5. CASE UNCHANGED <<kind, attached, starting, leave>>
  BY <1>1, <1>2, <1>4, <1>5, TypesKept DEF Types
<1>6. CASE Follow /\ UNCHANGED starting
  BY <1>1, <1>3, <1>4, <1>6, FollowTypes, TypesKept DEF Types
<1>7. CASE Recover /\ UNCHANGED leave
  BY <1>1, <1>2, <1>4, <1>7, RecoverTypes, TypesKept DEF Types
<1> QED
  BY <1>5, <1>6, <1>7 DEF ChildExit, ShutdownEvent, Disconnected

LEMMA TypesQuit ==
  ASSUME Types, QuitStep \/ UserStep
  PROVE  Types'
<1> USE DEF Idle
<1>1. CASE Refresh
  <2>1. UNCHANGED <<runtime, receipt, announced, kind, managed, intentional, watch, child, seen,
                    starting, confirm, leave>> /\ descriptor' \in {descriptor, None}
    BY <1>1 DEF Refresh
  <2>2. CASE done' = TRUE /\ UNCHANGED <<quit, shown>>
    BY <2>1, <2>2, TypesKept DEF Types, WorldTypes, AttachedTypes, ThreadTypes, MaybeRuntime
  <2>3. CASE shown' = "desktop" /\ quit' = [quit EXCEPT !.pc = "asking"] /\ UNCHANGED done
    BY <2>1, <2>3, TypesKept DEF Types, WorldTypes, AttachedTypes, ThreadTypes, MaybeRuntime
  <2> QED
    BY <1>1, <2>2, <2>3 DEF Refresh
<1>2. CASE AskAccepted \/ ConfirmAccepted
  <2>1. /\ WorldTypes' /\ managed \in Runtimes
        /\ UNCHANGED <<kind, attached, child, seen, starting, leave, done>>
        /\ \/ quit' = [pc |-> "answered", on |-> managed] /\ UNCHANGED confirm
           \/ confirm' = [pc |-> "answered", on |-> managed] /\ UNCHANGED quit
    BY <1>2, AcceptTypes DEF AskAccepted, ConfirmAccepted
  <2>2. ThreadTypes'
    BY <2>1 DEF Types, ThreadTypes, MaybeRuntime
  <2> QED
    BY <2>1, <2>2, TypesKept DEF Types
<1>3. CASE StartCancelled \/ AskActive \/ ConfirmationShown \/ AskFailed \/ WaitOver
  <2>1. /\ UNCHANGED <<world, attached, child, seen, starting, confirm, leave>>
        /\ kind' \in {kind, "confirming", "recovery"} /\ done' \in {done, TRUE}
        /\ \/ quit' \in {quit, Idle}
           \/ quit' = [quit EXCEPT !.pc = "refreshing"] \/ quit' = [quit EXCEPT !.pc = "showing"]
    BY <1>3 DEF StartCancelled, AskActive, ConfirmationShown, AskFailed, WaitOver
  <2>2. done' \in BOOLEAN
    BY <2>1 DEF Types, ThreadTypes
  <2>3. ThreadTypes'
    BY <2>1, <2>2 DEF Types, ThreadTypes, MaybeRuntime
  <2>4. ShowTypes'
    BY <2>1 DEF Types, ShowTypes
  <2> QED
    BY <2>1, <2>3, <2>4, TypesKept DEF Types
<1>4. CASE Answered \/ ConfirmAnswered
  <2>1. /\ UNCHANGED <<world, managed, shown, watch, child, seen, starting, leave, done>>
        /\ intentional' = TRUE /\ kind' \in {kind, "closing"}
        /\ \/ quit' = [quit EXCEPT !.pc = "waiting"] /\ UNCHANGED confirm
           \/ confirm' = [confirm EXCEPT !.pc = "waiting"] /\ UNCHANGED quit
    BY <1>4 DEF Answered, ConfirmAnswered
  <2>2. ThreadTypes' /\ ShowTypes'
    BY <2>1 DEF Types, ThreadTypes, ShowTypes
  <2>3. AttachedTypes'
    BY <2>1 DEF Types, AttachedTypes
  <2> QED
    BY <2>1, <2>2, <2>3, TypesKept DEF Types
<1>5. CASE ConfirmFailed \/ CancelQuit \/ ConfirmQuit
  <2>1. /\ UNCHANGED <<world, attached, child, seen, starting, quit, leave, done>>
        /\ kind' \in {"recovery", "workbench", "closing"}
        /\ confirm' \in {confirm, Idle, [pc |-> "asking", on |-> None]}
    BY <1>5 DEF ConfirmFailed, CancelQuit, ConfirmQuit, threads
  <2>2. ThreadTypes' /\ ShowTypes'
    BY <2>1 DEF Types, ThreadTypes, ShowTypes, MaybeRuntime
  <2> QED
    BY <2>1, <2>2, TypesKept DEF Types
<1>6. CASE RequestQuit
  <2>1. /\ UNCHANGED <<world, kind, attached, child, seen, interrupted, auto, confirm, leave, done>>
        /\ quit' = [pc |-> "cancelling", on |-> None] /\ start' = Cancelled
    BY <1>6 DEF RequestQuit
  <2>2. ThreadTypes'
    BY <2>1 DEF Types, ThreadTypes, MaybeRuntime
  <2>3. StartTypes'
    <3> DEFINE b == start.pc \in {"probe", "prepare", "await", "stopping"}
    <3>1. start' = [start EXCEPT !.aborted = b]
      BY <2>1 DEF Cancelled
    <3>2. b \in BOOLEAN
      OBVIOUS
    <3> HIDE DEF b
    <3> QED
      BY <2>1, <3>1, <3>2 DEF Types, StartTypes
  <2> QED
    BY <2>1, <2>2, <2>3, TypesKept DEF Types
<1>7. CASE Retry
  <2>1. Begin /\ auto' = TRUE /\ UNCHANGED <<world, managed, shown, child, seen, threads>>
    BY <1>7 DEF Retry
  <2>2. managed' \in MaybeRuntime
    BY <2>1 DEF Types, AttachedTypes
  <2> QED
    BY <2>1, <2>2, BeginTypes, TypesKept DEF Types
<1> QED
  BY <1>1, <1>2, <1>3, <1>4, <1>5, <1>6, <1>7 DEF QuitStep, UserStep

LEMMA TypesStep ==
  ASSUME Types, [Next]_vars
  PROVE  Types'
<1>1. CASE UNCHANGED vars
  BY <1>1, TypesKept DEF vars, Types
<1> QED
  BY <1>1, TypesHost, TypesStart, TypesLoss, TypesQuit DEF Next

-----------------------------------------------------------------------------
(* What steps do to the world *)

Boots(r) ==
  /\ State(r) = "launched" /\ \A q \in Runtimes : State(q) \notin Holding
  /\ Put(r, "booting") /\ descriptor' = r /\ UNCHANGED <<receipt, announced>>

MovesOn(r, to) ==
  /\ \/ to = State(r)
     \/ to = "crashed" /\ State(r) \in {"launched", "booting", "serving", "closing"}
     \/ to = "crashed" /\ start.pc = "stopping" /\ start.of = r /\ State(r) # "unused"
     \/ to = "serving" /\ State(r) = "booting"
     \/ to = "closing" /\ State(r) \in {"booting", "serving"}
     \/ to = "exited" /\ State(r) = "cleaned"
  /\ Put(r, to) /\ UNCHANGED <<descriptor, receipt, announced>>

CleansUp(r) ==
  /\ State(r) = "closing" /\ Put(r, "cleaned")
  /\ descriptor' = IF descriptor = r THEN None ELSE descriptor
  /\ UNCHANGED <<receipt, announced>>

Forgets ==
  /\ descriptor' = descriptor \/ (descriptor' = None /\ \A q \in Runtimes : descriptor = q => Gone(q))
  /\ UNCHANGED <<receipt, announced>>

Launches(r, owner) ==
  /\ State(r) = "unused" /\ runtime' = [runtime EXCEPT ![r] = [state |-> "launched", owner |-> owner]]
  /\ Forgets

Promotes(r) ==
  /\ runtime' = [runtime EXCEPT ![r].owner = "persistent"]
  /\ UNCHANGED <<descriptor, receipt, announced>>

WorldMove ==
  \/ UNCHANGED runtime /\ Forgets
  \/ \E r \in Runtimes : \/ Boots(r) \/ CleansUp(r) \/ Promotes(r)
                         \/ State(r) = "serving" /\ Accept(r)
                         \/ \E to \in RuntimeStates : MovesOn(r, to)
                         \/ \E owner \in {"desktop", "persistent"} : Launches(r, owner)

LEMMA WorldMoves ==
  ASSUME Types, [Next]_vars
  PROVE  WorldMove
<1>1. CASE UNCHANGED world
  BY <1>1 DEF WorldMove, Forgets, world
<1>2. ASSUME NEW r \in Runtimes, HostStep(r) \/ Crash(r) PROVE WorldMove
  <2>1. CASE Boot(r)
    BY <2>1 DEF Boot, Boots, Holding, WorldMove
  <2>2. CASE Cleanup(r)
    BY <2>2 DEF Cleanup, CleansUp, WorldMove
  <2>3. CASE Refuse(r) \/ Ready(r) \/ Exit(r) \/ Crash(r)
    <3>1. \E to \in RuntimeStates : MovesOn(r, to)
      BY <2>3 DEF Refuse, Ready, Exit, Crash, MovesOn, RuntimeStates
    <3> QED
      BY <3>1 DEF WorldMove
  <2> QED
    BY <1>2, <2>1, <2>2, <2>3 DEF HostStep
<1>3. ASSUME NEW r \in Runtimes, Serve(r) \/ Spawn(r) PROVE WorldMove
  <2>1. \E owner \in {"desktop", "persistent"} : Launches(r, owner)
    BY <1>3 DEF Serve, Spawn, Launches, Forgets
  <2> QED
    BY <2>1 DEF WorldMove
<1>4. ASSUME NEW r \in Runtimes, Promote(r) \/ Close(r) PROVE WorldMove
  BY <1>4 DEF Promote, Promotes, Close, WorldMove
<1>5. CASE Probe \/ Refresh
  <2>1. UNCHANGED runtime /\ Forgets
    <3>1. CASE Probe
      BY <3>1 DEF Probe, Forgets
    <3>2. CASE Refresh
      BY <3>2 DEF Refresh, Forgets
    <3> QED
      BY <1>5, <3>1, <3>2
  <2> QED
    BY <2>1 DEF WorldMove
<1>6. CASE GiveUpChild \/ Kill
  <2>1. start.of \in Runtimes
    BY <1>6 DEF GiveUpChild, Kill, Types, StartTypes
  <2>2. State(start.of) \in RuntimeStates
    BY <2>1 DEF State, Types, WorldTypes
  <2>3. \E to \in RuntimeStates : MovesOn(start.of, to)
    BY <1>6, <2>2 DEF GiveUpChild, Kill, Alive, MovesOn, RuntimeStates
  <2> QED
    BY <2>1, <2>3 DEF WorldMove
<1>7. CASE AskAccepted \/ ConfirmAccepted
  <2>1. PICK r \in Runtimes : managed = r /\ State(r) = "serving"
    BY <1>7 DEF AskAccepted, ConfirmAccepted, Serves
  <2> QED
    BY <1>7, <2>1 DEF AskAccepted, ConfirmAccepted, WorldMove
<1> QED
  BY <1>1, <1>2, <1>3, <1>4, <1>5, <1>6, <1>7 DEF Next, StartStep, QuitStep, UserStep, vars,
    FailToSpawn, ChildReady, ChildStopped, Loaded, ChildExit, ShutdownEvent, Disconnected,
    StartCancelled, AskActive, ConfirmationShown, AskFailed, Answered, WaitOver, ConfirmFailed,
    ConfirmAnswered, Retry, RequestQuit, CancelQuit, ConfirmQuit

LEMMA PutStates ==
  ASSUME Types, NEW r \in Runtimes, NEW to, Put(r, to), NEW q \in Runtimes
  PROVE  State(q)' = (IF q = r THEN to ELSE State(q)) /\ runtime'[q].owner = runtime[q].owner
BY DEF Types, WorldTypes, Put, State

\* How a runtime changes in a step.
LEMMA StatesMove ==
  ASSUME Types, WorldMove, NEW q \in Runtimes
  PROVE  /\ State(q) \in Stopping => State(q)' \in Stopping
         /\ State(q) # "unused" => State(q)' # "unused"
         /\ State(q) \notin {"unused", "launched", "booting"} => State(q)' \notin {"unused", "launched", "booting"}
         /\ State(q) \in {"cleaned", "exited"} =>
              State(q)' \in {"cleaned", "exited"} \/ (start.pc = "stopping" /\ start.of = q)
         /\ State(q) = "exited" => State(q)' = "exited" \/ (start.pc = "stopping" /\ start.of = q)
         /\ State(q) = "crashed" => State(q)' = "crashed"
         /\ State(q)' = "serving" => State(q) \in {"booting", "serving"}
         /\ State(q) # "unused" /\ runtime[q].owner = "persistent" => runtime'[q].owner = "persistent"
<1>0. State(q) \in RuntimeStates
  BY DEF Types, WorldTypes, State
<1>1. CASE UNCHANGED runtime
  BY <1>1 DEF State
<1>2. ASSUME NEW r \in Runtimes, Boots(r) \/ CleansUp(r) \/ (State(r) = "serving" /\ Accept(r))
      PROVE  /\ \/ State(q)' = State(q)
                \/ State(q) = "launched" /\ State(q)' = "booting"
                \/ State(q) = "closing" /\ State(q)' = "cleaned"
                \/ State(q) = "serving" /\ State(q)' = "closing"
             /\ runtime'[q].owner = runtime[q].owner
  <2>1. \/ State(r) = "launched" /\ Put(r, "booting")
        \/ State(r) = "closing" /\ Put(r, "cleaned")
        \/ State(r) = "serving" /\ Put(r, "closing")
    BY <1>2 DEF Boots, CleansUp, Accept
  <2> QED
    BY <2>1, PutStates
<1>3. ASSUME NEW r \in Runtimes, NEW to \in RuntimeStates, MovesOn(r, to)
      PROVE  /\ \/ State(q)' = State(q)
                \/ State(q)' = "crashed" /\ State(q) \in {"launched", "booting", "serving", "closing"}
                \/ State(q)' = "crashed" /\ start.pc = "stopping" /\ start.of = q
                \/ State(q)' = "serving" /\ State(q) = "booting"
                \/ State(q)' = "closing" /\ State(q) \in {"booting", "serving"}
                \/ State(q)' = "exited" /\ State(q) = "cleaned"
             /\ runtime'[q].owner = runtime[q].owner
  <2>1. State(q)' = (IF q = r THEN to ELSE State(q)) /\ runtime'[q].owner = runtime[q].owner
    BY <1>3, PutStates DEF MovesOn
  <2> QED
    BY <1>3, <2>1 DEF MovesOn
<1>4. ASSUME NEW r \in Runtimes, NEW owner \in {"desktop", "persistent"}, Launches(r, owner)
      PROVE  \/ State(q)' = State(q) /\ runtime'[q].owner = runtime[q].owner
             \/ State(q) = "unused" /\ State(q)' = "launched"
  BY <1>4 DEF Launches, State, Types, WorldTypes
<1>5. ASSUME NEW r \in Runtimes, Promotes(r)
      PROVE  State(q)' = State(q) /\ (runtime'[q].owner = runtime[q].owner \/ runtime'[q].owner = "persistent")
  BY <1>5 DEF Promotes, State, Types, WorldTypes
<1> QED
  BY <1>0, <1>1, <1>2, <1>3, <1>4, <1>5 DEF WorldMove, RuntimeStates, Stopping

\* Every shutdown leaves a receipt that was not there before.
LEMMA ReceiptsMove ==
  ASSUME Types, WorldInv, WorldMove
  PROVE  \/ receipt' = receipt /\ announced' = announced
         \/ \E r \in Runtimes : /\ State(r) = "serving" /\ r \notin announced
                                /\ receipt' = r /\ announced' = announced \cup {r}
<1>1. ASSUME NEW r \in Runtimes, State(r) = "serving" PROVE r \notin announced
  BY <1>1 DEF WorldInv, Stopping
<1> QED
  BY <1>1 DEF WorldMove, Forgets, Boots, CleansUp, Promotes, Accept, MovesOn, Launches

LEMMA WorldStep ==
  ASSUME Types, WorldInv, WorldMove
  PROVE  WorldInv'
<1>1. ASSUME NEW r \in announced' PROVE State(r)' \in Stopping
  <2>1. r \in Runtimes
    BY <1>1, ReceiptsMove DEF Types, WorldTypes
  <2>2. CASE r \in announced
    BY <2>1, <2>2, StatesMove DEF WorldInv
  <2>3. CASE r \notin announced
    <3>1. \E x \in Runtimes : Accept(x)
      BY <1>1, <2>3 DEF WorldMove, Forgets, Boots, CleansUp, Promotes, MovesOn, Launches
    <3>2. PICK x \in Runtimes : Accept(x)
      BY <3>1
    <3>3. r = x /\ Put(x, "closing")
      BY <1>1, <2>3, <3>2 DEF Accept
    <3> QED
      BY <2>1, <3>3, PutStates DEF Stopping
  <2> QED
    BY <2>2, <2>3
<1>2. receipt' \in announced' \cup {None}
  BY ReceiptsMove DEF WorldInv
<1>3. ASSUME NEW q \in Runtimes, State(q)' \in Holding PROVE descriptor' = q
  <2>1. CASE UNCHANGED runtime /\ Forgets
    <3>1. State(q) \in Holding
      BY <1>3, <2>1 DEF State
    <3> QED
      BY <2>1, <3>1 DEF WorldInv, Forgets, Gone, Holding
  <2>2. ASSUME NEW r \in Runtimes, Boots(r) PROVE descriptor' = q
    BY <1>3, <2>2, PutStates DEF Boots
  <2>3. ASSUME NEW r \in Runtimes, CleansUp(r) PROVE descriptor' = q
    <3>1. q # r /\ State(q) \in Holding
      BY <1>3, <2>3, PutStates DEF CleansUp, Holding
    <3> QED
      BY <2>3, <3>1 DEF CleansUp, WorldInv
  <2>4. ASSUME NEW r \in Runtimes, State(r) = "serving", Accept(r) PROVE descriptor' = q
    <3>1. State(q) \in Holding
      BY <1>3, <2>4, PutStates DEF Accept, Holding
    <3> QED
      BY <2>4, <3>1 DEF Accept, WorldInv
  <2>5. ASSUME NEW r \in Runtimes, NEW to \in RuntimeStates, MovesOn(r, to) PROVE descriptor' = q
    <3>1. State(q) \in Holding
      BY <1>3, <2>5, PutStates DEF MovesOn, Holding
    <3> QED
      BY <2>5, <3>1 DEF MovesOn, WorldInv
  <2>6. ASSUME NEW r \in Runtimes, NEW owner \in {"desktop", "persistent"}, Launches(r, owner)
        PROVE  descriptor' = q
    <3>1. State(q) \in Holding
      BY <1>3, <2>6 DEF Launches, State, Types, WorldTypes, Holding
    <3> QED
      BY <2>6, <3>1 DEF Launches, Forgets, WorldInv, Gone, Holding
  <2>7. ASSUME NEW r \in Runtimes, Promotes(r) PROVE descriptor' = q
    <3>1. State(q) \in Holding
      BY <1>3, <2>7 DEF Promotes, State, Types, WorldTypes
    <3> QED
      BY <2>7, <3>1 DEF Promotes, WorldInv
  <2> QED
    BY <2>1, <2>2, <2>3, <2>4, <2>5, <2>6, <2>7 DEF WorldMove
<1> QED
  BY <1>1, <1>2, <1>3 DEF WorldInv

-----------------------------------------------------------------------------
(* Receipts *)

\* Where what the app remembers comes from.
LEMMA Remembered ==
  ASSUME Types, [Next]_vars
  PROVE  /\ start'.seen \in {start.seen, receipt, None}
         /\ \/ watch' \in {watch, NoWatch}
            \/ \E r \in Runtimes, found \in BOOLEAN :
                 /\ State(r) = "serving" /\ announced' = announced
                 /\ watch' = [of |-> r, seen |-> start.seen, attached |-> found]
         /\ \A r \in Runtimes :
              \/ seen'[r] = seen[r] /\ (child'[r] # "no" => child[r] # "no")
              \/ /\ State(r) \in {"unused", "serving"} /\ announced' = announced
                 /\ seen'[r] \in {seen[r], start.seen}
<1>1. CASE UNCHANGED <<start, watch, child, seen>>
  BY <1>1
<1>2. CASE Probe
  <2>1. UNCHANGED <<announced, child, seen>> /\ start.of \in Runtimes
    BY <1>2 DEF Probe, Types, StartTypes
  <2>2. start'.seen \in {start.seen, None}
    <3>1. \/ start' = [start EXCEPT !.pc = "loading"] \/ start' = [start EXCEPT !.pc = "prepare"]
          \/ start' = NoStart
      BY <1>2 DEF Probe, Fail
    <3> QED
      BY <3>1 DEF NoStart, Types, StartTypes
  <2>3. \/ watch' = watch
        \/ State(start.of) = "serving" /\ watch' = [of |-> start.of, seen |-> start.seen, attached |-> TRUE]
    BY <1>2 DEF Probe, Attach, attached
  <2> QED
    BY <2>1, <2>2, <2>3
<1>3. ASSUME NEW r \in Runtimes, Spawn(r)
      PROVE  /\ start'.seen = start.seen /\ watch' = watch /\ announced' = announced /\ State(r) = "unused"
             /\ \A q \in Runtimes : \/ seen'[q] = seen[q] /\ child'[q] = child[q]
                                    \/ q = r /\ seen'[q] = start.seen
  BY <1>3 DEF Spawn, attached, Types, StartTypes, ChildTypes
<1>4. CASE FailToSpawn \/ ChildStopped \/ Loaded
  BY <1>4 DEF FailToSpawn, ChildStopped, Loaded, Fail, NoStart, attached
<1>5. CASE ChildReady
  <2>1. /\ UNCHANGED <<announced, seen>> /\ start.of \in Runtimes /\ State(start.of) = "serving"
        /\ watch' = [of |-> start.of, seen |-> start.seen, attached |-> FALSE] /\ start'.seen = start.seen
    BY <1>5 DEF ChildReady, Attach, world, Types, StartTypes
  <2>2. \A q \in Runtimes : child'[q] = child[q] \/ q = start.of
    BY <1>5 DEF ChildReady, Types, ChildTypes
  <2> QED
    BY <2>1, <2>2
<1>6. CASE GiveUpChild \/ RequestQuit
  BY <1>6 DEF GiveUpChild, RequestQuit, Cancelled, attached, Types, StartTypes
<1>7. ASSUME Follow PROVE watch' \in {watch, NoWatch}
  BY <1>7 DEF Follow, attached
<1>8. ASSUME Begin \/ Recover PROVE start'.seen \in {start.seen, receipt} /\ watch' = NoWatch
  BY <1>8 DEF Begin, Recover, Starting, starting
<1>9. CASE (\E r \in Runtimes : ChildExit(r)) \/ ShutdownEvent \/ Disconnected
  <2>1. UNCHANGED seen /\ \A q \in Runtimes : child'[q] \in {child[q], "no"}
    BY <1>9 DEF ChildExit, ShutdownEvent, Disconnected, Types, ChildTypes
  <2>2. start'.seen \in {start.seen, receipt} /\ watch' \in {watch, NoWatch}
    BY <1>7, <1>8, <1>9 DEF ChildExit, ShutdownEvent, Disconnected, starting, attached
  <2> QED
    BY <2>1, <2>2
<1>10. CASE Retry
  BY <1>8, <1>10 DEF Retry
<1> QED
  BY <1>1, <1>2, <1>3, <1>4, <1>5, <1>6, <1>9, <1>10 DEF Next, HostStep, StartStep, QuitStep, UserStep,
    vars, starting, attached, Boot, Refuse, Ready, Cleanup, Exit, Crash, Serve, Promote, Close, Kill,
    StartCancelled, Refresh, AskActive, ConfirmationShown, AskAccepted, AskFailed, Answered, WaitOver,
    ConfirmAccepted, ConfirmFailed, ConfirmAnswered, CancelQuit, ConfirmQuit

LEMMA ReceiptStep ==
  ASSUME Types, WorldInv, ReceiptInv, [Next]_vars
  PROVE  ReceiptInv'
<1>1. WorldMove /\ Types'
  BY WorldMoves, TypesStep
<1>2. announced \subseteq announced' /\ announced' \subseteq Runtimes
  BY <1>1, ReceiptsMove DEF Types, WorldTypes
<1>3. receipt \in announced \cup {None}
  BY DEF WorldInv
<1>4. ASSUME NEW r \in Runtimes, NEW before \in announced \cup {None},
             r \in announced => receipt \notin {None, before}
      PROVE  r \in announced' => receipt' \notin {None, before}
  BY <1>1, <1>4, ReceiptsMove
<1>5. start'.seen \in announced' \cup {None}
  BY <1>2, <1>3, Remembered DEF ReceiptInv
<1>6. watch'.seen \in announced' \cup {None} /\ (watch'.of \in announced' => receipt' \notin {None, watch'.seen})
  <2>1. CASE watch' = watch
    <3>1. watch.of \in MaybeRuntime
      BY DEF Types, AttachedTypes
    <3>2. CASE watch.of = None
      BY <2>1, <3>2, <1>2 DEF ReceiptInv
    <3>3. CASE watch.of \in Runtimes
      BY <2>1, <3>3, <1>2, <1>4 DEF ReceiptInv
    <3> QED
      BY <3>1, <3>2, <3>3 DEF MaybeRuntime
  <2>2. CASE watch' = NoWatch
    BY <2>2, <1>2 DEF NoWatch
  <2>3. ASSUME NEW r \in Runtimes, NEW found \in BOOLEAN, State(r) = "serving", announced' = announced,
               watch' = [of |-> r, seen |-> start.seen, attached |-> found]
        PROVE  watch'.seen \in announced' \cup {None} /\ watch'.of \notin announced'
    BY <2>3 DEF ReceiptInv, WorldInv, Stopping
  <2> QED
    BY <2>1, <2>2, <2>3, Remembered
<1>7. ASSUME NEW r \in Runtimes
      PROVE  /\ seen'[r] \in announced' \cup {None}
             /\ child'[r] # "no" /\ r \in announced' => receipt' \notin {None, seen'[r]}
  <2>1. seen[r] \in announced \cup {None} /\ start.seen \in announced \cup {None}
    BY DEF ReceiptInv
  <2>2. CASE seen'[r] = seen[r] /\ (child'[r] # "no" => child[r] # "no")
    BY <2>1, <2>2, <1>2, <1>4 DEF ReceiptInv
  <2>3. CASE /\ State(r) \in {"unused", "serving"} /\ announced' = announced
             /\ seen'[r] \in {seen[r], start.seen}
    BY <2>1, <2>3 DEF WorldInv, Stopping
  <2> QED
    BY <2>2, <2>3, Remembered
<1> QED
  BY <1>5, <1>6, <1>7 DEF ReceiptInv

-----------------------------------------------------------------------------
(* Children *)

\* Whoever is attached while a runtime serves, no other child is ready but one
\* that cleans up.
LEMMA OnlyOneServes ==
  ASSUME Types, WorldInv, ChildInv, Noticed,
         NEW r \in Runtimes, State(r) = "serving", NEW q \in Runtimes \ {r}, child[q] = "ready"
  PROVE  State(q) = "cleaned"
<1>1. State(q) \in RuntimeStates /\ State(q) \notin {"unused", "launched", "booting"}
  BY DEF ChildInv, Types, WorldTypes, State
<1>2. State(q) \notin {"exited", "crashed"}
  BY DEF Noticed, Gone
<1>3. State(q) \notin Holding
  BY DEF WorldInv, Holding
<1> QED
  BY <1>1, <1>2, <1>3 DEF RuntimeStates, Holding

LEMMA ChildStart ==
  ASSUME Types, WorldInv, ChildInv, StartStep
  PROVE  ChildInv'
<1>1. CASE Probe
  <2>1. /\ start.pc = "probe" /\ start.of \in Runtimes /\ UNCHANGED <<runtime, child>> /\ Noticed
        /\ \A q \in Runtimes : State(q)' = State(q)
    BY <1>1 DEF Probe, Types, StartTypes, State
  <2>2. \A q \in Runtimes : child[q] # "unready"
    BY <2>1 DEF ChildInv
  <2>3. CASE State(start.of) = "serving" /\ Attach(start.of, TRUE) /\ start' = [start EXCEPT !.pc = "loading"]
    <3>1. managed' = start.of /\ watch'.of = start.of /\ start'.pc = "loading"
      BY <2>3 DEF Attach, Types, StartTypes
    <3>2. \A q \in Runtimes \ {start.of} : child[q] = "ready" => State(q) = "cleaned"
      BY <2>1, <2>3, OnlyOneServes
    <3> QED
      BY <2>1, <2>2, <3>1, <3>2 DEF ChildInv
  <2>4. CASE UNCHANGED attached /\ start'.pc \in {"idle", "prepare"}
    BY <2>1, <2>2, <2>4 DEF ChildInv, attached
  <2>5. \/ State(start.of) = "serving" /\ Attach(start.of, TRUE) /\ start' = [start EXCEPT !.pc = "loading"]
        \/ UNCHANGED attached /\ start'.pc \in {"idle", "prepare"}
    <3>1. \/ State(start.of) = "serving" /\ Attach(start.of, TRUE) /\ start' = [start EXCEPT !.pc = "loading"]
          \/ UNCHANGED attached /\ start' = [start EXCEPT !.pc = "prepare"]
          \/ UNCHANGED attached /\ start' = NoStart
      BY <1>1 DEF Probe, Fail
    <3>2. NoStart.pc = "idle" /\ [start EXCEPT !.pc = "prepare"].pc = "prepare"
      BY DEF NoStart, Types, StartTypes
    <3> QED
      BY <3>1, <3>2
  <2> QED
    BY <2>3, <2>4, <2>5
<1>2. ASSUME NEW r \in Runtimes, Spawn(r) PROVE ChildInv'
  <2>1. /\ start.pc = "prepare" /\ start'.pc = "await" /\ start'.of = r /\ UNCHANGED attached
        /\ child'[r] = "unready" /\ State(r)' = "launched"
        /\ \A q \in Runtimes \ {r} : child'[q] = child[q] /\ State(q)' = State(q)
    BY <1>2 DEF Spawn, Types, StartTypes, ChildTypes, WorldTypes, State
  <2>2. \A q \in Runtimes : child[q] # "unready"
    BY <2>1 DEF ChildInv
  <2> QED
    BY <2>1, <2>2 DEF ChildInv, attached
<1>3. CASE FailToSpawn \/ ChildStopped \/ Loaded
  <2>1. UNCHANGED <<runtime, attached, child>> /\ start'.pc = "idle"
    BY <1>3 DEF FailToSpawn, ChildStopped, Loaded, Fail, NoStart, world
  <2>2. \A q \in Runtimes : child[q] # "unready"
    BY <1>3 DEF FailToSpawn, ChildStopped, Loaded, ChildInv
  <2> QED
    BY <2>1, <2>2 DEF ChildInv, attached, State
<1>4. CASE ChildReady
  <2>1. /\ start.of \in Runtimes /\ State(start.of) = "serving" /\ Noticed /\ start.pc = "await"
        /\ managed' = start.of /\ watch'.of = start.of /\ start'.pc = "loading"
        /\ child'[start.of] = "ready"
        /\ \A q \in Runtimes : State(q)' = State(q) /\ (q # start.of => child'[q] = child[q])
    BY <1>4 DEF ChildReady, Attach, Types, StartTypes, ChildTypes, world, State
  <2>2. \A q \in Runtimes \ {start.of} : child[q] # "unready" /\ (child[q] = "ready" => State(q) = "cleaned")
    BY <2>1, OnlyOneServes DEF ChildInv
  <2> QED
    BY <2>1, <2>2 DEF ChildInv
<1>5. CASE GiveUpChild \/ Kill
  <2>1. /\ start.of \in Runtimes /\ start.pc \in {"await", "stopping"} /\ UNCHANGED <<attached, child>>
        /\ start'.pc = "stopping" /\ start'.of = start.of
        /\ \A q \in Runtimes \ {start.of} : State(q)' = State(q)
    BY <1>5 DEF GiveUpChild, Kill, Put, Types, StartTypes, WorldTypes, State, starting
  <2>2. State(start.of) # "unused" => State(start.of)' # "unused"
    BY <2>1, <1>5, WorldMoves, StatesMove DEF Next, StartStep
  <2> QED
    BY <2>1, <2>2 DEF ChildInv, attached
<1> QED
  BY <1>1, <1>2, <1>3, <1>4, <1>5 DEF StartStep

LEMMA ChildLoss ==
  ASSUME Types, WorldInv, ChildInv, (\E r \in Runtimes : ChildExit(r)) \/ ShutdownEvent \/ Disconnected
  PROVE  ChildInv'
<1>1. UNCHANGED world /\ \A q \in Runtimes : State(q)' = State(q)
  BY DEF ChildExit, ShutdownEvent, Disconnected, world, State
<1>2. \A q \in Runtimes : child'[q] \in {child[q], "no"}
  BY DEF ChildExit, ShutdownEvent, Disconnected, Types, ChildTypes
<1>3. start' = start \/ (start.pc = "idle" /\ start'.pc \in {"probe", "prepare"})
  BY DEF ChildExit, ShutdownEvent, Disconnected, Recover, Begin, Starting, starting
<1>4. start'.pc \in {"await", "stopping"} => start.of \in Runtimes /\ start' = start
  BY <1>3 DEF Types, StartTypes
<1>5. ASSUME NEW q \in Runtimes
      PROVE  /\ child'[q] = "unready" => start'.pc \in {"await", "stopping"} /\ start'.of = q /\ State(q)' # "unused"
             /\ child'[q] = "ready" => State(q)' \notin {"unused", "launched", "booting"}
  BY <1>1, <1>2, <1>3 DEF ChildInv
<1>6. start'.pc \in {"await", "stopping"} => child'[start'.of] # "ready"
  BY <1>2, <1>4 DEF ChildInv
<1>7. CASE managed' = managed /\ watch' \in {watch, NoWatch}
  BY <1>1, <1>2, <1>5, <1>6, <1>7 DEF ChildInv
<1>8. ASSUME managed' = None, watch' = NoWatch,
             \A q \in Runtimes : child'[q] = "ready" => State(q) \in {"cleaned", "exited", "crashed"}
      PROVE  ChildInv'
  BY <1>1, <1>5, <1>6, <1>8 DEF ChildInv
<1>9. ASSUME Recover PROVE managed' = None /\ watch' = NoWatch
  BY <1>9 DEF Recover, Begin
<1>10. ASSUME Follow \/ UNCHANGED attached PROVE managed' = managed /\ watch' \in {watch, NoWatch}
  BY <1>10 DEF Follow, attached
<1>11. CASE Recover /\ watch.attached /\ Gone(watch.of)
  <2>1. watch.of = managed
    BY <1>11 DEF ChildInv, NoWatch
  <2>2. \A q \in Runtimes : child'[q] = "ready" => State(q) \in {"cleaned", "exited", "crashed"}
    BY <1>2, <1>11, <2>1 DEF ChildInv, Gone
  <2> QED
    BY <1>8, <1>9, <1>11, <2>2
<1>12. ASSUME NEW r \in Runtimes, Recover, child[r] = "ready", State(r) = "crashed"
       PROVE  ChildInv'
  <2>1. \A q \in Runtimes : child'[q] = "ready" => State(q) \in {"cleaned", "exited", "crashed"}
    BY <1>2, <1>12 DEF ChildInv
  <2> QED
    BY <1>8, <1>9, <1>12, <2>1
<1>13. ASSUME NEW r \in Runtimes, ChildExit(r) PROVE ChildInv'
  <2>1. \/ Follow \/ UNCHANGED attached
        \/ Recover /\ child[r] = "ready" /\ State(r) = "crashed"
    BY <1>13 DEF ChildExit, Gone
  <2> QED
    BY <1>7, <1>10, <1>12, <2>1
<1>14. CASE ShutdownEvent \/ Disconnected
  <2>1. Follow \/ (Recover /\ watch.attached /\ Gone(watch.of))
    BY <1>14 DEF ShutdownEvent, Disconnected
  <2> QED
    BY <1>7, <1>10, <1>11, <2>1
<1> QED
  BY <1>13, <1>14

LEMMA ChildStep ==
  ASSUME Types, WorldInv, ChildInv, [Next]_vars
  PROVE  ChildInv'
<1>1. CASE UNCHANGED <<attached, child, start>> \/ UNCHANGED <<managed, watch, child, start>>
  <2>1. UNCHANGED <<managed, watch, child, start>>
    BY <1>1 DEF attached
  <2>2. ASSUME NEW r \in Runtimes, child[r] = "ready"
        PROVE  /\ State(r)' \notin {"unused", "launched", "booting"}
               /\ \/ managed = r \/ State(r)' \in {"cleaned", "exited"}
                  \/ managed = None /\ State(r)' = "crashed"
    <3>1. ~(start.pc = "stopping" /\ start.of = r)
      BY <2>2 DEF ChildInv
    <3> QED
      BY <2>2, <3>1, WorldMoves, StatesMove DEF ChildInv
  <2>3. ASSUME NEW r \in Runtimes, child[r] = "unready"
        PROVE  start.pc \in {"await", "stopping"} /\ start.of = r /\ State(r)' # "unused"
    BY <2>3, WorldMoves, StatesMove DEF ChildInv
  <2> QED
    BY <2>1, <2>2, <2>3 DEF ChildInv
<1>2. CASE StartStep
  BY <1>2, ChildStart
<1>3. CASE (\E r \in Runtimes : ChildExit(r)) \/ ShutdownEvent \/ Disconnected
  BY <1>3, ChildLoss
<1>4. CASE RequestQuit
  <2>1. UNCHANGED <<world, attached, child>> /\ start'.pc = start.pc /\ start'.of = start.of
    BY <1>4 DEF RequestQuit, Cancelled, Types, StartTypes
  <2> QED
    BY <2>1 DEF ChildInv, attached, world, State
<1>5. CASE Retry
  <2>1. UNCHANGED <<world, managed, child>> /\ start.pc = "idle" /\ start'.pc \in {"probe", "prepare"} /\ watch' = NoWatch
    BY <1>5 DEF Retry, Begin, Starting
  <2> QED
    BY <2>1 DEF ChildInv, world, State
<1> QED
  BY <1>1, <1>2, <1>3, <1>4, <1>5 DEF Next, HostStep, QuitStep, UserStep, vars, starting, attached,
    Boot, Refuse, Ready, Cleanup, Exit, Crash, Serve, Promote, Close,
    StartCancelled, Refresh, AskActive, ConfirmationShown, AskAccepted, AskFailed, Answered, WaitOver,
    ConfirmAccepted, ConfirmFailed, ConfirmAnswered, CancelQuit, ConfirmQuit

-----------------------------------------------------------------------------
(* Quit *)

LEMMA QuitStepInv ==
  ASSUME Types, WorldInv, ChildInv, QuitInv, [Next]_vars
  PROVE  QuitInv'
<1>1. \/ quit' = quit
      \/ quit'.pc \in {"idle", "cancelling"}
      \/ StartCancelled /\ quit'.pc = "refreshing"
      \/ Refresh /\ quit'.pc \in {quit.pc, "asking"} /\ quit.pc = "refreshing"
      \/ AskActive /\ quit'.pc = "showing" /\ quit.pc = "asking"
      \/ AskAccepted /\ quit'.pc = "answered" /\ quit.pc = "asking"
      \/ Answered /\ quit'.pc = "waiting" /\ quit.pc = "answered"
  <2>1. CASE QuitStep
    BY <2>1 DEF QuitStep, Idle, StartCancelled, Refresh, AskActive, ConfirmationShown, AskAccepted, AskFailed,
      Answered, WaitOver, ConfirmAccepted, ConfirmFailed, ConfirmAnswered, Types, ThreadTypes
  <2>2. CASE UserStep
    BY <2>2 DEF UserStep, Retry, RequestQuit, CancelQuit, ConfirmQuit, threads
  <2> QED
    BY <2>1, <2>2 DEF Next, HostStep, StartStep, vars, threads,
      Boot, Refuse, Ready, Cleanup, Exit, Crash, Serve, Promote, Close, ChildExit, ShutdownEvent, Disconnected,
      Probe, Spawn, FailToSpawn, ChildReady, GiveUpChild, Kill, ChildStopped, Loaded
<1>2. ASSUME quit.pc # "idle", start.pc \in {"idle", "loading"} PROVE start'.pc \in {"idle", "loading"}
  <2>1. isQuitting /\ Leaving
    BY <1>2 DEF isQuitting, Leaving
  <2>2. CASE StartStep
    <3>1. Loaded
      BY <1>2, <2>2 DEF StartStep, Probe, Spawn, FailToSpawn, ChildReady, GiveUpChild, Kill, ChildStopped
    <3>2. start' = NoStart
      BY <3>1 DEF Loaded, Fail
    <3> QED
      BY <3>2 DEF NoStart
  <2>3. CASE (\E r \in Runtimes : ChildExit(r)) \/ ShutdownEvent \/ Disconnected
    <3>1. start' = start
      BY <2>1, <2>3 DEF ChildExit, ShutdownEvent, Disconnected, Recover, starting
    <3> QED
      BY <1>2, <3>1
  <2>4. CASE RequestQuit
    BY <1>2, <2>4 DEF RequestQuit
  <2>5. CASE Retry
    BY <2>1, <2>5 DEF Retry
  <2>6. CASE start' = start
    BY <1>2, <2>6
  <2> QED
    BY <2>2, <2>3, <2>4, <2>5, <2>6 DEF Next, HostStep, QuitStep, UserStep, vars, starting,
      Boot, Refuse, Ready, Cleanup, Exit, Crash, Serve, Promote, Close,
      StartCancelled, Refresh, AskActive, ConfirmationShown, AskAccepted, AskFailed, Answered, WaitOver,
      ConfirmAccepted, ConfirmFailed, ConfirmAnswered, CancelQuit, ConfirmQuit
<1>3. quit'.pc \notin {"idle", "cancelling"} => start'.pc \in {"idle", "loading"}
  <2>1. CASE StartCancelled
    BY <2>1 DEF StartCancelled, starting
  <2>2. CASE quit'.pc \notin {"idle", "cancelling"} /\ ~StartCancelled
    <3>1. quit.pc \notin {"idle", "cancelling"}
      BY <1>1, <2>2
    <3> QED
      BY <1>2, <3>1 DEF QuitInv
  <2> QED
    BY <2>1, <2>2
<1>4. ASSUME quit.pc \notin {"idle", "cancelling"}, NEW r \in Runtimes, child'[r] = "ready", State(r)' = "serving"
      PROVE  child[r] = "ready" /\ State(r) = "serving"
  <2>1. child[r] = "ready"
    <3>1. \/ child'[r] \in {child[r], "no", "unready"}
          \/ ChildReady
      BY DEF Next, HostStep, StartStep, QuitStep, UserStep, vars, Types, ChildTypes,
        Boot, Refuse, Ready, Cleanup, Exit, Crash, Serve, Promote, Close, ChildExit, ShutdownEvent, Disconnected,
        Probe, Spawn, FailToSpawn, GiveUpChild, Kill, ChildStopped, Loaded,
        StartCancelled, Refresh, AskActive, ConfirmationShown, AskAccepted, AskFailed, Answered, WaitOver,
        ConfirmAccepted, ConfirmFailed, ConfirmAnswered, Retry, RequestQuit, CancelQuit, ConfirmQuit
    <3>2. ~ChildReady
      BY <1>4 DEF ChildReady, QuitInv
    <3> QED
      BY <1>4, <3>1, <3>2
  <2> QED
    BY <1>4, <2>1, WorldMoves, StatesMove DEF ChildInv
<1>5. ASSUME quit'.pc \in {"answered", "waiting"}, NEW r \in Runtimes, child'[r] = "ready", State(r)' = "serving"
      PROVE  FALSE
  <2>1. CASE quit.pc \in {"answered", "waiting"}
    BY <1>4, <1>5, <2>1 DEF QuitInv
  <2>2. CASE quit.pc \notin {"answered", "waiting"}
    <3>1. AskAccepted /\ quit.pc = "asking"
      BY <1>1, <1>5, <2>2
    <3>2. child[r] = "ready" /\ State(r) = "serving"
      BY <1>4, <1>5, <3>1
    <3>3. managed = r
      BY <3>2 DEF ChildInv
    <3>4. Put(r, "closing")
      BY <3>1, <3>3 DEF AskAccepted, Accept
    <3> QED
      BY <1>5, <3>4, PutStates
  <2> QED
    BY <2>1, <2>2
<1> QED
  BY <1>3, <1>5 DEF QuitInv

LEMMA OrphanStep ==
  ASSUME Types, WorldInv, ChildInv, QuitInv, NoOrphan, [Next]_vars
  PROVE  NoOrphan'
<1> SUFFICES ASSUME done', leave' = Idle, confirm' = Idle, NEW r \in Runtimes
             PROVE  /\ child'[r] # "unready"
                    /\ child'[r] = "ready" /\ State(r)' = "serving" => runtime'[r].owner = "persistent"
  BY DEF NoOrphan
<1>1. CASE done
  <2>1. UNCHANGED <<child, leave, confirm>>
    BY <1>1 DEF Next, HostStep, StartStep, QuitStep, UserStep, vars, threads,
      Boot, Refuse, Ready, Cleanup, Exit, Crash, Serve, Promote, Close, ChildExit, ShutdownEvent, Disconnected,
      Probe, Spawn, FailToSpawn, ChildReady, GiveUpChild, Kill, ChildStopped, Loaded,
      StartCancelled, Refresh, AskActive, ConfirmationShown, AskAccepted, AskFailed, Answered, WaitOver,
      ConfirmAccepted, ConfirmFailed, ConfirmAnswered, Retry, RequestQuit, CancelQuit, ConfirmQuit
  <2>2. /\ child[r] # "unready"
        /\ child[r] = "ready" /\ State(r) = "serving" => runtime[r].owner = "persistent"
    BY <1>1, <2>1 DEF NoOrphan
  <2>3. child[r] = "ready" /\ State(r)' = "serving" => State(r) = "serving"
    BY WorldMoves, StatesMove DEF ChildInv
  <2>4. State(r) = "serving" /\ runtime[r].owner = "persistent" => runtime'[r].owner = "persistent"
    BY WorldMoves, StatesMove
  <2> QED
    BY <2>1, <2>2, <2>3, <2>4
<1>2. CASE ~done
  <2>1. Refresh \/ WaitOver
    BY <1>2 DEF Next, HostStep, StartStep, QuitStep, UserStep, vars, threads,
      Boot, Refuse, Ready, Cleanup, Exit, Crash, Serve, Promote, Close, ChildExit, ShutdownEvent, Disconnected,
      Probe, Spawn, FailToSpawn, ChildReady, GiveUpChild, Kill, ChildStopped, Loaded,
      StartCancelled, AskActive, ConfirmationShown, AskAccepted, AskFailed, Answered,
      ConfirmAccepted, ConfirmFailed, ConfirmAnswered, Retry, RequestQuit, CancelQuit, ConfirmQuit
  <2>2. UNCHANGED <<runtime, child, leave, confirm>> /\ State(r)' = State(r)
    BY <2>1 DEF Refresh, WaitOver, world, State
  <2>3. quit.pc \in {"refreshing", "waiting"}
    <3>1. CASE WaitOver
      <4>1. PICK w \in {quit, confirm, leave} : w.pc = "waiting"
        BY <3>1 DEF WaitOver
      <4>2. confirm.pc = "idle" /\ leave.pc = "idle"
        BY <2>2 DEF Idle
      <4> QED
        BY <4>1, <4>2
    <3> QED
      BY <2>1, <3>1 DEF Refresh
  <2>4. child[r] # "unready"
    BY <2>3 DEF QuitInv, ChildInv
  <2>5. ASSUME child[r] = "ready", State(r) = "serving" PROVE runtime[r].owner = "persistent"
    <3>1. managed = r /\ descriptor = r
      BY <2>5 DEF ChildInv, WorldInv, Holding
    <3>2. quit.pc # "waiting"
      BY <2>5 DEF QuitInv
    <3>3. Refresh
      BY <2>1, <2>2, <3>2 DEF WaitOver, Idle
    <3>4. Serves(managed) /\ ~Gone(r) /\ managed # None
      BY <2>5, <3>1 DEF Serves, Gone
    <3> QED
      BY <1>2, <3>1, <3>3, <3>4 DEF Refresh
  <2> QED
    BY <2>2, <2>4, <2>5
<1> QED
  BY <1>1, <1>2 DEF Types, ThreadTypes

-----------------------------------------------------------------------------

\* The one restart the app makes on its own is of a runtime whose loss nobody
\* announced.
LEMMA RestartStep ==
  ASSUME Inv, [Next]_vars
  PROVE  auto /\ ~auto' => managed \notin announced
<1> SUFFICES ASSUME auto, ~auto' PROVE managed \notin announced
  OBVIOUS
<1> USE DEF Inv
<1>1. announced \subseteq Runtimes /\ None \notin announced
  BY DEF Types, WorldTypes
<1>2. Recover /\ ((\E r \in Runtimes : ChildExit(r)) \/ Disconnected)
  <2>1. (\E r \in Runtimes : ChildExit(r)) \/ Disconnected
    BY DEF Next, HostStep, StartStep, QuitStep, UserStep, vars, starting,
      Boot, Refuse, Ready, Cleanup, Exit, Crash, Serve, Promote, Close, ShutdownEvent,
      Probe, Spawn, FailToSpawn, ChildReady, GiveUpChild, Kill, ChildStopped, Loaded,
      StartCancelled, Refresh, AskActive, ConfirmationShown, AskAccepted, AskFailed, Answered, WaitOver,
      ConfirmAccepted, ConfirmFailed, ConfirmAnswered, Retry, RequestQuit, CancelQuit, ConfirmQuit
  <2> QED
    BY <2>1 DEF ChildExit, Disconnected, starting
<1>3. CASE Disconnected
  <2>1. ~WasShutdown(watch.of, watch.seen) /\ watch.attached
    BY <1>3 DEF Disconnected, starting
  <2>2. watch.of = managed
    BY <2>1 DEF ChildInv, NoWatch
  <2>3. watch.of \notin announced
    BY <2>1 DEF ReceiptInv, WasShutdown
  <2> QED
    BY <2>2, <2>3
<1>4. ASSUME NEW r \in Runtimes, ChildExit(r) PROVE managed \notin announced
  <2>1. /\ child[r] = "ready" /\ Gone(r) /\ State(r) # "exited" /\ ~WasShutdown(r, seen[r])
    BY <1>4 DEF ChildExit, starting
  <2>2. managed \in {r, None}
    BY <2>1 DEF ChildInv, Gone
  <2>3. r \notin announced
    BY <2>1 DEF ReceiptInv, WasShutdown
  <2> QED
    BY <1>1, <2>2, <2>3
<1> QED
  BY <1>2, <1>3, <1>4

LEMMA InvInit == Init => Inv
<1> SUFFICES ASSUME Init PROVE Inv
  OBVIOUS
<1>1. WorldTypes /\ ChildTypes /\ ShowTypes
  BY DEF Init, WorldTypes, ChildTypes, ShowTypes, MaybeRuntime, RuntimeStates
<1>2. StartTypes
  BY <1>1, StartingTypes DEF Init, StartTypes
<1>3. AttachedTypes /\ ThreadTypes
  BY <1>1, StartingTypes DEF Init, AttachedTypes, ThreadTypes, Idle, MaybeRuntime
<1>4. \A r \in Runtimes : State(r) # "unused" => r = descriptor /\ State(r) = "serving"
  BY DEF Init, State
<1>5. WorldInv
  BY <1>4 DEF Init, WorldInv, Holding
<1>6. ReceiptInv
  BY DEF Init, ReceiptInv, Starting, NoWatch
<1>7. ChildInv
  BY <1>1, StartingTypes DEF Init, ChildInv
<1>8. QuitInv /\ NoOrphan
  BY DEF Init, QuitInv, NoOrphan, Idle
<1> QED
  BY <1>1, <1>2, <1>3, <1>5, <1>6, <1>7, <1>8 DEF Inv, Types

LEMMA InvAlways == Spec => []Inv
<1>1. Inv /\ [Next]_vars => Inv'
  <2> SUFFICES ASSUME Inv, [Next]_vars PROVE Inv'
    OBVIOUS
  <2> USE DEF Inv
  <2>1. Types' /\ WorldInv'
    BY TypesStep, WorldMoves, WorldStep
  <2>2. ReceiptInv' /\ ChildInv'
    BY ReceiptStep, ChildStep
  <2>3. QuitInv' /\ NoOrphan'
    BY QuitStepInv, OrphanStep
  <2> QED
    BY <2>1, <2>2, <2>3
<1> QED
  BY <1>1, InvInit, PTL DEF Spec

\* The variables of runtime-manager.ts, runtime-recovery.ts and quit-flow.ts
\* keep their types.
THEOREM DesktopTypes == Spec => []TypeOK
<1>1. Inv => TypeOK
  <2> SUFFICES ASSUME Inv PROVE TypeOK
    OBVIOUS
  <2>1. {descriptor, receipt, managed, leave.on} \subseteq Runtimes \cup {None}
    BY DEF Inv, Types, WorldTypes, AttachedTypes, ThreadTypes, MaybeRuntime
  <2>2. {intentional, interrupted, auto, done} \subseteq BOOLEAN
    BY DEF Inv, Types, AttachedTypes, StartTypes, ThreadTypes
  <2> QED
    BY <2>1, <2>2 DEF TypeOK, Inv, Types, WorldTypes, StartTypes, AttachedTypes, ShowTypes, ChildTypes,
      ThreadTypes, RuntimeStates
<1> QED
  BY <1>1, InvAlways, PTL

\* An app that has quit on request left no process behind it that still starts,
\* and none that serves but for somebody else (quit-flow.ts, cancelStart), for
\* any number of runtimes, quits, retries, crashes and `pst serve`s.
THEOREM QuitLeavesNoOrphan == Spec => []NoOrphan
<1>1. Inv => NoOrphan
  BY DEF Inv
<1> QED
  BY <1>1, InvAlways, PTL

\* No runtime that accepted a shutdown is brought back by the app on its own,
\* whatever events were lost and whoever started since (runtime-manager.ts,
\* wasShutdown and onUnexpectedExit).
THEOREM StoppedStaysStopped == Spec => NeverRestartsStopped
<1>1. Inv /\ [Next]_vars => [auto /\ ~auto' => managed \notin announced]_vars
  BY RestartStep
<1> QED
  BY <1>1, InvAlways, PTL DEF Spec, NeverRestartsStopped
=============================================================================
