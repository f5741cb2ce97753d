------------------------- MODULE SessionQueueProofs -------------------------
(***************************************************************************)
(* Proofs about SessionQueue, for every number of sessions, handlers,      *)
(* drains, entries and restarts.                                           *)
(***************************************************************************)
EXTENDS SessionQueue, FiniteSetTheorems, TLAPS

(* The type invariant, by the group of variables an action changes, with the
   facts that make it inductive: a handler at work names a session, a drain
   that dispatches names an entry of one, rows are linked. *)
RowsInv ==
  /\ status \in [Session -> Statuses]
  /\ run \in [Session -> Nat]
  /\ mark \in [Pos -> Marks]
  /\ of \in [Pos -> Session \cup {NoSession}]
  /\ files \in [Pos -> BOOLEAN]
  /\ nextPos \in Nat \ {0}
  /\ \A p \in Pos : mark[p] # "unused" => of[p] \in Session /\ p < nextPos

ClientsInv ==
  /\ client \in [Client -> Clients]
  /\ \A c \in Client : client[c].pc \notin {"idle", "done"} => client[c].s \in Session

Dispatching == {"admit", "claim", "launch"}

DrainsInv ==
  /\ drain \in [Drain -> Drains]
  /\ \A d \in Drain : drain[d].pc \in Dispatching =>
       drain[d].cur \in Pos /\ of[drain[d].cur] \in Session

HostInv ==
  /\ owner \in [Session -> Nat]
  /\ stopping \subseteq Session \X Nat
  /\ launches \subseteq Launches
  /\ broken \subseteq Session \X Nat
  /\ cleanup \subseteq Pos
  /\ \A l \in launches : l.queued => l.pos \in Pos

AuxInv ==
  /\ recovery \in Recoveries
  /\ restarts \in Nat
  /\ retries \in Nat
  /\ handed \in [Pos -> Nat]

LockTyped == lock \in Client \cup Drain \cup {Nobody}

TypeInv ==
  /\ RowsInv
  /\ ClientsInv
  /\ DrainsInv
  /\ HostInv
  /\ AuxInv
  /\ LockTyped

-----------------------------------------------------------------------------
(* What the shared pieces of the handlers preserve. *)

LEMMA InsertTyped ==
  ASSUME RowsInv, NEW s \in Session, NEW m \in {"pending", "dispatched"}, Insert(s, m)
  PROVE  /\ mark' \in [Pos -> Marks]
         /\ of' \in [Pos -> Session \cup {NoSession}]
         /\ files' \in [Pos -> BOOLEAN]
         /\ nextPos' \in Nat \ {0}
         /\ \A p \in Pos : mark'[p] # "unused" => of'[p] \in Session /\ p < nextPos'
         /\ \A p \in Pos : of[p] \in Session => of'[p] \in Session
         /\ nextPos \in Pos
<1>1. nextPos \in Pos /\ Pos \subseteq Nat
  BY SlotsAssumption DEF Insert, Pos
<1>2. files' \in [Pos -> BOOLEAN]
  BY <1>1 DEF RowsInv, Insert
<1> QED
  BY <1>1, <1>2 DEF RowsInv, Insert, Marks

LEMMA StartDrainTyped ==
  ASSUME DrainsInv, NEW rel \in Session \cup {NoSession}, NEW only \in SUBSET Pos,
         StartDrain(rel, only), of' = of
  PROVE  DrainsInv'
<1>1. PICK d \in Drain :
        drain' = [drain EXCEPT ![d] =
          [pc |-> "want", rel |-> rel, todo |-> {}, cur |-> 0, only |-> only]]
  BY DEF StartDrain
<1>2. drain' \in [Drain -> Drains]
  BY <1>1 DEF DrainsInv, Drains, DrainPc
<1> QED
  BY <1>1, <1>2 DEF DrainsInv, Dispatching

LEMMA MoveDrainTyped ==
  ASSUME DrainsInv, NEW d \in Drain, NEW pc \in DrainPc, NEW todo \in SUBSET Pos,
         NEW cur \in Pos \cup {0}, MoveDrain(d, pc, todo, cur), of' = of,
         pc \in Dispatching => cur \in Pos /\ of[cur] \in Session
  PROVE  DrainsInv'
<1>1. drain' \in [Drain -> Drains]
  BY DEF DrainsInv, Drains, MoveDrain
<1> QED
  BY <1>1 DEF DrainsInv, MoveDrain

LEMMA EndRunTyped ==
  ASSUME RowsInv, DrainsInv, NEW s \in Session, NEW st \in Terminal, NEW u \in BOOLEAN,
         EndRun(s, st, u)
  PROVE  RowsInv' /\ DrainsInv'
<1>1. Pos \in SUBSET Pos /\ s \in Session \cup {NoSession} /\ StartDrain(s, Pos) /\ of' = of
  BY DEF EndRun
<1>2. DrainsInv'
  BY <1>1, StartDrainTyped
<1>3. status' \in [Session -> Statuses]
  BY DEF RowsInv, EndRun, Statuses, Terminal
<1>4. /\ mark' \in [Pos -> Marks]
      /\ \A p \in Pos : mark'[p] # "unused" => mark[p] # "unused"
  BY DEF RowsInv, EndRun, WithoutEntriesOf, Marks
<1> QED
  BY <1>2, <1>3, <1>4 DEF RowsInv, EndRun

LEMMA WithoutEntryTyped ==
  ASSUME RowsInv, NEW p, mark' = WithoutEntry(p),
         UNCHANGED <<status, run, of, files, nextPos>>
  PROVE  RowsInv'
<1>1. /\ mark' \in [Pos -> Marks]
      /\ \A q \in Pos : mark'[q] # "unused" => mark[q] # "unused"
  BY DEF RowsInv, WithoutEntry, Marks
<1> QED
  BY <1>1 DEF RowsInv

LEMMA LaunchTyped ==
  ASSUME HostInv, NEW s \in Session, NEW r \in Nat, NEW p \in Pos \cup {0},
         NEW ph \in Phases, NEW q \in BOOLEAN, q => p \in Pos, Launch(s, r, p, ph, q)
  PROVE  HostInv'
BY DEF HostInv, Launch, Launches

LEMMA MoveLaunchTyped ==
  ASSUME HostInv, NEW l \in launches, NEW ph \in Phases, MoveLaunch(l, ph)
  PROVE  /\ launches' \subseteq Launches
         /\ \A k \in launches' : k.queued => k.pos \in Pos
<1>1. [l EXCEPT !.phase = ph] \in Launches
  BY DEF HostInv, Launches
<1>2. [l EXCEPT !.phase = ph].queued = l.queued /\ [l EXCEPT !.phase = ph].pos = l.pos
  BY DEF HostInv, Launches
<1> QED
  BY <1>1, <1>2 DEF HostInv, MoveLaunch

LEMMA ServedTyped ==
  ASSUME ClientsInv, NEW c \in Client, client' = [client EXCEPT ![c] = ServedClient]
  PROVE  ClientsInv'
<1>1. ServedClient \in Clients /\ ServedClient.pc = "done"
  BY DEF ServedClient, IdleClient, Clients, ClientPc
<1> QED
  BY <1>1 DEF ClientsInv

LEMMA MoveClientTyped ==
  ASSUME ClientsInv, NEW c \in Client, NEW pc \in ClientPc,
         client[c].pc \notin {"idle", "done"},
         client' = [client EXCEPT ![c].pc = pc]
  PROVE  ClientsInv'
<1>1. client' \in [Client -> Clients]
  BY DEF ClientsInv, Clients
<1> QED
  BY <1>1 DEF ClientsInv, Clients

LEMMA RunClientTyped ==
  ASSUME ClientsInv, NEW c \in Client, NEW pc \in ClientPc, NEW n \in Nat,
         client[c].pc \notin {"idle", "done"},
         client' = [client EXCEPT ![c].pc = pc, ![c].run = n]
  PROVE  ClientsInv'
<1>1. client' \in [Client -> Clients]
  BY DEF ClientsInv, Clients
<1> QED
  BY <1>1 DEF ClientsInv, Clients

LEMMA PosClientTyped ==
  ASSUME ClientsInv, NEW c \in Client, NEW pc \in ClientPc, NEW n \in Pos,
         client[c].pc \notin {"idle", "done"},
         client' = [client EXCEPT ![c].pc = pc, ![c].pos = n]
  PROVE  ClientsInv'
<1>1. client' \in [Client -> Clients]
  BY DEF ClientsInv, Clients
<1> QED
  BY <1>1 DEF ClientsInv, Clients

LEMMA EnterTyped ==
  ASSUME ClientsInv, LockTyped, NEW c \in Client, NEW s \in Session, NEW pc \in ClientPc,
         Enter(c, [IdleClient EXCEPT !.s = s, !.pc = pc])
  PROVE  ClientsInv' /\ LockTyped'
<1>1. /\ [IdleClient EXCEPT !.s = s, !.pc = pc] \in Clients
      /\ [IdleClient EXCEPT !.s = s, !.pc = pc].s = s
  BY DEF IdleClient, Clients
<1> QED
  BY <1>1 DEF ClientsInv, LockTyped, Enter

LEMMA GiveUpTyped ==
  ASSUME HostInv, NEW l \in launches, GiveUpSlot(l)
  PROVE  owner' \in [Session -> Nat]
BY DEF HostInv, GiveUpSlot

LEMMA HandBackTyped ==
  ASSUME HostInv, NEW l \in launches, HandBackSlot(l)
  PROVE  owner' \in [Session -> Nat]
<1>1. l.prev \in Nat
  BY DEF HostInv, Launches
<1> QED
  BY <1>1 DEF HostInv, HandBackSlot

LEMMA BrokenTyped ==
  ASSUME HostInv, NEW l \in launches, NeverReady(l)
  PROVE  broken' \subseteq Session \X Nat
<1>1. \A k \in launches : Predecessor(k) \in Session \X Nat
  BY DEF HostInv, Launches, Predecessor
<1> QED
  BY <1>1 DEF HostInv, NeverReady

LEMMA InitTyped == Init => TypeInv
<1> SUFFICES ASSUME Init PROVE TypeInv
  OBVIOUS
<1> USE DEF Init
<1>1. IdleClient \in Clients
  BY DEF IdleClient, Clients, ClientPc
<1>2. IdleDrain \in Drains
  BY DEF IdleDrain, Drains, DrainPc
<1>3. NoRecovery \in Recoveries
  BY DEF NoRecovery, Recoveries
<1>4. RowsInv /\ HostInv /\ AuxInv /\ LockTyped
  BY <1>3 DEF RowsInv, HostInv, AuxInv, LockTyped, Statuses, Marks
<1>5. ClientsInv /\ DrainsInv
  BY <1>1, <1>2 DEF ClientsInv, DrainsInv, IdleClient, IdleDrain, Dispatching
<1> QED
  BY <1>4, <1>5 DEF TypeInv

LEMMA ClientTyped ==
  ASSUME TypeInv, NEW c \in Client, Request(c) \/ ClientStep(c)
  PROVE  TypeInv'
<1> USE DEF TypeInv, dbVars, hostVars, auxVars
<1>1. ASSUME NEW s \in Session, CreateEnter(c, s) PROVE TypeInv'
  <2>1. ClientsInv' /\ LockTyped'
    BY <1>1, EnterTyped DEF CreateEnter, ClientPc
  <2> QED
    BY <1>1, <2>1 DEF CreateEnter, RowsInv, DrainsInv, HostInv, AuxInv
<1>2. CASE CreateQueued(c)
  <2>1. client[c].s \in Session
    BY <1>2 DEF CreateQueued, ClientsInv
  <2>2. RowsInv'
    BY <1>2, <2>1, InsertTyped DEF CreateQueued, RowsInv, Statuses
  <2>3. DrainsInv'
    BY <1>2, <2>1, InsertTyped DEF CreateQueued, DrainsInv
  <2>4. ClientsInv'
    BY <1>2, ServedTyped, MoveClientTyped DEF CreateQueued, Release, ClientPc
  <2> QED
    BY <1>2, <2>2, <2>3, <2>4 DEF CreateQueued, Release, HostInv, AuxInv, LockTyped
<1>3. CASE CreateDropQueued(c)
  <2>1. ClientsInv'
    BY <1>3, ServedTyped DEF CreateDropQueued, Release
  <2>2. RowsInv'
    BY <1>3 DEF CreateDropQueued, RowsInv, WithoutEntriesOf, Statuses, Marks
  <2> QED
    BY <1>3, <2>1, <2>2 DEF CreateDropQueued, Release, DrainsInv, HostInv, AuxInv, LockTyped
<1>4. CASE CreateStarted(c)
  <2>1. client[c].s \in Session
    BY <1>4 DEF CreateStarted, ClientsInv
  <2>2. RowsInv'
    BY <1>4, <2>1 DEF CreateStarted, RowsInv, Statuses
  <2>3. ClientsInv'
    <3> DEFINE n == run[client[c].s] + 1
    <3>1. n \in Nat
      BY <2>1 DEF RowsInv
    <3>2. /\ client[c].pc \notin {"idle", "done"}
          /\ client' = [client EXCEPT ![c].pc = "created", ![c].run = n]
          /\ "created" \in ClientPc
      BY <1>4 DEF CreateStarted, ClientPc
    <3> HIDE DEF n
    <3> QED
      BY <3>1, <3>2, RunClientTyped
  <2> QED
    BY <1>4, <2>2, <2>3 DEF CreateStarted, DrainsInv, HostInv, AuxInv, LockTyped
<1>5. CASE CreateHookFails(c)
  <2>1. ClientsInv'
    BY <1>5, MoveClientTyped DEF CreateHookFails, ClientPc
  <2>2. RowsInv'
    BY <1>5 DEF CreateHookFails, RowsInv, WithoutEntriesOf, Statuses, Marks
  <2>3. DrainsInv'
    BY <1>5, StartDrainTyped DEF CreateHookFails
  <2> QED
    BY <1>5, <2>1, <2>2, <2>3 DEF CreateHookFails, HostInv, AuxInv, LockTyped
<1>6. CASE CreateAborted(c)
  <2>1. client[c].s \in Session
    BY <1>6 DEF CreateAborted, CancelsInLock, ClientsInv
  <2>2. RowsInv' /\ DrainsInv'
    BY <1>6, <2>1, EndRunTyped DEF CreateAborted, Terminal
  <2>3. ClientsInv'
    BY <1>6, MoveClientTyped DEF CreateAborted, CancelsInLock, ClientPc
  <2> QED
    BY <1>6, <2>2, <2>3 DEF CreateAborted, HostInv, AuxInv, LockTyped
<1>7. CASE CreateThrows(c)
  <2>1. ClientsInv'
    BY <1>7, ServedTyped DEF CreateThrows
  <2> QED
    BY <1>7, <2>1 DEF CreateThrows, RowsInv, DrainsInv, HostInv, AuxInv, LockTyped
<1>8. CASE CreateLaunch(c)
  <2>1. client[c].s \in Session /\ client[c].run \in Nat
    BY <1>8 DEF CreateLaunch, ClientsInv, Clients
  <2>2. RowsInv' /\ nextPos \in Pos
    BY <1>8, <2>1, InsertTyped DEF CreateLaunch, RowsInv
  <2>3. DrainsInv'
    BY <1>8, <2>1, InsertTyped DEF CreateLaunch, DrainsInv
  <2>4. HostInv'
    BY <1>8, <2>1, <2>2, LaunchTyped DEF CreateLaunch, Phases
  <2>5. ClientsInv'
    BY <1>8, ServedTyped DEF CreateLaunch, Release
  <2> QED
    BY <1>8, <2>2, <2>3, <2>4, <2>5 DEF CreateLaunch, Release, AuxInv, LockTyped
<1>9. ASSUME NEW s \in Session, FollowUpEnter(c, s) PROVE TypeInv'
  <2>1. ClientsInv' /\ LockTyped'
    BY <1>9, EnterTyped DEF FollowUpEnter, ClientPc
  <2> QED
    BY <1>9, <2>1 DEF FollowUpEnter, RowsInv, DrainsInv, HostInv, AuxInv
<1>10. CASE FollowUpInsert(c)
  <2>1. client[c].s \in Session
    BY <1>10 DEF FollowUpInsert, ClientsInv
  <2>2. RowsInv' /\ DrainsInv'
    BY <1>10, <2>1, InsertTyped DEF FollowUpInsert, RowsInv, DrainsInv
  <2>3. ClientsInv'
    <3>1. CASE client' = [client EXCEPT ![c].pc = "undo", ![c].pos = nextPos] /\ nextPos \in Pos
      BY <1>10, <3>1, PosClientTyped DEF FollowUpInsert, ClientPc
    <3> QED
      BY <1>10, <3>1, ServedTyped DEF FollowUpInsert, Release, Insert
  <2> QED
    BY <1>10, <2>2, <2>3 DEF FollowUpInsert, Release, HostInv, AuxInv, LockTyped
<1>11. CASE FollowUpCapacity(c)
  <2>1. ClientsInv'
    BY <1>11, MoveClientTyped DEF FollowUpCapacity, ClientPc
  <2> QED
    BY <1>11, <2>1 DEF FollowUpCapacity, RowsInv, DrainsInv, HostInv, AuxInv, LockTyped
<1>12. CASE FollowUpQueue(c)
  <2>1. client[c].s \in Session
    BY <1>12 DEF FollowUpQueue, ClientsInv
  <2>2. RowsInv' /\ DrainsInv'
    BY <1>12, <2>1, InsertTyped DEF FollowUpQueue, RowsInv, DrainsInv, Statuses
  <2>3. ClientsInv'
    <3>1. CASE client' = [client EXCEPT ![c].pc = "undo", ![c].pos = nextPos] /\ nextPos \in Pos
      BY <1>12, <3>1, PosClientTyped DEF FollowUpQueue, ClientPc
    <3> QED
      BY <1>12, <3>1, ServedTyped DEF FollowUpQueue, Release, Insert
  <2> QED
    BY <1>12, <2>2, <2>3 DEF FollowUpQueue, Release, HostInv, AuxInv, LockTyped
<1>13. CASE FollowUpUndo(c)
  <2>1. RowsInv'
    BY <1>13, WithoutEntryTyped DEF FollowUpUndo
  <2>2. ClientsInv'
    BY <1>13, ServedTyped DEF FollowUpUndo, Release
  <2> QED
    BY <1>13, <2>1, <2>2 DEF FollowUpUndo, Release, DrainsInv, HostInv, AuxInv, LockTyped
<1>14. CASE FollowUpResume(c)
  <2>1. client[c].s \in Session
    BY <1>14 DEF FollowUpResume, ClientsInv
  <2>2. RowsInv'
    BY <1>14, <2>1 DEF FollowUpResume, RowsInv, Statuses
  <2>3. ClientsInv'
    <3> DEFINE n == run[client[c].s] + 1
    <3>1. n \in Nat
      BY <2>1 DEF RowsInv
    <3>2. /\ client[c].pc \notin {"idle", "done"}
          /\ client' = [client EXCEPT ![c].pc = "launch", ![c].run = n]
          /\ "launch" \in ClientPc
      BY <1>14 DEF FollowUpResume, ClientPc
    <3> HIDE DEF n
    <3> QED
      BY <3>1, <3>2, RunClientTyped
  <2> QED
    BY <1>14, <2>2, <2>3 DEF FollowUpResume, DrainsInv, HostInv, AuxInv, LockTyped
<1>15. CASE FollowUpLaunch(c)
  <2>1. client[c].s \in Session /\ client[c].run \in Nat
    BY <1>15 DEF FollowUpLaunch, ClientsInv, Clients
  <2>2. RowsInv' /\ DrainsInv'
    BY <1>15, <2>1, InsertTyped DEF FollowUpLaunch, RowsInv, DrainsInv
  <2>3. HostInv'
    BY <1>15, <2>1, LaunchTyped DEF FollowUpLaunch, Phases, Insert
  <2>4. ClientsInv'
    BY <1>15, ServedTyped DEF FollowUpLaunch, Release
  <2> QED
    BY <1>15, <2>2, <2>3, <2>4 DEF FollowUpLaunch, Release, AuxInv, LockTyped
<1>16. ASSUME NEW s \in Session, CancelRead(c, s) PROVE TypeInv'
  <2>1. ClientsInv'
    <3> DEFINE r == [IdleClient EXCEPT !.s = s, !.run = run[s], !.own = owner[s],
                     !.pc = IF status[s] = "queued" THEN "stopQueued" ELSE "stop"]
    <3>1. r \in Clients /\ r.s = s
      BY DEF IdleClient, Clients, ClientPc, RowsInv, HostInv
    <3> QED
      BY <1>16, <3>1 DEF CancelRead, ClientsInv
  <2>2. HostInv'
    BY <1>16 DEF CancelRead, HostInv
  <2> QED
    BY <1>16, <2>1, <2>2 DEF CancelRead, RowsInv, DrainsInv, AuxInv, LockTyped
<1>17. CASE CancelQueued(c)
  <2>1. ClientsInv'
    BY <1>17, ServedTyped DEF CancelQueued
  <2>2. RowsInv'
    BY <1>17 DEF CancelQueued, RowsInv, WithoutEntriesOf, Statuses, Marks
  <2> QED
    BY <1>17, <2>1, <2>2 DEF CancelQueued, DrainsInv, HostInv, AuxInv, LockTyped
<1>18. CASE CancelWrite(c)
  <2>1. client[c].s \in Session
    BY <1>18 DEF CancelWrite, ClientsInv
  <2>2. RowsInv' /\ DrainsInv'
    BY <1>18, <2>1, EndRunTyped DEF CancelWrite, Terminal, RowsInv, DrainsInv
  <2>3. ClientsInv'
    BY <1>18, ServedTyped DEF CancelWrite
  <2> QED
    BY <1>18, <2>2, <2>3 DEF CancelWrite, HostInv, AuxInv, LockTyped
<1>19. ASSUME NEW p \in Pos, RemoveQueued(c, p) PROVE TypeInv'
  <2>1. RowsInv'
    BY <1>19, WithoutEntryTyped DEF RemoveQueued
  <2>2. ClientsInv'
    BY <1>19, ServedTyped DEF RemoveQueued
  <2> QED
    BY <1>19, <2>1, <2>2 DEF RemoveQueued, DrainsInv, HostInv, AuxInv, LockTyped
<1>20. ASSUME NEW s \in Session, NEW st \in {"completed", "failed"}, PatchStatus(c, s, st)
       PROVE TypeInv'
  <2>1. RowsInv' /\ DrainsInv'
    BY <1>20, EndRunTyped DEF PatchStatus, Terminal
  <2>2. ClientsInv'
    BY <1>20, ServedTyped DEF PatchStatus
  <2> QED
    BY <1>20, <2>1, <2>2 DEF PatchStatus, HostInv, AuxInv, LockTyped
<1> QED
  BY <1>1, <1>2, <1>3, <1>4, <1>5, <1>6, <1>7, <1>8, <1>9, <1>10, <1>11, <1>12, <1>13,
     <1>14, <1>15, <1>16, <1>17, <1>18, <1>19, <1>20 DEF Request, ClientStep

LEMMA DrainTyped ==
  ASSUME TypeInv, NEW d \in Drain, DrainStep(d)
  PROVE  TypeInv'
<1> USE DEF TypeInv, dbVars, hostVars, auxVars
<1>0. /\ drain[d].todo \in SUBSET Pos
      /\ drain[d].cur \in Pos \cup {0}
      /\ drain[d].rel \in Session \cup {NoSession}
  BY DEF DrainsInv, Drains
<1>1. CASE DrainList(d)
  <2>1. Listed(d) \in SUBSET Pos
    BY DEF Listed, Pending
  <2>2. DrainsInv'
    BY <1>0, <1>1, <2>1, MoveDrainTyped DEF DrainList, DrainPc, Dispatching
  <2> QED
    BY <1>1, <2>2 DEF DrainList, RowsInv, ClientsInv, HostInv, AuxInv, LockTyped
<1>2. CASE DrainRequeue(d)
  <2>1. Listed(d) \in SUBSET Pos
    BY DEF Listed, Pending
  <2>2. DrainsInv'
    BY <1>2, <2>1, MoveDrainTyped DEF DrainRequeue, DrainPc, Dispatching
  <2>3. RowsInv'
    BY <1>2 DEF DrainRequeue, RowsInv, Statuses
  <2> QED
    BY <1>2, <2>2, <2>3 DEF DrainRequeue, ClientsInv, HostInv, AuxInv, LockTyped
<1>3. CASE DrainNext(d)
  <2>1. CASE drain' = [drain EXCEPT ![d] = IdleDrain]
    <3>1. IdleDrain \in Drains /\ IdleDrain.pc = "idle"
      BY DEF IdleDrain, Drains, DrainPc
    <3> QED
      BY <1>3, <2>1, <3>1 DEF DrainNext, DrainsInv, Dispatching, RowsInv, ClientsInv,
         HostInv, AuxInv, LockTyped
  <2>2. ASSUME NEW p \in drain[d].todo,
               IF of[p] \in Session /\ status[of[p]] = "queued"
               THEN MoveDrain(d, "admit", drain[d].todo \ {p}, p)
               ELSE MoveDrain(d, "scan", drain[d].todo \ {p}, 0)
        PROVE  TypeInv'
    <3>1. DrainsInv'
      BY <1>0, <1>3, <2>2, MoveDrainTyped DEF DrainNext, DrainPc, Dispatching
    <3> QED
      BY <1>3, <3>1 DEF DrainNext, RowsInv, ClientsInv, HostInv, AuxInv, LockTyped
  <2> QED
    BY <1>3, <2>1, <2>2 DEF DrainNext
<1>4. CASE DrainAdmit(d)
  <2>1. drain[d].cur \in Pos /\ of[drain[d].cur] \in Session
    BY <1>4 DEF DrainAdmit, DrainsInv, Dispatching
  <2>2. DrainsInv'
    BY <1>0, <1>4, <2>1, MoveDrainTyped DEF DrainAdmit, Scan, DrainPc, Dispatching
  <2> QED
    BY <1>4, <2>2 DEF DrainAdmit, RowsInv, ClientsInv, HostInv, AuxInv, LockTyped
<1>5. CASE DrainClaim(d)
  <2>1. drain[d].cur \in Pos /\ of[drain[d].cur] \in Session
    BY <1>5 DEF DrainClaim, DrainsInv, Dispatching
  <2>2. DrainsInv'
    BY <1>0, <1>5, <2>1, MoveDrainTyped DEF DrainClaim, Scan, DrainPc, Dispatching
  <2>3. RowsInv'
    BY <1>5, <2>1 DEF DrainClaim, Claimable, RowsInv, Statuses, Marks
  <2> QED
    BY <1>5, <2>2, <2>3 DEF DrainClaim, ClientsInv, HostInv, AuxInv, LockTyped
<1>6. CASE DrainLaunch(d)
  <2>1. drain[d].cur \in Pos /\ of[drain[d].cur] \in Session
    BY <1>6 DEF DrainLaunch, DrainsInv, Dispatching
  <2>2. DrainsInv'
    BY <1>0, <1>6, MoveDrainTyped DEF DrainLaunch, Scan, DrainPc, Dispatching
  <2>3. HostInv'
    <3> DEFINE p == drain[d].cur
               k == [s |-> of[p], run |-> run[of[p]], pos |-> p, phase |-> "unready",
                     queued |-> TRUE, prev |-> 0]
    <3>1. run[of[p]] \in Nat
      BY <2>1 DEF RowsInv
    <3>2. CASE Launch(of[p], run[of[p]], p, "preparing", TRUE)
      BY <2>1, <3>1, <3>2, LaunchTyped DEF Phases
    <3>3. CASE launches' = launches \cup {k} /\ UNCHANGED <<owner, stopping, broken, cleanup>>
      <4>1. k \in Launches /\ k.pos \in Pos
        BY <2>1, <3>1 DEF Launches, Phases
      <4> QED
        BY <3>3, <4>1 DEF HostInv
    <3> QED
      BY <1>6, <3>2, <3>3 DEF DrainLaunch
  <2> QED
    BY <1>6, <2>2, <2>3 DEF DrainLaunch, RowsInv, ClientsInv, AuxInv, LockTyped
<1> QED
  BY <1>1, <1>2, <1>3, <1>4, <1>5, <1>6 DEF DrainStep

LEMMA LaunchStepTyped ==
  ASSUME TypeInv, NEW l \in launches, LaunchStep(l)
  PROVE  TypeInv'
<1> USE DEF TypeInv, dbVars, hostVars, auxVars
<1>0. l.s \in Session /\ l.run \in Nat /\ l.pos \in Pos \cup {0}
  BY DEF HostInv, Launches
<1>1. CASE HarnessStart(l)
  <2>1. HostInv'
    BY <1>1, MoveLaunchTyped DEF HarnessStart, Phases, HostInv
  <2>2. AuxInv'
    BY <1>1 DEF HarnessStart, AuxInv
  <2> QED
    BY <1>1, <2>1, <2>2 DEF HarnessStart, RowsInv, ClientsInv, DrainsInv, LockTyped
<1>2. CASE HarnessAccept(l)
  <2>1. HostInv'
    BY <1>2, MoveLaunchTyped DEF HarnessAccept, Phases, HostInv
  <2> QED
    BY <1>2, <2>1 DEF HarnessAccept, RowsInv, ClientsInv, DrainsInv, AuxInv, LockTyped
<1>3. CASE InitFails(l)
  <2>1. HostInv'
    BY <1>3, MoveLaunchTyped, HandBackTyped, BrokenTyped DEF InitFails, Phases, HostInv
  <2> QED
    BY <1>3, <2>1 DEF InitFails, RowsInv, ClientsInv, DrainsInv, AuxInv, LockTyped
<1>10. CASE StartFails(l)
  <2>1. HostInv'
    BY <1>10, MoveLaunchTyped, GiveUpTyped DEF StartFails, Phases, HostInv
  <2> QED
    BY <1>10, <2>1 DEF StartFails, RowsInv, ClientsInv, DrainsInv, AuxInv, LockTyped
<1>4. CASE FailRemovesEntry(l)
  <2>1. HostInv'
    BY <1>4, MoveLaunchTyped DEF FailRemovesEntry, Phases, HostInv
  <2>2. RowsInv'
    BY <1>4, WithoutEntryTyped DEF FailRemovesEntry, RowsInv
  <2> QED
    BY <1>4, <2>1, <2>2 DEF FailRemovesEntry, ClientsInv, DrainsInv, AuxInv, LockTyped
<1>5. CASE FailEndsRun(l)
  <2>1. HostInv'
    BY <1>5, MoveLaunchTyped DEF FailEndsRun, Phases, HostInv, Forget
  <2>2. RowsInv' /\ DrainsInv'
    BY <1>0, <1>5, EndRunTyped DEF FailEndsRun, Terminal, RowsInv, DrainsInv
  <2> QED
    BY <1>5, <2>1, <2>2 DEF FailEndsRun, ClientsInv, AuxInv, LockTyped
<1>6. CASE LaunchRetries(l)
  <2>1. HostInv'
    BY <1>0, <1>6, BrokenTyped DEF LaunchRetries, HostInv, Forget
  <2>2. RowsInv'
    BY <1>6 DEF LaunchRetries, RowsInv, ClaimIsStale, Statuses, Marks
  <2>3. DrainsInv'
    BY <1>6, StartDrainTyped DEF LaunchRetries, DrainsInv
  <2> QED
    BY <1>6, <2>1, <2>2, <2>3 DEF LaunchRetries, ClientsInv, AuxInv, LockTyped
<1>7. CASE ExitRead(l)
  <2>1. HostInv'
    BY <1>7, MoveLaunchTyped, GiveUpTyped DEF ExitRead, Phases, HostInv, Forget
  <2>2. RowsInv'
    BY <1>7, WithoutEntryTyped DEF ExitRead, RowsInv
  <2> QED
    BY <1>7, <2>1, <2>2 DEF ExitRead, ClientsInv, DrainsInv, AuxInv, LockTyped
<1>8. CASE ExitWrite(l)
  <2>1. HostInv'
    BY <1>8, MoveLaunchTyped DEF ExitWrite, Phases, HostInv
  <2>2. RowsInv' /\ DrainsInv'
    BY <1>0, <1>8, EndRunTyped DEF ExitWrite, Terminal, RowsInv, DrainsInv
  <2> QED
    BY <1>8, <2>1, <2>2 DEF ExitWrite, ClientsInv, AuxInv, LockTyped
<1>9. CASE LaunchCloses(l)
  <2>1. HostInv'
    BY <1>9, GiveUpTyped DEF LaunchCloses, HostInv, Forget
  <2> QED
    BY <1>9, <2>1 DEF LaunchCloses, RowsInv, ClientsInv, DrainsInv, AuxInv, LockTyped
<1> QED
  BY <1>1, <1>2, <1>3, <1>4, <1>5, <1>6, <1>7, <1>8, <1>9, <1>10 DEF LaunchStep

LEMMA SweepTyped ==
  ASSUME TypeInv, SweepStep \/ Restart
  PROVE  TypeInv'
<1> USE DEF TypeInv, dbVars, hostVars, auxVars
<1>1. ASSUME NEW p \in Pos, RemoveAccepted(p) PROVE TypeInv'
  <2>1. RowsInv'
    BY <1>1, WithoutEntryTyped DEF RemoveAccepted
  <2> QED
    BY <1>1, <2>1 DEF RemoveAccepted, ClientsInv, DrainsInv, HostInv, AuxInv, LockTyped
<1>2. ASSUME NEW p \in Pos, RecoverClaim(p) PROVE TypeInv'
  <2>1. RowsInv'
    BY <1>2 DEF RecoverClaim, RowsInv, Statuses, Marks
  <2>2. AuxInv'
    BY <1>2 DEF RecoverClaim, AuxInv, Recoveries
  <2> QED
    BY <1>2, <2>1, <2>2 DEF RecoverClaim, ClientsInv, DrainsInv, HostInv, LockTyped
<1>3. CASE RecoverDrain
  <2>1. recovery.only \in SUBSET Pos
    BY DEF AuxInv, Recoveries
  <2>2. DrainsInv'
    BY <1>3, <2>1, StartDrainTyped DEF RecoverDrain
  <2>3. AuxInv'
    BY <1>3 DEF RecoverDrain, AuxInv, Recoveries
  <2> QED
    BY <1>3, <2>2, <2>3 DEF RecoverDrain, RowsInv, ClientsInv, HostInv, LockTyped
<1>4. ASSUME NEW sn \in recovery.stale, ResolveOrphan(sn[1], sn[2]) PROVE TypeInv'
  <2>1. sn[1] \in Session /\ sn[2] \in Nat
    BY DEF AuxInv, Recoveries
  <2>2. RowsInv' /\ DrainsInv'
    BY <1>4, <2>1, EndRunTyped DEF ResolveOrphan, Terminal, RowsInv, DrainsInv
  <2>3. HostInv'
    BY <1>4, <2>1, LaunchTyped DEF ResolveOrphan, Phases, HostInv
  <2>4. AuxInv'
    BY <1>4 DEF ResolveOrphan, AuxInv, Recoveries
  <2> QED
    BY <1>4, <2>2, <2>3, <2>4 DEF ResolveOrphan, ClientsInv, LockTyped
<1>5. CASE Restart
  <2>1. IdleClient \in Clients /\ ServedClient \in Clients /\ IdleDrain \in Drains
    BY DEF IdleClient, ServedClient, IdleDrain, Clients, Drains, ClientPc, DrainPc
  <2>2. /\ IdleClient.pc = "idle" /\ ServedClient.pc = "done" /\ IdleDrain.pc = "idle"
    BY DEF IdleClient, ServedClient, IdleDrain
  <2>3. ClientsInv' /\ DrainsInv'
    BY <1>5, <2>1, <2>2 DEF Restart, ClientsInv, DrainsInv, Dispatching
  <2>4. recovery' \in Recoveries
    BY <1>5 DEF Restart, Recoveries, StaleRuns, Active, RowsInv
  <2> QED
    BY <1>5, <2>3, <2>4 DEF Restart, RowsInv, HostInv, AuxInv, LockTyped
<1> QED
  BY <1>1, <1>2, <1>3, <1>4, <1>5 DEF SweepStep

LEMMA TypeStep == TypeInv /\ [Next]_vars => TypeInv'
<1> SUFFICES ASSUME TypeInv, [Next]_vars PROVE TypeInv'
  OBVIOUS
<1>1. CASE UNCHANGED vars
  BY <1>1 DEF vars, dbVars, hostVars, auxVars, TypeInv, RowsInv, ClientsInv, DrainsInv,
     HostInv, AuxInv, LockTyped
<1> QED
  BY <1>1, ClientTyped, DrainTyped, LaunchStepTyped, SweepTyped DEF Next

(* Every variable keeps its type whatever the requests, crashes and retries. *)
THEOREM TypeCorrect == Spec => []TypeOK
<1>1. TypeInv => TypeOK
  BY DEF TypeInv, TypeOK, RowsInv, ClientsInv, DrainsInv, HostInv, AuxInv, LockTyped
<1> QED
  BY <1>1, InitTyped, TypeStep, PTL DEF Spec

-----------------------------------------------------------------------------
(* Admission.  The lock discipline, what its holder may rely on, and the
   limit, which is inductive only together with them: the count that a holder
   read stays an upper bound because nobody else starts a run. *)

Locked == {"create", "createFull", "created", "dropQueued", "insert", "capacity",
           "queue", "resume", "launch", "undo"}
Deciding == {"create", "createFull", "dropQueued", "capacity", "queue", "resume"}

Holds == {"requeue", "claim", "launch"}

LockInv ==
  /\ \A c \in Client : client[c].pc \in Locked => lock = c
  /\ \A d \in Drain : drain[d].pc \in Holds => lock = d

RoomInv ==
  /\ Cardinality(Active) <= Limit
  /\ \A c \in Client : client[c].pc \in {"create", "resume"} => Cardinality(Active) < Limit
  /\ \A d \in Drain : drain[d].pc = "claim" => Cardinality(Active) < Limit

IdleInv ==
  \A c \in Client : client[c].pc \in Deciding => status[client[c].s] # "in_progress"

AdmissionInv == TypeInv /\ LockInv /\ RoomInv /\ IdleInv

NoStart == \A s \in Session : status'[s] = "in_progress" => status[s] = "in_progress"

NoNewHolder ==
  /\ \A c \in Client : client'[c].pc \in Locked => client[c].pc \in Locked
  /\ \A d \in Drain : drain'[d].pc \in Holds => drain[d].pc \in Holds

NoNewDecision ==
  /\ \A c \in Client : client'[c].pc \in Deciding => client'[c] = client[c]
  /\ \A d \in Drain : drain'[d].pc = "claim" => drain[d].pc = "claim"

LEMMA ActiveFinite == IsFiniteSet(Active) /\ Cardinality(Active) \in Nat
BY FiniteAssumption, FS_Subset, FS_CardinalityType DEF Active

LEMMA FewerActive ==
  ASSUME NoStart
  PROVE  Cardinality(Active') <= Cardinality(Active) /\ Cardinality(Active') \in Nat
<1>1. Active' \subseteq Active
  BY DEF NoStart, Active
<1> QED
  BY <1>1, ActiveFinite, FS_Subset, FS_CardinalityType

LEMMA OneMoreActive ==
  ASSUME NEW s, Active' = Active \cup {s}, Cardinality(Active) < Limit
  PROVE  Cardinality(Active') <= Limit
<1>1. Cardinality(Active \cup {s}) \in {Cardinality(Active), Cardinality(Active) + 1}
  BY ActiveFinite, FS_AddElement
<1> QED
  BY <1>1, ActiveFinite, SlotsAssumption

(* A step that starts no run and brings nobody to a decision keeps the room. *)
LEMMA RoomKept ==
  ASSUME TypeInv, RoomInv, IdleInv, NoStart, NoNewDecision
  PROVE  RoomInv' /\ IdleInv'
<1>1. Cardinality(Active') <= Cardinality(Active) /\ Cardinality(Active') \in Nat
  BY FewerActive
<1>2. \A c \in Client : client'[c].pc \in Deciding =>
        client'[c] = client[c] /\ client[c].s \in Session
  BY DEF NoNewDecision, TypeInv, ClientsInv, Deciding
<1>3. RoomInv'
  BY <1>1, <1>2, ActiveFinite, SlotsAssumption DEF RoomInv, NoNewDecision, Deciding
<1>4. IdleInv'
  BY <1>2 DEF IdleInv, NoStart
<1> QED
  BY <1>3, <1>4

LEMMA LockKept ==
  ASSUME LockInv, NoNewHolder, lock' = lock
  PROVE  LockInv'
BY DEF LockInv, NoNewHolder

LEMMA LockReleased ==
  ASSUME LockInv, NEW h \in Client \cup Drain, lock = h, NoNewHolder,
         h \in Client => client'[h].pc \notin Locked,
         h \in Drain => drain'[h].pc \notin Holds
  PROVE  LockInv'
BY SlotsAssumption DEF LockInv, NoNewHolder

LEMMA LockTaken ==
  ASSUME LockInv, TypeInv, NEW h \in Client \cup Drain, lock = Nobody, lock' = h,
         \A c \in Client : c # h => client'[c] = client[c],
         \A d \in Drain : d # h => drain'[d] = drain[d]
  PROVE  LockInv'
BY SlotsAssumption DEF LockInv

(* The pieces: what they do to the statuses and to the drains. *)
LEMMA StartDrainQuiet ==
  ASSUME DrainsInv, NEW rel, NEW only, StartDrain(rel, only)
  PROVE  \A d \in Drain : \/ drain'[d] = drain[d]
                          \/ drain'[d].pc = "want"
BY DEF StartDrain, DrainsInv

LEMMA EndRunQuiet ==
  ASSUME RowsInv, DrainsInv, NEW s \in Session, NEW st \in Terminal, NEW u \in BOOLEAN,
         EndRun(s, st, u)
  PROVE  /\ NoStart
         /\ \A d \in Drain : drain'[d] = drain[d] \/ drain'[d].pc = "want"
<1>1. StartDrain(s, Pos)
  BY DEF EndRun
<1> QED
  BY <1>1, StartDrainQuiet DEF EndRun, NoStart, RowsInv, Terminal

LEMMA ServedQuiet ==
  ASSUME ClientsInv, NEW c \in Client, client' = [client EXCEPT ![c] = ServedClient]
  PROVE  \A b \in Client : client'[b] = client[b] \/ client'[b].pc = "done"
BY DEF ClientsInv, ServedClient, IdleClient

LEMMA MoveDrainQuiet ==
  ASSUME DrainsInv, NEW d \in Drain, NEW pc, NEW todo, NEW cur, MoveDrain(d, pc, todo, cur)
  PROVE  \A e \in Drain : IF e = d THEN drain'[e].pc = pc ELSE drain'[e] = drain[e]
BY DEF MoveDrain, DrainsInv

ClientsQuiet ==
  \A c \in Client : \/ client'[c] = client[c]
                    \/ /\ client'[c].pc \notin Deciding
                       /\ client'[c].pc \in Locked => client[c].pc \in Locked

DrainsQuiet == \A d \in Drain : drain'[d] = drain[d] \/ drain'[d].pc \notin Holds

(* A step that starts nothing and keeps the lock where it is. *)
LEMMA QuietStep ==
  ASSUME AdmissionInv, NoStart, ClientsQuiet, DrainsQuiet, lock' = lock
  PROVE  LockInv' /\ RoomInv' /\ IdleInv'
<1>1. NoNewHolder
  BY DEF ClientsQuiet, DrainsQuiet, NoNewHolder
<1>2. NoNewDecision
  BY DEF ClientsQuiet, DrainsQuiet, NoNewDecision, Holds
<1> QED
  BY <1>1, <1>2, RoomKept, LockKept DEF AdmissionInv

(* A step that starts nothing and leaves the lock. *)
LEMMA QuietRelease ==
  ASSUME AdmissionInv, NoStart, ClientsQuiet, DrainsQuiet,
         NEW h \in Client \cup Drain, lock = h,
         h \in Client => client'[h].pc \notin Locked,
         h \in Drain => drain'[h].pc \notin Holds
  PROVE  LockInv' /\ RoomInv' /\ IdleInv'
<1>1. NoNewHolder
  BY DEF ClientsQuiet, DrainsQuiet, NoNewHolder
<1>2. NoNewDecision
  BY DEF ClientsQuiet, DrainsQuiet, NoNewDecision, Holds
<1>3. LockInv'
  BY <1>1, LockReleased DEF AdmissionInv
<1>4. RoomInv' /\ IdleInv'
  BY <1>2, RoomKept DEF AdmissionInv
<1> QED
  BY <1>3, <1>4

(* The holder of the lock starts a run: nobody else was about to. *)
LEMMA StartStep ==
  ASSUME AdmissionInv, NEW s \in Session,
         status' = [status EXCEPT ![s] = "in_progress"],
         Cardinality(Active) < Limit,
         NEW h \in Client \cup Drain, lock = h, lock' = lock,
         \A c \in Client : IF c = h THEN client'[c].pc \notin Deciding
                                    ELSE client'[c] = client[c],
         \A d \in Drain : IF d = h THEN drain'[d].pc # "claim" ELSE drain'[d] = drain[d]
  PROVE  LockInv' /\ RoomInv' /\ IdleInv'
<1>1. Active' = Active \cup {s}
  BY DEF AdmissionInv, TypeInv, RowsInv, Active
<1>2. Cardinality(Active') <= Limit
  BY <1>1, OneMoreActive
<1>3. LockInv'
  BY DEF LockInv, AdmissionInv
<1>4. \A c \in Client : c # h => client[c].pc \notin Deciding
  BY DEF LockInv, AdmissionInv, Deciding, Locked
<1>5. \A d \in Drain : d # h => drain[d].pc # "claim"
  BY DEF LockInv, AdmissionInv, Holds
<1>6. /\ \A c \in Client : client'[c].pc \notin Deciding
      /\ \A d \in Drain : drain'[d].pc # "claim"
  BY <1>4, <1>5, SlotsAssumption
<1> QED
  BY <1>2, <1>3, <1>6 DEF RoomInv, IdleInv, Deciding

(* Only the handler c moves, to a place without lock or decision. *)
LEMMA ServedClients ==
  ASSUME ClientsInv, NEW c \in Client, client' = [client EXCEPT ![c] = ServedClient]
  PROVE  ClientsQuiet /\ client'[c].pc \notin Locked
<1>1. \A b \in Client : client'[b] = client[b] \/ client'[b].pc = "done"
  BY ServedQuiet
<1>2. client'[c].pc = "done"
  BY DEF ClientsInv, ServedClient, IdleClient
<1> QED
  BY <1>1, <1>2 DEF ClientsQuiet, Locked, Deciding

(* The same, for the handler that serves its request and leaves. *)
LEMMA ReleaseStep ==
  ASSUME AdmissionInv, NoStart, DrainsQuiet, NEW c \in Client, lock = c, Release(c)
  PROVE  LockInv' /\ RoomInv' /\ IdleInv'
<1>1. ClientsQuiet /\ client'[c].pc \notin Locked
  BY ServedClients DEF Release, AdmissionInv, TypeInv
<1>2. c \in Client \cup Drain /\ c \notin Drain
  BY SlotsAssumption
<1> HIDE DEF Release
<1> QED
  BY <1>1, <1>2, QuietRelease

LEMMA ClientStarts ==
  ASSUME AdmissionInv, NEW s \in Session,
         status' = [status EXCEPT ![s] = "in_progress"],
         Cardinality(Active) < Limit,
         NEW c \in Client, lock = c, lock' = lock, drain' = drain,
         \A b \in Client : b # c => client'[b] = client[b],
         client'[c].pc \notin Deciding
  PROVE  LockInv' /\ RoomInv' /\ IdleInv'
<1>1. c \in Client \cup Drain
  OBVIOUS
<1>2. \A b \in Client : IF b = c THEN client'[b].pc \notin Deciding ELSE client'[b] = client[b]
  OBVIOUS
<1>3. \A d \in Drain : IF d = c THEN drain'[d].pc # "claim" ELSE drain'[d] = drain[d]
  BY SlotsAssumption
<1> QED
  BY <1>1, <1>2, <1>3, StartStep

LEMMA StartedDrains ==
  ASSUME DrainsInv, NEW rel, NEW only, StartDrain(rel, only)
  PROVE  DrainsQuiet
BY StartDrainQuiet DEF DrainsQuiet, Holds

LEMMA EndedRun ==
  ASSUME RowsInv, DrainsInv, NEW s \in Session, NEW st \in Terminal, NEW u \in BOOLEAN,
         EndRun(s, st, u)
  PROVE  NoStart /\ DrainsQuiet
BY EndRunQuiet DEF DrainsQuiet, Holds

(* A handler enters the lock. *)
LEMMA EnterStep ==
  ASSUME AdmissionInv, NEW c \in Client, NEW s \in Session, NEW pc \in ClientPc,
         Enter(c, [IdleClient EXCEPT !.s = s, !.pc = pc]),
         UNCHANGED <<status, drain>>, status[s] # "in_progress",
         pc = "create" => Cardinality(Active) < Limit, pc # "resume"
  PROVE  LockInv' /\ RoomInv' /\ IdleInv'
<1>1. /\ client'[c].s = s /\ client'[c].pc = pc
      /\ \A b \in Client : b # c => client'[b] = client[b]
  BY DEF Enter, IdleClient, AdmissionInv, TypeInv, ClientsInv
<1>2. LockInv'
  BY <1>1, LockTaken DEF AdmissionInv, Enter
<1>3. Active' = Active
  BY DEF Active
<1>4. RoomInv'
  BY <1>1, <1>3 DEF RoomInv, AdmissionInv
<1>5. IdleInv'
  BY <1>1 DEF IdleInv, AdmissionInv
<1> QED
  BY <1>2, <1>4, <1>5

LEMMA Room == ~AtCapacity <=> Cardinality(Active) < Limit
BY ActiveFinite, SlotsAssumption DEF AtCapacity

LEMMA ClientAdmission ==
  ASSUME AdmissionInv, NEW c \in Client, Request(c) \/ ClientStep(c)
  PROVE  LockInv' /\ RoomInv' /\ IdleInv'
<1> DEFINE Goal == LockInv' /\ RoomInv' /\ IdleInv'
<1>0. /\ TypeInv /\ ClientsInv /\ DrainsInv /\ RowsInv
      /\ client[c].pc \in Locked => lock = c /\ client[c].s \in Session
  BY DEF AdmissionInv, TypeInv, LockInv, ClientsInv, Locked
<1>1. ASSUME NEW s \in Session, CreateEnter(c, s) PROVE Goal
  <2>1. status[s] # "in_progress"
    BY <1>1 DEF CreateEnter
  <2> DEFINE pc == IF AtCapacity THEN "createFull" ELSE "create"
  <2>2. /\ pc \in ClientPc /\ pc # "resume"
        /\ pc = "create" => Cardinality(Active) < Limit
        /\ Enter(c, [IdleClient EXCEPT !.s = s, !.pc = pc])
        /\ UNCHANGED <<status, drain>>
    BY <1>1, Room DEF CreateEnter, ClientPc, dbVars
  <2> HIDE DEF pc
  <2> QED
    BY <2>1, <2>2, EnterStep
<1>2. CASE CreateQueued(c)
  <2>1. NoStart /\ DrainsQuiet /\ lock = c
    BY <1>0, <1>2 DEF CreateQueued, NoStart, RowsInv, DrainsQuiet, Locked
  <2>2. CASE Release(c)
    BY <1>0, <2>1, <2>2, ReleaseStep
  <2>3. CASE client' = [client EXCEPT ![c].pc = "dropQueued"] /\ UNCHANGED lock
    <3>1. /\ \A b \in Client : b # c => client'[b] = client[b]
          /\ client'[c].pc = "dropQueued" /\ client'[c].s = client[c].s
          /\ client[c].pc \in Locked /\ client[c].s \in Session
          /\ status'[client[c].s] = "queued"
      BY <1>0, <1>2, <2>3 DEF CreateQueued, ClientsInv, Clients, RowsInv, Locked
    <3>2. LockInv'
      BY <1>0, <2>1, <2>3, <3>1, LockKept DEF NoNewHolder, DrainsQuiet, AdmissionInv
    <3>3. IdleInv'
      BY <1>0, <2>1, <3>1 DEF IdleInv, AdmissionInv, NoStart, TypeInv, ClientsInv, Deciding
    <3>4. RoomInv'
      <4>1. Cardinality(Active') <= Cardinality(Active) /\ Cardinality(Active') \in Nat
        BY <2>1, FewerActive
      <4>2. \A b \in Client : client'[b].pc \in {"create", "resume"} =>
              client[b].pc \in {"create", "resume"}
        BY <3>1
      <4>3. \A d \in Drain : drain'[d].pc = "claim" => drain[d].pc = "claim"
        BY <2>1 DEF DrainsQuiet, Holds
      <4> QED
        BY <4>1, <4>2, <4>3, ActiveFinite, SlotsAssumption DEF RoomInv, AdmissionInv
    <3> QED
      BY <3>2, <3>3, <3>4
  <2> QED
    BY <1>2, <2>2, <2>3 DEF CreateQueued
<1>3. CASE CreateDropQueued(c)
  <2>1. NoStart /\ DrainsQuiet /\ lock = c
    BY <1>0, <1>3 DEF CreateDropQueued, NoStart, RowsInv, DrainsQuiet, Locked
  <2> QED
    BY <1>0, <1>3, <2>1, ReleaseStep DEF CreateDropQueued
<1>4. CASE CreateStarted(c)
  <2>1. /\ \A b \in Client : b # c => client'[b] = client[b]
        /\ client'[c].pc = "created"
    BY <1>0, <1>4 DEF CreateStarted, ClientsInv, Clients
  <2>2. Cardinality(Active) < Limit /\ lock = c /\ client[c].s \in Session
    BY <1>0, <1>4 DEF CreateStarted, AdmissionInv, RoomInv, Locked
  <2> QED
    BY <1>4, <2>1, <2>2, ClientStarts DEF CreateStarted, Deciding
<1>5. CASE CreateHookFails(c)
  <2>1. NoStart /\ DrainsQuiet /\ lock = c
    BY <1>0, <1>5, StartedDrains DEF CreateHookFails, NoStart, RowsInv, Locked
  <2>2. ClientsQuiet /\ client'[c].pc \notin Locked
    BY <1>0, <1>5 DEF CreateHookFails, ClientsQuiet, ClientsInv, Clients, Locked, Deciding
  <2>3. c \in Client \cup Drain /\ c \notin Drain
    BY SlotsAssumption
  <2> QED
    BY <2>1, <2>2, <2>3, QuietRelease
<1>6. CASE CreateAborted(c)
  <2>1. NoStart /\ DrainsQuiet
    BY <1>0, <1>6, EndedRun DEF CreateAborted, CancelsInLock, Terminal, Locked
  <2>2. ClientsQuiet
    BY <1>0, <1>6
       DEF CreateAborted, CancelsInLock, ClientsQuiet, ClientsInv, Clients, Locked, Deciding
  <2> QED
    BY <1>6, <2>1, <2>2, QuietStep DEF CreateAborted
<1>7. CASE CreateThrows(c)
  <2>1. NoStart /\ DrainsQuiet
    BY <1>0, <1>7 DEF CreateThrows, NoStart, DrainsQuiet, dbVars
  <2>2. CASE lock = c
    BY <1>7, <2>1, <2>2, ReleaseStep DEF CreateThrows, Release
  <2>3. CASE lock # c
    <3>1. ClientsQuiet
      BY <1>0, <1>7, ServedClients DEF CreateThrows
    <3> QED
      BY <1>7, <2>1, <2>3, <3>1, QuietStep DEF CreateThrows
  <2> QED
    BY <2>2, <2>3
<1>8. CASE CreateLaunch(c)
  <2>1. NoStart /\ DrainsQuiet /\ lock = c
    BY <1>0, <1>8 DEF CreateLaunch, NoStart, DrainsQuiet, Locked
  <2> QED
    BY <1>0, <1>8, <2>1, ReleaseStep DEF CreateLaunch
<1>9. ASSUME NEW s \in Session, FollowUpEnter(c, s) PROVE Goal
  <2>1. CASE status[s] \in Terminal
    <3>1. status[s] # "in_progress"
      BY <2>1 DEF Terminal
    <3> QED
      BY <1>9, <2>1, <3>1, EnterStep DEF FollowUpEnter, dbVars, ClientPc
  <2>2. CASE status[s] \notin Terminal
    <3>1. Enter(c, [IdleClient EXCEPT !.s = s, !.pc = "insert"])
      BY <1>9, <2>2 DEF FollowUpEnter
    <3>2. /\ client'[c].s = s /\ client'[c].pc = "insert"
          /\ \A b \in Client : b # c => client'[b] = client[b]
      BY <1>0, <3>1 DEF Enter, IdleClient, ClientsInv
    <3>3. LockInv'
      BY <1>0, <1>9, <3>1, <3>2, LockTaken DEF AdmissionInv, Enter, FollowUpEnter
    <3>4. NoStart /\ NoNewDecision
      BY <1>9, <3>2 DEF FollowUpEnter, dbVars, NoStart, NoNewDecision, Deciding
    <3> QED
      BY <3>3, <3>4, RoomKept DEF AdmissionInv
  <2> QED
    BY <2>1, <2>2
<1>10. CASE FollowUpInsert(c)
  <2>1. NoStart /\ DrainsQuiet /\ lock = c
    BY <1>0, <1>10 DEF FollowUpInsert, dbVars, NoStart, DrainsQuiet, Locked
  <2>2. CASE Release(c)
    BY <1>0, <2>1, <2>2, ReleaseStep
  <2>3. CASE client' = [client EXCEPT ![c].pc = "undo", ![c].pos = nextPos] /\ UNCHANGED lock
    <3>1. ClientsQuiet
      BY <1>0, <1>10, <2>3 DEF FollowUpInsert, ClientsQuiet, ClientsInv, Clients, Locked, Deciding
    <3> QED
      BY <2>1, <2>3, <3>1, QuietStep
  <2> QED
    BY <1>10, <2>2, <2>3 DEF FollowUpInsert
<1>11. CASE FollowUpCapacity(c)
  <2> DEFINE pc == IF AtCapacity THEN "queue" ELSE "resume"
  <2>1. /\ \A b \in Client : b # c => client'[b] = client[b]
        /\ client'[c].pc = pc /\ client'[c].s = client[c].s
        /\ pc = "resume" => Cardinality(Active) < Limit
        /\ pc \in {"queue", "resume"}
    BY <1>0, <1>11, Room DEF FollowUpCapacity, ClientsInv, Clients
  <2>2. UNCHANGED <<status, drain, lock>> /\ lock = c /\ Active' = Active
    BY <1>0, <1>11 DEF FollowUpCapacity, dbVars, Locked, Active
  <2>3. LockInv'
    BY <2>1, <2>2 DEF LockInv, AdmissionInv
  <2>4. RoomInv'
    BY <2>1, <2>2 DEF RoomInv, AdmissionInv
  <2>5. IdleInv'
    BY <1>11, <2>1, <2>2 DEF FollowUpCapacity, IdleInv, AdmissionInv, Deciding
  <2> QED
    BY <2>3, <2>4, <2>5
<1>12. CASE FollowUpQueue(c)
  <2>1. NoStart /\ DrainsQuiet /\ lock = c
    BY <1>0, <1>12 DEF FollowUpQueue, NoStart, RowsInv, DrainsQuiet, Locked
  <2>2. CASE Release(c)
    BY <1>0, <2>1, <2>2, ReleaseStep
  <2>3. CASE client' = [client EXCEPT ![c].pc = "undo", ![c].pos = nextPos] /\ UNCHANGED lock
    <3>1. ClientsQuiet
      BY <1>0, <1>12, <2>3 DEF FollowUpQueue, ClientsQuiet, ClientsInv, Clients, Locked, Deciding
    <3> QED
      BY <2>1, <2>3, <3>1, QuietStep
  <2> QED
    BY <1>12, <2>2, <2>3 DEF FollowUpQueue
<1>13. CASE FollowUpUndo(c)
  <2>1. NoStart /\ DrainsQuiet /\ lock = c
    BY <1>0, <1>13 DEF FollowUpUndo, NoStart, DrainsQuiet, Locked
  <2> QED
    BY <1>0, <1>13, <2>1, ReleaseStep DEF FollowUpUndo
<1>14. CASE FollowUpResume(c)
  <2>1. /\ \A b \in Client : b # c => client'[b] = client[b]
        /\ client'[c].pc = "launch"
    BY <1>0, <1>14 DEF FollowUpResume, ClientsInv, Clients
  <2>2. Cardinality(Active) < Limit /\ lock = c /\ client[c].s \in Session
    BY <1>0, <1>14 DEF FollowUpResume, AdmissionInv, RoomInv, Locked
  <2> QED
    BY <1>14, <2>1, <2>2, ClientStarts DEF FollowUpResume, Deciding
<1>15. CASE FollowUpLaunch(c)
  <2>1. NoStart /\ DrainsQuiet /\ lock = c
    BY <1>0, <1>15 DEF FollowUpLaunch, NoStart, DrainsQuiet, Locked
  <2> QED
    BY <1>0, <1>15, <2>1, ReleaseStep DEF FollowUpLaunch
<1>16. ASSUME NEW s \in Session, CancelRead(c, s) PROVE Goal
  <2>1. NoStart /\ DrainsQuiet /\ lock' = lock
    BY <1>16 DEF CancelRead, dbVars, NoStart, DrainsQuiet
  <2>2. /\ \A b \in Client : b # c => client'[b] = client[b]
        /\ client'[c].pc \in {"stopQueued", "stop"}
    BY <1>0, <1>16 DEF CancelRead, ClientsInv, IdleClient
  <2>3. ClientsQuiet
    BY <2>2 DEF ClientsQuiet, Locked, Deciding
  <2> QED
    BY <2>1, <2>3, QuietStep
<1>17. CASE CancelQueued(c)
  <2>1. NoStart /\ DrainsQuiet /\ lock' = lock
    BY <1>0, <1>17 DEF CancelQueued, NoStart, RowsInv, DrainsQuiet
  <2> QED
    BY <1>0, <1>17, <2>1, ServedClients, QuietStep DEF CancelQueued
<1>18. CASE CancelWrite(c)
  <2>1. client[c].s \in Session
    BY <1>0, <1>18 DEF CancelWrite, ClientsInv
  <2>2. NoStart /\ DrainsQuiet /\ lock' = lock
    BY <1>0, <1>18, <2>1, EndedRun DEF CancelWrite, dbVars, NoStart, DrainsQuiet, Terminal
  <2> QED
    BY <1>0, <1>18, <2>2, ServedClients, QuietStep DEF CancelWrite
<1>19. ASSUME NEW p \in Pos, RemoveQueued(c, p) PROVE Goal
  <2>1. NoStart /\ DrainsQuiet /\ lock' = lock
    BY <1>19 DEF RemoveQueued, NoStart, DrainsQuiet
  <2> QED
    BY <1>0, <1>19, <2>1, ServedClients, QuietStep DEF RemoveQueued
<1>20. ASSUME NEW s \in Session, NEW st \in {"completed", "failed"}, PatchStatus(c, s, st)
       PROVE Goal
  <2>1. NoStart /\ DrainsQuiet /\ lock' = lock
    BY <1>0, <1>20, EndedRun DEF PatchStatus, Terminal
  <2> QED
    BY <1>0, <1>20, <2>1, ServedClients, QuietStep DEF PatchStatus
<1> QED
  BY <1>1, <1>2, <1>3, <1>4, <1>5, <1>6, <1>7, <1>8, <1>9, <1>10, <1>11, <1>12, <1>13,
     <1>14, <1>15, <1>16, <1>17, <1>18, <1>19, <1>20 DEF Request, ClientStep

(* A drain that moves on without the lock, takes it, or leaves it. *)
LEMMA DrainMoves ==
  ASSUME AdmissionInv, NEW d \in Drain, NEW pc, NEW todo, NEW cur,
         MoveDrain(d, pc, todo, cur), NoStart, client' = client,
         \/ lock' = lock /\ pc \notin Holds
         \/ lock = d /\ pc \notin Holds
         \/ lock = Nobody /\ lock' = d /\ pc # "claim"
         \/ lock = Nobody /\ lock' = d /\ Cardinality(Active) < Limit /\ Active' = Active
  PROVE  LockInv' /\ RoomInv' /\ IdleInv'
<1>1. /\ \A e \in Drain : IF e = d THEN drain'[e].pc = pc ELSE drain'[e] = drain[e]
      /\ ClientsQuiet
  BY MoveDrainQuiet DEF AdmissionInv, TypeInv, ClientsQuiet
<1>2. CASE lock' = lock /\ pc \notin Holds
  BY <1>1, <1>2, QuietStep DEF DrainsQuiet
<1>3. CASE lock = d /\ pc \notin Holds
  <2>1. DrainsQuiet /\ drain'[d].pc \notin Holds /\ d \notin Client
    BY <1>1, <1>3, SlotsAssumption DEF DrainsQuiet
  <2>2. d \in Client \cup Drain
    OBVIOUS
  <2> QED
    BY <1>1, <1>3, <2>1, <2>2, QuietRelease
<1>4. ASSUME lock = Nobody, lock' = d PROVE LockInv'
  <2>1. \A e \in Drain : e # d => drain'[e] = drain[e]
    BY <1>1
  <2> QED
    BY <1>4, <2>1, LockTaken DEF AdmissionInv
<1>5. CASE lock = Nobody /\ lock' = d /\ pc # "claim"
  <2>1. NoNewDecision
    BY <1>1, <1>5 DEF NoNewDecision
  <2> QED
    BY <1>4, <1>5, <2>1, RoomKept DEF AdmissionInv
<1>6. CASE lock = Nobody /\ lock' = d /\ Cardinality(Active) < Limit /\ Active' = Active
  <2>1. RoomInv'
    BY <1>1, <1>6 DEF RoomInv, AdmissionInv
  <2>2. IdleInv'
    BY DEF IdleInv, AdmissionInv, NoStart, TypeInv, ClientsInv, Deciding
  <2> QED
    BY <1>4, <1>6, <2>1, <2>2
<1> QED
  BY <1>2, <1>3, <1>5, <1>6

LEMMA DrainAdmission ==
  ASSUME AdmissionInv, NEW d \in Drain, DrainStep(d)
  PROVE  LockInv' /\ RoomInv' /\ IdleInv'
<1>0. /\ TypeInv /\ ClientsInv /\ DrainsInv /\ RowsInv
      /\ drain[d].pc \in Holds => lock = d
  BY DEF AdmissionInv, TypeInv, LockInv
<1>1. CASE DrainList(d)
  <2>1. NoStart /\ client' = client
    BY <1>1 DEF DrainList, dbVars, NoStart
  <2>2. CASE lock' = d /\ MoveDrain(d, "requeue", drain[d].todo, drain[d].cur)
    BY <1>1, <2>1, <2>2, DrainMoves DEF DrainList
  <2>3. CASE MoveDrain(d, "scan", Listed(d), 0) /\ UNCHANGED lock
    BY <2>1, <2>3, DrainMoves DEF Holds
  <2> QED
    BY <1>1, <2>2, <2>3 DEF DrainList
<1>2. CASE DrainRequeue(d)
  <2>1. NoStart /\ client' = client /\ lock = d
    BY <1>0, <1>2 DEF DrainRequeue, NoStart, RowsInv, Holds
  <2>2. MoveDrain(d, "scan", Listed(d), 0)
    BY <1>2 DEF DrainRequeue
  <2> QED
    BY <2>1, <2>2, DrainMoves DEF Holds
<1>3. CASE DrainNext(d)
  <2>1. NoStart /\ client' = client /\ lock' = lock
    BY <1>3 DEF DrainNext, dbVars, NoStart
  <2>2. CASE drain' = [drain EXCEPT ![d] = IdleDrain]
    <3>1. ClientsQuiet /\ DrainsQuiet
      BY <1>0, <2>1, <2>2 DEF ClientsQuiet, DrainsQuiet, DrainsInv, IdleDrain, Holds
    <3> QED
      BY <2>1, <3>1, QuietStep
  <2>3. ASSUME NEW p,
               \/ MoveDrain(d, "admit", drain[d].todo \ {p}, p)
               \/ MoveDrain(d, "scan", drain[d].todo \ {p}, 0)
        PROVE  LockInv' /\ RoomInv' /\ IdleInv'
    BY <2>1, <2>3, DrainMoves DEF Holds
  <2> QED
    BY <1>3, <2>2, <2>3 DEF DrainNext
<1>4. CASE DrainAdmit(d)
  <2>1. NoStart /\ client' = client /\ Active' = Active
    BY <1>4 DEF DrainAdmit, dbVars, NoStart, Active
  <2>2. CASE ~AtCapacity /\ lock' = d /\ MoveDrain(d, "claim", drain[d].todo, drain[d].cur)
    <3>1. lock = Nobody /\ Cardinality(Active) < Limit
      BY <1>4, <2>2, Room DEF DrainAdmit
    <3> QED
      BY <2>1, <2>2, <3>1, DrainMoves
  <2>3. CASE Scan(d) /\ UNCHANGED lock
    BY <2>1, <2>3, DrainMoves DEF Scan, Holds
  <2> QED
    BY <1>4, <2>2, <2>3 DEF DrainAdmit
<1>5. CASE DrainClaim(d)
  <2>1. /\ of[drain[d].cur] \in Session /\ lock = d /\ client' = client
        /\ Cardinality(Active) < Limit
    BY <1>0, <1>5 DEF DrainClaim, DrainsInv, Dispatching, Holds, AdmissionInv, RoomInv
  <2>2. CASE /\ status' = [status EXCEPT ![of[drain[d].cur]] = "in_progress"]
             /\ MoveDrain(d, "launch", drain[d].todo, drain[d].cur)
             /\ UNCHANGED lock
    <3>1. \A e \in Drain : IF e = d THEN drain'[e].pc # "claim" ELSE drain'[e] = drain[e]
      BY <1>0, <2>2, MoveDrainQuiet
    <3>2. \A c \in Client : IF c = d THEN client'[c].pc \notin Deciding ELSE client'[c] = client[c]
      BY <2>1, SlotsAssumption
    <3>3. d \in Client \cup Drain
      OBVIOUS
    <3> QED
      BY <2>1, <2>2, <3>1, <3>2, <3>3, StartStep
  <2>3. CASE Scan(d) /\ UNCHANGED status
    <3>1. NoStart
      BY <2>3 DEF NoStart
    <3> QED
      BY <2>1, <2>3, <3>1, DrainMoves DEF Scan, Holds
  <2> QED
    BY <1>5, <2>2, <2>3 DEF DrainClaim
<1>6. CASE DrainLaunch(d)
  <2>1. NoStart /\ client' = client /\ lock = d /\ Scan(d)
    BY <1>0, <1>6 DEF DrainLaunch, dbVars, NoStart, Holds
  <2> QED
    BY <2>1, DrainMoves DEF Scan, Holds
<1> QED
  BY <1>1, <1>2, <1>3, <1>4, <1>5, <1>6 DEF DrainStep

(* Launches and the sweep do not take the lock, and start nothing. *)
LEMMA LaunchAdmission ==
  ASSUME AdmissionInv, NEW l \in launches, LaunchStep(l)
  PROVE  LockInv' /\ RoomInv' /\ IdleInv'
<1>0. TypeInv /\ DrainsInv /\ RowsInv /\ l.s \in Session
  BY DEF AdmissionInv, TypeInv, HostInv, Launches
<1>1. lock' = lock /\ client' = client
  BY DEF LaunchStep, HarnessStart, HarnessAccept, InitFails, StartFails, FailRemovesEntry,
     FailEndsRun, LaunchRetries, LaunchCloses, ExitRead, ExitWrite
<1>2. NoStart /\ DrainsQuiet
  <2>1. CASE status' = status /\ drain' = drain
    BY <2>1 DEF NoStart, DrainsQuiet
  <2>2. CASE FailEndsRun(l)
    BY <1>0, <2>1, <2>2, EndedRun DEF FailEndsRun, Terminal, dbVars
  <2>3. CASE ExitWrite(l)
    BY <1>0, <2>1, <2>3, EndedRun DEF ExitWrite, Terminal, dbVars
  <2>4. CASE LaunchRetries(l)
    <3>1. NoStart
      BY <1>0, <2>4 DEF LaunchRetries, NoStart, RowsInv
    <3>2. DrainsQuiet
      BY <1>0, <2>1, <2>4, StartedDrains DEF LaunchRetries, DrainsQuiet
    <3> QED
      BY <3>1, <3>2
  <2> QED
    BY <2>1, <2>2, <2>3, <2>4 DEF LaunchStep, HarnessStart, HarnessAccept, InitFails, StartFails,
       FailRemovesEntry, LaunchCloses, ExitRead, dbVars
<1> QED
  BY <1>1, <1>2, QuietStep DEF ClientsQuiet

LEMMA SweepAdmission ==
  ASSUME AdmissionInv, SweepStep
  PROVE  LockInv' /\ RoomInv' /\ IdleInv'
<1>0. TypeInv /\ DrainsInv /\ RowsInv
  BY DEF AdmissionInv, TypeInv
<1>1. lock' = lock /\ client' = client
  BY DEF SweepStep, RemoveAccepted, RecoverClaim, RecoverDrain, ResolveOrphan
<1>2. ASSUME NEW p \in Pos, RemoveAccepted(p) \/ RecoverClaim(p) PROVE NoStart /\ DrainsQuiet
  BY <1>0, <1>2 DEF RemoveAccepted, RecoverClaim, NoStart, DrainsQuiet, RowsInv
<1>3. ASSUME RecoverDrain PROVE NoStart /\ DrainsQuiet
  BY <1>0, <1>3, StartedDrains DEF RecoverDrain, NoStart, dbVars
<1>4. ASSUME NEW sn \in recovery.stale, ResolveOrphan(sn[1], sn[2]) PROVE NoStart /\ DrainsQuiet
  <2>1. sn[1] \in Session
    BY DEF AdmissionInv, TypeInv, AuxInv, Recoveries
  <2> QED
    BY <1>0, <1>4, <2>1, EndedRun DEF ResolveOrphan, Terminal, dbVars, NoStart, DrainsQuiet
<1>5. NoStart /\ DrainsQuiet
  BY <1>2, <1>3, <1>4 DEF SweepStep
<1> QED
  BY <1>1, <1>5, QuietStep DEF ClientsQuiet

(* A crash frees the lock and leaves nobody near it. *)
LEMMA RestartAdmission ==
  ASSUME AdmissionInv, Restart
  PROVE  LockInv' /\ RoomInv' /\ IdleInv'
<1>1. /\ \A c \in Client : client'[c].pc \in {"idle", "done"}
      /\ \A d \in Drain : drain'[d].pc = "idle"
  BY DEF Restart, IdleClient, ServedClient, IdleDrain
<1>2. Active' = Active
  BY DEF Restart, dbVars, Active
<1>3. LockInv'
  BY <1>1 DEF LockInv, Locked, Holds
<1>4. RoomInv' /\ IdleInv'
  BY <1>1, <1>2 DEF RoomInv, IdleInv, Deciding, AdmissionInv
<1> QED
  BY <1>3, <1>4

LEMMA AdmissionInit == Init => AdmissionInv
<1> SUFFICES ASSUME Init PROVE AdmissionInv
  OBVIOUS
<1>1. Active = {}
  BY DEF Init, Active
<1>2. Cardinality(Active) <= Limit
  BY <1>1, FS_EmptySet, SlotsAssumption
<1>3. /\ \A c \in Client : client[c].pc = "idle"
      /\ \A d \in Drain : drain[d].pc = "idle"
  BY DEF Init, IdleClient, IdleDrain
<1> QED
  BY <1>2, <1>3, InitTyped DEF AdmissionInv, LockInv, RoomInv, IdleInv, Locked, Holds, Deciding

LEMMA AdmissionStep == AdmissionInv /\ [Next]_vars => AdmissionInv'
<1> SUFFICES ASSUME AdmissionInv, [Next]_vars PROVE AdmissionInv'
  OBVIOUS
<1>1. TypeInv'
  BY TypeStep DEF AdmissionInv
<1>2. CASE UNCHANGED vars
  <2>1. NoStart /\ ClientsQuiet /\ DrainsQuiet /\ lock' = lock
    BY <1>2 DEF vars, dbVars, NoStart, ClientsQuiet, DrainsQuiet
  <2> QED
    BY <1>1, <2>1, QuietStep DEF AdmissionInv
<1>3. CASE Next
  BY <1>1, <1>3, ClientAdmission, DrainAdmission, LaunchAdmission, SweepAdmission,
     RestartAdmission DEF Next, AdmissionInv
<1> QED
  BY <1>2, <1>3

(* However requests, drains and ending runs interleave, no more than
   max_concurrent_sessions sessions run. *)
THEOREM NeverOverLimit == Spec => []WithinLimit
<1>1. AdmissionInv => WithinLimit
  BY DEF AdmissionInv, RoomInv, WithinLimit
<1> QED
  BY <1>1, AdmissionInit, AdmissionStep, PTL DEF Spec

-----------------------------------------------------------------------------
(* Claims.  An entry that was taken out of the queue belongs to one launch, or
   to the drain that is about to launch it, or to the sweep that will release it
   after a crash; one of them returns it or uses its prompt. *)

Taken == {"dispatched", "removed"}
Launching(d) == drain[d].pc = "launch"

HeldInv ==
  /\ \A l \in launches : l.pos \in Pos => mark[l.pos] \in Taken /\ of[l.pos] = l.s
  /\ \A l, k \in launches : l.pos = k.pos /\ l.pos \in Pos => l = k
  /\ \A d \in Drain : Launching(d) =>
       mark[drain[d].cur] \in Taken /\ \A l \in launches : l.pos # drain[d].cur
  /\ \A p \in recovery.claims :
       /\ mark[p] \in Taken
       /\ \A l \in launches : l.pos # p
       /\ \A d \in Drain : Launching(d) => drain[d].cur # p

\* The removal of an accepted entry does not hit one that may wait again.
CleanAt(p) ==
  /\ mark[p] \in Taken
  /\ p \notin recovery.claims
  /\ \A d \in Drain : Launching(d) => drain[d].cur # p
  /\ \A l \in launches : l.pos = p => l.phase # "preparing"
CleanInv == \A p \in cleanup : CleanAt(p)

\* A prompt that can still be sent in this boot was not sent in it.
SentInv ==
  /\ \A p \in Pos : handed[p] <= 1 + restarts
  /\ \A p \in Pos : mark[p] \notin Taken => handed[p] <= restarts
  /\ \A p \in recovery.claims : handed[p] <= restarts
  /\ \A l \in launches : l.phase = "preparing" /\ l.pos \in Pos => handed[l.pos] <= restarts
  /\ \A d \in Drain : Launching(d) => handed[drain[d].cur] <= restarts

ClaimInv == HeldInv /\ CleanInv /\ SentInv

TakenKept == \A p \in Pos : mark[p] \in Taken => mark'[p] \in Taken /\ of'[p] = of[p]
LaunchersKept == \A d \in Drain : Launching(d)' => drain'[d] = drain[d]
HandedKept == handed' = handed /\ restarts' = restarts

\* The launches of a step are those before it, some of them further on.
LaunchesKept ==
  /\ \A l \in launches' : l.pos \in Pos =>
       \E k \in launches : /\ k.pos = l.pos /\ k.s = l.s
                           /\ l.phase = "preparing" => k.phase = "preparing"
  /\ \A l, k \in launches' : l.pos = k.pos /\ l.pos \in Pos => l = k

LEMMA ClaimTypes ==
  ASSUME TypeInv
  PROVE  /\ 0 \notin Pos
         /\ \A d \in Drain : Launching(d) => drain[d].cur \in Pos /\ of[drain[d].cur] \in Session
         /\ recovery.claims \subseteq Pos /\ cleanup \subseteq Pos
         /\ launches \subseteq Launches
         /\ restarts \in Nat /\ \A p \in Pos : handed[p] \in Nat
         /\ \A p \in Pos : mark[p] \notin Taken <=> mark[p] \in {"unused", "pending"}
<1>1. 0 \notin Pos
  BY SlotsAssumption DEF Pos
<1>2. recovery.claims \subseteq Pos
  BY DEF TypeInv, AuxInv, Recoveries
<1>3. \A d \in Drain : Launching(d) => drain[d].cur \in Pos /\ of[drain[d].cur] \in Session
  BY DEF TypeInv, DrainsInv, Launching, Dispatching
<1>4. \A p \in Pos : mark[p] \notin Taken <=> mark[p] \in {"unused", "pending"}
  BY DEF TypeInv, RowsInv, Marks, Taken
<1> QED
  BY <1>1, <1>2, <1>3, <1>4 DEF TypeInv, AuxInv, HostInv

LEMMA MovedLaunch ==
  ASSUME TypeInv, HeldInv, NEW l \in launches, NEW ph, MoveLaunch(l, ph), ph # "preparing"
  PROVE  LaunchesKept
<1>1. /\ [l EXCEPT !.phase = ph].pos = l.pos /\ [l EXCEPT !.phase = ph].s = l.s
      /\ [l EXCEPT !.phase = ph].phase = ph
  BY ClaimTypes DEF Launches
<1> DEFINE m == [l EXCEPT !.phase = ph]
<1>2. launches' = (launches \ {l}) \cup {m}
  BY DEF MoveLaunch
<1>3. m.pos = l.pos /\ m.s = l.s /\ m.phase # "preparing"
  BY <1>1
<1> HIDE DEF m
<1>4. ASSUME NEW k \in launches', k.pos \in Pos
      PROVE  \E j \in launches : j.pos = k.pos /\ j.s = k.s /\ (k.phase = "preparing" => j.phase = "preparing")
  BY <1>2, <1>3, <1>4
<1>5. \A k, j \in launches' : k.pos = j.pos /\ k.pos \in Pos => k = j
  BY <1>2, <1>3 DEF HeldInv
<1> QED
  BY <1>4, <1>5 DEF LaunchesKept

LEMMA FewerLaunches ==
  ASSUME HeldInv, launches' \subseteq launches
  PROVE  LaunchesKept
BY DEF LaunchesKept, HeldInv

\* A launch without an entry.
LEMMA OtherLaunch ==
  ASSUME HeldInv, NEW l, l.pos \notin Pos, launches' = launches \cup {l}
  PROVE  LaunchesKept
BY DEF LaunchesKept, HeldInv

LEMMA HeldKept ==
  ASSUME TypeInv, HeldInv, TakenKept, LaunchesKept, LaunchersKept,
         recovery'.claims \subseteq recovery.claims
  PROVE  HeldInv'
<1>1. \A l \in launches' : l.pos \in Pos => \E k \in launches : k.pos = l.pos /\ k.s = l.s
  BY DEF LaunchesKept
<1>2. \A d \in Drain : Launching(d)' => Launching(d) /\ drain'[d] = drain[d] /\ drain[d].cur \in Pos
  BY ClaimTypes DEF LaunchersKept, Launching
<1>3. \A l \in launches' : l.pos \in Pos => mark'[l.pos] \in Taken /\ of'[l.pos] = l.s
  BY <1>1 DEF TakenKept, HeldInv
<1>4. \A d \in Drain : Launching(d)' =>
        mark'[drain'[d].cur] \in Taken /\ \A l \in launches' : l.pos # drain'[d].cur
  BY <1>1, <1>2 DEF TakenKept, HeldInv
<1>5. ASSUME NEW p \in recovery'.claims
      PROVE  /\ mark'[p] \in Taken
             /\ \A l \in launches' : l.pos # p
             /\ \A d \in Drain : Launching(d)' => drain'[d].cur # p
  <2>1. p \in recovery.claims /\ p \in Pos
    BY ClaimTypes
  <2> QED
    BY <2>1, <1>1, <1>2 DEF TakenKept, HeldInv
<1> QED
  BY <1>3, <1>4, <1>5 DEF HeldInv, LaunchesKept, Launching

LEMMA CleanKept ==
  ASSUME NEW p \in Pos, CleanAt(p), TakenKept, LaunchesKept, LaunchersKept,
         recovery'.claims \subseteq recovery.claims
  PROVE  CleanAt(p)'
<1>1. \A d \in Drain : Launching(d)' => Launching(d) /\ drain'[d] = drain[d]
  BY DEF LaunchersKept, Launching
<1> QED
  BY <1>1 DEF CleanAt, TakenKept, LaunchesKept, Launching

LEMMA SentKept ==
  ASSUME SentInv, TakenKept, LaunchesKept, LaunchersKept,
         recovery'.claims \subseteq recovery.claims, HandedKept
  PROVE  SentInv'
<1>1. handed' = handed /\ restarts' = restarts
  BY DEF HandedKept
<1>2. \A p \in Pos : mark'[p] \notin Taken => mark[p] \notin Taken
  BY DEF TakenKept
<1>3. \A l \in launches' : l.phase = "preparing" /\ l.pos \in Pos => handed'[l.pos] <= restarts'
  BY <1>1 DEF LaunchesKept, SentInv
<1>4. \A d \in Drain : Launching(d)' => handed'[drain'[d].cur] <= restarts'
  BY <1>1 DEF LaunchersKept, Launching, SentInv
<1> QED
  BY <1>1, <1>2, <1>3, <1>4 DEF SentInv, Launching

LEMMA ClaimsKept ==
  ASSUME TypeInv, ClaimInv, TakenKept, LaunchesKept, LaunchersKept,
         recovery'.claims \subseteq recovery.claims, cleanup' \subseteq cleanup, HandedKept
  PROVE  ClaimInv'
<1>1. CleanInv'
  BY ClaimTypes, CleanKept DEF ClaimInv, CleanInv
<1> QED
  BY <1>1, HeldKept, SentKept DEF ClaimInv

\* A launch takes an entry nobody had, or that of the drain that launches it.
LEMMA NewLaunch ==
  ASSUME TypeInv, ClaimInv, TakenKept, NEW l, launches' = launches \cup {l}, l.pos \in Pos,
         \A k \in launches : k.pos # l.pos,
         mark'[l.pos] \in Taken, of'[l.pos] = l.s, handed[l.pos] <= restarts,
         LaunchersKept, \A d \in Drain : Launching(d)' => drain[d].cur # l.pos,
         recovery' = recovery, l.pos \notin recovery.claims, HandedKept,
         cleanup' = cleanup, l.pos \notin cleanup
  PROVE  ClaimInv'
<1>1. \A d \in Drain : Launching(d)' => Launching(d) /\ drain'[d] = drain[d] /\ drain[d].cur \in Pos
  BY ClaimTypes DEF LaunchersKept, Launching
<1>2. HeldInv'
  <2>1. \A k \in launches' : k.pos \in Pos => mark'[k.pos] \in Taken /\ of'[k.pos] = k.s
    BY DEF TakenKept, ClaimInv, HeldInv
  <2>2. \A k, j \in launches' : k.pos = j.pos /\ k.pos \in Pos => k = j
    BY DEF ClaimInv, HeldInv
  <2>3. \A d \in Drain : Launching(d)' =>
          mark'[drain'[d].cur] \in Taken /\ \A k \in launches' : k.pos # drain'[d].cur
    BY <1>1 DEF TakenKept, ClaimInv, HeldInv
  <2>4. ASSUME NEW p \in recovery.claims
        PROVE  /\ mark'[p] \in Taken
               /\ \A k \in launches' : k.pos # p
               /\ \A d \in Drain : Launching(d)' => drain'[d].cur # p
    BY <1>1, ClaimTypes DEF TakenKept, ClaimInv, HeldInv
  <2> QED
    BY <2>1, <2>2, <2>3, <2>4 DEF HeldInv, Launching
<1>3. SentInv'
  <2>1. handed' = handed /\ restarts' = restarts
    BY DEF HandedKept
  <2>2. \A k \in launches' : k.phase = "preparing" /\ k.pos \in Pos => handed'[k.pos] <= restarts'
    BY <2>1 DEF ClaimInv, SentInv
  <2>3. \A d \in Drain : Launching(d)' => handed'[drain'[d].cur] <= restarts'
    BY <1>1, <2>1 DEF ClaimInv, SentInv
  <2>4. \A p \in Pos : mark'[p] \notin Taken => handed'[p] <= restarts'
    BY <2>1 DEF TakenKept, ClaimInv, SentInv
  <2> QED
    BY <2>1, <2>2, <2>3, <2>4 DEF ClaimInv, SentInv, Launching
<1>4. CleanInv'
  <2> SUFFICES ASSUME NEW p \in cleanup PROVE CleanAt(p)'
    BY DEF CleanInv
  <2>1. p \in Pos /\ p # l.pos /\ CleanAt(p)
    BY ClaimTypes DEF ClaimInv, CleanInv
  <2> QED
    BY <1>1, <2>1 DEF CleanAt, TakenKept, Launching
<1> QED
  BY <1>2, <1>3, <1>4 DEF ClaimInv

\* A drain takes a waiting entry.
LEMMA NewClaim ==
  ASSUME TypeInv, ClaimInv, NEW d \in Drain, NEW p \in Pos, mark[p] \notin Taken,
         mark' = [mark EXCEPT ![p] = "dispatched"], of' = of,
         drain'[d].cur = p, \A e \in Drain : e # d => drain'[e] = drain[e],
         UNCHANGED <<launches, recovery, restarts, handed, cleanup>>
  PROVE  ClaimInv'
<1>1. /\ mark'[p] = "dispatched" /\ "dispatched" \in Taken
      /\ \A q \in Pos : q # p => mark'[q] = mark[q]
  BY DEF TypeInv, RowsInv, Taken
<1>2. \A e \in Drain : Launching(e)' => (e = d \/ (Launching(e) /\ drain'[e] = drain[e] /\ drain[e].cur \in Pos /\ drain[e].cur # p))
  BY ClaimTypes DEF Launching, ClaimInv, HeldInv
<1>3. HeldInv'
  <2>1. \A l \in launches : l.pos \in Pos => l.pos # p /\ mark'[l.pos] \in Taken /\ of'[l.pos] = l.s
    BY <1>1 DEF ClaimInv, HeldInv
  <2>2. \A e \in Drain : Launching(e)' => mark'[drain'[e].cur] \in Taken /\ \A l \in launches : l.pos # drain'[e].cur
    BY <1>1, <1>2, <2>1 DEF ClaimInv, HeldInv
  <2>3. \A q \in recovery.claims : q \in Pos /\ q # p
    BY ClaimTypes DEF ClaimInv, HeldInv
  <2>4. ASSUME NEW q \in recovery.claims
        PROVE  /\ mark'[q] \in Taken
               /\ \A l \in launches : l.pos # q
               /\ \A e \in Drain : Launching(e)' => drain'[e].cur # q
    BY <1>1, <1>2, <2>3 DEF ClaimInv, HeldInv
  <2> QED
    BY <2>1, <2>2, <2>4 DEF ClaimInv, HeldInv, Launching
<1>4. SentInv'
  <2>1. \A e \in Drain : Launching(e)' => handed[drain'[e].cur] <= restarts
    BY <1>2 DEF ClaimInv, SentInv
  <2> QED
    BY <1>1, <2>1 DEF ClaimInv, SentInv, Launching
<1>5. CleanInv'
  <2> SUFFICES ASSUME NEW q \in cleanup PROVE CleanAt(q)'
    BY DEF CleanInv
  <2>1. q \in Pos /\ q # p /\ CleanAt(q)
    BY ClaimTypes DEF ClaimInv, CleanInv, CleanAt
  <2> QED
    BY <1>1, <1>2, <2>1 DEF CleanAt, Launching
<1> QED
  BY <1>3, <1>4, <1>5 DEF ClaimInv

\* An entry is taken back from the launch or the sweep that had it.
LEMMA ClaimReturned ==
  ASSUME TypeInv, ClaimInv, NEW p \in Pos, mark' = [mark EXCEPT ![p] = "pending"], of' = of,
         launches' \subseteq launches, \A l \in launches' : l.pos # p,
         LaunchersKept, \A d \in Drain : Launching(d) => drain[d].cur # p,
         recovery'.claims \subseteq recovery.claims, p \notin recovery'.claims,
         handed[p] <= restarts, HandedKept, cleanup' = cleanup, p \notin cleanup
  PROVE  ClaimInv'
<1>1. \A q \in Pos : q # p => mark'[q] = mark[q]
  BY DEF TypeInv, RowsInv
<1>2. \A d \in Drain : Launching(d)' =>
        Launching(d) /\ drain'[d] = drain[d] /\ drain[d].cur \in Pos /\ drain[d].cur # p
  BY ClaimTypes DEF LaunchersKept, Launching
<1>3. \A q \in recovery'.claims : q \in recovery.claims /\ q \in Pos /\ q # p
  BY ClaimTypes
<1>4. HeldInv'
  <2>1. \A l \in launches' : l.pos \in Pos => mark'[l.pos] \in Taken /\ of'[l.pos] = l.s
    BY <1>1 DEF ClaimInv, HeldInv
  <2>2. \A l, k \in launches' : l.pos = k.pos /\ l.pos \in Pos => l = k
    BY DEF ClaimInv, HeldInv
  <2>3. \A d \in Drain : Launching(d)' => mark'[drain'[d].cur] \in Taken /\ \A l \in launches' : l.pos # drain'[d].cur
    BY <1>1, <1>2 DEF ClaimInv, HeldInv
  <2>4. ASSUME NEW q \in recovery'.claims
        PROVE  /\ mark'[q] \in Taken
               /\ \A l \in launches' : l.pos # q
               /\ \A d \in Drain : Launching(d)' => drain'[d].cur # q
    BY <1>1, <1>2, <1>3 DEF ClaimInv, HeldInv
  <2> QED
    BY <2>1, <2>2, <2>3, <2>4 DEF HeldInv, Launching
<1>5. SentInv'
  <2>1. handed' = handed /\ restarts' = restarts
    BY DEF HandedKept
  <2>2. \A q \in Pos : mark'[q] \notin Taken => handed'[q] <= restarts'
    BY <1>1, <2>1 DEF ClaimInv, SentInv
  <2>3. \A d \in Drain : Launching(d)' => handed'[drain'[d].cur] <= restarts'
    BY <1>2, <2>1 DEF ClaimInv, SentInv
  <2>4. \A l \in launches' : l.phase = "preparing" /\ l.pos \in Pos => handed'[l.pos] <= restarts'
    BY <2>1 DEF ClaimInv, SentInv
  <2> QED
    BY <1>3, <2>1, <2>2, <2>3, <2>4 DEF ClaimInv, SentInv, Launching
<1>6. CleanInv'
  <2> SUFFICES ASSUME NEW q \in cleanup PROVE CleanAt(q)'
    BY DEF CleanInv
  <2>1. q \in Pos /\ q # p /\ CleanAt(q)
    BY ClaimTypes DEF ClaimInv, CleanInv
  <2> QED
    BY <1>1, <1>2, <2>1 DEF CleanAt, Launching
<1> QED
  BY <1>4, <1>5, <1>6 DEF ClaimInv

LEMMA KeptTaken ==
  ASSUME RowsInv, of' = of,
         \/ mark' = mark
         \/ \E p : mark' = WithoutEntry(p)
         \/ \E s : mark' = WithoutEntriesOf(s)
  PROVE  TakenKept
BY DEF TakenKept, Taken, RowsInv, WithoutEntry, WithoutEntriesOf

LEMMA InsertClaims ==
  ASSUME RowsInv, NEW s, NEW m, Insert(s, m)
  PROVE  /\ TakenKept
         /\ nextPos \in Pos /\ mark[nextPos] = "unused"
         /\ mark'[nextPos] = m /\ of'[nextPos] = s
<1>1. nextPos \in Pos /\ mark[nextPos] = "unused"
  BY DEF RowsInv, Insert, Marks, Pos
<1> QED
  BY <1>1 DEF TakenKept, Taken, RowsInv, Insert

LEMMA StartDrainClaims ==
  ASSUME DrainsInv, NEW rel, NEW only, StartDrain(rel, only)
  PROVE  LaunchersKept
BY StartDrainQuiet DEF LaunchersKept, Launching

LEMMA EndRunClaims ==
  ASSUME RowsInv, DrainsInv, NEW s, NEW st, NEW u, EndRun(s, st, u)
  PROVE  TakenKept /\ LaunchersKept
<1>1. StartDrain(s, Pos) /\ of' = of /\ (mark' = mark \/ mark' = WithoutEntriesOf(s))
  BY DEF EndRun
<1>2. TakenKept
  BY <1>1, KeptTaken
<1> QED
  BY <1>1, <1>2, StartDrainClaims

LEMMA MoveDrainClaims ==
  ASSUME DrainsInv, NEW d \in Drain, NEW pc, pc # "launch", NEW todo, NEW cur,
         MoveDrain(d, pc, todo, cur)
  PROVE  LaunchersKept
BY MoveDrainQuiet DEF LaunchersKept, Launching

\* A step that leaves the host's launches and the sweep alone.
HostStill ==
  /\ UNCHANGED <<launches, recovery, restarts, handed>>
  /\ cleanup' \subseteq cleanup

LEMMA StillClaims ==
  ASSUME TypeInv, ClaimInv, TakenKept, LaunchersKept, HostStill
  PROVE  ClaimInv'
<1>1. LaunchesKept
  BY FewerLaunches DEF HostStill, ClaimInv
<1>2. HandedKept /\ recovery'.claims \subseteq recovery.claims /\ cleanup' \subseteq cleanup
  BY DEF HandedKept, HostStill
<1> QED
  BY <1>1, <1>2, ClaimsKept

LEMMA ClientClaims ==
  ASSUME TypeInv, ClaimInv, NEW c \in Client, Request(c) \/ ClientStep(c)
  PROVE  ClaimInv'
<1>0. RowsInv /\ DrainsInv /\ ClientsInv /\ HostInv
  BY DEF TypeInv
<1>1. ASSUME UNCHANGED <<drain, launches, recovery, restarts, handed, cleanup>>, TakenKept
      PROVE  ClaimInv'
  BY <1>1, StillClaims DEF LaunchersKept, HostStill
<1>2. ASSUME NEW s \in Session, CreateEnter(c, s) \/ FollowUpEnter(c, s) \/ CancelRead(c, s)
      PROVE  ClaimInv'
  BY <1>0, <1>1, <1>2, KeptTaken DEF CreateEnter, FollowUpEnter, CancelRead, dbVars, hostVars, auxVars
<1>3. CASE CreateThrows(c) \/ FollowUpCapacity(c) \/ CreateStarted(c) \/ FollowUpResume(c)
  BY <1>0, <1>1, <1>3, KeptTaken
     DEF CreateThrows, FollowUpCapacity, CreateStarted, FollowUpResume, dbVars, hostVars, auxVars
<1>4. CASE CreateDropQueued(c) \/ CancelQueued(c) \/ FollowUpUndo(c)
  BY <1>0, <1>1, <1>4, KeptTaken
     DEF CreateDropQueued, CancelQueued, FollowUpUndo, hostVars, auxVars
<1>5. ASSUME NEW p \in Pos, RemoveQueued(c, p) PROVE ClaimInv'
  BY <1>0, <1>1, <1>5, KeptTaken DEF RemoveQueued, hostVars, auxVars
<1>6. CASE CreateQueued(c) \/ FollowUpQueue(c)
  BY <1>0, <1>1, <1>6, InsertClaims DEF CreateQueued, FollowUpQueue, hostVars, auxVars
<1>7. CASE FollowUpInsert(c)
  BY <1>0, <1>1, <1>7, InsertClaims, KeptTaken DEF FollowUpInsert, dbVars, hostVars, auxVars
<1>8. CASE CreateHookFails(c)
  <2>1. TakenKept
    BY <1>0, <1>8, KeptTaken DEF CreateHookFails
  <2>2. LaunchersKept /\ HostStill
    BY <1>0, <1>8, StartDrainClaims DEF CreateHookFails, hostVars, auxVars, HostStill
  <2> QED
    BY <2>1, <2>2, StillClaims
<1>9. ASSUME NEW s, NEW st, NEW u, EndRun(s, st, u), HostStill PROVE ClaimInv'
  BY <1>0, <1>9, EndRunClaims, StillClaims
<1>10. CASE CreateAborted(c)
  BY <1>9, <1>10 DEF CreateAborted, hostVars, auxVars, HostStill
<1>11. CASE CancelWrite(c)
  BY <1>0, <1>1, <1>9, <1>11, KeptTaken DEF CancelWrite, dbVars, hostVars, auxVars, HostStill
<1>12. ASSUME NEW s \in Session, NEW st \in {"completed", "failed"}, PatchStatus(c, s, st)
       PROVE  ClaimInv'
  BY <1>9, <1>12 DEF PatchStatus, hostVars, auxVars, HostStill
<1>13. ASSUME Insert(client[c].s, "dispatched"), UNCHANGED <<drain, recovery, restarts, handed>>,
              Launch(client[c].s, client[c].run, nextPos, "preparing", FALSE)
       PROVE  ClaimInv'
  <2> DEFINE l == [s |-> client[c].s, run |-> client[c].run, pos |-> nextPos,
                   phase |-> "preparing", queued |-> FALSE, prev |-> owner[client[c].s]]
  <2>1. l.pos = nextPos /\ l.s = client[c].s /\ launches' = launches \cup {l}
    BY <1>13 DEF Launch
  <2> HIDE DEF l
  <2>2. /\ TakenKept /\ l.pos \in Pos /\ mark[l.pos] = "unused"
        /\ mark'[l.pos] \in Taken /\ of'[l.pos] = l.s
    BY <1>0, <1>13, <2>1, InsertClaims DEF Taken
  <2>3. mark[l.pos] \notin Taken
    BY <2>2 DEF Taken
  <2>4. /\ \A k \in launches : k.pos # l.pos
        /\ l.pos \notin recovery.claims
        /\ \A d \in Drain : Launching(d) => drain[d].cur # l.pos
        /\ handed[l.pos] <= restarts
        /\ l.pos \notin cleanup
    BY <2>2, <2>3 DEF ClaimInv, HeldInv, CleanInv, CleanAt, SentInv
  <2>5. /\ LaunchersKept /\ HandedKept /\ recovery' = recovery /\ cleanup' = cleanup
        /\ \A d \in Drain : Launching(d)' => Launching(d)
    BY <1>13 DEF LaunchersKept, HandedKept, Launching, Launch
  <2> QED
    BY <2>1, <2>2, <2>4, <2>5, NewLaunch
<1>14. CASE CreateLaunch(c)
  BY <1>13, <1>14 DEF CreateLaunch, auxVars
<1>15. CASE FollowUpLaunch(c)
  <2>1. CASE Launch(client[c].s, client[c].run, 0, "preparing", FALSE) /\ UNCHANGED <<mark, of>>
    <3> DEFINE l == [s |-> client[c].s, run |-> client[c].run, pos |-> 0,
                     phase |-> "preparing", queued |-> FALSE, prev |-> owner[client[c].s]]
    <3>1. l.pos = 0 /\ launches' = launches \cup {l}
      BY <2>1 DEF Launch
    <3> HIDE DEF l
    <3>2. LaunchesKept
      BY <3>1, ClaimTypes, OtherLaunch DEF ClaimInv
    <3>3. /\ TakenKept /\ LaunchersKept /\ HandedKept
          /\ recovery' = recovery /\ cleanup' = cleanup
      BY <1>0, <1>15, <2>1, KeptTaken DEF FollowUpLaunch, Launch, auxVars, LaunchersKept, HandedKept
    <3> QED
      BY <3>2, <3>3, ClaimsKept
  <2> QED
    BY <1>13, <1>15, <2>1 DEF FollowUpLaunch, auxVars
<1> QED
  BY <1>2, <1>3, <1>4, <1>5, <1>6, <1>7, <1>8, <1>10, <1>11, <1>12, <1>14, <1>15
     DEF Request, ClientStep

LEMMA DrainClaims ==
  ASSUME TypeInv, LockInv, ClaimInv, NEW d \in Drain, DrainStep(d)
  PROVE  ClaimInv'
<1>0. RowsInv /\ DrainsInv
  BY DEF TypeInv
<1>1. ASSUME UNCHANGED <<mark, of>>, HostStill, NEW pc, pc # "launch", NEW todo, NEW cur,
             MoveDrain(d, pc, todo, cur)
      PROVE  ClaimInv'
  BY <1>0, <1>1, KeptTaken, MoveDrainClaims, StillClaims
<1>2. CASE DrainList(d)
  BY <1>1, <1>2 DEF DrainList, dbVars, hostVars, auxVars, HostStill
<1>3. CASE DrainRequeue(d)
  BY <1>1, <1>3 DEF DrainRequeue, hostVars, auxVars, HostStill
<1>4. CASE DrainNext(d)
  <2>1. UNCHANGED <<mark, of>> /\ HostStill
    BY <1>4 DEF DrainNext, dbVars, hostVars, auxVars, HostStill
  <2>2. CASE drain' = [drain EXCEPT ![d] = IdleDrain]
    <3>1. LaunchersKept
      BY <1>0, <2>2 DEF LaunchersKept, Launching, DrainsInv, IdleDrain
    <3> QED
      BY <1>0, <2>1, <3>1, KeptTaken, StillClaims
  <2>3. ASSUME NEW p,
               \/ MoveDrain(d, "admit", drain[d].todo \ {p}, p)
               \/ MoveDrain(d, "scan", drain[d].todo \ {p}, 0)
        PROVE  ClaimInv'
    BY <1>1, <2>1, <2>3
  <2> QED
    BY <1>4, <2>2, <2>3 DEF DrainNext
<1>5. CASE DrainAdmit(d)
  BY <1>1, <1>5 DEF DrainAdmit, Scan, dbVars, hostVars, auxVars, HostStill
<1>6. CASE DrainClaim(d)
  <2>1. drain[d].cur \in Pos
    BY <1>0, <1>6 DEF DrainClaim, DrainsInv, Dispatching
  <2>2. CASE /\ Claimable(of[drain[d].cur], drain[d].cur)
             /\ mark' = [mark EXCEPT ![drain[d].cur] = "dispatched"]
             /\ MoveDrain(d, "launch", drain[d].todo, drain[d].cur)
    <3>1. mark[drain[d].cur] \notin Taken
      BY <2>2 DEF Claimable, Taken
    <3>2. drain'[d].cur = drain[d].cur /\ \A e \in Drain : e # d => drain'[e] = drain[e]
      BY <1>0, <2>2 DEF MoveDrain, DrainsInv
    <3> QED
      BY <1>6, <2>1, <2>2, <3>1, <3>2, NewClaim DEF DrainClaim, hostVars, auxVars
  <2>3. CASE Scan(d) /\ UNCHANGED mark
    BY <1>1, <1>6, <2>3 DEF DrainClaim, Scan, hostVars, auxVars, HostStill
  <2> QED
    BY <1>6, <2>2, <2>3 DEF DrainClaim
<1>7. CASE DrainLaunch(d)
  <2>1. /\ Launching(d) /\ drain[d].cur \in Pos
        /\ \A e \in Drain : Launching(e) => e = d
    BY <1>7, ClaimTypes DEF DrainLaunch, Launching, LockInv, Holds
  <2>2. LaunchersKept /\ \A e \in Drain : ~Launching(e)'
    BY <1>0, <1>7, <2>1, MoveDrainQuiet DEF DrainLaunch, Scan, LaunchersKept, Launching
  <2>3. PICK l : l.pos = drain[d].cur /\ l.s = of[drain[d].cur] /\ launches' = launches \cup {l}
    <3> DEFINE a == [s |-> of[drain[d].cur], run |-> run[of[drain[d].cur]], pos |-> drain[d].cur,
                     phase |-> "preparing", queued |-> TRUE, prev |-> owner[of[drain[d].cur]]]
               b == [s |-> of[drain[d].cur], run |-> run[of[drain[d].cur]], pos |-> drain[d].cur,
                     phase |-> "unready", queued |-> TRUE, prev |-> 0]
    <3>1. /\ a.pos = drain[d].cur /\ a.s = of[drain[d].cur]
          /\ b.pos = drain[d].cur /\ b.s = of[drain[d].cur]
      OBVIOUS
    <3>2. launches' = launches \cup {a} \/ launches' = launches \cup {b}
      BY <1>7 DEF DrainLaunch, Launch
    <3> HIDE DEF a, b
    <3> QED
      BY <3>1, <3>2
  <2>4. /\ mark[l.pos] \in Taken
        /\ \A k \in launches : k.pos # l.pos
        /\ l.pos \notin recovery.claims
        /\ handed[l.pos] <= restarts
        /\ l.pos \notin cleanup
    BY <2>1, <2>3 DEF ClaimInv, HeldInv, CleanInv, CleanAt, SentInv
  <2>5. /\ TakenKept /\ HandedKept /\ recovery' = recovery /\ cleanup' = cleanup
        /\ mark' = mark /\ of' = of
    BY <1>7 DEF DrainLaunch, Launch, dbVars, auxVars, TakenKept, HandedKept
  <2> QED
    BY <2>1, <2>2, <2>3, <2>4, <2>5, NewLaunch
<1> QED
  BY <1>2, <1>3, <1>4, <1>5, <1>6, <1>7 DEF DrainStep

LEMMA LaunchClaims ==
  ASSUME TypeInv, ClaimInv, NEW l \in launches, LaunchStep(l)
  PROVE  ClaimInv'
<1>0. RowsInv /\ DrainsInv /\ HostInv
  BY DEF TypeInv
<1>1. ASSUME NEW ph, ph # "preparing", MoveLaunch(l, ph) PROVE LaunchesKept
  BY <1>1, MovedLaunch DEF ClaimInv
<1>2. ASSUME launches' = launches \ {l} PROVE LaunchesKept
  BY <1>2, FewerLaunches DEF ClaimInv
<1>3. ASSUME TakenKept, LaunchersKept, LaunchesKept,
             UNCHANGED <<recovery, restarts, handed, cleanup>>
      PROVE  ClaimInv'
  BY <1>3, ClaimsKept DEF HandedKept
<1>4. CASE HarnessStart(l)
  <2>1. LaunchesKept /\ TakenKept /\ LaunchersKept /\ recovery' = recovery
    BY <1>0, <1>1, <1>4, KeptTaken DEF HarnessStart, dbVars, auxVars, LaunchersKept
  <2>2. HeldInv'
    BY <2>1, HeldKept DEF ClaimInv
  <2>3. UNCHANGED <<mark, drain, recovery, restarts, cleanup>>
    BY <1>4 DEF HarnessStart, dbVars, auxVars
  <2>4. CASE l.pos \notin Pos
    BY <1>3, <1>4, <2>1, <2>3, <2>4 DEF HarnessStart
  <2>5. CASE l.pos \in Pos
    <3>1. /\ mark[l.pos] \in Taken
          /\ \A k \in launches : k.pos = l.pos => k = l
          /\ l.pos \notin recovery.claims
          /\ \A d \in Drain : Launching(d) => drain[d].cur # l.pos /\ drain[d].cur \in Pos
          /\ handed[l.pos] <= restarts
          /\ recovery.claims \subseteq Pos
      BY <1>4, <2>5, ClaimTypes DEF HarnessStart, ClaimInv, HeldInv, SentInv
    <3>2. /\ handed[l.pos] \in Nat /\ restarts \in Nat
          /\ handed'[l.pos] = handed[l.pos] + 1
          /\ \A p \in Pos : p # l.pos => handed'[p] = handed[p]
      BY <1>4, <2>5, ClaimTypes DEF HarnessStart, TypeInv, AuxInv
    <3>3. \A k \in launches' : k.phase = "preparing" => k \in launches /\ k # l
      <4>1. [l EXCEPT !.phase = "starting"].phase = "starting" /\ l.phase = "preparing"
        BY <1>0, <1>4 DEF HarnessStart, HostInv, Launches
      <4> QED
        BY <1>4, <4>1 DEF HarnessStart, MoveLaunch
    <3>4. \A k \in launches' : k.phase = "preparing" /\ k.pos \in Pos => handed'[k.pos] <= restarts'
      BY <2>3, <3>1, <3>2, <3>3 DEF ClaimInv, SentInv
    <3>5. \A p \in Pos : handed'[p] <= 1 + restarts'
      BY <2>3, <3>1, <3>2 DEF ClaimInv, SentInv
    <3>6. /\ \A p \in Pos : mark'[p] \notin Taken => handed'[p] <= restarts'
          /\ \A p \in recovery'.claims : handed'[p] <= restarts'
      BY <2>3, <3>1, <3>2 DEF ClaimInv, SentInv
    <3>7. \A d \in Drain : Launching(d)' => handed'[drain'[d].cur] <= restarts'
      BY <2>3, <3>1, <3>2 DEF ClaimInv, SentInv, Launching
    <3>8. CleanInv'
      BY <2>1, <2>3, ClaimTypes, CleanKept DEF ClaimInv, CleanInv
    <3> QED
      BY <2>2, <3>4, <3>5, <3>6, <3>7, <3>8 DEF ClaimInv, SentInv, Launching
  <2> QED
    BY <2>4, <2>5
<1>9. CASE HarnessAccept(l)
  <2>1. /\ TakenKept /\ LaunchersKept /\ LaunchesKept /\ HandedKept /\ recovery' = recovery
        /\ l.phase = "starting" /\ cleanup' \subseteq cleanup \cup {l.pos}
        /\ l.pos \in cleanup' => l.pos \in Pos
    BY <1>0, <1>1, <1>9, KeptTaken, ClaimTypes
       DEF HarnessAccept, dbVars, auxVars, LaunchersKept, HandedKept
  <2>2. HeldInv' /\ SentInv'
    BY <2>1, HeldKept, SentKept DEF ClaimInv
  <2>3. ASSUME NEW p \in cleanup' PROVE p \in Pos /\ CleanAt(p)
    <3>1. CASE p \in cleanup
      BY <3>1, ClaimTypes DEF ClaimInv, CleanInv
    <3>2. CASE p = l.pos
      BY <2>1, <2>3, <3>2 DEF ClaimInv, HeldInv, CleanAt
    <3> QED
      BY <2>1, <3>1, <3>2
  <2>4. CleanInv'
    BY <2>1, <2>3, CleanKept DEF CleanInv
  <2> QED
    BY <2>2, <2>4 DEF ClaimInv
<1>5. CASE InitFails(l) \/ StartFails(l) \/ LaunchCloses(l)
  <2>1. TakenKept /\ LaunchersKept /\ UNCHANGED <<recovery, restarts, handed, cleanup>>
    BY <1>0, <1>5, KeptTaken
       DEF InitFails, StartFails, LaunchCloses, dbVars, auxVars, LaunchersKept
  <2>2. LaunchesKept
    BY <1>1, <1>2, <1>5 DEF InitFails, StartFails, LaunchCloses
  <2> QED
    BY <1>3, <2>1, <2>2
<1>6. CASE FailRemovesEntry(l) \/ ExitRead(l)
  <2>1. TakenKept /\ LaunchersKept /\ UNCHANGED <<recovery, restarts, handed, cleanup>>
    BY <1>0, <1>6, KeptTaken DEF FailRemovesEntry, ExitRead, auxVars, LaunchersKept
  <2>2. LaunchesKept
    <3>1. ASSUME NEW ph \in {"failed", "unsaved"}, MoveLaunch(l, ph) PROVE LaunchesKept
      BY <1>1, <3>1
    <3> QED
      BY <1>1, <1>2, <1>6, <3>1 DEF FailRemovesEntry, ExitRead
  <2> QED
    BY <1>3, <2>1, <2>2
<1>7. CASE FailEndsRun(l) \/ ExitWrite(l)
  <2>1. TakenKept /\ LaunchersKept
    BY <1>0, <1>7, EndRunClaims, KeptTaken DEF FailEndsRun, ExitWrite, dbVars, LaunchersKept
  <2>2. LaunchesKept /\ UNCHANGED <<recovery, restarts, handed, cleanup>>
    BY <1>1, <1>2, <1>7 DEF FailEndsRun, ExitWrite, auxVars
  <2> QED
    BY <1>3, <2>1, <2>2
<1>8. CASE LaunchRetries(l)
  <2>1. /\ l.pos \in Pos /\ l.phase = "preparing"
        /\ launches' = launches \ {l} /\ of' = of
        /\ UNCHANGED <<recovery, restarts, handed, cleanup>>
    BY <1>0, <1>8 DEF LaunchRetries, HostInv
  <2>2. LaunchersKept
    BY <1>0, <1>8, StartDrainClaims DEF LaunchRetries, LaunchersKept
  <2>3. CASE mark' = [mark EXCEPT ![l.pos] = "pending"]
    <3>1. /\ \A k \in launches' : k.pos # l.pos
          /\ l.pos \notin recovery.claims
          /\ \A d \in Drain : Launching(d) => drain[d].cur # l.pos
          /\ handed[l.pos] <= restarts
          /\ l.pos \notin cleanup
      BY <2>1 DEF ClaimInv, HeldInv, CleanInv, CleanAt, SentInv
    <3> QED
      BY <2>1, <2>2, <2>3, <3>1, ClaimReturned DEF HandedKept
  <2>4. CASE mark' = mark
    BY <1>0, <1>2, <1>3, <2>1, <2>2, <2>4, KeptTaken
  <2> QED
    BY <1>8, <2>3, <2>4 DEF LaunchRetries
<1> QED
  BY <1>4, <1>5, <1>6, <1>7, <1>8, <1>9 DEF LaunchStep

LEMMA SweepClaims ==
  ASSUME TypeInv, ClaimInv, SweepStep
  PROVE  ClaimInv'
<1>0. RowsInv /\ DrainsInv
  BY DEF TypeInv
<1>1. ASSUME NEW p \in Pos, RemoveAccepted(p) PROVE ClaimInv'
  BY <1>0, <1>1, KeptTaken, StillClaims DEF RemoveAccepted, auxVars, HostStill, LaunchersKept
<1>2. ASSUME NEW p \in Pos, RecoverClaim(p) PROVE ClaimInv'
  <2>1. /\ recovery'.claims = recovery.claims \ {p} /\ p \in recovery.claims
        /\ UNCHANGED <<of, launches, drain, handed, restarts, cleanup>>
    BY <1>2 DEF RecoverClaim, hostVars, TypeInv, AuxInv, Recoveries
  <2>2. LaunchersKept /\ LaunchesKept /\ HandedKept
    BY <2>1, FewerLaunches DEF LaunchersKept, HandedKept, ClaimInv
  <2>3. CASE mark' = [mark EXCEPT ![p] = "pending"]
    <3>1. /\ \A l \in launches : l.pos # p
          /\ \A d \in Drain : Launching(d) => drain[d].cur # p
          /\ handed[p] <= restarts
          /\ p \notin cleanup
      BY <2>1 DEF ClaimInv, HeldInv, CleanInv, CleanAt, SentInv
    <3> QED
      BY <2>1, <2>2, <2>3, <3>1, ClaimReturned
  <2>4. CASE mark' = mark
    BY <1>0, <2>1, <2>2, <2>4, KeptTaken, ClaimsKept
  <2> QED
    BY <1>2, <2>3, <2>4 DEF RecoverClaim
<1>3. CASE RecoverDrain
  <2>1. /\ recovery'.claims = recovery.claims
        /\ UNCHANGED <<mark, of, launches, handed, restarts, cleanup>>
    BY <1>3 DEF RecoverDrain, dbVars, hostVars, TypeInv, AuxInv, Recoveries
  <2>2. LaunchersKept
    BY <1>0, <1>3, StartDrainClaims DEF RecoverDrain
  <2> QED
    BY <1>0, <2>1, <2>2, KeptTaken, FewerLaunches, ClaimsKept DEF HandedKept, ClaimInv
<1>4. ASSUME NEW sn \in recovery.stale, ResolveOrphan(sn[1], sn[2]) PROVE ClaimInv'
  <2>1. recovery'.claims = recovery.claims /\ HandedKept /\ cleanup' = cleanup
    BY <1>4 DEF ResolveOrphan, Launch, hostVars, TypeInv, AuxInv, Recoveries, HandedKept
  <2>2. TakenKept /\ LaunchersKept
    BY <1>0, <1>4, EndRunClaims, KeptTaken DEF ResolveOrphan, dbVars, LaunchersKept
  <2>3. LaunchesKept
    <3>1. CASE launches' = launches
      BY <3>1, FewerLaunches DEF ClaimInv
    <3>2. CASE Launch(sn[1], sn[2], 0, "starting", FALSE)
      <4> DEFINE k == [s |-> sn[1], run |-> sn[2], pos |-> 0, phase |-> "starting",
                       queued |-> FALSE, prev |-> owner[sn[1]]]
      <4>1. k.pos = 0 /\ launches' = launches \cup {k}
        BY <3>2 DEF Launch
      <4> HIDE DEF k
      <4> QED
        BY <4>1, ClaimTypes, OtherLaunch DEF ClaimInv
    <3> QED
      BY <1>4, <3>1, <3>2 DEF ResolveOrphan, hostVars
  <2> QED
    BY <2>1, <2>2, <2>3, ClaimsKept
<1> QED
  BY <1>1, <1>2, <1>3, <1>4 DEF SweepStep

(* After a crash every claim is the sweep's, and each prompt may be sent once more. *)
LEMMA RestartClaims ==
  ASSUME TypeInv, ClaimInv, Restart
  PROVE  ClaimInv'
<1>1. /\ launches' = {} /\ cleanup' = {} /\ \A d \in Drain : ~Launching(d)'
      /\ recovery'.claims = {p \in Pos : mark[p] = "dispatched"}
      /\ UNCHANGED <<mark, of, handed>> /\ restarts' = restarts + 1
  BY DEF Restart, dbVars, Launching, IdleDrain
<1>2. HeldInv'
  BY <1>1 DEF HeldInv, Taken, Launching
<1>3. \A p \in Pos : handed'[p] <= restarts'
  BY <1>1, ClaimTypes DEF ClaimInv, SentInv
<1>4. \A p \in Pos : handed'[p] <= 1 + restarts'
  BY <1>1, <1>3, ClaimTypes
<1>5. SentInv'
  BY <1>1, <1>3, <1>4 DEF SentInv, Launching
<1> QED
  BY <1>1, <1>2, <1>5 DEF ClaimInv, CleanInv

LEMMA ClaimInit == Init => ClaimInv
<1> SUFFICES ASSUME Init PROVE ClaimInv
  OBVIOUS
<1>1. /\ launches = {} /\ cleanup = {} /\ recovery.claims = {} /\ \A d \in Drain : ~Launching(d)
      /\ restarts = 0 /\ \A p \in Pos : handed[p] = 0
  BY DEF Init, NoRecovery, Launching, IdleDrain
<1> QED
  BY <1>1 DEF ClaimInv, HeldInv, CleanInv, SentInv

QueueInv == AdmissionInv /\ ClaimInv

LEMMA QueueInit == Init => QueueInv
BY AdmissionInit, ClaimInit DEF QueueInv

LEMMA QueueStep == QueueInv /\ [Next]_vars => QueueInv'
<1> SUFFICES ASSUME QueueInv, [Next]_vars PROVE QueueInv'
  OBVIOUS
<1>1. AdmissionInv' /\ TypeInv /\ LockInv /\ ClaimInv
  BY AdmissionStep DEF QueueInv, AdmissionInv
<1>2. CASE UNCHANGED vars
  BY <1>1, <1>2, KeptTaken, StillClaims
     DEF vars, dbVars, hostVars, auxVars, TypeInv, HostStill, LaunchersKept, QueueInv
<1>3. CASE Next
  BY <1>1, <1>3, ClientClaims, DrainClaims, LaunchClaims, SweepClaims, RestartClaims
     DEF Next, QueueInv
<1> QED
  BY <1>2, <1>3

(* While a launch holds a claimed entry nobody else can launch it or find it in
   the queue, whatever the drains, retries and the sweep after a crash do. *)
THEOREM ClaimsExclusive == Spec => []ClaimExclusive
<1>1. QueueInv => ClaimExclusive
  <2> SUFFICES ASSUME QueueInv PROVE ClaimExclusive
    OBVIOUS
  <2>1. ASSUME NEW l \in launches, l.pos \in Pos
        PROVE  /\ mark[l.pos] # "pending"
               /\ \A k \in launches : k.pos = l.pos => k = l
               /\ \A d \in Drain : Launching(d) => drain[d].cur # l.pos
    BY <2>1 DEF QueueInv, ClaimInv, HeldInv, Taken
  <2>2. \A d, e \in Drain : Launching(d) /\ Launching(e) => d = e
    BY DEF QueueInv, AdmissionInv, LockInv, Holds, Launching
  <2> QED
    BY <2>1, <2>2 DEF ClaimExclusive, Launching
<1> QED
  BY <1>1, QueueInit, QueueStep, PTL DEF Spec

(* The prompt of an entry reaches a harness at most once in the life of a host
   process: retried, recovered and cancelled claims included. *)
THEOREM SentOncePerBoot == Spec => []AtMostOncePerBoot
<1>1. QueueInv => AtMostOncePerBoot
  BY DEF QueueInv, ClaimInv, SentInv, AtMostOncePerBoot
<1> QED
  BY <1>1, QueueInit, QueueStep, PTL DEF Spec

-----------------------------------------------------------------------------
(* Waiting requests of a finished session.  Rows are only written for sessions
   that exist, a session that is being created has no entry yet, and before any
   crash a finished session with waiting entries has the drain that owes it a
   look; a handler about to insert keeps that drain outside the lock. *)

KnownInv ==
  /\ \A p \in Pos : mark[p] # "unused" => status[of[p]] # "none"
  /\ \A l \in launches : status[l.s] # "none"
  /\ \A c \in Client : client[c].pc \notin {"idle", "done", "create", "createFull"} =>
       status[client[c].s] # "none"

FreshInv ==
  \A c \in Client :
    /\ client[c].pc \in {"create", "createFull"} => status[client[c].s] = "none"
    /\ client[c].pc = "created" => \A p \in Pos : mark[p] # "unused" => of[p] # client[c].s

OwedDrains ==
  \A s \in Session : status[s] \in Requeueable /\ PendingOf(s) # {} =>
    \E d \in Drain : drain[d].rel = s /\ drain[d].pc \in {"want", "requeue"}

InsertsOwed ==
  \A c \in Client : client[c].pc = "insert" /\ status[client[c].s] \in Requeueable =>
    \E d \in Drain : drain[d].rel = client[c].s /\ drain[d].pc = "want"

OwedInv == restarts = 0 => recovery = NoRecovery /\ OwedDrains /\ InsertsOwed

StrandInv == KnownInv /\ FreshInv /\ OwedInv

Unnamed == {"idle", "done", "create", "createFull"}
Creating == {"create", "createFull", "created"}

StaysKnown == \A s \in Session : status[s] # "none" => status'[s] # "none"
NoNewSession == \A s \in Session : status[s] = "none" <=> status'[s] = "none"
NoNewRow == \A p \in Pos : mark'[p] # "unused" => mark[p] # "unused" /\ of'[p] = of[p]
NoNewLaunch == \A l \in launches' : \E k \in launches : k.s = l.s
NoNewClient ==
  \A c \in Client : \/ client'[c] = client[c]
                    \/ client'[c].pc \in {"idle", "done"}
                    \/ /\ client'[c].s = client[c].s
                       /\ client'[c].pc \notin Creating \cup {"insert"}
                       /\ client[c].pc \notin Unnamed

(* A step that names no new session. *)
LEMMA FamiliarStep ==
  ASSUME TypeInv, KnownInv, FreshInv, NoNewSession, NoNewRow, NoNewLaunch, NoNewClient
  PROVE  KnownInv' /\ FreshInv'
<1>1. /\ \A p \in Pos : mark[p] # "unused" => of[p] \in Session
      /\ \A l \in launches : l.s \in Session
      /\ \A c \in Client : client[c].pc \notin {"idle", "done"} => client[c].s \in Session
  BY DEF TypeInv, RowsInv, ClientsInv, HostInv, Launches
<1>2. \A p \in Pos : mark'[p] # "unused" => status'[of'[p]] # "none"
  BY <1>1 DEF NoNewRow, KnownInv, NoNewSession
<1>3. \A l \in launches' : status'[l.s] # "none"
  BY <1>1 DEF NoNewLaunch, KnownInv, NoNewSession
<1>4. ASSUME NEW c \in Client, client'[c].pc \notin Unnamed PROVE status'[client'[c].s] # "none"
  <2>1. client'[c].s = client[c].s /\ client[c].pc \notin Unnamed
    BY <1>4 DEF NoNewClient, Unnamed
  <2>2. client[c].s \in Session /\ status[client[c].s] # "none"
    BY <1>1, <2>1 DEF KnownInv, Unnamed
  <2> QED
    BY <2>1, <2>2 DEF NoNewSession
<1>5. KnownInv'
  BY <1>2, <1>3, <1>4 DEF KnownInv, Unnamed
<1>6. ASSUME NEW c \in Client, client'[c].pc \in Creating
      PROVE  client'[c] = client[c] /\ client[c].s \in Session
  BY <1>1, <1>6 DEF NoNewClient, Creating
<1>7. FreshInv'
  BY <1>6 DEF FreshInv, NoNewSession, NoNewRow, Creating
<1> QED
  BY <1>5, <1>7

FewerOwed ==
  \A s \in Session : status'[s] \in Requeueable /\ PendingOf(s)' # {} =>
    \/ status[s] \in Requeueable /\ PendingOf(s) # {}
    \/ \E d \in Drain : drain'[d].rel = s /\ drain'[d].pc = "want"
FinishedDrains ==
  \A s \in Session : status'[s] \in Requeueable =>
    \/ status[s] \in Requeueable
    \/ \E d \in Drain : drain'[d].rel = s /\ drain'[d].pc = "want"
DrainsStay ==
  \A d \in Drain : drain[d].pc \in {"want", "requeue"} => drain'[d] = drain[d]
NoNewInsert ==
  \A c \in Client : client'[c].pc = "insert" => client'[c] = client[c]

LEMMA OwedStep ==
  ASSUME TypeInv, OwedInv, UNCHANGED <<restarts, recovery>>,
         restarts = 0 => FewerOwed, DrainsStay,
         \/ FinishedDrains /\ NoNewInsert
         \/ \A c \in Client : client'[c].pc = "insert" => status'[client'[c].s] \notin Requeueable
  PROVE  OwedInv'
<1> SUFFICES ASSUME restarts = 0 PROVE OwedDrains' /\ InsertsOwed'
  BY DEF OwedInv
<1>1. OwedDrains'
  <2> SUFFICES ASSUME NEW s \in Session, status'[s] \in Requeueable, PendingOf(s)' # {}
               PROVE  \E d \in Drain : drain'[d].rel = s /\ drain'[d].pc \in {"want", "requeue"}
    BY DEF OwedDrains
  <2>1. CASE status[s] \in Requeueable /\ PendingOf(s) # {}
    <3>1. PICK d \in Drain : drain[d].rel = s /\ drain[d].pc \in {"want", "requeue"}
      BY <2>1 DEF OwedInv, OwedDrains
    <3> QED
      BY <3>1 DEF DrainsStay
  <2> QED
    BY <2>1 DEF FewerOwed
<1>2. InsertsOwed'
  <2> SUFFICES ASSUME NEW c \in Client, client'[c].pc = "insert",
                      status'[client'[c].s] \in Requeueable
               PROVE  \E d \in Drain : drain'[d].rel = client'[c].s /\ drain'[d].pc = "want"
    BY DEF InsertsOwed
  <2>1. client'[c] = client[c] /\ client[c].s \in Session /\ FinishedDrains
    BY DEF NoNewInsert, TypeInv, ClientsInv
  <2>2. CASE status[client[c].s] \in Requeueable
    <3>1. PICK d \in Drain : drain[d].rel = client[c].s /\ drain[d].pc = "want"
      BY <2>1, <2>2 DEF OwedInv, InsertsOwed
    <3> QED
      BY <2>1, <3>1 DEF DrainsStay
  <2> QED
    BY <2>1, <2>2 DEF FinishedDrains
<1> QED
  BY <1>1, <1>2

NoNewPending ==
  \A p \in Pos : mark'[p] = "pending" => mark[p] = "pending" /\ of'[p] = of[p]

LEMMA FewerPending ==
  ASSUME NoNewPending, NEW s
  PROVE  PendingOf(s)' \subseteq PendingOf(s)
BY DEF NoNewPending, PendingOf, Pending

LEMMA StartDrainStays ==
  ASSUME DrainsInv, NEW rel, NEW only, StartDrain(rel, only)
  PROVE  /\ DrainsStay
         /\ \E d \in Drain : drain'[d].rel = rel /\ drain'[d].pc = "want"
<1>1. PICK d \in Drain :
        /\ drain[d].pc = "idle"
        /\ drain' = [drain EXCEPT ![d] =
             [pc |-> "want", rel |-> rel, todo |-> {}, cur |-> 0, only |-> only]]
  BY DEF StartDrain
<1>2. drain'[d].rel = rel /\ drain'[d].pc = "want"
  BY <1>1 DEF DrainsInv
<1> QED
  BY <1>1, <1>2 DEF DrainsStay, DrainsInv

(* The end of a run starts the drain that looks after its session. *)
LEMMA EndRunStrand ==
  ASSUME TypeInv, NEW s \in Session, NEW st \in Terminal, NEW u, EndRun(s, st, u),
         status[s] # "none"
  PROVE  /\ NoNewSession /\ NoNewRow /\ NoNewPending
         /\ FewerOwed /\ FinishedDrains /\ DrainsStay
<1>1. /\ StartDrain(s, Pos) /\ of' = of /\ (mark' = mark \/ mark' = WithoutEntriesOf(s))
      /\ status' = [status EXCEPT ![s] = st]
  BY DEF EndRun
<1>2. NoNewRow /\ NoNewPending
  BY <1>1 DEF NoNewRow, NoNewPending, WithoutEntriesOf, TypeInv, RowsInv
<1>3. DrainsStay /\ \E d \in Drain : drain'[d].rel = s /\ drain'[d].pc = "want"
  BY <1>1, StartDrainStays DEF TypeInv
<1>4. /\ NoNewSession
      /\ \A x \in Session : x # s => status'[x] = status[x]
  BY <1>1 DEF NoNewSession, TypeInv, RowsInv, Terminal
<1>5. FewerOwed
  BY <1>2, <1>3, <1>4, FewerPending DEF FewerOwed
<1>6. FinishedDrains
  BY <1>3, <1>4 DEF FinishedDrains
<1> QED
  BY <1>2, <1>3, <1>4, <1>5, <1>6

(* A step that writes no status but leaves fewer rows waiting. *)
LEMMA RowsStrand ==
  ASSUME TypeInv, of' = of,
         \/ mark' = mark
         \/ \E p : mark' = WithoutEntry(p)
         \/ \E s : mark' = WithoutEntriesOf(s)
  PROVE  NoNewRow /\ NoNewPending
BY DEF NoNewRow, NoNewPending, WithoutEntry, WithoutEntriesOf, TypeInv, RowsInv

LEMMA QuietStrand ==
  ASSUME NoNewPending,
         \A s \in Session : status'[s] \in Requeueable => status[s] \in Requeueable
  PROVE  FewerOwed /\ FinishedDrains
<1>1. \A s \in Session : PendingOf(s)' \subseteq PendingOf(s)
  BY FewerPending
<1> QED
  BY <1>1 DEF FewerOwed, FinishedDrains

(* The handler that holds the lock is the only one that creates or inserts. *)
LEMMA Alone ==
  ASSUME LockInv, NEW c \in Client, client[c].pc \in Locked
  PROVE  \A b \in Client : b # c => client[b].pc \notin Creating \cup {"insert"}
BY DEF LockInv, Creating, Locked

LEMMA ServedMoves ==
  ASSUME TypeInv, NEW c \in Client,
         client' = [client EXCEPT ![c] = ServedClient] \/ Release(c)
  PROVE  NoNewClient /\ NoNewInsert
<1>1. \A b \in Client : client'[b] = client[b] \/ client'[b].pc = "done"
  BY ServedQuiet DEF TypeInv, Release
<1> QED
  BY <1>1 DEF NoNewClient, NoNewInsert

(* A session gets a row that says it runs, waits or has a request. *)
LEMMA LockedStep ==
  ASSUME TypeInv, LockInv, KnownInv, NEW c \in Client, client[c].pc \in Locked,
         NEW s \in Session, StaysKnown, status'[s] # "none",
         \A p \in Pos : mark'[p] # "unused" =>
           (mark[p] # "unused" /\ of'[p] = of[p]) \/ of'[p] = s,
         \A l \in launches' : l \in launches \/ l.s = s,
         \A b \in Client : b # c => client'[b] = client[b],
         client'[c].pc = "done" \/ client'[c].s = s,
         client'[c].pc \notin {"create", "createFull"},
         client'[c].pc = "created" => \A p \in Pos : mark'[p] # "unused" => of'[p] # s
  PROVE  KnownInv' /\ FreshInv'
<1>1. /\ \A p \in Pos : mark[p] # "unused" => of[p] \in Session
      /\ \A l \in launches : l.s \in Session
      /\ \A b \in Client : client[b].pc \notin {"idle", "done"} => client[b].s \in Session
  BY DEF TypeInv, RowsInv, ClientsInv, HostInv, Launches
<1>2. \A p \in Pos : mark'[p] # "unused" => status'[of'[p]] # "none"
  BY <1>1 DEF KnownInv, StaysKnown
<1>3. \A l \in launches' : status'[l.s] # "none"
  BY <1>1 DEF KnownInv, StaysKnown
<1>4. \A b \in Client : client'[b].pc \notin {"idle", "done", "create", "createFull"} =>
        status'[client'[b].s] # "none"
  BY <1>1 DEF KnownInv, StaysKnown
<1>5. \A b \in Client : b # c => client'[b].pc \notin Creating
  BY Alone
<1>6. FreshInv'
  BY <1>5 DEF FreshInv, Creating
<1> QED
  BY <1>2, <1>3, <1>4, <1>6 DEF KnownInv

(* Nobody is left to insert. *)
LEMMA LockedOwed ==
  ASSUME TypeInv, LockInv, OwedInv, NEW c \in Client, client[c].pc \in Locked,
         NEW s \in Session, UNCHANGED <<restarts, recovery>>,
         DrainsStay, status'[s] \notin Requeueable,
         \A x \in Session : x # s => status'[x] = status[x] /\ PendingOf(x)' \subseteq PendingOf(x),
         \A b \in Client : b # c => client'[b] = client[b],
         client'[c].pc # "insert"
  PROVE  OwedInv'
<1>1. \A b \in Client : client'[b].pc # "insert"
  BY Alone
<1>2. FewerOwed
  BY DEF FewerOwed
<1> QED
  BY <1>1, <1>2, OwedStep

LEMMA InsertedRows ==
  ASSUME TypeInv, NEW s \in Session, NEW m \in {"pending", "dispatched"}, Insert(s, m)
  PROVE  /\ \A p \in Pos : mark'[p] # "unused" => (mark[p] # "unused" /\ of'[p] = of[p]) \/ of'[p] = s
         /\ \A x \in Session : x # s => PendingOf(x)' = PendingOf(x)
         /\ m = "dispatched" => PendingOf(s)' = PendingOf(s)
<1>1. /\ nextPos \in Pos /\ mark[nextPos] = "unused" /\ mark'[nextPos] = m /\ of'[nextPos] = s
  BY InsertClaims DEF TypeInv
<1>2. \A p \in Pos : p # nextPos => mark'[p] = mark[p] /\ of'[p] = of[p]
  BY DEF Insert, TypeInv, RowsInv
<1> QED
  BY <1>1, <1>2 DEF PendingOf, Pending

LEMMA ClientStrand ==
  ASSUME TypeInv, LockInv, StrandInv, NEW c \in Client, Request(c) \/ ClientStep(c)
  PROVE  StrandInv'
<1>0. /\ RowsInv /\ DrainsInv /\ ClientsInv /\ HostInv /\ KnownInv /\ FreshInv /\ OwedInv
      /\ client[c].pc \notin {"idle", "done"} => client[c].s \in Session
      /\ client[c].pc \notin Unnamed => status[client[c].s] # "none"
  BY DEF TypeInv, StrandInv, ClientsInv, KnownInv, Unnamed
\* Steps that name nothing new.
<1>1. ASSUME NoNewSession, NoNewRow, launches' = launches, NoNewClient, NoNewInsert,
             UNCHANGED <<restarts, recovery>>, FewerOwed, FinishedDrains, DrainsStay
      PROVE  StrandInv'
  <2>1. NoNewLaunch
    BY <1>1 DEF NoNewLaunch
  <2> QED
    BY <1>0, <1>1, <2>1, FamiliarStep, OwedStep DEF StrandInv
<1>2. ASSUME status' = status, of' = of, drain' = drain, launches' = launches,
             \/ mark' = mark
             \/ \E p : mark' = WithoutEntry(p)
             \/ \E s : mark' = WithoutEntriesOf(s),
             NoNewClient, NoNewInsert, UNCHANGED <<restarts, recovery>>
      PROVE  StrandInv'
  <2>1. NoNewRow /\ NoNewPending
    BY <1>2, RowsStrand
  <2>2. NoNewSession /\ FewerOwed /\ FinishedDrains /\ DrainsStay
    BY <1>2, <2>1, QuietStrand DEF NoNewSession, DrainsStay
  <2> QED
    BY <1>1, <1>2, <2>1, <2>2
<1>3. ASSUME NEW s \in Session, CreateEnter(c, s) PROVE StrandInv'
  <2>1. /\ client'[c].s = s /\ client'[c].pc \in {"create", "createFull"} /\ status[s] = "none"
        /\ \A b \in Client : b # c => client'[b] = client[b]
        /\ UNCHANGED <<status, mark, of, launches, drain, restarts, recovery>>
    BY <1>0, <1>3 DEF CreateEnter, Enter, IdleClient, ClientsInv, dbVars, hostVars, auxVars
  <2>2. KnownInv' /\ FreshInv'
    BY <1>0, <2>1 DEF KnownInv, FreshInv
  <2>3. FewerOwed /\ FinishedDrains /\ DrainsStay /\ NoNewInsert
    BY <2>1, QuietStrand DEF DrainsStay, NoNewInsert, NoNewPending
  <2> QED
    BY <1>0, <2>1, <2>2, <2>3, OwedStep DEF StrandInv
<1>4. ASSUME NEW s \in Session, FollowUpEnter(c, s) PROVE StrandInv'
  <2>1. /\ client'[c].s = s /\ client'[c].pc \in {"capacity", "insert"} /\ status[s] # "none"
        /\ client'[c].pc = "insert" => status[s] \notin Requeueable
        /\ \A b \in Client : b # c => client'[b] = client[b]
        /\ lock = Nobody
        /\ UNCHANGED <<status, mark, of, launches, drain, restarts, recovery>>
    BY <1>0, <1>4 DEF FollowUpEnter, Enter, IdleClient, ClientsInv, dbVars, hostVars, auxVars,
       Requeueable
  <2>2. KnownInv' /\ FreshInv'
    BY <1>0, <2>1 DEF KnownInv, FreshInv
  <2>3. FewerOwed /\ DrainsStay
    BY <2>1, QuietStrand DEF DrainsStay, NoNewPending
  <2>4. \A b \in Client : client'[b].pc = "insert" => status'[client'[b].s] \notin Requeueable
    BY <2>1, SlotsAssumption DEF LockInv, Locked
  <2> QED
    BY <1>0, <2>1, <2>2, <2>3, <2>4, OwedStep DEF StrandInv
<1>5. ASSUME NEW s \in Session, CancelRead(c, s) PROVE StrandInv'
  <2>1. /\ client'[c].s = s /\ client'[c].pc \in {"stop", "stopQueued"} /\ status[s] # "none"
        /\ \A b \in Client : b # c => client'[b] = client[b]
        /\ UNCHANGED <<status, mark, of, launches, drain, restarts, recovery>>
    BY <1>0, <1>5 DEF CancelRead, IdleClient, ClientsInv, dbVars, hostVars, auxVars
  <2>2. KnownInv' /\ FreshInv'
    BY <1>0, <2>1 DEF KnownInv, FreshInv
  <2>3. FewerOwed /\ FinishedDrains /\ DrainsStay /\ NoNewInsert
    BY <2>1, QuietStrand DEF DrainsStay, NoNewInsert, NoNewPending
  <2> QED
    BY <1>0, <2>1, <2>2, <2>3, OwedStep DEF StrandInv
<1>6. CASE CreateQueued(c) \/ FollowUpQueue(c)
  <2>1. /\ client[c].s \in Session /\ client[c].pc \in Locked
        /\ status' = [status EXCEPT ![client[c].s] = "queued"]
        /\ Insert(client[c].s, "pending")
        /\ UNCHANGED <<drain, launches, restarts, recovery>>
    BY <1>0, <1>6 DEF CreateQueued, FollowUpQueue, Locked, hostVars, auxVars
  <2>2. /\ status'[client[c].s] = "queued"
        /\ \A x \in Session : x # client[c].s => status'[x] = status[x]
        /\ StaysKnown
    BY <1>0, <2>1 DEF RowsInv, StaysKnown
  <2>3. /\ \A b \in Client : b # c => client'[b] = client[b]
        /\ client'[c].pc \in {"done", "dropQueued", "undo"}
        /\ client'[c].pc = "done" \/ client'[c].s = client[c].s
    BY <1>0, <1>6 DEF CreateQueued, FollowUpQueue, Release, ClientsInv, Clients, ServedClient, IdleClient
  <2>4. KnownInv' /\ FreshInv'
    <3>1. \A l \in launches' : l \in launches \/ l.s = client[c].s
      BY <2>1
    <3> QED
      BY <1>0, <2>1, <2>2, <2>3, <3>1, InsertedRows, LockedStep
  <2>5. OwedInv'
    <3>1. \A x \in Session : x # client[c].s => PendingOf(x)' \subseteq PendingOf(x)
      BY <2>1, InsertedRows
    <3>2. DrainsStay /\ status'[client[c].s] \notin Requeueable
      BY <2>1, <2>2 DEF DrainsStay, Requeueable, Terminal
    <3> QED
      BY <1>0, <2>1, <2>2, <2>3, <3>1, <3>2, LockedOwed
  <2> QED
    BY <2>4, <2>5 DEF StrandInv
<1>7. CASE CreateStarted(c) \/ FollowUpResume(c)
  <2>1. /\ client[c].s \in Session /\ client[c].pc \in Locked
        /\ status' = [status EXCEPT ![client[c].s] = "in_progress"]
        /\ UNCHANGED <<mark, of, drain, launches, restarts, recovery>>
    BY <1>0, <1>7 DEF CreateStarted, FollowUpResume, Locked, hostVars, auxVars
  <2>2. /\ status'[client[c].s] = "in_progress"
        /\ \A x \in Session : x # client[c].s => status'[x] = status[x]
        /\ StaysKnown
    BY <1>0, <2>1 DEF RowsInv, StaysKnown
  <2>3. /\ \A b \in Client : b # c => client'[b] = client[b]
        /\ client'[c].pc \in {"created", "launch"} /\ client'[c].s = client[c].s
        /\ client'[c].pc = "created" => client[c].pc = "create"
    BY <1>0, <1>7 DEF CreateStarted, FollowUpResume, ClientsInv, Clients
  <2>4. KnownInv' /\ FreshInv'
    <3>1. client[c].pc = "create" => \A p \in Pos : mark[p] # "unused" => of[p] # client[c].s
      BY <1>0 DEF FreshInv, KnownInv
    <3>2. \A l \in launches' : l \in launches \/ l.s = client[c].s
      BY <2>1
    <3> QED
      BY <1>0, <2>1, <2>2, <2>3, <3>1, <3>2, LockedStep
  <2>5. OwedInv'
    <3>1. \A x \in Session : PendingOf(x)' = PendingOf(x)
      BY <2>1 DEF PendingOf, Pending
    <3>2. DrainsStay /\ status'[client[c].s] \notin Requeueable
      BY <2>1, <2>2 DEF DrainsStay, Requeueable, Terminal
    <3> QED
      BY <1>0, <2>1, <2>2, <2>3, <3>1, <3>2, LockedOwed
  <2> QED
    BY <2>4, <2>5 DEF StrandInv
\* A handler saves a dispatched request, or none, and launches the run it started.
<1>8. ASSUME client[c].pc \in {"created", "launch"}, Release(c),
             \/ Insert(client[c].s, "dispatched")
             \/ UNCHANGED <<mark, of>>,
             \A l \in launches' : l \in launches \/ l.s = client[c].s,
             UNCHANGED <<status, drain, restarts, recovery>>
      PROVE  StrandInv'
  <2>1. /\ client[c].s \in Session /\ client[c].pc \in Locked
        /\ status'[client[c].s] # "none" /\ StaysKnown
    BY <1>0, <1>8 DEF Locked, Unnamed, StaysKnown
  <2>2. /\ \A b \in Client : b # c => client'[b] = client[b]
        /\ client'[c].pc = "done"
    BY <1>0, <1>8 DEF Release, ClientsInv, ServedClient, IdleClient
  <2>3. /\ \A p \in Pos : mark'[p] # "unused" =>
             (mark[p] # "unused" /\ of'[p] = of[p]) \/ of'[p] = client[c].s
        /\ \A x \in Session : PendingOf(x)' = PendingOf(x)
    <3>1. CASE Insert(client[c].s, "dispatched")
      BY <2>1, <3>1, InsertedRows
    <3>2. CASE UNCHANGED <<mark, of>>
      BY <3>2 DEF PendingOf, Pending
    <3> QED
      BY <1>8, <3>1, <3>2
  <2>4. KnownInv' /\ FreshInv'
    BY <1>0, <1>8, <2>1, <2>2, <2>3, LockedStep
  <2>5. FewerOwed /\ FinishedDrains /\ DrainsStay /\ NoNewInsert
    BY <1>8, <2>2, <2>3 DEF FewerOwed, FinishedDrains, DrainsStay, NoNewInsert
  <2> QED
    BY <1>0, <1>8, <2>4, <2>5, OwedStep DEF StrandInv
<1>9. CASE CreateLaunch(c)
  BY <1>8, <1>9 DEF CreateLaunch, Launch, auxVars
<1>10. CASE FollowUpLaunch(c)
  BY <1>8, <1>10 DEF FollowUpLaunch, Launch, auxVars
<1>11. CASE FollowUpInsert(c)
  <2>1. client[c].s \in Session /\ client[c].pc \in Locked /\ client[c].pc = "insert"
    BY <1>0, <1>11 DEF FollowUpInsert, Locked
  <2>2. CASE Release(c) /\ UNCHANGED dbVars
    <3>1. NoNewClient /\ NoNewInsert
      BY <2>2, ServedMoves
    <3> QED
      BY <1>2, <1>11, <2>2, <3>1 DEF FollowUpInsert, dbVars, hostVars, auxVars
  <2>3. CASE Insert(client[c].s, "pending") /\ UNCHANGED <<status, run>>
    <3>0. UNCHANGED <<status, drain, launches, restarts, recovery>>
      BY <1>11, <2>3 DEF FollowUpInsert, hostVars, auxVars
    <3>5. \/ client' = [client EXCEPT ![c] = ServedClient]
          \/ client' = [client EXCEPT ![c].pc = "undo", ![c].pos = nextPos]
      BY <1>11 DEF FollowUpInsert, Release
    <3>1. /\ UNCHANGED <<status, drain, launches, restarts, recovery>>
          /\ \A b \in Client : b # c => client'[b] = client[b]
          /\ client'[c].pc \in {"done", "undo"}
          /\ client'[c].pc = "done" \/ client'[c].s = client[c].s
      BY <1>0, <3>0, <3>5 DEF ClientsInv, Clients, ServedClient, IdleClient
    <3>2. KnownInv' /\ FreshInv'
      <4>1. StaysKnown /\ status'[client[c].s] # "none"
        BY <1>0, <2>1, <3>1 DEF StaysKnown, Unnamed
      <4> QED
        BY <1>0, <2>1, <2>3, <3>1, <4>1, InsertedRows, LockedStep
    <3>3. restarts = 0 => FewerOwed
      <4>1. \A x \in Session : x # client[c].s => PendingOf(x)' = PendingOf(x)
        BY <2>1, <2>3, InsertedRows
      <4>2. restarts = 0 /\ status[client[c].s] \in Requeueable =>
              \E d \in Drain : drain'[d].rel = client[c].s /\ drain'[d].pc = "want"
        BY <1>0, <2>1, <3>1 DEF OwedInv, InsertsOwed
      <4> QED
        BY <3>1, <4>1, <4>2 DEF FewerOwed
    <3>4. DrainsStay /\ \A b \in Client : client'[b].pc # "insert"
      BY <2>1, <3>1, Alone DEF DrainsStay
    <3> QED
      BY <1>0, <3>1, <3>2, <3>3, <3>4, OwedStep DEF StrandInv
  <2> QED
    BY <1>11, <2>2, <2>3 DEF FollowUpInsert
<1>12. CASE CreateHookFails(c)
  <2>1. /\ client[c].s \in Session /\ client[c].pc = "created" /\ client[c].pc \in Locked
        /\ status' = [status EXCEPT ![client[c].s] = "failed"]
        /\ UNCHANGED <<of, launches, restarts, recovery>>
    BY <1>0, <1>12 DEF CreateHookFails, Locked, hostVars, auxVars
  <2>2. NoNewRow /\ NoNewPending
    BY <1>12, RowsStrand DEF CreateHookFails
  <2>3. /\ \A b \in Client : b # c => client'[b] = client[b]
        /\ client'[c].pc = "awaitDrain" /\ client'[c].s = client[c].s
    BY <1>0, <1>12 DEF CreateHookFails, ClientsInv, Clients
  <2>4. /\ NoNewSession
        /\ \A x \in Session : x # client[c].s => status'[x] = status[x]
    BY <1>0, <2>1 DEF NoNewSession, RowsInv, Unnamed
  <2>5. KnownInv' /\ FreshInv'
    <3>1. NoNewClient /\ NoNewLaunch
      BY <2>1, <2>3 DEF NoNewClient, NoNewLaunch, Creating, Unnamed
    <3> QED
      BY <1>0, <2>2, <2>4, <3>1, FamiliarStep
  <2>6. FewerOwed
    <3>1. \A x \in Session : x = client[c].s => PendingOf(x)' = {}
      BY <1>0, <2>1, <2>2 DEF FreshInv, NoNewPending, PendingOf, Pending
    <3>2. \A x \in Session : PendingOf(x)' \subseteq PendingOf(x)
      BY <2>2, FewerPending
    <3> QED
      BY <2>4, <3>1, <3>2 DEF FewerOwed
  <2>7. DrainsStay
    BY <1>0, <1>12, StartDrainStays DEF CreateHookFails
  <2>8. \A b \in Client : client'[b].pc # "insert"
    BY <2>1, <2>3, Alone
  <2> QED
    BY <1>0, <2>1, <2>5, <2>6, <2>7, <2>8, OwedStep DEF StrandInv
\* The end of a run.
<1>13. ASSUME NEW s \in Session, NEW st \in Terminal, NEW u, EndRun(s, st, u),
              status[s] # "none", NoNewClient, NoNewInsert,
              UNCHANGED <<launches, restarts, recovery>>
       PROVE  StrandInv'
  BY <1>1, <1>13, EndRunStrand
<1>14. CASE CreateAborted(c)
  <2>1. NoNewClient /\ NoNewInsert
    <3>1. /\ \A b \in Client : b # c => client'[b] = client[b]
          /\ client'[c].pc = "awaitDrain" /\ client'[c].s = client[c].s
          /\ client[c].pc \in {"created", "dropQueued"}
      BY <1>0, <1>14 DEF CreateAborted, CancelsInLock, ClientsInv, Clients
    <3> QED
      BY <3>1 DEF NoNewClient, NoNewInsert, Creating, Unnamed
  <2> QED
    BY <1>0, <1>13, <1>14, <2>1
       DEF CreateAborted, CancelsInLock, hostVars, auxVars, Terminal, Unnamed
<1>15. CASE CancelWrite(c)
  <2>1. NoNewClient /\ NoNewInsert
    BY <1>15, ServedMoves DEF CancelWrite
  <2>2. CASE EndRun(client[c].s, "cancelled", TRUE)
    BY <1>0, <1>13, <1>15, <2>1, <2>2 DEF CancelWrite, hostVars, auxVars, Terminal, Unnamed
  <2>3. CASE UNCHANGED <<dbVars, drain>>
    BY <1>2, <1>15, <2>1, <2>3 DEF CancelWrite, hostVars, auxVars, dbVars
  <2> QED
    BY <1>15, <2>2, <2>3 DEF CancelWrite
<1>16. ASSUME NEW s \in Session, NEW st \in {"completed", "failed"}, PatchStatus(c, s, st)
       PROVE  StrandInv'
  <2>1. NoNewClient /\ NoNewInsert
    BY <1>16, ServedMoves DEF PatchStatus
  <2> QED
    BY <1>13, <1>16, <2>1 DEF PatchStatus, hostVars, auxVars, Terminal
<1>17. CASE CreateDropQueued(c) \/ CancelQueued(c)
  <2>1. NoNewClient /\ NoNewInsert /\ client[c].s \in Session
    BY <1>0, <1>17, ServedMoves DEF CreateDropQueued, CancelQueued
  <2>2. NoNewRow /\ NoNewPending
    BY <1>17, RowsStrand DEF CreateDropQueued, CancelQueued
  <2>3. /\ NoNewSession
        /\ \A x \in Session : status'[x] \in Requeueable => status[x] \in Requeueable
    BY <1>0, <1>17, <2>1 DEF CreateDropQueued, CancelQueued, NoNewSession, RowsInv, Requeueable
  <2> QED
    BY <1>1, <1>17, <2>1, <2>2, <2>3, QuietStrand
       DEF CreateDropQueued, CancelQueued, hostVars, auxVars, DrainsStay
<1>18. CASE FollowUpUndo(c) \/ \E p \in Pos : RemoveQueued(c, p)
  <2>1. NoNewClient /\ NoNewInsert
    BY <1>18, ServedMoves DEF FollowUpUndo, RemoveQueued
  <2> QED
    BY <1>2, <1>18, <2>1 DEF FollowUpUndo, RemoveQueued, hostVars, auxVars
<1>19. CASE CreateThrows(c)
  <2>1. NoNewClient /\ NoNewInsert
    BY <1>19, ServedMoves DEF CreateThrows
  <2> QED
    BY <1>2, <1>19, <2>1 DEF CreateThrows, dbVars, hostVars, auxVars
<1>20. CASE FollowUpCapacity(c)
  <2>1. /\ \A b \in Client : b # c => client'[b] = client[b]
        /\ client'[c].pc \in {"queue", "resume"} /\ client'[c].s = client[c].s
        /\ client[c].pc = "capacity"
    BY <1>0, <1>20 DEF FollowUpCapacity, ClientsInv, Clients
  <2>2. NoNewClient /\ NoNewInsert
    BY <2>1 DEF NoNewClient, NoNewInsert, Creating, Unnamed
  <2> QED
    BY <1>2, <1>20, <2>2 DEF FollowUpCapacity, dbVars, hostVars, auxVars
<1> QED
  BY <1>3, <1>4, <1>5, <1>6, <1>7, <1>9, <1>10, <1>11, <1>12, <1>14, <1>15, <1>16, <1>17,
     <1>18, <1>19, <1>20 DEF Request, ClientStep

LEMMA DrainStrand ==
  ASSUME TypeInv, LockInv, ClaimInv, StrandInv, NEW d \in Drain, DrainStep(d)
  PROVE  StrandInv'
<1>0. /\ RowsInv /\ DrainsInv /\ ClientsInv /\ HostInv /\ KnownInv /\ FreshInv /\ OwedInv
      /\ drain[d].pc \in Holds => lock = d
  BY DEF TypeInv, StrandInv, LockInv
<1>1. client' = client /\ UNCHANGED <<restarts, recovery>> /\ NoNewClient /\ NoNewInsert
  <2>1. client' = client /\ UNCHANGED <<restarts, recovery>>
    BY DEF DrainStep, DrainList, DrainRequeue, DrainNext, DrainAdmit, DrainClaim, DrainLaunch, auxVars
  <2> QED
    BY <2>1 DEF NoNewClient, NoNewInsert
<1>2. ASSUME status' = status, mark' = mark, of' = of
      PROVE  NoNewSession /\ NoNewRow /\ FewerOwed /\ FinishedDrains
  BY <1>2, QuietStrand DEF NoNewSession, NoNewRow, NoNewPending
<1>3. ASSUME lock = Nobody \/ lock = d PROVE \A c \in Client : client[c].pc # "insert"
  BY <1>3, SlotsAssumption DEF LockInv, Locked
<1>4. ASSUME drain[d].pc \notin {"want", "requeue"}, \A e \in Drain : e # d => drain'[e] = drain[e]
      PROVE  DrainsStay
  BY <1>4 DEF DrainsStay
<1>5. CASE DrainList(d)
  <2>1. UNCHANGED <<status, mark, of, launches>> /\ lock = Nobody /\ drain[d].pc = "want"
    BY <1>5 DEF DrainList, dbVars, hostVars
  <2>2. KnownInv' /\ FreshInv'
    <3>1. NoNewLaunch
      BY <2>1 DEF NoNewLaunch
    <3> QED
      BY <1>0, <1>1, <1>2, <2>1, <3>1, FamiliarStep
  <2>3. OwedInv'
    <3> SUFFICES ASSUME restarts = 0 PROVE OwedDrains' /\ InsertsOwed'
      BY <1>0, <1>1 DEF OwedInv
    <3>1. InsertsOwed'
      BY <1>1, <1>3, <2>1 DEF InsertsOwed
    <3>2. /\ \A e \in Drain : e # d => drain'[e] = drain[e]
          /\ drain'[d].rel = drain[d].rel
          /\ OwesRequeue(drain[d].rel) => drain'[d].pc = "requeue"
      BY <1>0, <1>5 DEF DrainList, MoveDrain, DrainsInv
    <3>3. OwedDrains'
      <4> SUFFICES ASSUME NEW s \in Session, status[s] \in Requeueable, PendingOf(s) # {}
                   PROVE  \E e \in Drain : drain'[e].rel = s /\ drain'[e].pc \in {"want", "requeue"}
        BY <2>1 DEF OwedDrains, PendingOf, Pending
      <4>1. PICK e \in Drain : drain[e].rel = s /\ drain[e].pc \in {"want", "requeue"}
        BY <1>0 DEF OwedInv, OwedDrains
      <4>2. OwesRequeue(s)
        BY SlotsAssumption DEF OwesRequeue
      <4> QED
        BY <3>2, <4>1, <4>2
    <3> QED
      BY <3>1, <3>3
  <2> QED
    BY <2>2, <2>3 DEF StrandInv
<1>6. CASE DrainRequeue(d)
  <2>1. /\ drain[d].pc = "requeue" /\ lock = d
        /\ UNCHANGED <<mark, of, launches>>
        /\ \A e \in Drain : e # d => drain'[e] = drain[e]
    BY <1>0, <1>6, MoveDrainQuiet DEF DrainRequeue, hostVars, Holds
  <2>2. \A s \in Session :
          \/ status'[s] = status[s] /\ (s = drain[d].rel => status[s] \notin Requeueable)
          \/ s = drain[d].rel /\ status[s] \in Requeueable /\ status'[s] = "queued"
    BY <1>0, <1>6 DEF DrainRequeue, RowsInv
  <2>3. KnownInv' /\ FreshInv'
    <3>1. NoNewLaunch /\ NoNewRow /\ NoNewSession
      BY <2>1, <2>2 DEF NoNewLaunch, NoNewRow, NoNewSession, Requeueable, Terminal
    <3> QED
      BY <1>0, <1>1, <3>1, FamiliarStep
  <2>4. OwedInv'
    <3> SUFFICES ASSUME restarts = 0 PROVE OwedDrains' /\ InsertsOwed'
      BY <1>0, <1>1 DEF OwedInv
    <3>1. InsertsOwed'
      BY <1>1, <1>3, <2>1 DEF InsertsOwed
    <3>2. OwedDrains'
      <4> SUFFICES ASSUME NEW s \in Session, status'[s] \in Requeueable, PendingOf(s) # {}
                   PROVE  \E e \in Drain : drain'[e].rel = s /\ drain'[e].pc \in {"want", "requeue"}
        BY <2>1 DEF OwedDrains, PendingOf, Pending
      <4>1. status[s] \in Requeueable /\ s # drain[d].rel
        BY <2>2 DEF Requeueable, Terminal
      <4>2. PICK e \in Drain : drain[e].rel = s /\ drain[e].pc \in {"want", "requeue"}
        BY <1>0, <4>1 DEF OwedInv, OwedDrains
      <4> QED
        BY <2>1, <4>1, <4>2
    <3> QED
      BY <3>1, <3>2
  <2> QED
    BY <2>3, <2>4 DEF StrandInv
<1>7. ASSUME drain[d].pc \notin {"want", "requeue"}, UNCHANGED <<status, mark, of, launches>>,
             \A e \in Drain : e # d => drain'[e] = drain[e]
      PROVE  StrandInv'
  <2>1. NoNewLaunch
    BY <1>7 DEF NoNewLaunch
  <2> QED
    BY <1>0, <1>1, <1>2, <1>4, <1>7, <2>1, FamiliarStep, OwedStep DEF StrandInv
<1>8. CASE DrainNext(d)
  <2>1. \A e \in Drain : e # d => drain'[e] = drain[e]
    BY <1>0, <1>8 DEF DrainNext, MoveDrain, DrainsInv
  <2> QED
    BY <1>7, <1>8, <2>1 DEF DrainNext, dbVars, hostVars
<1>9. CASE DrainAdmit(d)
  BY <1>0, <1>7, <1>9, MoveDrainQuiet DEF DrainAdmit, Scan, dbVars, hostVars
<1>10. CASE DrainClaim(d)
  <2>1. /\ drain[d].pc = "claim" /\ drain[d].cur \in Pos /\ of[drain[d].cur] \in Session
        /\ UNCHANGED <<of, launches>>
        /\ \A e \in Drain : e # d => drain'[e] = drain[e]
    BY <1>0, <1>10, MoveDrainQuiet DEF DrainClaim, Scan, hostVars, DrainsInv, Dispatching
  <2>2. CASE /\ Claimable(of[drain[d].cur], drain[d].cur)
             /\ status' = [status EXCEPT ![of[drain[d].cur]] = "in_progress"]
             /\ mark' = [mark EXCEPT ![drain[d].cur] = "dispatched"]
    <3>1. NoNewRow /\ NoNewPending /\ NoNewLaunch
      BY <1>0, <2>1, <2>2 DEF Claimable, NoNewRow, NoNewPending, NoNewLaunch, RowsInv
    <3>2. /\ NoNewSession
          /\ \A s \in Session : status'[s] \in Requeueable => status[s] \in Requeueable
      BY <1>0, <2>1, <2>2 DEF Claimable, NoNewSession, RowsInv, Requeueable, Terminal
    <3> QED
      BY <1>0, <1>1, <1>4, <2>1, <3>1, <3>2, QuietStrand, FamiliarStep, OwedStep DEF StrandInv
  <2>3. CASE UNCHANGED <<status, mark>>
    BY <1>7, <2>1, <2>3
  <2> QED
    BY <1>10, <2>2, <2>3 DEF DrainClaim
<1>11. CASE DrainLaunch(d)
  <2>1. /\ drain[d].pc = "launch" /\ UNCHANGED <<status, mark, of>>
        /\ \A e \in Drain : e # d => drain'[e] = drain[e]
    BY <1>0, <1>11, MoveDrainQuiet DEF DrainLaunch, Scan, dbVars
  <2>2. status[of[drain[d].cur]] # "none"
    <3>1. drain[d].cur \in Pos /\ mark[drain[d].cur] \in Taken
      BY <2>1, ClaimTypes DEF ClaimInv, HeldInv, Launching
    <3> QED
      BY <1>0, <3>1 DEF KnownInv, Taken
  <2>3. \A l \in launches' : l \in launches \/ l.s = of[drain[d].cur]
    BY <1>11 DEF DrainLaunch, Launch
  <2>4. KnownInv' /\ FreshInv'
    BY <1>0, <1>1, <2>1, <2>2, <2>3 DEF KnownInv, FreshInv
  <2> QED
    BY <1>0, <1>1, <1>2, <1>4, <2>1, <2>4, OwedStep DEF StrandInv
<1> QED
  BY <1>5, <1>6, <1>8, <1>9, <1>10, <1>11 DEF DrainStep

LEMMA SameLaunches ==
  ASSUME HostInv, NEW l \in launches,
         launches' = launches \ {l} \/ \E ph : MoveLaunch(l, ph)
  PROVE  NoNewLaunch
<1>1. \A ph : [l EXCEPT !.phase = ph].s = l.s
  BY DEF HostInv, Launches
<1> QED
  BY <1>1 DEF NoNewLaunch, MoveLaunch

LEMMA LaunchStrand ==
  ASSUME TypeInv, ClaimInv, StrandInv, NEW l \in launches, LaunchStep(l)
  PROVE  StrandInv'
<1>0. /\ RowsInv /\ DrainsInv /\ HostInv /\ KnownInv /\ FreshInv /\ OwedInv
      /\ l.s \in Session /\ status[l.s] # "none"
  BY DEF TypeInv, StrandInv, HostInv, Launches, KnownInv
<1>1. client' = client /\ UNCHANGED <<restarts, recovery>> /\ NoNewClient /\ NoNewInsert
  <2>1. client' = client /\ UNCHANGED <<restarts, recovery>>
    BY DEF LaunchStep, HarnessStart, HarnessAccept, InitFails, StartFails, FailRemovesEntry,
       FailEndsRun, LaunchRetries, LaunchCloses, ExitRead, ExitWrite, auxVars
  <2> QED
    BY <2>1 DEF NoNewClient, NoNewInsert
<1>2. NoNewLaunch
  <2>1. launches' = launches \ {l} \/ \E ph : MoveLaunch(l, ph)
    BY DEF LaunchStep, HarnessStart, HarnessAccept, InitFails, StartFails, FailRemovesEntry,
       FailEndsRun, LaunchRetries, LaunchCloses, ExitRead, ExitWrite
  <2> QED
    BY <1>0, <2>1, SameLaunches
<1>3. ASSUME NoNewSession, NoNewRow, FewerOwed, FinishedDrains, DrainsStay PROVE StrandInv'
  BY <1>0, <1>1, <1>2, <1>3, FamiliarStep, OwedStep DEF StrandInv
<1>4. ASSUME UNCHANGED <<status, of, drain>>, mark' = mark \/ \E p : mark' = WithoutEntry(p)
      PROVE  StrandInv'
  <2>1. NoNewRow /\ NoNewPending
    BY <1>4, RowsStrand
  <2>2. NoNewSession /\ FewerOwed /\ FinishedDrains /\ DrainsStay
    BY <1>4, <2>1, QuietStrand DEF NoNewSession, DrainsStay
  <2> QED
    BY <1>3, <2>1, <2>2
<1>5. CASE HarnessStart(l) \/ HarnessAccept(l) \/ InitFails(l) \/ StartFails(l) \/ LaunchCloses(l)
  BY <1>4, <1>5 DEF HarnessStart, HarnessAccept, InitFails, StartFails, LaunchCloses, dbVars
<1>6. CASE FailRemovesEntry(l) \/ ExitRead(l)
  BY <1>4, <1>6 DEF FailRemovesEntry, ExitRead
<1>7. ASSUME NEW st \in Terminal, NEW u, EndRun(l.s, st, u) PROVE StrandInv'
  BY <1>0, <1>3, <1>7, EndRunStrand
<1>8. CASE FailEndsRun(l) \/ ExitWrite(l)
  BY <1>4, <1>7, <1>8 DEF FailEndsRun, ExitWrite, Terminal, dbVars
<1>9. CASE LaunchRetries(l)
  <2>1. CASE /\ ClaimIsStale(l.s, l.pos, l.run)
             /\ mark' = [mark EXCEPT ![l.pos] = "pending"]
             /\ status' = [status EXCEPT ![l.s] = "queued"]
             /\ StartDrain(NoSession, Pos)
    <3>1. l.pos \in Pos /\ of[l.pos] = l.s /\ of' = of
      BY <1>0, <1>9 DEF LaunchRetries, HostInv, ClaimInv, HeldInv
    <3>2. NoNewSession /\ NoNewRow
      BY <1>0, <2>1, <3>1 DEF ClaimIsStale, NoNewSession, NoNewRow, RowsInv
    <3>3. /\ \A s \in Session : status'[s] \in Requeueable => status[s] \in Requeueable /\ s # l.s
          /\ \A s \in Session : s # l.s => PendingOf(s)' = PendingOf(s)
      BY <1>0, <2>1, <3>1 DEF RowsInv, Requeueable, Terminal, PendingOf, Pending
    <3>4. FewerOwed /\ FinishedDrains
      BY <3>3 DEF FewerOwed, FinishedDrains
    <3>5. DrainsStay
      BY <1>0, <2>1, StartDrainStays
    <3> QED
      BY <1>3, <3>2, <3>4, <3>5
  <2>2. CASE UNCHANGED <<status, mark, drain>>
    BY <1>4, <1>9, <2>2 DEF LaunchRetries
  <2> QED
    BY <1>9, <2>1, <2>2 DEF LaunchRetries
<1> QED
  BY <1>5, <1>6, <1>8, <1>9 DEF LaunchStep

LEMMA SweepStrand ==
  ASSUME TypeInv, StrandInv, SweepStep
  PROVE  StrandInv'
<1>0. /\ RowsInv /\ DrainsInv /\ HostInv /\ AuxInv /\ KnownInv /\ FreshInv /\ OwedInv
      /\ client' = client /\ NoNewClient /\ NoNewInsert /\ restarts' = restarts
  <2>1. client' = client /\ restarts' = restarts
    BY DEF SweepStep, RemoveAccepted, RecoverClaim, RecoverDrain, ResolveOrphan, auxVars
  <2> QED
    BY <2>1 DEF TypeInv, StrandInv, NoNewClient, NoNewInsert
<1>1. recovery.pc # "off" => OwedInv'
  BY <1>0 DEF OwedInv, NoRecovery
<1>2. ASSUME NEW p \in Pos, RemoveAccepted(p) PROVE StrandInv'
  <2>1. NoNewRow /\ NoNewPending
    BY <1>2, RowsStrand DEF RemoveAccepted
  <2>2. NoNewSession /\ NoNewLaunch /\ FewerOwed /\ FinishedDrains /\ DrainsStay
    BY <1>2, <2>1, QuietStrand DEF RemoveAccepted, NoNewSession, NoNewLaunch, DrainsStay
  <2> QED
    BY <1>0, <1>2, <2>1, <2>2, FamiliarStep, OwedStep DEF RemoveAccepted, auxVars, StrandInv
<1>3. ASSUME NEW p \in Pos, RecoverClaim(p) PROVE StrandInv'
  <2>1. NoNewSession /\ NoNewRow /\ NoNewLaunch
    BY <1>0, <1>3 DEF RecoverClaim, Unowned, NoNewSession, NoNewRow, NoNewLaunch, RowsInv, hostVars
  <2> QED
    BY <1>0, <1>1, <1>3, <2>1, FamiliarStep DEF RecoverClaim, StrandInv
<1>4. CASE RecoverDrain
  <2>1. NoNewSession /\ NoNewRow /\ NoNewLaunch
    BY <1>4 DEF RecoverDrain, NoNewSession, NoNewRow, NoNewLaunch, dbVars, hostVars
  <2> QED
    BY <1>0, <1>1, <1>4, <2>1, FamiliarStep DEF RecoverDrain, StrandInv
<1>5. ASSUME NEW sn \in recovery.stale, ResolveOrphan(sn[1], sn[2]) PROVE StrandInv'
  <2>1. sn[1] \in Session /\ OwedInv'
    BY <1>0, <1>1, <1>5 DEF ResolveOrphan, AuxInv, Recoveries
  <2>2. CASE EndRun(sn[1], "disconnected", FALSE) /\ Unowned(sn[1]) /\ UNCHANGED hostVars
    <3>1. NoNewLaunch /\ status[sn[1]] # "none" /\ "disconnected" \in Terminal
      BY <2>2 DEF Unowned, NoNewLaunch, hostVars, Terminal
    <3> QED
      BY <1>0, <2>1, <2>2, <3>1, EndRunStrand, FamiliarStep DEF StrandInv
  <2>3. CASE Launch(sn[1], sn[2], 0, "starting", FALSE) /\ Unowned(sn[1]) /\ UNCHANGED dbVars
    <3>1. status[sn[1]] # "none" /\ \A l \in launches' : l \in launches \/ l.s = sn[1]
      BY <2>3 DEF Launch, Unowned
    <3>2. KnownInv' /\ FreshInv'
      BY <1>0, <2>3, <3>1 DEF KnownInv, FreshInv, dbVars
    <3> QED
      BY <2>1, <3>2 DEF StrandInv
  <2>4. CASE UNCHANGED <<dbVars, hostVars>>
    BY <1>0, <2>1, <2>4 DEF dbVars, hostVars, KnownInv, FreshInv, StrandInv
  <2> QED
    BY <1>5, <2>2, <2>3, <2>4 DEF ResolveOrphan
<1> QED
  BY <1>2, <1>3, <1>4, <1>5 DEF SweepStep

LEMMA RestartStrand ==
  ASSUME TypeInv, StrandInv, Restart
  PROVE  StrandInv'
<1>1. /\ \A c \in Client : client'[c].pc \in {"idle", "done"}
      /\ launches' = {} /\ restarts' # 0
      /\ UNCHANGED <<status, mark, of>>
  BY DEF Restart, IdleClient, ServedClient, dbVars, TypeInv, AuxInv
<1> QED
  BY <1>1 DEF StrandInv, KnownInv, FreshInv, OwedInv

LEMMA StrandInit == Init => StrandInv
<1> SUFFICES ASSUME Init PROVE StrandInv
  OBVIOUS
<1>1. /\ \A c \in Client : client[c].pc = "idle"
      /\ \A s \in Session : status[s] = "none"
      /\ \A p \in Pos : mark[p] = "unused"
      /\ launches = {} /\ recovery = NoRecovery
  BY DEF Init, IdleClient
<1> QED
  BY <1>1 DEF StrandInv, KnownInv, FreshInv, OwedInv, OwedDrains, InsertsOwed, Requeueable, Terminal

RequeueInv == QueueInv /\ StrandInv

LEMMA RequeueStep == RequeueInv /\ [Next]_vars => RequeueInv'
<1> SUFFICES ASSUME RequeueInv, [Next]_vars PROVE RequeueInv'
  OBVIOUS
<1>1. QueueInv' /\ TypeInv /\ LockInv /\ ClaimInv /\ StrandInv
  BY QueueStep DEF RequeueInv, QueueInv, AdmissionInv
<1>2. CASE UNCHANGED vars
  BY <1>1, <1>2
     DEF vars, dbVars, hostVars, auxVars, StrandInv, KnownInv, FreshInv, OwedInv, OwedDrains,
     InsertsOwed, PendingOf, Pending, RequeueInv
<1>3. CASE Next
  BY <1>1, <1>3, ClientStrand, DrainStrand, LaunchStrand, SweepStrand, RestartStrand
     DEF Next, RequeueInv
<1> QED
  BY <1>2, <1>3

(* As long as the host has not crashed, a finished session with waiting requests
   has a drain that will look at it, whatever requests, retries and late writes
   come between. *)
THEOREM FinishedIsOwed == Spec => [](restarts = 0 => StrandedOwed)
<1>1. RequeueInv => (restarts = 0 => StrandedOwed)
  BY DEF RequeueInv, StrandInv, OwedInv, OwedDrains, StrandedOwed, Owed
<1>2. Init => RequeueInv
  BY QueueInit, StrandInit DEF RequeueInv
<1> QED
  BY <1>1, <1>2, RequeueStep, PTL DEF Spec

-----------------------------------------------------------------------------
(* Cancelled sessions. *)

(* Every step of a handler moves the handler. *)
LEMMA HandlersMove ==
  ASSUME ClientsInv, NEW c \in Client, Request(c) \/ ClientStep(c)
  PROVE  client' # client
<1>1. ASSUME client' = [client EXCEPT ![c] = ServedClient], client[c].pc # "done"
      PROVE  client' # client
  BY <1>1 DEF ClientsInv, ServedClient, IdleClient
<1>2. ASSUME NEW pc, client[c].pc # pc, NEW n,
             \/ client' = [client EXCEPT ![c].pc = pc]
             \/ client' = [client EXCEPT ![c].pc = pc, ![c].run = n]
             \/ client' = [client EXCEPT ![c].pc = pc, ![c].pos = n]
      PROVE  client' # client
  BY <1>2 DEF ClientsInv, Clients
<1>3. ASSUME NEW r, client[c].pc # r.pc, client' = [client EXCEPT ![c] = r]
      PROVE  client' # client
  BY <1>3 DEF ClientsInv
<1>4. ASSUME NEW s \in Session, CreateEnter(c, s) \/ FollowUpEnter(c, s) \/ CancelRead(c, s)
      PROVE  client' # client
  BY <1>3, <1>4 DEF CreateEnter, FollowUpEnter, CancelRead, Enter, IdleClient
<1>5. ASSUME CreateDropQueued(c) \/ CreateThrows(c) \/ CreateLaunch(c) \/ FollowUpUndo(c)
             \/ FollowUpLaunch(c) \/ CancelQueued(c) \/ CancelWrite(c)
      PROVE  client' # client
  BY <1>1, <1>5 DEF CreateDropQueued, CreateThrows, CreateLaunch, FollowUpUndo, FollowUpLaunch,
     CancelQueued, CancelWrite, Release
<1>6. ASSUME CreateQueued(c) \/ CreateStarted(c) \/ CreateHookFails(c) \/ CreateAborted(c)
      PROVE  client' # client
  BY <1>1, <1>2, <1>6
     DEF CreateQueued, CreateStarted, CreateHookFails, CreateAborted, CancelsInLock, Release
<1>7. ASSUME FollowUpInsert(c) \/ FollowUpCapacity(c) \/ FollowUpQueue(c) \/ FollowUpResume(c)
      PROVE  client' # client
  BY <1>1, <1>2, <1>7 DEF FollowUpInsert, FollowUpCapacity, FollowUpQueue, FollowUpResume, Release
<1>8. ASSUME NEW s \in Session, NEW st, PatchStatus(c, s, st) PROVE client' # client
  BY <1>1, <1>8 DEF PatchStatus
<1>9. ASSUME NEW p \in Pos, RemoveQueued(c, p) PROVE client' # client
  BY <1>1, <1>9 DEF RemoveQueued
<1> QED
  BY <1>4, <1>5, <1>6, <1>7, <1>8, <1>9 DEF Request, ClientStep

(* Nothing but a request moves a cancelled session back. *)
LEMMA CancelledRests ==
  ASSUME TypeInv, Next, client' = client, NEW s \in Session, status[s] = "cancelled"
  PROVE  status'[s] \notin {"queued", "in_progress"}
<1>0. RowsInv /\ ClientsInv /\ HostInv /\ AuxInv
  BY DEF TypeInv
<1>1. ASSUME NEW x \in Session, NEW st \in Terminal, NEW u, EndRun(x, st, u)
      PROVE  status'[s] \notin {"queued", "in_progress"}
  BY <1>0, <1>1 DEF EndRun, RowsInv, Terminal
<1>2. ASSUME NEW d \in Drain, DrainStep(d) PROVE status'[s] \notin {"queued", "in_progress"}
  BY <1>0, <1>2 DEF DrainStep, DrainList, DrainRequeue, DrainNext, DrainAdmit, DrainClaim,
     DrainLaunch, Claimable, RowsInv, Requeueable, dbVars
<1>3. ASSUME NEW l \in launches, LaunchStep(l) PROVE status'[s] \notin {"queued", "in_progress"}
  <2>1. l.s \in Session
    BY <1>0 DEF HostInv, Launches
  <2>2. CASE FailEndsRun(l) \/ ExitWrite(l)
    BY <1>1, <2>1, <2>2 DEF FailEndsRun, ExitWrite, Terminal, dbVars
  <2>3. CASE LaunchRetries(l)
    BY <1>0, <2>3 DEF LaunchRetries, ClaimIsStale, RowsInv
  <2> QED
    BY <1>3, <2>2, <2>3 DEF LaunchStep, HarnessStart, HarnessAccept, InitFails, StartFails,
       FailRemovesEntry, LaunchCloses, ExitRead, dbVars
<1>4. ASSUME SweepStep PROVE status'[s] \notin {"queued", "in_progress"}
  <2>1. ASSUME NEW sn \in recovery.stale, ResolveOrphan(sn[1], sn[2])
        PROVE  status'[s] \notin {"queued", "in_progress"}
    <3>1. sn[1] \in Session
      BY <1>0 DEF AuxInv, Recoveries
    <3> QED
      BY <1>1, <2>1, <3>1 DEF ResolveOrphan, Terminal, dbVars
  <2>2. ASSUME NEW p \in Pos, RemoveAccepted(p) \/ RecoverClaim(p)
        PROVE  status'[s] \notin {"queued", "in_progress"}
    BY <1>0, <2>2 DEF RemoveAccepted, RecoverClaim, Unowned, RowsInv
  <2> QED
    BY <1>4, <2>1, <2>2 DEF SweepStep, RecoverDrain, dbVars
<1> QED
  BY <1>0, <1>2, <1>3, <1>4, HandlersMove DEF Next, Restart, dbVars

(* A cancelled session is queued or started again by a step of a request and by
   nothing else: no drain, retry, late write or startup sweep does it. *)
THEOREM RevivedOnRequest == Spec => CancelledNeedsRequest
<1> DEFINE A == \A s \in Session :
                  status[s] = "cancelled" /\ status'[s] \in {"queued", "in_progress"}
                    => client' # client
<1>1. TypeInv /\ [Next]_vars => [A]_vars
  BY CancelledRests
<1> QED
  BY <1>1, InitTyped, TypeStep, PTL DEF Spec, CancelledNeedsRequest

-----------------------------------------------------------------------------
(* Queued sessions have an entry, when nobody withdraws one.  The drain that is
   about to queue a finished session again does not look at its entries a
   second time, so the invariant says that they are still there; only a late
   write over a cancelled status would make it wrong. *)

RequeueOwed ==
  \A d \in Drain : drain[d].pc = "requeue" =>
    /\ drain[d].rel \in Session
    /\ status[drain[d].rel] \in Terminal
    /\ status[drain[d].rel] \in Requeueable => PendingOf(drain[d].rel) # {}

EntryInv == QueuedHasEntry /\ RequeueOwed /\ \A c \in Client : client[c].pc # "undo"

NobodyWithdraws == Ops \cap {"remove", "abort"} = {}

StaysCancelled ==
  \A s \in Session : status[s] = "cancelled" /\ run'[s] = run[s]
    => status'[s] \notin {"completed", "failed"}

WaitingStay ==
  \A p \in Pos : mark[p] = "pending" => mark'[p] = "pending" /\ of'[p] = of[p]
QueuedStay ==
  \A s \in Session : status'[s] = "queued" => status[s] = "queued" \/ PendingOf(s)' # {}
FinishedStay ==
  \A s \in Session : status[s] \in Terminal =>
    status'[s] \in Terminal /\ (status'[s] \in Requeueable => status[s] \in Requeueable)
NoNewRequeue ==
  \A d \in Drain : drain'[d].pc = "requeue" => drain'[d] = drain[d]
NoUndo == \A c \in Client : client'[c].pc # "undo"
NoRequeue == \A d \in Drain : drain'[d].pc # "requeue"

LEMMA MorePending ==
  ASSUME WaitingStay, NEW s
  PROVE  PendingOf(s) \subseteq PendingOf(s)'
BY DEF WaitingStay, PendingOf, Pending

(* A step that takes no waiting entry away. *)
LEMMA EntryKept ==
  ASSUME EntryInv, WaitingStay, QueuedStay, NoUndo,
         NoRequeue \/ (FinishedStay /\ NoNewRequeue)
  PROVE  EntryInv'
<1>1. \A s \in Session : PendingOf(s) \subseteq PendingOf(s)'
  BY MorePending
<1>2. QueuedHasEntry'
  BY <1>1 DEF QueuedHasEntry, Owed, QueuedStay, EntryInv
<1>3. RequeueOwed'
  <2>1. CASE NoRequeue
    BY <2>1 DEF NoRequeue, RequeueOwed
  <2>2. CASE FinishedStay /\ NoNewRequeue
    <3> SUFFICES ASSUME NEW d \in Drain, drain'[d].pc = "requeue"
                 PROVE  /\ drain'[d].rel \in Session
                        /\ status'[drain'[d].rel] \in Terminal
                        /\ status'[drain'[d].rel] \in Requeueable => (PendingOf(drain[d].rel))' # {}
      BY DEF RequeueOwed
    <3>1. drain'[d] = drain[d] /\ drain[d].pc = "requeue"
      BY <2>2 DEF NoNewRequeue
    <3>2. \A s \in Session : s = drain[d].rel =>
            /\ status[s] \in Terminal
            /\ status[s] \in Requeueable => PendingOf(s) # {}
      BY <3>1 DEF EntryInv, RequeueOwed
    <3>3. \A s \in Session : s = drain[d].rel =>
            /\ status'[s] \in Terminal
            /\ status'[s] \in Requeueable => PendingOf(s)' # {}
      BY <1>1, <2>2, <3>2 DEF FinishedStay
    <3>4. drain[d].rel \in Session
      BY <3>1 DEF EntryInv, RequeueOwed
    <3> QED
      BY <3>1, <3>3, <3>4 DEF PendingOf
  <2> QED
    BY <2>1, <2>2
<1> QED
  BY <1>2, <1>3 DEF EntryInv, NoUndo

(* Only the session s changes: it leaves the queue or stays out of it. *)
LEMMA OneSession ==
  ASSUME EntryInv, NEW s \in Session, status'[s] # "queued", of' = of,
         \A p \in Pos : of[p] # s => mark'[p] = mark[p],
         \A x \in Session : x # s => status'[x] = status[x],
         NoUndo,
         \/ NoRequeue
         \/ /\ NoNewRequeue
            /\ \/ status[s] \notin Terminal
               \/ status'[s] = "cancelled"
               \/ status'[s] \in Terminal /\ status[s] \in Requeueable /\ mark' = mark
  PROVE  EntryInv'
<1>1. \A x \in Session : x # s => PendingOf(x)' = PendingOf(x)
  BY DEF PendingOf, Pending
<1>2. QueuedHasEntry'
  BY <1>1 DEF QueuedHasEntry, Owed, EntryInv
<1>3. RequeueOwed'
  <2>1. CASE NoRequeue
    BY <2>1 DEF NoRequeue, RequeueOwed
  <2>2. CASE /\ NoNewRequeue
             /\ \/ status[s] \notin Terminal
                \/ status'[s] = "cancelled"
                \/ status'[s] \in Terminal /\ status[s] \in Requeueable /\ mark' = mark
    <3> SUFFICES ASSUME NEW d \in Drain, drain'[d].pc = "requeue"
                 PROVE  /\ drain'[d].rel \in Session
                        /\ status'[drain'[d].rel] \in Terminal
                        /\ status'[drain'[d].rel] \in Requeueable => (PendingOf(drain[d].rel))' # {}
      BY DEF RequeueOwed
    <3>1. drain'[d] = drain[d] /\ drain[d].pc = "requeue"
      BY <2>2 DEF NoNewRequeue
    <3>2. \A x \in Session : x = drain[d].rel =>
            /\ status[x] \in Terminal
            /\ status[x] \in Requeueable => PendingOf(x) # {}
      BY <3>1 DEF EntryInv, RequeueOwed
    <3>3. mark' = mark => \A x \in Session : PendingOf(x)' = PendingOf(x)
      BY DEF PendingOf, Pending
    <3>4. \A x \in Session : x = drain[d].rel =>
            /\ status'[x] \in Terminal
            /\ status'[x] \in Requeueable => PendingOf(x)' # {}
      BY <1>1, <2>2, <3>2, <3>3 DEF Terminal, Requeueable
    <3>5. drain[d].rel \in Session
      BY <3>1 DEF EntryInv, RequeueOwed
    <3> QED
      BY <3>1, <3>4, <3>5 DEF PendingOf
  <2> QED
    BY <2>1, <2>2
<1> QED
  BY <1>2, <1>3 DEF EntryInv, NoUndo

(* The end of a run: the entries of a cancelled session go, the others stay. *)
LEMMA EndRunEntry ==
  ASSUME TypeInv, EntryInv, NEW s \in Session, NEW st \in Terminal, NEW u, EndRun(s, st, u),
         st = "cancelled" \/ status[s] # "cancelled", NoUndo
  PROVE  EntryInv'
<1>1. /\ StartDrain(s, Pos) /\ of' = of /\ status' = [status EXCEPT ![s] = st]
      /\ mark' = mark \/ mark' = WithoutEntriesOf(s)
      /\ st # "cancelled" /\ status[s] # "queued" => mark' = mark
  BY DEF EndRun
<1>2. /\ status'[s] = st /\ status'[s] # "queued"
      /\ \A x \in Session : x # s => status'[x] = status[x]
  BY <1>1 DEF TypeInv, RowsInv, Terminal
<1>3. \A p \in Pos : of[p] # s => mark'[p] = mark[p]
  BY <1>1 DEF WithoutEntriesOf
<1>4. NoNewRequeue
  BY <1>1, StartDrainQuiet DEF TypeInv, NoNewRequeue
<1>5. \/ status[s] \notin Terminal
      \/ status'[s] = "cancelled"
      \/ status'[s] \in Terminal /\ status[s] \in Requeueable /\ mark' = mark
  BY <1>1, <1>2 DEF Terminal, Requeueable
<1> HIDE DEF EndRun
<1> QED
  BY <1>1, <1>2, <1>3, <1>4, <1>5, OneSession

(* Removing an entry that was taken out of the queue. *)
LEMMA TakenRemoved ==
  ASSUME RowsInv, of' = of,
         \/ mark' = mark
         \/ \E p : mark' = WithoutEntry(p) /\ (p \in Pos => mark[p] \in Taken)
  PROVE  WaitingStay
BY DEF WaitingStay, WithoutEntry, RowsInv, Taken

LEMMA InsertStay ==
  ASSUME TypeInv, NEW s \in Session, NEW m \in {"pending", "dispatched"}, Insert(s, m)
  PROVE  WaitingStay /\ (m = "pending" => PendingOf(s)' # {})
<1>1. /\ nextPos \in Pos /\ mark[nextPos] = "unused" /\ mark'[nextPos] = m /\ of'[nextPos] = s
  BY InsertClaims DEF TypeInv
<1>2. \A p \in Pos : p # nextPos => mark'[p] = mark[p] /\ of'[p] = of[p]
  BY DEF Insert, TypeInv, RowsInv
<1> QED
  BY <1>1, <1>2 DEF WaitingStay, PendingOf, Pending

LEMMA ClientEntry ==
  ASSUME TypeInv, LockInv, EntryInv, NobodyWithdraws, StaysCancelled,
         NEW c \in Client, Request(c) \/ ClientStep(c)
  PROVE  EntryInv'
<1>0. /\ RowsInv /\ DrainsInv /\ ClientsInv /\ HostInv
      /\ client[c].pc \notin {"idle", "done"} => client[c].s \in Session
      /\ client[c].pc # "undo"
      /\ "abort" \notin Ops /\ "remove" \notin Ops
  BY DEF TypeInv, ClientsInv, EntryInv, NobodyWithdraws
<1>1. NoUndo
  <2>1. \A b \in Client : client[b].pc # "undo"
    BY DEF EntryInv
  <2>2. ASSUME \/ client' = [client EXCEPT ![c] = ServedClient]
               \/ Release(c)
        PROVE  NoUndo
    BY <1>0, <2>1, <2>2 DEF NoUndo, Release, ServedClient, IdleClient, ClientsInv
  <2>3. ASSUME NEW pc, pc # "undo", NEW n,
               \/ client' = [client EXCEPT ![c].pc = pc]
               \/ client' = [client EXCEPT ![c].pc = pc, ![c].run = n]
        PROVE  NoUndo
    BY <1>0, <2>1, <2>3 DEF NoUndo, ClientsInv, Clients
  <2>4. ASSUME NEW r, r.pc # "undo", client' = [client EXCEPT ![c] = r] PROVE NoUndo
    BY <1>0, <2>1, <2>4 DEF NoUndo, ClientsInv
  <2>5. ASSUME NEW s \in Session, CreateEnter(c, s) \/ FollowUpEnter(c, s) \/ CancelRead(c, s)
        PROVE  NoUndo
    BY <2>4, <2>5 DEF CreateEnter, FollowUpEnter, CancelRead, Enter, IdleClient
  <2>6. ASSUME CreateDropQueued(c) \/ CreateThrows(c) \/ CreateLaunch(c) \/ FollowUpUndo(c)
               \/ FollowUpLaunch(c) \/ CancelQueued(c) \/ CancelWrite(c)
        PROVE  NoUndo
    BY <2>2, <2>6 DEF CreateDropQueued, CreateThrows, CreateLaunch, FollowUpUndo,
       FollowUpLaunch, CancelQueued, CancelWrite
  <2>7. ASSUME CreateQueued(c) \/ CreateStarted(c) \/ CreateHookFails(c) \/ CreateAborted(c)
        PROVE  NoUndo
    BY <2>2, <2>3, <2>7 DEF CreateQueued, CreateStarted, CreateHookFails, CreateAborted
  <2>8. ASSUME FollowUpInsert(c) \/ FollowUpCapacity(c) \/ FollowUpQueue(c) \/ FollowUpResume(c)
        PROVE  NoUndo
    BY <1>0, <2>2, <2>3, <2>8 DEF FollowUpInsert, FollowUpCapacity, FollowUpQueue, FollowUpResume
  <2>9. ASSUME NEW s \in Session, NEW st, PatchStatus(c, s, st) PROVE NoUndo
    BY <2>2, <2>9 DEF PatchStatus
  <2>10. ASSUME NEW p \in Pos, RemoveQueued(c, p) PROVE NoUndo
    BY <2>2, <2>10 DEF RemoveQueued
  <2> QED
    BY <2>5, <2>6, <2>7, <2>8, <2>9, <2>10 DEF Request, ClientStep
<1>2. client[c].pc \in Locked => \A d \in Drain : drain[d].pc # "requeue"
  BY SlotsAssumption DEF LockInv, Holds
<1>3. ASSUME UNCHANGED <<status, mark, of, drain>> PROVE EntryInv'
  <2>1. WaitingStay /\ QueuedStay /\ FinishedStay /\ NoNewRequeue
    BY <1>3 DEF WaitingStay, QueuedStay, FinishedStay, NoNewRequeue
  <2> QED
    BY <1>1, <2>1, EntryKept
<1>4. ASSUME NEW s \in Session, CreateEnter(c, s) \/ FollowUpEnter(c, s) \/ CancelRead(c, s)
      PROVE  EntryInv'
  BY <1>3, <1>4 DEF CreateEnter, FollowUpEnter, CancelRead, dbVars
<1>5. CASE CreateThrows(c) \/ FollowUpCapacity(c)
  BY <1>3, <1>5 DEF CreateThrows, FollowUpCapacity, dbVars
<1>6. CASE CreateQueued(c) \/ FollowUpQueue(c)
  <2>1. /\ client[c].s \in Session
        /\ status' = [status EXCEPT ![client[c].s] = "queued"]
        /\ Insert(client[c].s, "pending") /\ NoRequeue
    BY <1>0, <1>2, <1>6 DEF CreateQueued, FollowUpQueue, Locked, NoRequeue
  <2>2. WaitingStay /\ \A s \in Session : s = client[c].s => PendingOf(s)' # {}
    <3>1. \A s \in Session : s = client[c].s => Insert(s, "pending")
      BY <2>1
    <3>2. \A s \in Session : Insert(s, "pending") => WaitingStay /\ PendingOf(s)' # {}
      BY InsertStay
    <3> QED
      BY <2>1, <3>1, <3>2
  <2>3. QueuedStay
    BY <1>0, <2>1, <2>2 DEF QueuedStay, RowsInv
  <2> QED
    BY <1>1, <2>1, <2>2, <2>3, EntryKept
<1>7. CASE CreateStarted(c) \/ FollowUpResume(c)
  <2>1. /\ status' = [status EXCEPT ![client[c].s] = "in_progress"]
        /\ UNCHANGED <<mark, of>> /\ NoRequeue
    BY <1>0, <1>2, <1>7 DEF CreateStarted, FollowUpResume, Locked, NoRequeue
  <2>2. WaitingStay /\ QueuedStay
    BY <1>0, <2>1 DEF WaitingStay, QueuedStay, RowsInv
  <2> QED
    BY <1>1, <2>1, <2>2, EntryKept
<1>8. CASE CreateLaunch(c) \/ FollowUpLaunch(c) \/ FollowUpInsert(c)
  <2>1. /\ client[c].s \in Session /\ status' = status /\ NoRequeue
        /\ \/ \E m \in {"pending", "dispatched"} : Insert(client[c].s, m)
           \/ UNCHANGED <<mark, of>>
    BY <1>0, <1>2, <1>8
       DEF CreateLaunch, FollowUpLaunch, FollowUpInsert, Locked, NoRequeue, dbVars
  <2>2. WaitingStay
    BY <2>1, InsertStay DEF WaitingStay
  <2>3. QueuedStay
    BY <2>1 DEF QueuedStay
  <2> QED
    BY <1>1, <2>1, <2>2, <2>3, EntryKept
<1>9. CASE CreateHookFails(c)
  <2>1. /\ client[c].s \in Session /\ of' = of
        /\ status' = [status EXCEPT ![client[c].s] = "failed"]
        /\ mark' = mark \/ mark' = WithoutEntriesOf(client[c].s)
        /\ \A d \in Drain : drain[d].pc # "requeue"
    BY <1>0, <1>2, <1>9 DEF CreateHookFails, Locked
  <2>2. NoRequeue
    BY <1>0, <1>9, <2>1, StartDrainQuiet DEF CreateHookFails, NoRequeue
  <2>3. /\ status'[client[c].s] # "queued"
        /\ \A x \in Session : x # client[c].s => status'[x] = status[x]
        /\ \A p \in Pos : of[p] # client[c].s => mark'[p] = mark[p]
    BY <1>0, <2>1 DEF RowsInv, WithoutEntriesOf
  <2> QED
    BY <1>1, <2>1, <2>2, <2>3, OneSession
<1>10. CASE CreateAborted(c)
  <2>1. client[c].s \in Session /\ EndRun(client[c].s, "cancelled", TRUE)
    BY <1>0, <1>10 DEF CreateAborted, CancelsInLock
  <2> QED
    BY <1>0, <1>1, <2>1, EndRunEntry DEF Terminal
<1>11. CASE CancelWrite(c)
  <2>1. CASE EndRun(client[c].s, "cancelled", TRUE)
    BY <1>0, <1>1, <1>11, <2>1, EndRunEntry DEF CancelWrite, Terminal
  <2> QED
    BY <1>3, <1>11, <2>1 DEF CancelWrite, dbVars
<1>12. ASSUME NEW s \in Session, NEW st \in {"completed", "failed"}, PatchStatus(c, s, st)
       PROVE  EntryInv'
  <2>1. EndRun(s, st, FALSE) /\ st \in Terminal
    BY <1>12 DEF PatchStatus, Terminal
  <2>2. status'[s] = st /\ run' = run
    BY <1>0, <2>1 DEF EndRun, RowsInv
  <2>3. status[s] # "cancelled"
    BY <2>2 DEF StaysCancelled
  <2> QED
    BY <1>1, <2>1, <2>3, EndRunEntry
<1>13. CASE CreateDropQueued(c) \/ CancelQueued(c)
  <2>1. client[c].s \in Session /\ of' = of /\ drain' = drain /\ NoNewRequeue
    BY <1>0, <1>13 DEF CreateDropQueued, CancelQueued, NoNewRequeue
  <2>2. CASE /\ status[client[c].s] = "queued"
             /\ status' = [status EXCEPT ![client[c].s] = "cancelled"]
             /\ mark' = WithoutEntriesOf(client[c].s)
    <3>1. /\ status'[client[c].s] = "cancelled" /\ status'[client[c].s] # "queued"
          /\ \A x \in Session : x # client[c].s => status'[x] = status[x]
          /\ \A p \in Pos : of[p] # client[c].s => mark'[p] = mark[p]
      BY <1>0, <2>1, <2>2 DEF RowsInv, WithoutEntriesOf
    <3> QED
      BY <1>1, <2>1, <3>1, OneSession
  <2> QED
    BY <1>3, <1>13, <2>1, <2>2 DEF CreateDropQueued, CancelQueued
<1>14. CASE FollowUpUndo(c) \/ \E p \in Pos : RemoveQueued(c, p)
  BY <1>0, <1>14 DEF FollowUpUndo, RemoveQueued
<1> QED
  BY <1>4, <1>5, <1>6, <1>7, <1>8, <1>9, <1>10, <1>11, <1>12, <1>13, <1>14
     DEF Request, ClientStep

\* A drain that keeps its way of working, with the rows as they were.
LEMMA RowsEntry ==
  ASSUME EntryInv, UNCHANGED <<status, mark, of>>, NoUndo, NoNewRequeue
  PROVE  EntryInv'
<1>1. WaitingStay /\ QueuedStay /\ FinishedStay
  BY DEF WaitingStay, QueuedStay, FinishedStay
<1> QED
  BY <1>1, EntryKept

LEMMA DrainEntry ==
  ASSUME TypeInv, LockInv, EntryInv, NEW d \in Drain, DrainStep(d)
  PROVE  EntryInv'
<1>0. RowsInv /\ DrainsInv
  BY DEF TypeInv
<1>1. client' = client
  BY DEF DrainStep, DrainList, DrainRequeue, DrainNext, DrainAdmit, DrainClaim, DrainLaunch
<1>2. NoUndo
  BY <1>1 DEF NoUndo, EntryInv
<1>3. \A e \in Drain : e # d => drain'[e] = drain[e]
  BY <1>0 DEF DrainStep, DrainList, DrainRequeue, DrainNext, DrainAdmit, DrainClaim,
     DrainLaunch, Scan, MoveDrain, DrainsInv
<1>4. ASSUME NEW pc, NEW todo, NEW cur, MoveDrain(d, pc, todo, cur)
      PROVE  drain'[d].pc = pc /\ drain'[d].rel = drain[d].rel
  BY <1>0, <1>4 DEF MoveDrain, DrainsInv
<1>5. ASSUME drain'[d].pc # "requeue" PROVE NoNewRequeue
  BY <1>3, <1>5 DEF NoNewRequeue
<1>6. ASSUME lock \in {d, Nobody}, drain'[d].pc # "requeue" PROVE NoRequeue
  <2>1. \A e \in Drain : e # d => drain[e].pc # "requeue"
    BY <1>6, SlotsAssumption DEF LockInv, Holds
  <2> QED
    BY <1>3, <1>6, <2>1 DEF NoRequeue
<1>7. CASE DrainList(d)
  <2>1. UNCHANGED <<status, mark, of>> /\ lock = Nobody
    BY <1>7 DEF DrainList, dbVars
  <2>2. CASE OwesRequeue(drain[d].rel) /\ MoveDrain(d, "requeue", drain[d].todo, drain[d].cur)
    <3>1. /\ drain'[d].rel = drain[d].rel
          /\ drain[d].rel \in Session
          /\ status[drain[d].rel] \in Terminal
          /\ PendingOf(drain[d].rel) # {}
      BY <1>0, <1>4, <2>2 DEF OwesRequeue, DrainsInv, Drains, Requeueable
    <3>2. \A e \in Drain : drain'[e].pc = "requeue" => e = d
      BY <1>3, <2>1, SlotsAssumption DEF LockInv, Holds
    <3>3. \A s \in Session : PendingOf(s)' = PendingOf(s)
      BY <2>1 DEF PendingOf, Pending
    <3>4. \A s \in Session : s = drain[d].rel => status'[s] \in Terminal /\ PendingOf(s)' # {}
      BY <2>1, <3>1, <3>3
    <3>5. RequeueOwed'
      <4> SUFFICES ASSUME NEW e \in Drain, drain'[e].pc = "requeue"
                   PROVE  /\ drain'[e].rel \in Session
                          /\ status'[drain'[e].rel] \in Terminal
                          /\ status'[drain'[e].rel] \in Requeueable => (PendingOf(drain[e].rel))' # {}
        BY DEF RequeueOwed
      <4>1. e = d
        BY <3>2
      <4> QED
        BY <4>1, <3>1, <3>4 DEF PendingOf
    <3>6. QueuedHasEntry'
      BY <2>1, <3>3 DEF QueuedHasEntry, Owed, EntryInv
    <3> QED
      BY <1>2, <3>5, <3>6 DEF EntryInv, NoUndo
  <2>3. CASE MoveDrain(d, "scan", Listed(d), 0)
    <3>1. NoNewRequeue
      BY <1>4, <1>5, <2>3
    <3> QED
      BY <1>2, <2>1, <3>1, RowsEntry
  <2> QED
    BY <1>7, <2>2, <2>3 DEF DrainList
<1>8. CASE DrainRequeue(d)
  <2>1. drain[d].pc = "requeue" /\ lock = d /\ UNCHANGED <<mark, of>>
    BY <1>8 DEF DrainRequeue, LockInv, Holds
  <2>2. NoRequeue
    BY <1>4, <1>6, <1>8, <2>1 DEF DrainRequeue
  <2>3. /\ drain[d].rel \in Session
        /\ status[drain[d].rel] \in Requeueable => PendingOf(drain[d].rel) # {}
    BY <2>1 DEF EntryInv, RequeueOwed
  <2>4. \A s \in Session : PendingOf(s)' = PendingOf(s)
    BY <2>1 DEF PendingOf, Pending
  <2>5. \A s \in Session : \/ status'[s] = status[s]
                           \/ s = drain[d].rel /\ status[s] \in Requeueable
    <3>1. \/ status' = status
          \/ /\ status' = [status EXCEPT ![drain[d].rel] = "queued"]
             /\ status[drain[d].rel] \in Requeueable
      BY <1>8 DEF DrainRequeue
    <3>2. CASE status' = status
      BY <3>2
    <3>3. CASE /\ status' = [status EXCEPT ![drain[d].rel] = "queued"]
               /\ status[drain[d].rel] \in Requeueable
      <4>1. \A s \in Session : s # drain[d].rel => status'[s] = status[s]
        BY <1>0, <3>3 DEF RowsInv
      <4> QED
        BY <3>3, <4>1
    <3> QED
      BY <3>1, <3>2, <3>3
  <2>6. QueuedStay
    BY <2>3, <2>4, <2>5 DEF QueuedStay
  <2>7. WaitingStay
    BY <2>1 DEF WaitingStay
  <2> QED
    BY <1>2, <2>2, <2>6, <2>7, EntryKept
<1>9. CASE DrainNext(d)
  <2>1. UNCHANGED <<status, mark, of>>
    BY <1>9 DEF DrainNext, dbVars
  <2>2. drain'[d].pc # "requeue"
    <3>1. CASE drain' = [drain EXCEPT ![d] = IdleDrain]
      BY <1>0, <3>1 DEF DrainsInv, IdleDrain
    <3>2. ASSUME NEW p, NEW pc \in {"admit", "scan"}, NEW cur,
                 MoveDrain(d, pc, drain[d].todo \ {p}, cur)
          PROVE  drain'[d].pc # "requeue"
      BY <1>4, <3>2
    <3> QED
      BY <1>9, <3>1, <3>2 DEF DrainNext
  <2> QED
    BY <1>2, <1>5, <2>1, <2>2, RowsEntry
<1>10. CASE DrainAdmit(d)
  <2>1. UNCHANGED <<status, mark, of>>
    BY <1>10 DEF DrainAdmit, dbVars
  <2>2. drain'[d].pc # "requeue"
    BY <1>4, <1>10 DEF DrainAdmit, Scan
  <2> QED
    BY <1>2, <1>5, <2>1, <2>2, RowsEntry
<1>11. CASE DrainClaim(d)
  <2>1. /\ drain[d].pc = "claim" /\ lock = d /\ of' = of
        /\ drain[d].cur \in Pos /\ of[drain[d].cur] \in Session
    BY <1>0, <1>11 DEF DrainClaim, LockInv, Holds, DrainsInv, Dispatching
  <2>2. drain'[d].pc # "requeue"
    BY <1>4, <1>11 DEF DrainClaim, Scan
  <2>3. NoRequeue
    BY <1>6, <2>1, <2>2
  <2>4. CASE UNCHANGED <<status, mark>>
    BY <1>2, <1>5, <2>1, <2>2, <2>4, RowsEntry
  <2>5. CASE /\ status' = [status EXCEPT ![of[drain[d].cur]] = "in_progress"]
             /\ mark' = [mark EXCEPT ![drain[d].cur] = "dispatched"]
    <3>1. /\ status'[of[drain[d].cur]] # "queued"
          /\ \A p \in Pos : of[p] # of[drain[d].cur] => mark'[p] = mark[p]
          /\ \A x \in Session : x # of[drain[d].cur] => status'[x] = status[x]
      BY <1>0, <2>1, <2>5 DEF RowsInv
    <3> QED
      BY <1>2, <2>1, <2>3, <3>1, OneSession
  <2> QED
    BY <1>11, <2>4, <2>5 DEF DrainClaim
<1>12. CASE DrainLaunch(d)
  <2>1. UNCHANGED <<status, mark, of>>
    BY <1>12 DEF DrainLaunch, dbVars
  <2>2. drain'[d].pc # "requeue"
    BY <1>4, <1>12 DEF DrainLaunch, Scan
  <2> QED
    BY <1>2, <1>5, <2>1, <2>2, RowsEntry
<1> QED
  BY <1>7, <1>8, <1>9, <1>10, <1>11, <1>12 DEF DrainStep

(* A claim that is given back makes its session wait together with its entry. *)
LEMMA ReturnEntry ==
  ASSUME TypeInv, EntryInv, NEW p \in Pos, NEW s \in Session, of[p] = s,
         status[s] = "in_progress", mark[p] = "dispatched", of' = of,
         mark' = [mark EXCEPT ![p] = "pending"],
         status' = [status EXCEPT ![s] = "queued"],
         NoUndo, NoNewRequeue
  PROVE  EntryInv'
<1>0. RowsInv
  BY DEF TypeInv
<1>1. mark'[p] = "pending" /\ \A q \in Pos : q # p => mark'[q] = mark[q]
  BY <1>0 DEF RowsInv
<1>2. status'[s] = "queued" /\ \A x \in Session : x # s => status'[x] = status[x]
  BY <1>0 DEF RowsInv
<1>3. WaitingStay
  BY <1>1 DEF WaitingStay
<1>4. QueuedStay
  <2>1. p \in PendingOf(s)'
    BY <1>1 DEF PendingOf, Pending
  <2> QED
    BY <1>2, <2>1 DEF QueuedStay
<1>5. FinishedStay
  BY <1>2 DEF FinishedStay, Terminal
<1> QED
  BY <1>3, <1>4, <1>5, EntryKept

LEMMA LaunchEntry ==
  ASSUME TypeInv, ClaimInv, EntryInv, StaysCancelled, NEW l \in launches, LaunchStep(l)
  PROVE  EntryInv'
<1>0. /\ RowsInv /\ DrainsInv /\ l.s \in Session /\ l.run \in Nat
      /\ l.queued => l.pos \in Pos
      /\ l.pos \in Pos => mark[l.pos] \in Taken /\ of[l.pos] = l.s
  BY DEF TypeInv, HostInv, Launches, ClaimInv, HeldInv
<1>1. client' = client /\ of' = of /\ run' = run
  BY DEF LaunchStep, HarnessStart, HarnessAccept, InitFails, StartFails, FailRemovesEntry,
     FailEndsRun, LaunchRetries, LaunchCloses, ExitRead, ExitWrite, EndRun, dbVars
<1>2. NoUndo
  BY <1>1 DEF NoUndo, EntryInv
<1>3. ASSUME drain' = drain, UNCHANGED <<status, mark>> PROVE EntryInv'
  BY <1>1, <1>2, <1>3, RowsEntry DEF NoNewRequeue
<1>4. CASE HarnessStart(l) \/ HarnessAccept(l) \/ InitFails(l) \/ StartFails(l) \/ LaunchCloses(l)
  BY <1>3, <1>4 DEF HarnessStart, HarnessAccept, InitFails, StartFails, LaunchCloses, dbVars
<1>5. CASE FailRemovesEntry(l) \/ ExitRead(l)
  <2>1. /\ status' = status /\ drain' = drain
        /\ mark' = mark \/ mark' = WithoutEntry(l.pos)
    BY <1>5 DEF FailRemovesEntry, ExitRead
  <2>2. WaitingStay
    BY <1>0, <1>1, <2>1, TakenRemoved
  <2>3. QueuedStay /\ FinishedStay /\ NoNewRequeue
    BY <2>1 DEF QueuedStay, FinishedStay, NoNewRequeue
  <2> QED
    BY <1>2, <2>2, <2>3, EntryKept
<1>6. ASSUME NEW st \in {"completed", "failed"}, EndRun(l.s, st, FALSE) PROVE EntryInv'
  <2>1. st \in Terminal /\ status'[l.s] = st
    BY <1>0, <1>6 DEF EndRun, RowsInv, Terminal
  <2>2. status[l.s] # "cancelled"
    BY <1>0, <1>1, <2>1 DEF StaysCancelled
  <2> QED
    BY <1>0, <1>2, <1>6, <2>1, <2>2, EndRunEntry
<1>7. ASSUME EndRun(l.s, "cancelled", FALSE) PROVE EntryInv'
  BY <1>0, <1>2, <1>7, EndRunEntry DEF Terminal
<1>8. CASE FailEndsRun(l)
  BY <1>3, <1>6, <1>7, <1>8 DEF FailEndsRun, dbVars
<1>9. CASE ExitWrite(l)
  BY <1>3, <1>6, <1>9 DEF ExitWrite, dbVars
<1>10. CASE LaunchRetries(l)
  <2>1. CASE /\ ClaimIsStale(l.s, l.pos, l.run)
             /\ mark' = [mark EXCEPT ![l.pos] = "pending"]
             /\ status' = [status EXCEPT ![l.s] = "queued"]
             /\ StartDrain(NoSession, Pos)
    <3>1. /\ l.pos \in Pos /\ of[l.pos] = l.s
          /\ status[l.s] = "in_progress" /\ mark[l.pos] = "dispatched"
      BY <1>0, <1>10, <2>1 DEF LaunchRetries, ClaimIsStale
    <3>2. NoNewRequeue
      BY <1>0, <2>1, StartDrainQuiet DEF NoNewRequeue
    <3> QED
      BY <1>0, <1>1, <1>2, <2>1, <3>1, <3>2, ReturnEntry
  <2> QED
    BY <1>3, <1>10, <2>1 DEF LaunchRetries
<1> QED
  BY <1>4, <1>5, <1>8, <1>9, <1>10 DEF LaunchStep

LEMMA SweepEntry ==
  ASSUME TypeInv, ClaimInv, EntryInv, SweepStep
  PROVE  EntryInv'
<1>0. RowsInv /\ DrainsInv
  BY DEF TypeInv
<1>1. client' = client /\ of' = of
  BY DEF SweepStep, RemoveAccepted, RecoverClaim, RecoverDrain, ResolveOrphan, EndRun, dbVars
<1>2. NoUndo
  BY <1>1 DEF NoUndo, EntryInv
<1>3. ASSUME drain' = drain, UNCHANGED <<status, mark>> PROVE EntryInv'
  BY <1>1, <1>2, <1>3, RowsEntry DEF NoNewRequeue
<1>4. ASSUME NEW p \in Pos, RemoveAccepted(p) PROVE EntryInv'
  <2>1. /\ status' = status /\ drain' = drain /\ mark' = WithoutEntry(p)
        /\ mark[p] \in Taken
    BY <1>4 DEF RemoveAccepted, ClaimInv, CleanInv, CleanAt
  <2>2. WaitingStay
    BY <1>0, <1>1, <2>1, TakenRemoved
  <2>3. QueuedStay /\ FinishedStay /\ NoNewRequeue
    BY <2>1 DEF QueuedStay, FinishedStay, NoNewRequeue
  <2> QED
    BY <1>2, <2>2, <2>3, EntryKept
<1>5. ASSUME NEW p \in Pos, RecoverClaim(p) PROVE EntryInv'
  <2>1. CASE /\ Unowned(of[p]) /\ mark[p] = "dispatched"
             /\ mark' = [mark EXCEPT ![p] = "pending"]
             /\ status' = [status EXCEPT ![of[p]] = "queued"]
    <3>1. of[p] \in Session /\ status[of[p]] = "in_progress"
      BY <1>0, <2>1 DEF RowsInv, Unowned
    <3>2. NoNewRequeue
      BY <1>5 DEF RecoverClaim, NoNewRequeue
    <3> QED
      BY <1>1, <1>2, <2>1, <3>1, <3>2, ReturnEntry
  <2> QED
    BY <1>3, <1>5, <2>1 DEF RecoverClaim
<1>6. CASE RecoverDrain
  <2>1. UNCHANGED <<status, mark>> /\ StartDrain(NoSession, recovery.only)
    BY <1>6 DEF RecoverDrain, dbVars
  <2>2. NoNewRequeue
    BY <1>0, <2>1, StartDrainQuiet DEF NoNewRequeue
  <2> QED
    BY <1>1, <1>2, <2>1, <2>2, RowsEntry
<1>7. ASSUME NEW sn \in recovery.stale, ResolveOrphan(sn[1], sn[2]) PROVE EntryInv'
  <2>1. sn[1] \in Session
    BY DEF TypeInv, AuxInv, Recoveries
  <2>2. CASE Unowned(sn[1]) /\ EndRun(sn[1], "disconnected", FALSE)
    BY <1>2, <2>1, <2>2, EndRunEntry DEF Unowned, Terminal
  <2> QED
    BY <1>3, <1>7, <2>2 DEF ResolveOrphan, dbVars
<1> QED
  BY <1>4, <1>5, <1>6, <1>7 DEF SweepStep

LEMMA RestartEntry ==
  ASSUME EntryInv, Restart
  PROVE  EntryInv'
<1>1. UNCHANGED <<status, mark, of>>
  BY DEF Restart, dbVars
<1>2. NoUndo
  BY DEF NoUndo, Restart, IdleClient, ServedClient
<1>3. NoRequeue
  BY DEF NoRequeue, Restart, IdleDrain
<1>4. WaitingStay /\ QueuedStay
  BY <1>1 DEF WaitingStay, QueuedStay
<1> QED
  BY <1>2, <1>3, <1>4, EntryKept

LEMMA EntryInit == Init => EntryInv
BY DEF Init, EntryInv, QueuedHasEntry, RequeueOwed, IdleClient, IdleDrain

LEMMA EntryStep ==
  ASSUME NobodyWithdraws
  PROVE  QueueInv /\ EntryInv /\ [Next]_vars /\ [StaysCancelled]_vars => EntryInv'
<1> SUFFICES ASSUME QueueInv, EntryInv, [Next]_vars, [StaysCancelled]_vars PROVE EntryInv'
  OBVIOUS
<1>1. TypeInv /\ LockInv /\ ClaimInv
  BY DEF QueueInv, AdmissionInv
<1>2. CASE UNCHANGED vars
  <2>1. UNCHANGED <<status, mark, of, client, drain>>
    BY <1>2 DEF vars, dbVars
  <2>2. NoUndo /\ NoNewRequeue
    BY <2>1 DEF NoUndo, NoNewRequeue, EntryInv
  <2> QED
    BY <2>1, <2>2, RowsEntry
<1>3. CASE Next /\ StaysCancelled
  BY <1>1, <1>3, ClientEntry, DrainEntry, LaunchEntry, SweepEntry, RestartEntry DEF Next
<1> QED
  BY <1>2, <1>3

(* A queued session has an entry to run, as long as no request withdraws a
   waiting entry and no late write takes a cancelled session for a finished one:
   the hypothesis is what FindCancelled.cfg shows the code to break. *)
THEOREM EntriesQueued ==
  ASSUME NobodyWithdraws
  PROVE  Spec /\ CancelledRunStaysCancelled => []QueuedHasEntry
<1>1. CancelledRunStaysCancelled => [][StaysCancelled]_vars
  BY PTL DEF CancelledRunStaysCancelled, StaysCancelled
<1>2. EntryInv => QueuedHasEntry
  BY DEF EntryInv
<1> QED
  BY <1>1, <1>2, QueueInit, QueueStep, EntryInit, EntryStep, PTL DEF Spec

-----------------------------------------------------------------------------
(* A session that waits in the queue has no run under way, as long as only its
   own launch ends a run.  The invariant says who may act for a run: at any time
   its launch, or the handler or drain that is about to launch it, or the sweep
   that finds it after a crash, and only one of them.  The entry of the run goes
   from hand to hand with it. *)

Begins == {"created", "launch"}
Holders == {"preparing", "starting", "running", "exiting", "failing", "failed"}

UnderWay(s) == {l \in launches : l.s = s /\ l.phase # "closing"}
InFlight(s) == {p \in Pos : mark[p] = "dispatched" /\ of[p] = s}

\* The run dates from before the crash and the sweep has not come to it.
Stale(s) == <<s, run[s]>> \in recovery.stale
Free(s) == status[s] = "in_progress" /\ ~Stale(s) /\ UnderWay(s) = {}

UnderWayInv(s) ==
  /\ \A l, k \in UnderWay(s) : l = k
  /\ \A l \in UnderWay(s) :
       /\ status[s] = "in_progress" /\ run[s] = l.run /\ ~Stale(s)
       /\ InFlight(s) \subseteq {l.pos}
       /\ l.phase \in {"exiting", "failed", "unsaved"} => InFlight(s) = {}
       /\ l.phase \in Holders => owner[s] = l.run

ClosingInv(s) ==
  \A l \in launches : l.s = s /\ l.phase = "closing" =>
    l.run <= run[s] /\ (l.run = run[s] => status[s] # "in_progress")

FlightInv(s) ==
  /\ \A p \in InFlight(s) : status[s] = "in_progress" /\ (Stale(s) <=> p \in recovery.claims)
  /\ \A p, q \in InFlight(s) : p = q

StaleInv(s) ==
  /\ Stale(s) /\ status[s] = "in_progress" => owner[s] = 0
  /\ \A sn \in recovery.stale : sn[1] = s => sn[2] <= run[s]

BeginInv(s) ==
  /\ \A c \in Client : client[c].pc \in Begins /\ client[c].s = s =>
       Free(s) /\ client[c].run = run[s] /\ InFlight(s) = {}
  /\ \A d \in Drain : Launching(d) /\ of[drain[d].cur] = s =>
       Free(s) /\ InFlight(s) \subseteq {drain[d].cur}

SessionInv(s) ==
  UnderWayInv(s) /\ ClosingInv(s) /\ FlightInv(s) /\ StaleInv(s) /\ BeginInv(s)

SweepInv == recovery.pc = "orphans" => recovery.claims = {}

NobodyInterrupts == Ops \cap {"cancel", "patch"} = {}
CalmInv == stopping = {} /\ \A c \in Client : client[c].pc \notin {"stop", "stopQueued"}

RunInv == SweepInv /\ CalmInv /\ \A s \in Session : SessionInv(s)

\* What a step does to a session it does not work for: entries in flight may go,
\* and so may a slot that no launch needs.
Apart(s) ==
  /\ status'[s] = status[s] /\ run'[s] = run[s]
  /\ \/ owner'[s] = owner[s]
     \/ owner'[s] = 0 /\ \A l \in launches' : l.s = s => l.phase \notin Holders
  /\ \A l \in launches' : l.s = s => l \in launches
  /\ Stale(s)' <=> Stale(s)
  /\ \A p \in Pos : mark'[p] = "dispatched" /\ of'[p] = s =>
       /\ mark[p] = "dispatched" /\ of[p] = s
       /\ p \in recovery'.claims <=> p \in recovery.claims
  /\ \A c \in Client : client'[c].pc \in Begins /\ client'[c].s = s => client'[c] = client[c]
  /\ \A d \in Drain : Launching(d)' /\ of'[drain'[d].cur] = s =>
       drain'[d] = drain[d] /\ of[drain[d].cur] = s

FewerStale == recovery'.stale \subseteq recovery.stale

LEMMA ApartKept ==
  ASSUME NEW s \in Session, SessionInv(s), Apart(s), FewerStale
  PROVE  SessionInv(s)'
<1>1. UnderWay(s)' \subseteq UnderWay(s) /\ InFlight(s)' \subseteq InFlight(s)
  BY DEF UnderWay, InFlight, Apart
<1>2. Stale(s)' <=> Stale(s)
  BY DEF Apart
<1>3. Free(s) => Free(s)'
  BY <1>1, <1>2 DEF Free, Apart
<1>4. UnderWayInv(s)'
  <2>1. \A l \in UnderWay(s)' : l.phase \in Holders => owner'[s] = owner[s]
    BY DEF UnderWay, Apart
  <2> QED
    BY <1>1, <1>2, <2>1 DEF SessionInv, UnderWayInv, Apart
<1>5. ClosingInv(s)'
  BY DEF SessionInv, ClosingInv, Apart
<1>6. FlightInv(s)'
  <2>1. \A p \in InFlight(s)' : p \in recovery'.claims <=> p \in recovery.claims
    BY DEF InFlight, Apart
  <2> QED
    BY <1>1, <1>2, <2>1 DEF SessionInv, FlightInv, Apart
<1>7. StaleInv(s)'
  BY <1>2 DEF SessionInv, StaleInv, Apart, FewerStale
<1>8. BeginInv(s)'
  <2>1. ASSUME NEW c \in Client, client'[c].pc \in Begins, client'[c].s = s
        PROVE  Free(s)' /\ client'[c].run = run'[s] /\ InFlight(s)' = {}
    <3>1. client'[c] = client[c]
      BY <2>1 DEF Apart
    <3> QED
      BY <2>1, <3>1, <1>1, <1>3 DEF SessionInv, BeginInv, Apart
  <2>2. ASSUME NEW d \in Drain, Launching(d)', of'[drain'[d].cur] = s
        PROVE  Free(s)' /\ InFlight(s)' \subseteq {drain'[d].cur}
    <3>1. drain'[d] = drain[d] /\ of[drain[d].cur] = s
      BY <2>2 DEF Apart
    <3> QED
      BY <2>2, <3>1, <1>1, <1>3 DEF SessionInv, BeginInv, Launching
  <2> QED
    BY <2>1, <2>2 DEF BeginInv, Launching
<1> QED
  BY <1>4, <1>5, <1>6, <1>7, <1>8 DEF SessionInv

\* Nobody is about to launch the session.
Unclaimed(s) ==
  /\ \A c \in Client : client[c].pc \in Begins => client[c].s # s
  /\ \A d \in Drain : Launching(d) => of[drain[d].cur] # s

LEMMA Resting ==
  ASSUME NEW s \in Session, SessionInv(s), status[s] # "in_progress"
  PROVE  UnderWay(s) = {} /\ InFlight(s) = {} /\ Unclaimed(s)
BY DEF SessionInv, UnderWayInv, FlightInv, BeginInv, Free, Unclaimed

LEMMA Underway ==
  ASSUME NEW s \in Session, SessionInv(s), UnderWay(s) # {} \/ Stale(s)
  PROVE  Unclaimed(s)
BY DEF SessionInv, BeginInv, Free, Unclaimed

\* The session has no run any more.
LEMMA Ended ==
  ASSUME NEW s \in Session, SessionInv(s), status'[s] # "in_progress", run'[s] = run[s],
         \A l \in launches' : l.s = s => l.phase = "closing" /\ l.run <= run[s],
         \A p \in Pos : mark'[p] = "dispatched" => of'[p] # s,
         Unclaimed(s)', FewerStale
  PROVE  SessionInv(s)'
<1>1. UnderWay(s)' = {} /\ InFlight(s)' = {}
  BY DEF UnderWay, InFlight
<1>2. UnderWayInv(s)' /\ FlightInv(s)'
  BY <1>1 DEF UnderWayInv, FlightInv
<1>3. ClosingInv(s)'
  BY DEF ClosingInv
<1>4. StaleInv(s)'
  BY DEF SessionInv, StaleInv, FewerStale
<1>5. BeginInv(s)'
  BY DEF BeginInv, Unclaimed, Launching
<1> QED
  BY <1>2, <1>3, <1>4, <1>5 DEF SessionInv

\* The status of a session without a run changes.
LEMMA StillEnded ==
  ASSUME TypeInv, NEW s \in Session, SessionInv(s), status[s] # "in_progress",
         status'[s] # "in_progress", run'[s] = run[s],
         \A l \in launches' : l.s = s => l \in launches,
         \A p \in Pos : mark'[p] = "dispatched" => mark[p] = "dispatched" /\ of'[p] = of[p],
         Unclaimed(s)', FewerStale
  PROVE  SessionInv(s)'
<1>1. UnderWay(s) = {} /\ InFlight(s) = {}
  BY Resting
<1>2. \A l \in launches' : l.s = s => l.phase = "closing" /\ l.run <= run[s]
  BY <1>1 DEF UnderWay, SessionInv, ClosingInv
<1>3. \A p \in Pos : mark'[p] = "dispatched" => of'[p] # s
  BY <1>1 DEF InFlight
<1> QED
  BY <1>2, <1>3, Ended

\* A run of the session starts.
LEMMA Started ==
  ASSUME TypeInv, NEW s \in Session, SessionInv(s), status[s] # "in_progress",
         status'[s] = "in_progress", run'[s] = run[s] + 1,
         UNCHANGED <<launches, recovery>>,
         \A p \in InFlight(s)' : p \notin recovery.claims,
         \A p, q \in InFlight(s)' : p = q,
         \A c \in Client : client'[c].pc \in Begins /\ client'[c].s = s =>
           client'[c].run = run'[s] /\ InFlight(s)' = {},
         \A d \in Drain : Launching(d)' /\ of'[drain'[d].cur] = s =>
           InFlight(s)' \subseteq {drain'[d].cur}
  PROVE  SessionInv(s)'
<1>0. run[s] \in Nat
  BY DEF TypeInv, RowsInv
<1>1. UnderWay(s) = {}
  BY Resting
<1>2. UnderWay(s)' = {}
  BY <1>1 DEF UnderWay
<1>3. ~Stale(s)'
  BY <1>0 DEF Stale, SessionInv, StaleInv
<1>4. Free(s)'
  BY <1>2, <1>3 DEF Free
<1>5. UnderWayInv(s)'
  BY <1>2 DEF UnderWayInv
<1>6. ClosingInv(s)'
  <2>1. \A l \in launches : l.run \in Nat
    BY DEF TypeInv, HostInv, Launches
  <2> QED
    BY <1>0, <2>1 DEF ClosingInv, SessionInv
<1>7. FlightInv(s)'
  BY <1>3 DEF FlightInv
<1>8. StaleInv(s)'
  <2>1. \A sn \in recovery.stale : sn[2] \in Nat
    BY DEF TypeInv, AuxInv, Recoveries
  <2> QED
    BY <1>0, <1>3, <2>1 DEF StaleInv, SessionInv
<1>9. BeginInv(s)'
  BY <1>4 DEF BeginInv, Launching
<1> QED
  BY <1>5, <1>6, <1>7, <1>8, <1>9 DEF SessionInv

\* The run of the session gets its launch.
LEMMA Launched ==
  ASSUME NEW s \in Session, SessionInv(s), status[s] = "in_progress",
         UnderWay(s) = {}, status'[s] = status[s], run'[s] = run[s],
         NEW m, launches' = launches \cup {m}, m.s = s, m.run = run[s],
         m.phase \in {"preparing", "starting", "unready"},
         m.phase # "unready" => owner'[s] = m.run,
         ~Stale(s)', FewerStale, InFlight(s)' \subseteq {m.pos},
         m.pos \notin recovery'.claims, Unclaimed(s)'
  PROVE  SessionInv(s)'
<1>1. UnderWay(s)' = {m}
  BY DEF UnderWay
<1>2. UnderWayInv(s)'
  BY <1>1 DEF UnderWayInv, Holders
<1>3. ClosingInv(s)'
  BY DEF ClosingInv, SessionInv
<1>4. FlightInv(s)'
  BY DEF FlightInv
<1>5. StaleInv(s)'
  BY DEF StaleInv, SessionInv, FewerStale
<1>6. BeginInv(s)'
  BY DEF BeginInv, Unclaimed, Launching
<1> QED
  BY <1>2, <1>3, <1>4, <1>5, <1>6 DEF SessionInv

\* The launch of the session's run gets on.
LEMMA Advanced ==
  ASSUME NEW s \in Session, SessionInv(s), NEW l \in UnderWay(s),
         status'[s] = status[s], run'[s] = run[s], recovery' = recovery,
         NEW m, launches' = (launches \ {l}) \cup {m}, m.s = s, m.run = l.run, m.pos = l.pos,
         m.phase # "closing", m.phase \in Holders => owner'[s] = l.run,
         InFlight(s)' \subseteq InFlight(s),
         m.phase \in {"exiting", "failed", "unsaved"} => InFlight(s)' = {},
         Unclaimed(s)'
  PROVE  SessionInv(s)'
<1>0. /\ \A k \in UnderWay(s) : k = l
      /\ status[s] = "in_progress" /\ run[s] = l.run /\ ~Stale(s)
      /\ InFlight(s) \subseteq {l.pos} /\ l.s = s
  BY DEF SessionInv, UnderWayInv, UnderWay
<1>1. UnderWay(s)' = {m}
  BY <1>0 DEF UnderWay
<1>2. Stale(s)' <=> Stale(s)
  BY DEF Stale
<1>3. UnderWayInv(s)'
  BY <1>0, <1>1, <1>2 DEF UnderWayInv
<1>4. ClosingInv(s)'
  BY DEF ClosingInv, SessionInv
<1>5. FlightInv(s)'
  BY <1>2 DEF FlightInv, SessionInv
<1>6. StaleInv(s)'
  BY <1>0, <1>2 DEF StaleInv, SessionInv
<1>7. BeginInv(s)'
  BY DEF BeginInv, Unclaimed, Launching
<1> QED
  BY <1>3, <1>4, <1>5, <1>6, <1>7 DEF SessionInv

FlightKept ==
  \A p \in Pos : mark'[p] = "dispatched" => mark[p] = "dispatched" /\ of'[p] = of[p]
LinksKept == \A d \in Drain : Launching(d) => of'[drain[d].cur] = of[drain[d].cur]
BeginsKept == \A c \in Client : client'[c].pc \in Begins => client'[c] = client[c]

LEMMA TakenLinks ==
  ASSUME TypeInv, HeldInv, TakenKept \/ of' = of
  PROVE  LinksKept
BY ClaimTypes DEF LinksKept, HeldInv, TakenKept

LEMMA FewerFlights ==
  ASSUME RowsInv, of' = of,
         \/ mark' = mark
         \/ \E p : mark' = WithoutEntry(p)
         \/ \E s : mark' = WithoutEntriesOf(s)
  PROVE  FlightKept
BY DEF FlightKept, RowsInv, WithoutEntry, WithoutEntriesOf

LEMMA InsertFlights ==
  ASSUME RowsInv, NEW s, Insert(s, "pending")
  PROVE  FlightKept
BY DEF FlightKept, RowsInv, Insert

\* A step that works for no session.
LEMMA NothingMoves ==
  ASSUME RunInv, UNCHANGED <<status, run, owner, recovery>>, launches' \subseteq launches,
         FlightKept, LinksKept, BeginsKept, LaunchersKept, CalmInv'
  PROVE  RunInv'
<1>1. ASSUME NEW s \in Session PROVE SessionInv(s)'
  <2>1. Apart(s)
    <3>1. \A d \in Drain : Launching(d)' => drain'[d] = drain[d] /\ Launching(d)
      BY DEF LaunchersKept, Launching
    <3> QED
      BY <3>1 DEF Apart, Stale, FlightKept, LinksKept, BeginsKept
  <2> QED
    BY <2>1, ApartKept DEF RunInv, FewerStale
<1> QED
  BY <1>1 DEF RunInv, SweepInv

\* What a step that works for the session x does to the others.
OthersApart(x) ==
  /\ \A s \in Session : s # x =>
       /\ status'[s] = status[s] /\ run'[s] = run[s] /\ owner'[s] = owner[s]
       /\ Stale(s)' <=> Stale(s)
  /\ \A l \in launches' : l.s # x => l \in launches
  /\ \A p \in Pos : mark'[p] = "dispatched" /\ of'[p] # x =>
       /\ mark[p] = "dispatched" /\ of'[p] = of[p]
       /\ p \in recovery'.claims <=> p \in recovery.claims
  /\ \A c \in Client : client'[c].pc \in Begins /\ client'[c].s # x => client'[c] = client[c]
  /\ \A d \in Drain : Launching(d)' /\ of'[drain'[d].cur] # x => drain'[d] = drain[d]

LEMMA OneMoves ==
  ASSUME RunInv, NEW x \in Session, SessionInv(x)', OthersApart(x), FewerStale, LinksKept,
         SweepInv', CalmInv'
  PROVE  RunInv'
<1>1. ASSUME NEW s \in Session, s # x PROVE SessionInv(s)'
  <2>1. Apart(s)
    <3>1. \A d \in Drain : Launching(d)' /\ of'[drain'[d].cur] = s =>
            drain'[d] = drain[d] /\ of[drain[d].cur] = s
      BY <1>1 DEF OthersApart, Launching, LinksKept
    <3>2. \A p \in Pos : mark'[p] = "dispatched" /\ of'[p] = s =>
            /\ mark[p] = "dispatched" /\ of[p] = s
            /\ p \in recovery'.claims <=> p \in recovery.claims
      BY <1>1 DEF OthersApart
    <3>3. /\ status'[s] = status[s] /\ run'[s] = run[s] /\ owner'[s] = owner[s]
          /\ Stale(s)' <=> Stale(s)
          /\ \A l \in launches' : l.s = s => l \in launches
          /\ \A c \in Client : client'[c].pc \in Begins /\ client'[c].s = s => client'[c] = client[c]
      BY <1>1 DEF OthersApart
    <3> QED
      BY <3>1, <3>2, <3>3 DEF Apart
  <2> QED
    BY <2>1, ApartKept DEF RunInv
<1> QED
  BY <1>1 DEF RunInv

\* Without cancels nobody stops a run.
LEMMA CalmStep ==
  ASSUME TypeInv, CalmInv, NobodyInterrupts, [Next]_vars
  PROVE  CalmInv'
<1>0. /\ stopping = {} /\ \A b \in Client : client[b].pc \notin {"stop", "stopQueued"}
      /\ ClientsInv /\ "cancel" \notin Ops
  BY DEF CalmInv, TypeInv, NobodyInterrupts
<1>1. stopping' = {}
  <2>1. ASSUME NEW c \in Client, Request(c) \/ ClientStep(c) PROVE stopping' = {}
    BY <1>0, <2>1 DEF Request, ClientStep, CreateEnter, FollowUpEnter, CancelRead, PatchStatus,
       RemoveQueued, CreateQueued, CreateDropQueued, CreateStarted, CreateHookFails,
       CreateAborted, CreateThrows, CreateLaunch, FollowUpInsert, FollowUpCapacity,
       FollowUpQueue, FollowUpUndo, FollowUpResume, FollowUpLaunch, CancelQueued, CancelWrite,
       Launch, hostVars
  <2>2. ASSUME NEW d \in Drain, DrainStep(d) PROVE stopping' = {}
    BY <1>0, <2>2 DEF DrainStep, DrainList, DrainRequeue, DrainNext, DrainAdmit, DrainClaim,
       DrainLaunch, Launch, hostVars
  <2>3. ASSUME NEW l \in launches, LaunchStep(l) PROVE stopping' = {}
    BY <1>0, <2>3 DEF LaunchStep, HarnessStart, HarnessAccept, InitFails, StartFails,
       FailRemovesEntry, FailEndsRun, LaunchRetries, LaunchCloses, ExitRead, ExitWrite, Forget
  <2>4. ASSUME SweepStep PROVE stopping' = {}
    BY <1>0, <2>4 DEF SweepStep, RemoveAccepted, RecoverClaim, RecoverDrain, ResolveOrphan,
       Launch, hostVars
  <2>5. CASE UNCHANGED vars
    BY <1>0, <2>5 DEF vars, hostVars
  <2>6. CASE Restart
    BY <2>6 DEF Restart
  <2> QED
    BY <2>1, <2>2, <2>3, <2>4, <2>5, <2>6 DEF Next
<1>2. ASSUME NEW c \in Client, NEW pc, pc \notin {"stop", "stopQueued"}, NEW n,
             \/ client' = [client EXCEPT ![c] = ServedClient] \/ Release(c)
             \/ client' = [client EXCEPT ![c].pc = pc]
             \/ client' = [client EXCEPT ![c].pc = pc, ![c].run = n]
             \/ client' = [client EXCEPT ![c].pc = pc, ![c].pos = n]
      PROVE  CalmInv'
  BY <1>0, <1>1, <1>2 DEF CalmInv, ClientsInv, Clients, ServedClient, IdleClient, Release
<1>3. ASSUME NEW c \in Client, Request(c) \/ ClientStep(c) PROVE CalmInv'
  <2>1. ASSUME NEW s \in Session, CreateEnter(c, s) \/ FollowUpEnter(c, s) PROVE CalmInv'
    <3>1. ASSUME NEW r, r.pc \notin {"stop", "stopQueued"}, client' = [client EXCEPT ![c] = r]
          PROVE  CalmInv'
      BY <1>0, <1>1, <3>1 DEF CalmInv, ClientsInv
    <3> QED
      BY <2>1, <3>1 DEF CreateEnter, FollowUpEnter, Enter, IdleClient
  <2>2. CASE CreateDropQueued(c) \/ CreateThrows(c) \/ CreateLaunch(c) \/ FollowUpUndo(c)
             \/ FollowUpLaunch(c)
    BY <1>2, <2>2 DEF CreateDropQueued, CreateThrows, CreateLaunch, FollowUpUndo, FollowUpLaunch
  <2>3. CASE \/ CreateQueued(c) \/ CreateStarted(c) \/ CreateHookFails(c) \/ CreateAborted(c)
             \/ FollowUpInsert(c) \/ FollowUpCapacity(c) \/ FollowUpQueue(c) \/ FollowUpResume(c)
    <3>1. CASE CreateQueued(c)
      BY <1>2, <3>1 DEF CreateQueued
    <3>5. CASE CreateStarted(c)
      BY <1>2, <3>5 DEF CreateStarted
    <3>6. CASE CreateHookFails(c) \/ CreateAborted(c)
      BY <1>2, <3>6 DEF CreateHookFails, CreateAborted
    <3>2. CASE FollowUpInsert(c)
      BY <1>2, <3>2 DEF FollowUpInsert
    <3>3. CASE FollowUpCapacity(c)
      BY <1>2, <3>3 DEF FollowUpCapacity
    <3>4. CASE FollowUpQueue(c) \/ FollowUpResume(c)
      BY <1>2, <3>4 DEF FollowUpQueue, FollowUpResume
    <3> QED
      BY <2>3, <3>1, <3>2, <3>3, <3>4, <3>5, <3>6
  <2>4. CASE CancelQueued(c) \/ CancelWrite(c)
    BY <1>0, <2>4 DEF CancelQueued, CancelWrite
  <2>5. ASSUME NEW s \in Session, CancelRead(c, s) \/ \E st : PatchStatus(c, s, st)
        PROVE  CalmInv'
    BY <2>5 DEF NobodyInterrupts, CancelRead, PatchStatus
  <2>6. ASSUME NEW p \in Pos, RemoveQueued(c, p) PROVE CalmInv'
    BY <1>2, <2>6 DEF RemoveQueued
  <2> QED
    BY <1>3, <2>1, <2>2, <2>3, <2>4, <2>5, <2>6 DEF Request, ClientStep
<1>4. ASSUME client' = client PROVE CalmInv'
  BY <1>0, <1>1, <1>4 DEF CalmInv
<1>5. ASSUME \/ \E d \in Drain : DrainStep(d)
             \/ \E l \in launches : LaunchStep(l)
             \/ SweepStep
      PROVE  client' = client
  <2>1. ASSUME NEW d \in Drain, DrainStep(d) PROVE client' = client
    BY <2>1 DEF DrainStep, DrainList, DrainRequeue, DrainNext, DrainAdmit, DrainClaim, DrainLaunch
  <2>2. ASSUME NEW l \in launches, LaunchStep(l) PROVE client' = client
    BY <2>2 DEF LaunchStep, HarnessStart, HarnessAccept, InitFails, StartFails,
       FailRemovesEntry, FailEndsRun, LaunchRetries, LaunchCloses, ExitRead, ExitWrite
  <2>3. ASSUME SweepStep PROVE client' = client
    BY <2>3 DEF SweepStep, RemoveAccepted, RecoverClaim, RecoverDrain, ResolveOrphan
  <2> QED
    BY <1>5, <2>1, <2>2, <2>3
<1>6. CASE Restart
  BY <1>1, <1>6 DEF Restart, CalmInv, IdleClient, ServedClient
<1>7. CASE UNCHANGED vars
  BY <1>4, <1>7 DEF vars
<1> QED
  BY <1>3, <1>4, <1>5, <1>6, <1>7 DEF Next

(* The handler in the scheduling lock is the only one that launches. *)
LEMMA LoneHolder ==
  ASSUME LockInv, NEW c \in Client, client[c].pc \in Locked
  PROVE  /\ \A b \in Client : b # c => client[b].pc \notin Begins
         /\ \A d \in Drain : ~Launching(d)
BY SlotsAssumption DEF LockInv, Begins, Locked, Holds, Launching

LEMMA ClientRuns ==
  ASSUME QueueInv, RunInv, CalmInv', NobodyInterrupts,
         NEW c \in Client, Request(c) \/ ClientStep(c)
  PROVE  RunInv'
<1>0. /\ TypeInv /\ RowsInv /\ DrainsInv /\ ClientsInv /\ LockInv /\ IdleInv /\ HeldInv
      /\ client[c].pc \notin {"idle", "done"} => client[c].s \in Session
      /\ client[c].pc \notin {"stop", "stopQueued"}
      /\ "cancel" \notin Ops /\ "patch" \notin Ops
      /\ \A s \in Session : SessionInv(s)
  <2>1. TypeInv /\ LockInv /\ IdleInv /\ HeldInv
    BY DEF QueueInv, AdmissionInv, ClaimInv
  <2>2. client[c].pc \notin {"idle", "done"} => client[c].s \in Session
    BY <2>1 DEF TypeInv, ClientsInv
  <2>3. "cancel" \notin Ops /\ "patch" \notin Ops
    BY DEF NobodyInterrupts
  <2>4. client[c].pc \notin {"stop", "stopQueued"} /\ \A s \in Session : SessionInv(s)
    BY DEF RunInv, CalmInv
  <2> QED
    BY <2>1, <2>2, <2>3, <2>4 DEF TypeInv
<1>1. SweepInv
  BY DEF RunInv
<1>2. ASSUME recovery' = recovery PROVE SweepInv' /\ FewerStale
  BY <1>1, <1>2 DEF SweepInv, FewerStale
<1>3. client[c].pc \in Locked =>
        /\ \A b \in Client : b # c => client[b].pc \notin Begins
        /\ \A d \in Drain : ~Launching(d)
  BY <1>0, LoneHolder
<1>4. ASSUME \/ client' = [client EXCEPT ![c] = ServedClient] \/ Release(c)
             \/ \E pc : /\ pc \notin Begins
                        /\ \/ client' = [client EXCEPT ![c].pc = pc]
                           \/ \E n : client' = [client EXCEPT ![c].pc = pc, ![c].pos = n]
      PROVE  /\ \A b \in Client : b # c => client'[b] = client[b]
             /\ client'[c].pc \notin Begins /\ BeginsKept
  <2>1. client'[c].pc \notin Begins
    <3>1. CASE client' = [client EXCEPT ![c] = ServedClient] \/ Release(c)
      BY <1>0, <3>1 DEF ClientsInv, Release, ServedClient, IdleClient, Begins
    <3>2. ASSUME NEW pc, pc \notin Begins, NEW n,
                 \/ client' = [client EXCEPT ![c].pc = pc]
                 \/ client' = [client EXCEPT ![c].pc = pc, ![c].pos = n]
          PROVE  client'[c].pc \notin Begins
      BY <1>0, <3>2 DEF ClientsInv, Clients
    <3> QED
      BY <1>4, <3>1, <3>2
  <2>2. \A b \in Client : b # c => client'[b] = client[b]
    BY <1>0, <1>4 DEF ClientsInv, Release
  <2> QED
    BY <2>1, <2>2 DEF BeginsKept
<1>5. ASSUME UNCHANGED <<dbVars, owner, launches, recovery, drain>>, BeginsKept PROVE RunInv'
  <2>1. FlightKept /\ LinksKept /\ LaunchersKept
    BY <1>5 DEF FlightKept, LinksKept, LaunchersKept, dbVars
  <2> QED
    BY <1>5, <2>1, NothingMoves DEF dbVars
<1>6. ASSUME NEW s \in Session, CreateEnter(c, s) \/ FollowUpEnter(c, s) PROVE RunInv'
  <2>1. ASSUME NEW r, r.pc \notin Begins, client' = [client EXCEPT ![c] = r] PROVE BeginsKept
    BY <1>0, <2>1 DEF ClientsInv, BeginsKept
  <2>2. BeginsKept
    BY <1>6, <2>1 DEF CreateEnter, FollowUpEnter, Enter, IdleClient, Begins
  <2> QED
    BY <1>5, <1>6, <2>2 DEF CreateEnter, FollowUpEnter, hostVars, auxVars
<1>7. CASE CreateThrows(c)
  BY <1>4, <1>5, <1>7 DEF CreateThrows, hostVars, auxVars
<1>8. CASE FollowUpCapacity(c)
  <2>1. BeginsKept
    BY <1>4, <1>8 DEF FollowUpCapacity, Begins
  <2> QED
    BY <1>5, <1>8, <2>1 DEF FollowUpCapacity, hostVars, auxVars
<1>9. CASE CreateQueued(c) \/ FollowUpQueue(c)
  <2> PICK x \in Session : x = client[c].s
    BY <1>0, <1>9 DEF CreateQueued, FollowUpQueue
  <2>1. /\ client[c].pc \in Locked /\ status[x] # "in_progress"
        /\ status' = [status EXCEPT ![x] = "queued"] /\ Insert(x, "pending")
        /\ UNCHANGED <<run, drain, owner, launches, recovery>>
    BY <1>0, <1>9 DEF CreateQueued, FollowUpQueue, Locked, IdleInv, Deciding, hostVars, auxVars
  <2>2. BeginsKept /\ client'[c].pc \notin Begins
    <3>1. CASE CreateQueued(c)
      BY <1>4, <3>1 DEF CreateQueued, Begins
    <3>2. CASE FollowUpQueue(c)
      BY <1>4, <3>2 DEF FollowUpQueue, Begins
    <3> QED
      BY <1>9, <3>1, <3>2
  <2>3. FlightKept
    BY <1>0, <2>1, InsertFlights
  <2>4. \A b \in Client : client'[b].pc \notin Begins
    BY <1>3, <2>1, <2>2 DEF BeginsKept
  <2>5. \A d \in Drain : ~Launching(d)'
    BY <1>3, <2>1 DEF Launching
  <2>6. /\ status'[x] # "in_progress"
        /\ \A s \in Session : s # x => status'[s] = status[s]
    BY <1>0, <2>1 DEF RowsInv
  <2>7. SweepInv' /\ FewerStale /\ LinksKept
    BY <1>2, <1>3, <2>1 DEF LinksKept
  <2>8. SessionInv(x)'
    BY <1>0, <2>1, <2>3, <2>4, <2>5, <2>6, <2>7, StillEnded DEF FlightKept, Unclaimed, Launching
  <2>9. OthersApart(x)
    BY <2>1, <2>3, <2>4, <2>5, <2>6 DEF OthersApart, FlightKept, Stale, Launching
  <2> QED
    BY <2>7, <2>8, <2>9, OneMoves
<1>10. CASE CreateDropQueued(c)
  <2> PICK x \in Session : x = client[c].s
    BY <1>0, <1>10 DEF CreateDropQueued
  <2>1. /\ client[c].pc \in Locked /\ Release(c)
        /\ UNCHANGED <<run, of, drain, owner, launches, recovery>>
    BY <1>10 DEF CreateDropQueued, Locked, hostVars, auxVars
  <2>2. BeginsKept /\ client'[c].pc \notin Begins
    BY <1>4, <2>1
  <2>3. CASE UNCHANGED <<status, mark>>
    <3>1. FlightKept /\ LinksKept /\ LaunchersKept
      BY <2>1, <2>3 DEF FlightKept, LinksKept, LaunchersKept
    <3> QED
      BY <2>1, <2>2, <2>3, <3>1, NothingMoves
  <2>4. CASE /\ status[x] = "queued"
             /\ status' = [status EXCEPT ![x] = "cancelled"]
             /\ mark' = WithoutEntriesOf(x)
    <3>1. FlightKept
      BY <1>0, <2>1, <2>4, FewerFlights
    <3>2. \A b \in Client : client'[b].pc \notin Begins
      BY <1>3, <2>1, <2>2 DEF BeginsKept
    <3>3. \A d \in Drain : ~Launching(d)'
      BY <1>3, <2>1 DEF Launching
    <3>4. /\ status'[x] # "in_progress" /\ status[x] # "in_progress"
          /\ \A s \in Session : s # x => status'[s] = status[s]
      BY <1>0, <2>4 DEF RowsInv
    <3>5. SweepInv' /\ FewerStale /\ LinksKept
      BY <1>2, <1>3, <2>1 DEF LinksKept
    <3>6. SessionInv(x)'
      BY <1>0, <2>1, <3>1, <3>2, <3>3, <3>4, <3>5, StillEnded DEF FlightKept, Unclaimed, Launching
    <3>7. OthersApart(x)
      BY <2>1, <3>1, <3>2, <3>3, <3>4 DEF OthersApart, FlightKept, Stale, Launching
    <3> QED
      BY <3>5, <3>6, <3>7, OneMoves
  <2> QED
    BY <1>10, <2>3, <2>4 DEF CreateDropQueued
<1>11. CASE CreateStarted(c) \/ FollowUpResume(c)
  <2> PICK x \in Session : x = client[c].s
    BY <1>0, <1>11 DEF CreateStarted, FollowUpResume
  <2>1. /\ client[c].pc \in Locked /\ status[x] # "in_progress"
        /\ status' = [status EXCEPT ![x] = "in_progress"] /\ run' = [run EXCEPT ![x] = @ + 1]
        /\ UNCHANGED <<mark, of, drain, owner, launches, recovery>>
    BY <1>0, <1>11 DEF CreateStarted, FollowUpResume, Locked, IdleInv, Deciding, hostVars, auxVars
  <2>2. \E pc : client' = [client EXCEPT ![c].pc = pc, ![c].run = run[x] + 1]
    BY <1>11 DEF CreateStarted, FollowUpResume
  <2>3. /\ \A b \in Client : b # c => client'[b] = client[b]
        /\ client'[c].s = x /\ client'[c].run = run[x] + 1
    BY <1>0, <2>2 DEF ClientsInv, Clients
  <2>4. InFlight(x) = {} /\ InFlight(x)' = {}
    BY <1>0, <2>1, Resting DEF InFlight
  <2>5. \A d \in Drain : ~Launching(d)'
    BY <1>3, <2>1 DEF Launching
  <2>6. /\ status'[x] = "in_progress" /\ run'[x] = run[x] + 1
        /\ \A s \in Session : s # x => status'[s] = status[s] /\ run'[s] = run[s]
    BY <1>0, <2>1 DEF RowsInv
  <2>7. SweepInv' /\ FewerStale /\ LinksKept
    BY <1>2, <1>3, <2>1 DEF LinksKept
  <2>8. \A b \in Client : client'[b].pc \in Begins => b = c
    BY <1>3, <2>1, <2>3
  <2>9. SessionInv(x)'
    BY <1>0, <2>1, <2>3, <2>4, <2>5, <2>6, <2>8, Started DEF Launching
  <2>10. OthersApart(x)
    BY <2>1, <2>3, <2>5, <2>6, <2>8 DEF OthersApart, Stale, Launching
  <2> QED
    BY <2>7, <2>9, <2>10, OneMoves
<1>12. CASE CreateHookFails(c) \/ CreateAborted(c)
  <2> PICK x \in Session : x = client[c].s
    BY <1>0, <1>12 DEF CreateHookFails, CreateAborted, CancelsInLock
  <2>1. /\ client[c].pc = "created" \/ status[x] # "in_progress"
        /\ client[c].pc \in Locked
        /\ \E st \in {"failed", "cancelled"} : status' = [status EXCEPT ![x] = st]
        /\ mark' = mark \/ mark' = WithoutEntriesOf(x)
        /\ \E rel : StartDrain(rel, Pos)
        /\ client' = [client EXCEPT ![c].pc = "awaitDrain"]
        /\ UNCHANGED <<run, of, owner, launches, recovery>>
    BY <1>0, <1>12
       DEF CreateHookFails, CreateAborted, CancelsInLock, EndRun, Locked, IdleInv, Deciding,
           hostVars, auxVars
  <2>2. BeginsKept /\ client'[c].pc \notin Begins
    BY <1>4, <2>1 DEF Begins
  <2>3. FlightKept
    BY <1>0, <2>1, FewerFlights
  <2>4. \A b \in Client : client'[b].pc \notin Begins
    BY <1>3, <2>1, <2>2 DEF BeginsKept
  <2>5. \A d \in Drain : ~Launching(d)'
    <3>1. LaunchersKept
      BY <1>0, <2>1, StartDrainClaims
    <3> QED
      BY <1>3, <2>1, <3>1 DEF LaunchersKept, Launching
  <2>6. /\ status'[x] # "in_progress"
        /\ \A s \in Session : s # x => status'[s] = status[s]
    BY <1>0, <2>1 DEF RowsInv
  <2>7. SweepInv' /\ FewerStale /\ LinksKept
    BY <1>2, <1>3, <2>1 DEF LinksKept
  <2>8. UnderWay(x) = {} /\ InFlight(x) = {}
    BY <1>0, <2>1, Resting DEF SessionInv, BeginInv, Begins, Free
  <2>9. SessionInv(x)'
    <3>1. \A l \in launches' : l.s = x => l.phase = "closing" /\ l.run <= run[x]
      BY <1>0, <2>1, <2>8 DEF UnderWay, SessionInv, ClosingInv
    <3>2. \A p \in Pos : mark'[p] = "dispatched" => of'[p] # x
      BY <2>3, <2>8 DEF FlightKept, InFlight
    <3> QED
      BY <1>0, <2>1, <2>4, <2>5, <2>6, <2>7, <3>1, <3>2, Ended DEF Unclaimed, Launching
  <2>10. OthersApart(x)
    BY <2>1, <2>3, <2>4, <2>5, <2>6 DEF OthersApart, FlightKept, Stale, Launching
  <2> QED
    BY <2>7, <2>9, <2>10, OneMoves
<1>13. CASE CreateLaunch(c) \/ FollowUpLaunch(c)
  <2> PICK x \in Session : x = client[c].s
    BY <1>0, <1>13 DEF CreateLaunch, FollowUpLaunch
  <2>1. /\ client[c].pc \in Begins /\ client[c].pc \in Locked /\ Release(c)
        /\ UNCHANGED <<status, run, drain, recovery>>
        /\ \/ Insert(x, "dispatched") /\ Launch(x, client[c].run, nextPos, "preparing", FALSE)
           \/ UNCHANGED <<mark, of>> /\ Launch(x, client[c].run, 0, "preparing", FALSE)
    BY <1>13 DEF CreateLaunch, FollowUpLaunch, Begins, Locked, auxVars
  <2>2. BeginsKept /\ client'[c].pc \notin Begins
    BY <1>4, <2>1
  <2>3. \A b \in Client : client'[b].pc \notin Begins
    BY <1>3, <2>1, <2>2 DEF BeginsKept
  <2>4. \A d \in Drain : ~Launching(d)'
    BY <1>3, <2>1 DEF Launching
  <2>5. SweepInv' /\ FewerStale /\ LinksKept
    BY <1>2, <1>3, <2>1 DEF LinksKept
  <2>6. Free(x) /\ client[c].run = run[x] /\ InFlight(x) = {}
    BY <1>0, <2>1 DEF SessionInv, BeginInv
  <2>7. ASSUME NEW p \in Pos \cup {0}, Launch(x, client[c].run, p, "preparing", FALSE),
               \A q \in Pos : q # p => mark'[q] = mark[q] /\ of'[q] = of[q],
               p \in Pos => of'[p] = x, p \notin recovery.claims
        PROVE  RunInv'
    <3> DEFINE m == [s |-> x, run |-> client[c].run, pos |-> p, phase |-> "preparing",
                     queued |-> FALSE, prev |-> owner[x]]
    <3>1. /\ launches' = launches \cup {m} /\ m.s = x /\ m.run = run[x] /\ m.pos = p
          /\ m.phase = "preparing"
      BY <2>6, <2>7 DEF Launch
    <3> HIDE DEF m
    <3>2. owner'[x] = run[x] /\ \A s \in Session : s # x => owner'[s] = owner[s]
      BY <1>0, <2>6, <2>7 DEF Launch, TypeInv, HostInv
    <3>3. InFlight(x)' \subseteq {p}
      BY <2>6, <2>7 DEF InFlight
    <3>4. SessionInv(x)'
      <4>1. status[x] = "in_progress" /\ UnderWay(x) = {} /\ ~Stale(x)'
        BY <2>1, <2>6 DEF Free, Stale
      <4> QED
        BY <1>0, <2>1, <2>3, <2>4, <2>5, <2>7, <3>1, <3>2, <3>3, <4>1, Launched
           DEF Unclaimed, Launching
    <3>5. OthersApart(x)
      BY <2>1, <2>3, <2>4, <2>7, <3>1, <3>2 DEF OthersApart, Stale, Launching
    <3> QED
      BY <2>5, <3>4, <3>5, OneMoves
  <2>8. CASE Insert(x, "dispatched") /\ Launch(x, client[c].run, nextPos, "preparing", FALSE)
    <3>1. /\ nextPos \in Pos /\ mark[nextPos] = "unused" /\ of'[nextPos] = x
          /\ \A q \in Pos : q # nextPos => mark'[q] = mark[q] /\ of'[q] = of[q]
      BY <1>0, <2>8, InsertClaims DEF Insert, RowsInv
    <3>2. nextPos \notin recovery.claims
      BY <1>0, <3>1 DEF HeldInv, Taken
    <3> QED
      BY <2>7, <2>8, <3>1, <3>2
  <2>9. CASE UNCHANGED <<mark, of>> /\ Launch(x, client[c].run, 0, "preparing", FALSE)
    BY <1>0, <2>7, <2>9, ClaimTypes
  <2> QED
    BY <2>1, <2>8, <2>9
<1>14. CASE FollowUpInsert(c) \/ FollowUpUndo(c)
  <2>1. /\ UNCHANGED <<status, run, drain, owner, launches, recovery>>
        /\ \/ UNCHANGED <<mark, of>>
           \/ Insert(client[c].s, "pending")
           \/ mark' = WithoutEntry(client[c].pos) /\ of' = of
        /\ client[c].pc \in Locked
    BY <1>14 DEF FollowUpInsert, FollowUpUndo, dbVars, hostVars, auxVars, Locked
  <2>2. BeginsKept
    BY <1>4, <1>14 DEF FollowUpInsert, FollowUpUndo, Begins
  <2>3. FlightKept
    BY <1>0, <2>1, InsertFlights, FewerFlights
  <2>4. LinksKept /\ LaunchersKept
    BY <1>3, <2>1 DEF LinksKept, LaunchersKept
  <2> QED
    BY <2>1, <2>2, <2>3, <2>4, NothingMoves
<1>15. ASSUME NEW p \in Pos, RemoveQueued(c, p) PROVE RunInv'
  <2>1. /\ UNCHANGED <<status, run, of, drain, owner, launches, recovery>>
        /\ mark' = WithoutEntry(p)
    BY <1>15 DEF RemoveQueued, hostVars, auxVars
  <2>2. BeginsKept
    BY <1>4, <1>15 DEF RemoveQueued
  <2>3. FlightKept
    BY <1>0, <2>1, FewerFlights
  <2>4. LinksKept /\ LaunchersKept
    BY <2>1 DEF LinksKept, LaunchersKept
  <2> QED
    BY <2>1, <2>2, <2>3, <2>4, NothingMoves
<1>16. ~CancelQueued(c) /\ ~CancelWrite(c)
  BY <1>0 DEF CancelQueued, CancelWrite
<1>17. ASSUME NEW s \in Session PROVE ~CancelRead(c, s) /\ \A st : ~PatchStatus(c, s, st)
  BY <1>0 DEF CancelRead, PatchStatus
<1> QED
  BY <1>6, <1>7, <1>8, <1>9, <1>10, <1>11, <1>12, <1>13, <1>14, <1>15, <1>16, <1>17
     DEF Request, ClientStep

LEMMA DrainRuns ==
  ASSUME QueueInv, RunInv, CalmInv', NEW d \in Drain, DrainStep(d)
  PROVE  RunInv'
<1>0. /\ TypeInv /\ RowsInv /\ DrainsInv /\ LockInv /\ HeldInv
      /\ \A s \in Session : SessionInv(s)
  BY DEF QueueInv, AdmissionInv, ClaimInv, TypeInv, RunInv
<1>1. /\ client' = client /\ of' = of /\ recovery' = recovery
      /\ BeginsKept /\ LinksKept /\ SweepInv' /\ FewerStale
  <2>1. client' = client /\ of' = of /\ recovery' = recovery
    BY DEF DrainStep, DrainList, DrainRequeue, DrainNext, DrainAdmit, DrainClaim, DrainLaunch,
       dbVars, auxVars
  <2> QED
    BY <2>1 DEF BeginsKept, LinksKept, SweepInv, FewerStale, RunInv
<1>2. ASSUME UNCHANGED <<dbVars, owner, launches>>, LaunchersKept PROVE RunInv'
  <2>1. FlightKept
    BY <1>2 DEF FlightKept, dbVars
  <2> QED
    BY <1>1, <1>2, <2>1, NothingMoves DEF dbVars
<1>3. ASSUME NEW pc, pc # "launch", NEW todo, NEW cur, MoveDrain(d, pc, todo, cur)
      PROVE  LaunchersKept
  BY <1>0, <1>3, MoveDrainClaims
<1>4. CASE DrainList(d)
  <2>1. LaunchersKept
    BY <1>3, <1>4 DEF DrainList
  <2> QED
    BY <1>2, <1>4, <2>1 DEF DrainList, hostVars
<1>5. CASE DrainNext(d)
  <2>1. CASE drain' = [drain EXCEPT ![d] = IdleDrain]
    <3>1. LaunchersKept
      BY <1>0, <2>1 DEF LaunchersKept, Launching, DrainsInv, IdleDrain
    <3> QED
      BY <1>2, <1>5, <3>1 DEF DrainNext, hostVars
  <2>2. ASSUME NEW p, NEW pc \in {"admit", "scan"}, NEW cur,
               MoveDrain(d, pc, drain[d].todo \ {p}, cur)
        PROVE  RunInv'
    <3>1. LaunchersKept
      BY <1>3, <2>2
    <3> QED
      BY <1>2, <1>5, <3>1 DEF DrainNext, hostVars
  <2> QED
    BY <1>5, <2>1, <2>2 DEF DrainNext
<1>6. CASE DrainAdmit(d)
  <2>1. LaunchersKept
    BY <1>3, <1>6 DEF DrainAdmit, Scan
  <2> QED
    BY <1>2, <1>6, <2>1 DEF DrainAdmit, hostVars
<1>7. CASE DrainRequeue(d)
  <2>1. /\ UNCHANGED <<run, mark, owner, launches>>
        /\ MoveDrain(d, "scan", Listed(d), 0)
    BY <1>7 DEF DrainRequeue, hostVars
  <2>2. LaunchersKept /\ FlightKept
    BY <1>1, <1>3, <2>1 DEF FlightKept
  <2>3. CASE status' = status
    BY <1>1, <2>1, <2>2, <2>3, NothingMoves
  <2>4. CASE /\ status' = [status EXCEPT ![drain[d].rel] = "queued"]
             /\ status[drain[d].rel] \in Requeueable
    <3>1. CASE drain[d].rel \notin Session
      <4>1. status' = status
        BY <1>0, <2>4, <3>1 DEF RowsInv
      <4> QED
        BY <2>3, <4>1
    <3>2. CASE drain[d].rel \in Session
      <4> PICK x \in Session : x = drain[d].rel
        BY <3>2
      <4>1. /\ status[x] # "in_progress" /\ status'[x] # "in_progress"
            /\ \A s \in Session : s # x => status'[s] = status[s]
        BY <1>0, <2>4 DEF RowsInv, Requeueable, Terminal
      <4>2. Unclaimed(x)'
        <5>1. Unclaimed(x)
          BY <1>0, <4>1, Resting
        <5> QED
          BY <1>1, <2>2, <5>1 DEF Unclaimed, LaunchersKept, Launching
      <4>3. SessionInv(x)'
        BY <1>0, <1>1, <2>1, <2>2, <4>1, <4>2, StillEnded DEF FlightKept
      <4>4. OthersApart(x)
        BY <1>1, <2>1, <2>2, <4>1 DEF OthersApart, FlightKept, LaunchersKept, Stale
      <4> QED
        BY <1>1, <4>3, <4>4, OneMoves
    <3> QED
      BY <3>1, <3>2
  <2> QED
    BY <1>7, <2>3, <2>4 DEF DrainRequeue
<1>8. ASSUME drain[d].pc \in Holds
      PROVE  /\ \A b \in Client : client'[b].pc \notin Begins
             /\ \A e \in Drain : e # d => ~Launching(e)
  BY <1>0, <1>1, <1>8, SlotsAssumption DEF LockInv, Holds, Launching, Locked, Begins
<1>9. CASE DrainClaim(d)
  <2>1. /\ drain[d].cur \in Pos /\ of[drain[d].cur] \in Session /\ UNCHANGED <<owner, launches>>
        /\ drain[d].pc \in Holds
    BY <1>0, <1>9 DEF DrainClaim, DrainsInv, Dispatching, hostVars, Holds
  <2> PICK p \in Pos : p = drain[d].cur
    BY <2>1
  <2> PICK x \in Session : x = of[p]
    BY <2>1
  <2>2. CASE /\ Claimable(x, p)
             /\ status' = [status EXCEPT ![x] = "in_progress"]
             /\ run' = [run EXCEPT ![x] = @ + 1]
             /\ mark' = [mark EXCEPT ![p] = "dispatched"]
             /\ MoveDrain(d, "launch", drain[d].todo, drain[d].cur)
    <3>1. /\ status[x] # "in_progress" /\ status'[x] = "in_progress" /\ run'[x] = run[x] + 1
          /\ \A s \in Session : s # x => status'[s] = status[s] /\ run'[s] = run[s]
      BY <1>0, <2>2 DEF RowsInv, Claimable
    <3>2. /\ mark'[p] = "dispatched" /\ \A q \in Pos : q # p => mark'[q] = mark[q]
          /\ mark[p] = "pending"
      BY <1>0, <2>2 DEF RowsInv, Claimable
    <3>3. /\ drain'[d].cur = p
          /\ \A e \in Drain : e # d => drain'[e] = drain[e]
      BY <1>0, <2>2 DEF MoveDrain, DrainsInv
    <3>4. InFlight(x)' = {p} /\ p \notin recovery.claims
      <4>1. InFlight(x) = {}
        BY <1>0, <3>1, Resting
      <4>2. InFlight(x)' = {p}
        BY <1>1, <3>2, <4>1 DEF InFlight
      <4>3. p \notin recovery.claims
        BY <1>0, <3>2 DEF HeldInv, Taken
      <4> QED
        BY <4>2, <4>3
    <3>5. \A e \in Drain : Launching(e)' => e = d
      BY <1>8, <2>1, <3>3 DEF Launching
    <3>6. SessionInv(x)'
      <4>1. \A e \in Drain : Launching(e)' /\ of'[drain'[e].cur] = x => InFlight(x)' \subseteq {drain'[e].cur}
        BY <3>3, <3>4, <3>5
      <4>2. \A b \in Client : client'[b].pc \in Begins /\ client'[b].s = x =>
              client'[b].run = run'[x] /\ InFlight(x)' = {}
        BY <1>8, <2>1
      <4> QED
        BY <1>0, <1>1, <2>1, <3>1, <3>4, <4>1, <4>2, Started
    <3>7. OthersApart(x)
      <4>1. \A q \in Pos : mark'[q] = "dispatched" /\ of'[q] # x => mark[q] = "dispatched" /\ of'[q] = of[q]
        BY <1>1, <3>2
      <4>2. \A e \in Drain : Launching(e)' => of'[drain'[e].cur] = x
        BY <1>1, <3>3, <3>5
      <4> QED
        BY <1>1, <2>1, <3>1, <4>1, <4>2 DEF OthersApart, Stale
    <3> QED
      BY <1>1, <3>6, <3>7, OneMoves
  <2>3. CASE Scan(d) /\ UNCHANGED <<status, run, mark>>
    <3>1. LaunchersKept
      BY <1>3, <2>3 DEF Scan
    <3> QED
      BY <1>1, <1>2, <1>9, <2>1, <2>3, <3>1 DEF DrainClaim, dbVars
  <2> QED
    BY <1>9, <2>2, <2>3 DEF DrainClaim
<1>10. CASE DrainLaunch(d)
  <2>1. /\ drain[d].cur \in Pos /\ of[drain[d].cur] \in Session
        /\ drain[d].pc \in Holds /\ Launching(d)
        /\ UNCHANGED <<status, run, mark>>
    BY <1>0, <1>10 DEF DrainLaunch, DrainsInv, Dispatching, Holds, Launching, dbVars
  <2> PICK p \in Pos : p = drain[d].cur
    BY <2>1
  <2> PICK x \in Session : x = of[p]
    BY <2>1
  <2>2. \A e \in Drain : ~Launching(e)'
    <3>1. Scan(d)
      BY <1>10 DEF DrainLaunch
    <3>2. drain'[d].pc = "scan" /\ \A e \in Drain : e # d => drain'[e] = drain[e]
      BY <1>0, <3>1 DEF Scan, MoveDrain, DrainsInv
    <3> QED
      BY <1>8, <2>1, <3>2 DEF Launching
  <2>3. Free(x) /\ InFlight(x) \subseteq {p} /\ p \notin recovery.claims
    BY <1>0, <2>1 DEF SessionInv, BeginInv, HeldInv
  <2>4. InFlight(x)' \subseteq {p}
    BY <1>1, <2>1, <2>3 DEF InFlight
  <2>5. \E m : /\ launches' = launches \cup {m} /\ m.s = x /\ m.run = run[x] /\ m.pos = p
               /\ m.phase \in {"preparing", "unready"}
               /\ m.phase # "unready" => owner'[x] = run[x]
               /\ \A s \in Session : s # x => owner'[s] = owner[s]
    <3>1. CASE Launch(x, run[x], p, "preparing", TRUE)
      <4> DEFINE m == [s |-> x, run |-> run[x], pos |-> p, phase |-> "preparing",
                       queued |-> TRUE, prev |-> owner[x]]
      <4>1. launches' = launches \cup {m} /\ owner' = [owner EXCEPT ![x] = run[x]]
        BY <3>1 DEF Launch
      <4>2. m.s = x /\ m.run = run[x] /\ m.pos = p /\ m.phase = "preparing"
        OBVIOUS
      <4>3. owner'[x] = run[x] /\ \A s \in Session : s # x => owner'[s] = owner[s]
        BY <1>0, <4>1 DEF TypeInv, HostInv
      <4> HIDE DEF m
      <4> QED
        BY <4>1, <4>2, <4>3
    <3>2. CASE /\ launches' = launches \cup
                    {[s |-> x, run |-> run[x], pos |-> p, phase |-> "unready", queued |-> TRUE,
                      prev |-> 0]}
               /\ owner' = owner
      <4> DEFINE m == [s |-> x, run |-> run[x], pos |-> p, phase |-> "unready", queued |-> TRUE,
                       prev |-> 0]
      <4>1. launches' = launches \cup {m}
        BY <3>2
      <4>2. m.s = x /\ m.run = run[x] /\ m.pos = p /\ m.phase = "unready"
        OBVIOUS
      <4> HIDE DEF m
      <4> QED
        BY <3>2, <4>1, <4>2
    <3> QED
      BY <1>10, <3>1, <3>2 DEF DrainLaunch
  <2> PICK m : /\ launches' = launches \cup {m} /\ m.s = x /\ m.run = run[x] /\ m.pos = p
               /\ m.phase \in {"preparing", "unready"}
               /\ m.phase # "unready" => owner'[x] = run[x]
               /\ \A s \in Session : s # x => owner'[s] = owner[s]
    BY <2>5
  <2>6. SessionInv(x)'
    <3>1. status[x] = "in_progress" /\ UnderWay(x) = {} /\ ~Stale(x)'
      BY <1>1, <2>1, <2>3 DEF Free, Stale
    <3>2. Unclaimed(x)'
      BY <1>8, <2>1, <2>2 DEF Unclaimed, Launching
    <3> QED
      BY <1>0, <1>1, <2>1, <2>3, <2>4, <3>1, <3>2, Launched
  <2>7. OthersApart(x)
    BY <1>1, <1>8, <2>1, <2>2 DEF OthersApart, Stale
  <2> QED
    BY <1>1, <2>6, <2>7, OneMoves
<1> QED
  BY <1>4, <1>5, <1>6, <1>7, <1>9, <1>10 DEF DrainStep

LEMMA LaunchRuns ==
  ASSUME QueueInv, RunInv, CalmInv', NEW l \in launches, LaunchStep(l)
  PROVE  RunInv'
<1>0. /\ TypeInv /\ RowsInv /\ DrainsInv /\ HeldInv
      /\ l.s \in Session /\ l.run \in Nat /\ stopping = {}
      /\ \A s \in Session : SessionInv(s)
  BY DEF QueueInv, AdmissionInv, ClaimInv, TypeInv, HostInv, Launches, RunInv, CalmInv
<1>1. /\ client' = client /\ of' = of /\ run' = run /\ recovery' = recovery
      /\ BeginsKept /\ LinksKept /\ SweepInv' /\ FewerStale
  <2>1. client' = client /\ of' = of /\ run' = run /\ recovery' = recovery
    BY DEF LaunchStep, HarnessStart, HarnessAccept, InitFails, StartFails, FailRemovesEntry,
       FailEndsRun, LaunchRetries, LaunchCloses, ExitRead, ExitWrite, EndRun, dbVars, auxVars
  <2> QED
    BY <2>1 DEF BeginsKept, LinksKept, SweepInv, FewerStale, RunInv
<1>2. LaunchersKept
  <2>1. drain' = drain \/ \E rel : StartDrain(rel, Pos)
    BY DEF LaunchStep, HarnessStart, HarnessAccept, InitFails, StartFails, FailRemovesEntry,
       FailEndsRun, LaunchRetries, LaunchCloses, ExitRead, ExitWrite, EndRun
  <2> QED
    BY <1>0, <2>1, StartDrainClaims DEF LaunchersKept
<1>3. l.phase # "closing" =>
        /\ l \in UnderWay(l.s) /\ \A k \in UnderWay(l.s) : k = l
        /\ status[l.s] = "in_progress" /\ run[l.s] = l.run /\ ~Stale(l.s)
        /\ InFlight(l.s) \subseteq {l.pos}
        /\ l.phase \in {"exiting", "failed", "unsaved"} => InFlight(l.s) = {}
        /\ l.phase \in Holders => owner[l.s] = l.run
        /\ Unclaimed(l.s)'
  <2> SUFFICES ASSUME l.phase # "closing"
               PROVE  /\ l \in UnderWay(l.s) /\ \A k \in UnderWay(l.s) : k = l
                      /\ status[l.s] = "in_progress" /\ run[l.s] = l.run /\ ~Stale(l.s)
                      /\ InFlight(l.s) \subseteq {l.pos}
                      /\ l.phase \in {"exiting", "failed", "unsaved"} => InFlight(l.s) = {}
                      /\ l.phase \in Holders => owner[l.s] = l.run
                      /\ Unclaimed(l.s)'
    OBVIOUS
  <2>1. l \in UnderWay(l.s)
    BY DEF UnderWay
  <2>2. SessionInv(l.s) /\ UnderWayInv(l.s)
    BY <1>0 DEF SessionInv
  <2>3. Unclaimed(l.s)
    BY <1>0, <2>1, <2>2, Underway
  <2>4. Unclaimed(l.s)'
    BY <1>1, <1>2, <2>3 DEF Unclaimed, LaunchersKept, Launching
  <2> QED
    BY <2>1, <2>2, <2>4 DEF UnderWayInv
<1>4. ASSUME \A s \in Session : s # l.s => status'[s] = status[s] /\ owner'[s] = owner[s],
             \A k \in launches' : k.s # l.s => k \in launches,
             FlightKept, SessionInv(l.s)'
      PROVE  RunInv'
  <2>1. OthersApart(l.s)
    BY <1>1, <1>2, <1>4 DEF OthersApart, Stale, FlightKept, LaunchersKept
  <2> QED
    BY <1>0, <1>1, <1>4, <2>1, OneMoves
<1>5. ASSUME l.phase # "closing", NEW ph, ph # "closing", MoveLaunch(l, ph), status' = status,
             \A s \in Session : s # l.s => owner'[s] = owner[s],
             ph \in Holders => owner'[l.s] = l.run,
             FlightKept, ph \in {"exiting", "failed", "unsaved"} => InFlight(l.s)' = {}
      PROVE  RunInv'
  <2> DEFINE m == [l EXCEPT !.phase = ph]
  <2>1. launches' = (launches \ {l}) \cup {m} /\ m.s = l.s /\ m.run = l.run /\ m.pos = l.pos
        /\ m.phase = ph
    BY <1>0, <1>5, ClaimTypes DEF MoveLaunch, Launches
  <2> HIDE DEF m
  <2>2. InFlight(l.s)' \subseteq InFlight(l.s)
    BY <1>1, <1>5 DEF InFlight, FlightKept
  <2>3. SessionInv(l.s)'
    BY <1>0, <1>1, <1>3, <1>5, <2>1, <2>2, Advanced
  <2> QED
    BY <1>4, <1>5, <2>1, <2>3
<1>6. mark' = mark => FlightKept
  BY <1>1 DEF FlightKept
<1>7. ASSUME l.phase # "closing", mark' = WithoutEntry(l.pos) PROVE FlightKept /\ InFlight(l.s)' = {}
  <2>1. FlightKept
    BY <1>0, <1>1, <1>7, FewerFlights
  <2>2. InFlight(l.s)' \subseteq {l.pos} /\ InFlight(l.s)' \subseteq Pos
    BY <1>1, <1>3, <1>7, <2>1 DEF InFlight, FlightKept
  <2>3. l.pos \in Pos => mark'[l.pos] # "dispatched"
    BY <1>0, <1>7 DEF WithoutEntry, RowsInv
  <2> QED
    BY <2>1, <2>2, <2>3 DEF InFlight
<1>8. CASE HarnessStart(l)
  <2>1. /\ l.phase = "preparing" /\ MoveLaunch(l, "starting")
        /\ UNCHANGED <<status, mark, owner>>
    BY <1>8 DEF HarnessStart, dbVars
  <2> QED
    BY <1>3, <1>5, <1>6, <2>1 DEF Holders
<1>9. CASE HarnessAccept(l)
  <2>1. /\ l.phase = "starting" /\ MoveLaunch(l, "running")
        /\ UNCHANGED <<status, mark, owner>>
    BY <1>9 DEF HarnessAccept, dbVars
  <2> QED
    BY <1>3, <1>5, <1>6, <2>1 DEF Holders
<1>10. CASE InitFails(l)
  <2>1. /\ l.phase = "preparing" /\ MoveLaunch(l, "unready")
        /\ UNCHANGED <<status, mark>>
        /\ \A s \in Session : s # l.s => owner'[s] = owner[s]
    BY <1>0, <1>10 DEF InitFails, dbVars, HandBackSlot, TypeInv, HostInv
  <2> QED
    BY <1>5, <1>6, <2>1 DEF Holders
<1>11. CASE StartFails(l)
  <2>1. /\ l.phase = "starting" /\ MoveLaunch(l, "failing")
        /\ UNCHANGED <<status, mark>>
    BY <1>11 DEF StartFails, dbVars
  <2>2. owner[l.s] = l.run
    BY <1>3, <2>1 DEF Holders
  <2>3. owner' = owner
    BY <1>0, <1>3, <1>11, <2>1, <2>2 DEF StartFails, OwnsSlot
  <2> QED
    BY <1>3, <1>5, <1>6, <2>1, <2>2, <2>3 DEF Holders
<1>12. CASE FailRemovesEntry(l)
  <2>1. UNCHANGED <<status, owner>> /\ l.phase \in {"unready", "failing"}
    BY <1>12 DEF FailRemovesEntry
  <2>2. CASE l.phase = "unready"
    <3>1. MoveLaunch(l, "unsaved") /\ mark' = WithoutEntry(l.pos)
      BY <1>12, <2>2 DEF FailRemovesEntry
    <3> QED
      BY <1>5, <1>7, <2>1, <2>2, <3>1 DEF Holders
  <2>3. CASE l.phase = "failing"
    <3>1. owner[l.s] = l.run
      BY <1>3, <2>3 DEF Holders
    <3>2. MoveLaunch(l, "failed") /\ mark' = WithoutEntry(l.pos)
      BY <1>12, <2>3, <3>1 DEF FailRemovesEntry
    <3> QED
      BY <1>5, <1>7, <2>1, <2>3, <3>1, <3>2 DEF Holders
  <2> QED
    BY <2>1, <2>2, <2>3
<1>13. CASE ExitRead(l)
  <2>1. l.phase = "running" /\ status' = status
    BY <1>13 DEF ExitRead
  <2>2. owner[l.s] = l.run /\ status[l.s] # "cancelled"
    BY <1>3, <2>1 DEF Holders
  <2>3. /\ MoveLaunch(l, "exiting") /\ owner' = owner
        /\ mark' = IF l.pos \in Pos THEN WithoutEntry(l.pos) ELSE mark
    BY <1>13, <2>2 DEF ExitRead
  <2>4. FlightKept /\ InFlight(l.s)' = {}
    <3>1. CASE l.pos \in Pos
      BY <1>7, <2>1, <2>3, <3>1
    <3>2. CASE l.pos \notin Pos
      BY <1>1, <1>3, <1>6, <2>1, <2>3, <3>2 DEF InFlight
    <3> QED
      BY <3>1, <3>2
  <2> QED
    BY <1>5, <2>1, <2>2, <2>3, <2>4
\* The end of the run.
<1>14. ASSUME l.phase \in {"exiting", "failed", "unsaved"}, owner' = owner,
              MoveLaunch(l, "closing") \/ launches' = launches \ {l},
              NEW st \in Terminal, EndRun(l.s, st, FALSE)
       PROVE  RunInv'
  <2>1. \A k \in launches' : \/ k \in launches /\ k # l
                             \/ k.s = l.s /\ k.phase = "closing" /\ k.run = l.run
    <3> DEFINE m == [l EXCEPT !.phase = "closing"]
    <3>1. launches' \subseteq (launches \ {l}) \cup {m}
      BY <1>14 DEF MoveLaunch
    <3>2. m.s = l.s /\ m.phase = "closing" /\ m.run = l.run
      BY <1>0, ClaimTypes DEF Launches
    <3> HIDE DEF m
    <3> QED
      BY <3>1, <3>2
  <2>2. /\ status' = [status EXCEPT ![l.s] = st]
        /\ mark' = mark \/ mark' = WithoutEntriesOf(l.s)
    BY <1>14 DEF EndRun
  <2>3. /\ status'[l.s] # "in_progress"
        /\ \A s \in Session : s # l.s => status'[s] = status[s]
    BY <1>0, <2>2 DEF RowsInv, Terminal
  <2>4. FlightKept
    BY <1>0, <1>1, <2>2, FewerFlights
  <2>5. \A p \in Pos : mark'[p] = "dispatched" => of'[p] # l.s
    BY <1>3, <1>14, <2>4 DEF FlightKept, InFlight
  <2>6. \A k \in launches' : k.s = l.s => k.phase = "closing" /\ k.run <= run[l.s]
    <3>1. \A k \in launches : k # l /\ k.s = l.s => k.phase = "closing" /\ k.run <= run[l.s]
      BY <1>0, <1>3, <1>14 DEF UnderWay, SessionInv, ClosingInv
    <3> QED
      BY <1>0, <1>3, <1>14, <2>1, <3>1
  <2>7. SessionInv(l.s)'
    BY <1>0, <1>1, <1>3, <1>14, <2>3, <2>5, <2>6, Ended
  <2> QED
    BY <1>4, <1>14, <2>1, <2>3, <2>4, <2>7
<1>15. CASE FailEndsRun(l)
  <2>1. /\ l.phase \in {"failed", "unsaved"} /\ owner' = owner
        /\ MoveLaunch(l, "closing") \/ launches' = launches \ {l}
    BY <1>15 DEF FailEndsRun
  <2>2. EndRun(l.s, "failed", FALSE)
    BY <1>0, <1>3, <1>15, <2>1 DEF FailEndsRun, FailWrites
  <2> QED
    BY <1>14, <2>1, <2>2 DEF Terminal
<1>16. CASE ExitWrite(l)
  <2>1. l.phase = "exiting" /\ owner' = owner /\ MoveLaunch(l, "closing")
    BY <1>16 DEF ExitWrite
  <2>2. owner[l.s] = l.run
    BY <1>3, <2>1 DEF Holders
  <2>3. \E st \in {"completed", "failed"} : EndRun(l.s, st, FALSE)
    BY <1>16, <2>2 DEF ExitWrite
  <2> QED
    BY <1>14, <2>1, <2>3 DEF Terminal
\* The launch leaves without ending a run.
<1>17. ASSUME launches' = launches \ {l}, status' = status, mark' = mark,
              \A s \in Session : s # l.s => owner'[s] = owner[s],
              \/ owner'[l.s] = owner[l.s]
              \/ owner'[l.s] = 0 /\ \A k \in launches' : k.s = l.s => k.phase \notin Holders
       PROVE  RunInv'
  <2>1. Apart(l.s)
    <3>1. \A d \in Drain : Launching(d)' => drain'[d] = drain[d]
      BY <1>2 DEF LaunchersKept
    <3> QED
      BY <1>1, <1>17, <3>1 DEF Apart, Stale
  <2>2. SessionInv(l.s)'
    BY <1>0, <1>1, <2>1, ApartKept
  <2> QED
    BY <1>4, <1>6, <1>17, <2>2
<1>18. CASE LaunchCloses(l)
  <2>1. /\ l.phase = "closing" /\ launches' = launches \ {l} /\ UNCHANGED <<status, mark>>
        /\ owner' = [owner EXCEPT ![l.s] = IF @ = l.run THEN 0 ELSE @]
    BY <1>18 DEF LaunchCloses, GiveUpSlot, dbVars
  <2>2. /\ owner'[l.s] = (IF owner[l.s] = l.run THEN 0 ELSE owner[l.s])
        /\ \A s \in Session : s # l.s => owner'[s] = owner[s]
    BY <1>0, <2>1 DEF TypeInv, HostInv
  <2>3. ASSUME owner[l.s] = l.run, NEW k \in launches, k.s = l.s, k.phase \in Holders PROVE FALSE
    <3>1. k \in UnderWay(l.s)
      BY <2>3 DEF UnderWay, Holders
    <3>2. owner[l.s] = k.run /\ run[l.s] = k.run /\ status[l.s] = "in_progress"
      BY <1>0, <2>3, <3>1 DEF SessionInv, UnderWayInv
    <3> QED
      BY <1>0, <2>1, <2>3, <3>2 DEF SessionInv, ClosingInv
  <2> QED
    BY <1>17, <2>1, <2>2, <2>3
<1>19. CASE LaunchRetries(l)
  <2>1. /\ l.phase = "preparing" /\ launches' = launches \ {l} /\ l.queued
        /\ owner' = [owner EXCEPT ![l.s] = 0]
    BY <1>19 DEF LaunchRetries
  <2>2. owner'[l.s] = 0 /\ \A s \in Session : s # l.s => owner'[s] = owner[s]
    BY <1>0, <2>1 DEF TypeInv, HostInv
  <2>3. \A k \in launches' : k.s = l.s => k.phase = "closing" /\ k.run <= run[l.s]
    BY <1>0, <1>3, <2>1 DEF UnderWay, SessionInv, ClosingInv
  <2>4. CASE UNCHANGED <<status, mark>>
    BY <1>17, <2>1, <2>2, <2>3, <2>4 DEF Holders
  <2>5. CASE /\ mark' = [mark EXCEPT ![l.pos] = "pending"]
             /\ status' = [status EXCEPT ![l.s] = "queued"]
    <3>1. /\ status'[l.s] # "in_progress"
          /\ \A s \in Session : s # l.s => status'[s] = status[s]
      BY <1>0, <2>5 DEF RowsInv
    <3>2. FlightKept /\ \A p \in Pos : mark'[p] = "dispatched" => p # l.pos
      BY <1>0, <1>1, <2>5 DEF RowsInv, FlightKept
    <3>3. \A p \in Pos : mark'[p] = "dispatched" => of'[p] # l.s
      BY <1>3, <2>1, <3>2 DEF FlightKept, InFlight
    <3>4. SessionInv(l.s)'
      BY <1>0, <1>1, <1>3, <2>1, <2>3, <3>1, <3>3, Ended
    <3> QED
      BY <1>4, <2>1, <2>2, <3>1, <3>2, <3>4
  <2> QED
    BY <1>19, <2>4, <2>5 DEF LaunchRetries
<1> QED
  BY <1>8, <1>9, <1>10, <1>11, <1>12, <1>13, <1>15, <1>16, <1>18, <1>19 DEF LaunchStep

LEMMA SweepRuns ==
  ASSUME QueueInv, RunInv, CalmInv', SweepStep
  PROVE  RunInv'
<1>0. /\ TypeInv /\ RowsInv /\ DrainsInv /\ HeldInv /\ SweepInv
      /\ \A s \in Session : SessionInv(s)
  BY DEF QueueInv, AdmissionInv, ClaimInv, TypeInv, RunInv
<1>1. client' = client /\ of' = of /\ run' = run /\ BeginsKept /\ LinksKept
  <2>1. client' = client /\ of' = of /\ run' = run
    BY DEF SweepStep, RemoveAccepted, RecoverClaim, RecoverDrain, ResolveOrphan, EndRun, dbVars
  <2> QED
    BY <2>1 DEF BeginsKept, LinksKept
<1>2. ASSUME UNCHANGED <<status, owner, launches>>, FlightKept, LaunchersKept, FewerStale, SweepInv',
             recovery'.stale = recovery.stale,
             \A p \in Pos : mark'[p] = "dispatched" =>
               (p \in recovery'.claims <=> p \in recovery.claims)
      PROVE  RunInv'
  <2>1. ASSUME NEW s \in Session PROVE SessionInv(s)'
    <3>1. Apart(s)
      BY <1>1, <1>2 DEF Apart, Stale, FlightKept, LaunchersKept, LinksKept, BeginsKept, Launching
    <3> QED
      BY <1>0, <1>2, <3>1, ApartKept
  <2> QED
    BY <1>2, <2>1 DEF RunInv
<1>3. ASSUME NEW p \in Pos, RemoveAccepted(p) PROVE RunInv'
  <2>1. /\ UNCHANGED <<status, owner, launches, recovery, drain>> /\ mark' = WithoutEntry(p)
    BY <1>3 DEF RemoveAccepted, auxVars
  <2>2. FlightKept
    BY <1>0, <1>1, <2>1, FewerFlights
  <2>3. LaunchersKept /\ FewerStale /\ SweepInv'
    BY <1>0, <2>1 DEF LaunchersKept, FewerStale, SweepInv
  <2> QED
    BY <1>2, <2>1, <2>2, <2>3
<1>4. ASSUME NEW p \in Pos, RecoverClaim(p) PROVE RunInv'
  <2>1. /\ UNCHANGED <<owner, launches, drain>> /\ p \in recovery.claims
        /\ recovery.pc = "claims"
        /\ recovery' = [recovery EXCEPT !.claims = @ \ {p}]
    BY <1>4 DEF RecoverClaim, hostVars
  <2>2. /\ recovery'.pc = "claims" /\ recovery'.stale = recovery.stale
        /\ recovery'.claims = recovery.claims \ {p}
    BY <1>0, <2>1 DEF TypeInv, AuxInv, Recoveries
  <2>3. LaunchersKept /\ FewerStale /\ SweepInv'
    BY <2>1, <2>2 DEF LaunchersKept, FewerStale, SweepInv
  <2>4. CASE mark[p] # "dispatched"
    <3>1. UNCHANGED <<status, mark>>
      BY <1>4, <2>4 DEF RecoverClaim
    <3>2. FlightKept
      BY <1>1, <3>1 DEF FlightKept
    <3>3. \A q \in Pos : mark'[q] = "dispatched" => (q \in recovery'.claims <=> q \in recovery.claims)
      BY <2>2, <2>4, <3>1
    <3> QED
      BY <1>2, <2>1, <2>2, <2>3, <3>1, <3>2, <3>3
  <2>5. CASE mark[p] = "dispatched"
    <3>1. of[p] \in Session
      BY <1>0, <2>5 DEF RowsInv
    <3> PICK x \in Session : x = of[p]
      BY <3>1
    <3>2. p \in InFlight(x)
      BY <2>5 DEF InFlight
    <3>3. status[x] = "in_progress" /\ Stale(x) /\ InFlight(x) = {p} /\ owner[x] = 0
      BY <1>0, <2>1, <3>2 DEF SessionInv, FlightInv, StaleInv
    <3>4. mark' = [mark EXCEPT ![p] = "pending"] /\ status' = [status EXCEPT ![x] = "queued"]
      BY <1>4, <2>5, <3>3 DEF RecoverClaim, Unowned
    <3>5. /\ status'[x] # "in_progress" /\ \A s \in Session : s # x => status'[s] = status[s]
          /\ mark'[p] # "dispatched" /\ \A q \in Pos : q # p => mark'[q] = mark[q]
      BY <1>0, <3>4 DEF RowsInv
    <3>6. \A q \in Pos : mark'[q] = "dispatched" =>
            q # p /\ mark[q] = "dispatched" /\ of'[q] = of[q] /\ of'[q] # x
      BY <1>1, <3>3, <3>5 DEF InFlight
    <3>7. Unclaimed(x)'
      <4>1. Unclaimed(x)
        BY <1>0, <3>3, Underway
      <4> QED
        BY <1>1, <2>1, <4>1 DEF Unclaimed, Launching
    <3>8. \A l \in launches' : l.s = x => l.phase = "closing" /\ l.run <= run[x]
      <4>1. UnderWay(x) = {}
        BY <1>0, <3>3 DEF SessionInv, UnderWayInv
      <4> QED
        BY <1>0, <2>1, <4>1 DEF UnderWay, SessionInv, ClosingInv
    <3>9. SessionInv(x)'
      BY <1>0, <1>1, <2>3, <3>5, <3>6, <3>7, <3>8, Ended
    <3>10. OthersApart(x)
      BY <1>1, <2>1, <2>2, <3>5, <3>6 DEF OthersApart, Stale
    <3> QED
      BY <1>1, <2>3, <3>9, <3>10, OneMoves
  <2> QED
    BY <2>4, <2>5
<1>5. CASE RecoverDrain
  <2>1. /\ UNCHANGED <<status, mark, owner, launches>> /\ StartDrain(NoSession, recovery.only)
        /\ recovery.claims = {} /\ recovery' = [recovery EXCEPT !.pc = "orphans"]
    BY <1>5 DEF RecoverDrain, dbVars, hostVars
  <2>2. recovery'.claims = recovery.claims /\ recovery'.stale = recovery.stale
    BY <1>0, <2>1 DEF TypeInv, AuxInv, Recoveries
  <2>3. LaunchersKept /\ FlightKept
    BY <1>0, <1>1, <2>1, StartDrainClaims DEF FlightKept
  <2>4. FewerStale /\ SweepInv'
    BY <2>1, <2>2 DEF FewerStale, SweepInv
  <2> QED
    BY <1>2, <2>1, <2>2, <2>3, <2>4
<1>6. ASSUME NEW sn \in recovery.stale, ResolveOrphan(sn[1], sn[2]) PROVE RunInv'
  <2>0. /\ sn \in Session \X Nat /\ recovery.claims = {}
        /\ recovery' = [recovery EXCEPT !.stale = @ \ {<<sn[1], sn[2]>>}]
    BY <1>0, <1>6 DEF ResolveOrphan, SweepInv, TypeInv, AuxInv, Recoveries
  <2> PICK x \in Session, n \in Nat : sn = <<x, n>>
    BY <2>0
  <2>1. /\ recovery'.claims = recovery.claims /\ recovery'.stale = recovery.stale \ {<<x, n>>}
        /\ recovery'.pc = recovery.pc /\ <<x, n>> \in recovery.stale
    BY <1>0, <2>0 DEF TypeInv, AuxInv, Recoveries
  <2>2. /\ FewerStale /\ SweepInv'
        /\ \A s \in Session : s # x => (Stale(s)' <=> Stale(s))
    BY <1>0, <1>1, <2>1 DEF FewerStale, SweepInv, Stale
  <2>3. CASE Unowned(x) /\ run[x] = n
    <3>1. Stale(x) /\ ~Stale(x)' /\ status[x] = "in_progress"
      BY <1>1, <2>1, <2>3 DEF Stale, Unowned
    <3>2. UnderWay(x) = {} /\ InFlight(x) = {} /\ Unclaimed(x)
      <4>1. UnderWay(x) = {}
        BY <1>0, <3>1 DEF SessionInv, UnderWayInv
      <4>2. InFlight(x) = {}
        BY <1>0, <2>0, <3>1 DEF SessionInv, FlightInv
      <4> QED
        BY <1>0, <3>1, <4>1, <4>2, Underway
    <3>3. CASE EndRun(x, "disconnected", FALSE) /\ UNCHANGED hostVars
      <4>1. /\ status' = [status EXCEPT ![x] = "disconnected"]
            /\ mark' = mark \/ mark' = WithoutEntriesOf(x)
            /\ StartDrain(x, Pos) /\ UNCHANGED <<owner, launches>>
        BY <3>3 DEF EndRun, hostVars
      <4>2. /\ status'[x] # "in_progress" /\ \A s \in Session : s # x => status'[s] = status[s]
        BY <1>0, <4>1 DEF RowsInv
      <4>3. FlightKept /\ LaunchersKept
        BY <1>0, <1>1, <4>1, FewerFlights, StartDrainClaims
      <4>4. Unclaimed(x)'
        BY <1>1, <3>2, <4>3 DEF Unclaimed, LaunchersKept, Launching
      <4>5. \A p \in Pos : mark'[p] = "dispatched" => of'[p] # x
        BY <3>2, <4>3 DEF FlightKept, InFlight
      <4>6. \A l \in launches' : l.s = x => l.phase = "closing" /\ l.run <= run[x]
        BY <1>0, <3>2, <4>1 DEF UnderWay, SessionInv, ClosingInv
      <4>7. SessionInv(x)'
        BY <1>0, <1>1, <2>2, <4>2, <4>4, <4>5, <4>6, Ended
      <4>8. OthersApart(x)
        BY <1>1, <2>1, <2>2, <4>1, <4>2, <4>3 DEF OthersApart, FlightKept, LaunchersKept
      <4> QED
        BY <1>1, <2>2, <4>7, <4>8, OneMoves
    <3>4. CASE Launch(x, n, 0, "starting", FALSE) /\ UNCHANGED <<dbVars, drain>>
      <4> DEFINE m == [s |-> x, run |-> n, pos |-> 0, phase |-> "starting",
                       queued |-> FALSE, prev |-> owner[x]]
      <4>1. /\ launches' = launches \cup {m} /\ owner' = [owner EXCEPT ![x] = n]
            /\ UNCHANGED <<status, mark, drain>>
        BY <3>4 DEF Launch, dbVars
      <4>2. m.s = x /\ m.run = n /\ m.pos = 0 /\ m.phase = "starting"
        OBVIOUS
      <4>3. owner'[x] = n /\ \A s \in Session : s # x => owner'[s] = owner[s]
        BY <1>0, <4>1 DEF TypeInv, HostInv
      <4> HIDE DEF m
      <4>4. Unclaimed(x)'
        BY <1>1, <3>2, <4>1 DEF Unclaimed, Launching
      <4>5. InFlight(x)' = {}
        BY <1>1, <3>2, <4>1 DEF InFlight
      <4>6. SessionInv(x)'
        BY <1>0, <1>1, <2>0, <2>1, <2>2, <2>3, <3>1, <3>2, <4>1, <4>2, <4>3, <4>4, <4>5, Launched
      <4>7. OthersApart(x)
        BY <1>1, <2>1, <2>2, <4>1, <4>2, <4>3 DEF OthersApart
      <4> QED
        BY <1>1, <2>2, <4>6, <4>7, OneMoves
    <3> QED
      BY <1>6, <2>3, <3>3, <3>4 DEF ResolveOrphan
  <2>4. CASE ~(Unowned(x) /\ run[x] = n)
    <3>1. UNCHANGED <<status, mark, drain, owner, launches>>
      BY <1>6, <2>4 DEF ResolveOrphan, dbVars, hostVars
    <3>2. FlightKept /\ LaunchersKept
      BY <1>1, <3>1 DEF FlightKept, LaunchersKept
    <3>3. SessionInv(x)'
      <4>1. CASE run[x] # n
        <5>1. Apart(x)
          BY <1>1, <2>1, <3>1, <4>1 DEF Apart, Stale, Launching
        <5> QED
          BY <1>0, <2>2, <5>1, ApartKept
      <4>2. CASE run[x] = n
        <5>1. status[x] # "in_progress"
          BY <1>0, <2>1, <2>4, <4>2 DEF SessionInv, StaleInv, Stale, Unowned
        <5>2. Unclaimed(x)'
          <6>1. Unclaimed(x)
            BY <1>0, <5>1, Resting
          <6> QED
            BY <1>1, <3>1, <6>1 DEF Unclaimed, Launching
        <5> QED
          BY <1>0, <1>1, <2>2, <3>1, <5>1, <5>2, StillEnded
      <4> QED
        BY <4>1, <4>2
    <3>4. OthersApart(x)
      BY <1>1, <2>1, <2>2, <3>1 DEF OthersApart
    <3> QED
      BY <1>1, <2>2, <3>3, <3>4, OneMoves
  <2> QED
    BY <2>3, <2>4
<1> QED
  BY <1>3, <1>4, <1>5, <1>6 DEF SweepStep

LEMMA RestartRuns ==
  ASSUME TypeInv, RunInv, CalmInv', Restart
  PROVE  RunInv'
<1>1. /\ UNCHANGED <<status, run, mark, of>> /\ launches' = {}
      /\ recovery' = [pc |-> "claims",
                      claims |-> {p \in Pos : mark[p] = "dispatched"},
                      only |-> {p \in Pos : mark[p] \in {"pending", "dispatched"}},
                      stale |-> StaleRuns]
      /\ \A s \in Session : owner'[s] = 0
      /\ \A c \in Client : client'[c].pc \in {"idle", "done"}
      /\ \A d \in Drain : drain'[d].pc = "idle"
  BY DEF Restart, dbVars, IdleClient, ServedClient, IdleDrain
<1>2. /\ recovery'.pc = "claims" /\ recovery'.stale = StaleRuns
      /\ recovery'.claims = {p \in Pos : mark[p] = "dispatched"}
  BY <1>1
<1>3. ASSUME NEW s \in Session PROVE SessionInv(s)'
  <2>0. SessionInv(s) /\ run[s] \in Nat
    BY DEF RunInv, TypeInv, RowsInv
  <2>1. InFlight(s)' = InFlight(s) /\ UnderWay(s)' = {}
    BY <1>1 DEF InFlight, UnderWay
  <2>2. Stale(s)' <=> status[s] = "in_progress"
    BY <1>1, <1>2 DEF Stale, StaleRuns, Active
  <2>3. UnderWayInv(s)' /\ ClosingInv(s)'
    BY <1>1, <2>1 DEF UnderWayInv, ClosingInv
  <2>4. FlightInv(s)'
    BY <1>1, <1>2, <2>0, <2>1, <2>2 DEF FlightInv, SessionInv, InFlight
  <2>5. StaleInv(s)'
    <3>1. \A sn \in recovery'.stale : sn[1] = s => sn[2] = run[s]
      BY <1>2 DEF StaleRuns
    <3> QED
      BY <1>1, <2>0, <3>1 DEF StaleInv
  <2>6. BeginInv(s)'
    BY <1>1 DEF BeginInv, Begins, Launching
  <2> QED
    BY <2>3, <2>4, <2>5, <2>6 DEF SessionInv
<1> QED
  BY <1>2, <1>3 DEF RunInv, SweepInv

LEMMA RunInit == Init => RunInv
<1> SUFFICES ASSUME Init PROVE RunInv
  OBVIOUS
<1>1. /\ launches = {} /\ stopping = {} /\ recovery.pc = "off" /\ recovery.stale = {}
      /\ \A p \in Pos : mark[p] = "unused"
      /\ \A c \in Client : client[c].pc = "idle"
      /\ \A d \in Drain : ~Launching(d)
      /\ \A s \in Session : status[s] = "none"
  BY DEF Init, NoRecovery, IdleClient, IdleDrain, Launching
<1>2. ASSUME NEW s \in Session PROVE SessionInv(s)
  <2>1. InFlight(s) = {} /\ UnderWay(s) = {}
    BY <1>1 DEF InFlight, UnderWay
  <2> QED
    BY <1>1, <2>1 DEF SessionInv, UnderWayInv, ClosingInv, FlightInv, StaleInv, BeginInv, Begins
<1> QED
  BY <1>1, <1>2 DEF RunInv, SweepInv, CalmInv

LEMMA RunStep ==
  ASSUME NobodyInterrupts
  PROVE  QueueInv /\ RunInv /\ [Next]_vars => RunInv'
<1> SUFFICES ASSUME QueueInv, RunInv, [Next]_vars PROVE RunInv'
  OBVIOUS
<1>1. TypeInv /\ CalmInv'
  BY CalmStep DEF QueueInv, AdmissionInv, RunInv
<1>2. CASE UNCHANGED vars
  <2>1. FlightKept /\ LinksKept /\ BeginsKept /\ LaunchersKept
    BY <1>2 DEF vars, dbVars, FlightKept, LinksKept, BeginsKept, LaunchersKept
  <2> QED
    BY <1>1, <1>2, <2>1, NothingMoves DEF vars, dbVars, hostVars, auxVars
<1>3. CASE Next
  BY <1>1, <1>3, ClientRuns, DrainRuns, LaunchRuns, SweepRuns, RestartRuns DEF Next
<1> QED
  BY <1>2, <1>3

(* A session waits in the queue only when none of its runs is under way, in any
   interleaving of creates, follow-ups, aborts, withdrawals, drains, retries,
   failing launches, crashes and the sweep after them.  The hypothesis leaves
   out the two requests that end a run from outside: FindLateCancel.cfg shows
   that with a cancel the property fails. *)
THEOREM QueuedIsIdle ==
  ASSUME NobodyInterrupts
  PROVE  Spec => []QueuedHasNoRun
<1>1. TypeInv /\ RunInv => QueuedHasNoRun
  <2> SUFFICES ASSUME TypeInv, RunInv, NEW l \in launches, status[l.s] = "queued",
                      l.phase \in {"preparing", "starting", "running"}
               PROVE  FALSE
    BY DEF QueuedHasNoRun
  <2>1. SessionInv(l.s) /\ l \in UnderWay(l.s)
    BY DEF RunInv, TypeInv, HostInv, Launches, UnderWay
  <2> QED
    BY <2>1 DEF SessionInv, UnderWayInv
<1>2. QueueInv => TypeInv
  BY DEF QueueInv, AdmissionInv
<1> QED
  BY <1>1, <1>2, QueueInit, QueueStep, RunInit, RunStep, PTL DEF Spec

-----------------------------------------------------------------------------
(* Free capacity is offered to every queued session, as long as the host was not
   interrupted and nobody withdraws a request.  A handler that found the host
   full and is about to queue its session holds the lock, so a drain that was
   started since then has still to read the queue. *)

WholeQueue == \A d \in Drain : drain[d].only = Pos
Coming == \E d \in Drain : drain[d].pc = "want"
FullPc == {"createFull", "queue"}
FullDecisions == \A c \in Client : client[c].pc \in FullPc => AtCapacity \/ Coming
ServedInv == WholeQueue /\ NoIdleCapacity /\ FullDecisions
CapacityInv == restarts = 0 => ServedInv

StaysActive == \A s \in Session : status[s] = "in_progress" => status'[s] = "in_progress"
StillLooked(p) ==
  (\E d \in Drain : Looks(d, p)) => (\E d \in Drain : Looks(d, p)')
QueuedSeen ==
  \A s \in Session : status'[s] = "queued" =>
    /\ status[s] = "queued"
    /\ \A p \in PendingOf(s) : p \in PendingOf(s)' /\ StillLooked(p)
NoNewFull == \A c \in Client : client'[c].pc \in FullPc => client[c].pc \in FullPc

LEMMA StaysFull ==
  ASSUME StaysActive
  PROVE  AtCapacity => AtCapacity'
<1>1. Active \subseteq Active'
  BY DEF StaysActive, Active
<1>2. IsFiniteSet(Active') /\ Cardinality(Active') \in Nat
  BY FiniteAssumption, FS_Subset, FS_CardinalityType DEF Active
<1>3. Cardinality(Active) <= Cardinality(Active')
  BY <1>1, <1>2, FS_Subset
<1> QED
  BY <1>2, <1>3, ActiveFinite, SlotsAssumption DEF AtCapacity

(* A drain that starts over the whole queue looks after every waiting entry. *)
LEMMA Offered ==
  ASSUME WholeQueue', AtCapacity' \/ Coming'
  PROVE  ServedInv'
<1>1. CASE AtCapacity'
  BY <1>1 DEF ServedInv, NoIdleCapacity, FullDecisions
<1>2. CASE Coming'
  <2>1. PICK d \in Drain : drain'[d].pc = "want"
    BY <1>2 DEF Coming
  <2>2. \A p \in Pos : Looks(d, p)'
    BY <2>1 DEF Looks, WholeQueue
  <2>3. \A s \in Session : PendingOf(s)' \subseteq Pos
    BY DEF PendingOf, Pending
  <2>4. NoIdleCapacity'
    BY <2>2, <2>3 DEF NoIdleCapacity
  <2> QED
    BY <1>2, <2>4 DEF ServedInv, FullDecisions
<1> QED
  BY <1>1, <1>2

LEMMA StartedServed ==
  ASSUME DrainsInv, WholeQueue, NEW rel, StartDrain(rel, Pos)
  PROVE  ServedInv'
<1>1. PICK d \in Drain :
        /\ drain[d].pc = "idle"
        /\ drain' = [drain EXCEPT ![d] =
             [pc |-> "want", rel |-> rel, todo |-> {}, cur |-> 0, only |-> Pos]]
  BY DEF StartDrain
<1>2. drain'[d].pc = "want" /\ drain'[d].only = Pos
  BY <1>1 DEF DrainsInv
<1>3. \A e \in Drain : e # d => drain'[e] = drain[e]
  BY <1>1 DEF DrainsInv
<1>4. WholeQueue'
  BY <1>2, <1>3 DEF WholeQueue
<1> QED
  BY <1>2, <1>4, Offered DEF Coming

(* A step that keeps capacity in use, and the drains at what they look at. *)
LEMMA SeenKept ==
  ASSUME ServedInv, QueuedHasEntry, StaysActive, QueuedSeen
  PROVE  NoIdleCapacity'
<1> SUFFICES ASSUME NEW s \in Session, status'[s] = "queued", ~AtCapacity'
             PROVE  \E p \in PendingOf(s)', d \in Drain : Looks(d, p)'
  BY DEF NoIdleCapacity
<1>1. ~AtCapacity
  BY StaysFull
<1>2. status[s] = "queued" /\ PendingOf(s) # {}
  BY DEF QueuedSeen, QueuedHasEntry, Owed
<1>3. PICK p \in PendingOf(s) : \E d \in Drain : Looks(d, p)
  BY <1>1, <1>2 DEF ServedInv, NoIdleCapacity
<1>4. p \in PendingOf(s)' /\ StillLooked(p)
  BY DEF QueuedSeen
<1> QED
  BY <1>3, <1>4 DEF StillLooked

LEMMA ServedKept ==
  ASSUME ServedInv, QueuedHasEntry, StaysActive, QueuedSeen, WholeQueue',
         NoNewFull /\ (Coming => Coming')
  PROVE  ServedInv'
<1>1. NoIdleCapacity'
  BY SeenKept
<1>2. FullDecisions'
  BY StaysFull DEF ServedInv, FullDecisions, NoNewFull
<1> QED
  BY <1>1, <1>2 DEF ServedInv

(* A step that leaves the drains alone and takes no entry of a queued session. *)
LEMMA RowsServed ==
  ASSUME ServedInv, QueuedHasEntry, drain' = drain, NoNewFull, StaysActive,
         \A s \in Session : status'[s] = "queued" =>
           status[s] = "queued" /\ PendingOf(s) \subseteq PendingOf(s)'
  PROVE  ServedInv'
<1>1. \A p : StillLooked(p)
  BY DEF StillLooked, Looks
<1>2. QueuedSeen
  BY <1>1 DEF QueuedSeen
<1>3. WholeQueue' /\ (Coming => Coming')
  BY DEF WholeQueue, Coming, ServedInv
<1> QED
  BY <1>2, <1>3, ServedKept

LEMMA StatusServed ==
  ASSUME ServedInv, QueuedHasEntry, UNCHANGED <<status, drain>>, NoNewFull, WaitingStay
  PROVE  ServedInv'
<1>1. \A s \in Session : PendingOf(s) \subseteq PendingOf(s)'
  BY MorePending
<1> QED
  BY <1>1, RowsServed DEF StaysActive

(* A handler that is done, or goes on, decides nothing about capacity. *)
LEMMA ServedDecides ==
  ASSUME ClientsInv, NEW c \in Client,
         \/ client' = [client EXCEPT ![c] = ServedClient]
         \/ Release(c)
         \/ \E pc : client' = [client EXCEPT ![c].pc = pc] /\ pc \notin FullPc
         \/ \E pc, n : client' = [client EXCEPT ![c].pc = pc, ![c].run = n] /\ pc \notin FullPc
         \/ \E pc, n : client' = [client EXCEPT ![c].pc = pc, ![c].pos = n] /\ pc \notin FullPc
         \/ \E r : client' = [client EXCEPT ![c] = r] /\ r.pc \notin FullPc
  PROVE  NoNewFull
<1>1. ASSUME NEW r, r.pc \notin FullPc, client' = [client EXCEPT ![c] = r] PROVE NoNewFull
  BY <1>1 DEF NoNewFull, ClientsInv
<1>2. ASSUME NEW pc, pc \notin FullPc, NEW n,
             \/ client' = [client EXCEPT ![c].pc = pc]
             \/ client' = [client EXCEPT ![c].pc = pc, ![c].run = n]
             \/ client' = [client EXCEPT ![c].pc = pc, ![c].pos = n]
      PROVE  NoNewFull
  BY <1>2 DEF NoNewFull, ClientsInv, Clients
<1>3. ServedClient.pc \notin FullPc
  BY DEF ServedClient, IdleClient, FullPc
<1> QED
  BY <1>1, <1>2, <1>3 DEF Release

(* The rows of one session go together with its place in the queue. *)
LEMMA DroppedServed ==
  ASSUME TypeInv, ServedInv, QueuedHasEntry, NEW s \in Session, status[s] = "queued",
         status' = [status EXCEPT ![s] = "cancelled"], mark' = WithoutEntriesOf(s),
         of' = of, drain' = drain, NoNewFull
  PROVE  ServedInv'
<1>1. /\ status'[s] = "cancelled"
      /\ \A x \in Session : x # s => status'[x] = status[x]
  BY DEF TypeInv, RowsInv
<1>2. \A p \in Pos : of[p] # s => mark'[p] = mark[p]
  BY DEF WithoutEntriesOf
<1>3. \A x \in Session : x # s => PendingOf(x) \subseteq PendingOf(x)'
  BY <1>2 DEF PendingOf, Pending
<1>4. StaysActive
  BY <1>1 DEF StaysActive
<1> QED
  BY <1>1, <1>3, <1>4, RowsServed

(* A handler that queues its session found the host full, and it still is full
   or a drain waits outside the lock. *)
LEMMA QueuesServed ==
  ASSUME TypeInv, IdleInv, ServedInv, NEW c \in Client, client[c].pc \in FullPc,
         status' = [status EXCEPT ![client[c].s] = "queued"], drain' = drain
  PROVE  ServedInv'
<1>1. client[c].s \in Session /\ status[client[c].s] # "in_progress"
  BY DEF FullPc, TypeInv, ClientsInv, IdleInv, Deciding
<1>2. StaysActive
  BY <1>1 DEF StaysActive, TypeInv, RowsInv
<1>3. AtCapacity \/ Coming
  BY DEF ServedInv, FullDecisions
<1>4. WholeQueue' /\ (Coming => Coming')
  BY DEF WholeQueue, Coming, ServedInv
<1> QED
  BY <1>2, <1>3, <1>4, StaysFull, Offered

LEMMA ClientServed ==
  ASSUME TypeInv, IdleInv, EntryInv, ServedInv, NobodyWithdraws,
         NEW c \in Client, Request(c) \/ ClientStep(c)
  PROVE  ServedInv'
<1>0. /\ RowsInv /\ DrainsInv /\ ClientsInv /\ QueuedHasEntry /\ WholeQueue
      /\ client[c].pc \notin {"idle", "done"} => client[c].s \in Session
      /\ client[c].pc # "undo"
      /\ "abort" \notin Ops /\ "remove" \notin Ops
  BY DEF TypeInv, ClientsInv, EntryInv, NobodyWithdraws, ServedInv
<1>1. ASSUME UNCHANGED <<status, mark, of, drain>>, NoNewFull PROVE ServedInv'
  BY <1>0, <1>1, StatusServed DEF WaitingStay
<1>2. ASSUME AtCapacity, UNCHANGED <<status, drain>> PROVE ServedInv'
  <2>1. StaysActive /\ WholeQueue'
    BY <1>0, <1>2 DEF StaysActive, WholeQueue
  <2> QED
    BY <1>2, <2>1, StaysFull, Offered
<1>3. ASSUME NEW s \in Session, CreateEnter(c, s) PROVE ServedInv'
  <2>1. UNCHANGED <<status, mark, of, drain>>
    BY <1>3 DEF CreateEnter, dbVars
  <2>2. CASE ~AtCapacity
    <3>1. NoNewFull
      BY <1>0, <1>3, <2>2 DEF CreateEnter, Enter, IdleClient, FullPc, NoNewFull, ClientsInv
    <3> QED
      BY <1>1, <2>1, <3>1
  <2> QED
    BY <1>2, <2>1, <2>2
<1>4. ASSUME NEW s \in Session, FollowUpEnter(c, s) \/ CancelRead(c, s) PROVE ServedInv'
  <2>1. UNCHANGED <<status, mark, of, drain>>
    BY <1>4 DEF FollowUpEnter, CancelRead, dbVars
  <2>2. NoNewFull
    BY <1>0, <1>4 DEF FollowUpEnter, CancelRead, Enter, IdleClient, FullPc, NoNewFull, ClientsInv
  <2> QED
    BY <1>1, <2>1, <2>2
<1>5. CASE FollowUpCapacity(c)
  <2>1. UNCHANGED <<status, mark, of, drain>>
    BY <1>5 DEF FollowUpCapacity, dbVars
  <2>2. CASE ~AtCapacity
    <3>1. NoNewFull
      BY <1>0, <1>5, <2>2 DEF FollowUpCapacity, FullPc, NoNewFull, ClientsInv, Clients
    <3> QED
      BY <1>1, <2>1, <3>1
  <2> QED
    BY <1>2, <2>1, <2>2
<1>6. CASE CreateThrows(c)
  BY <1>0, <1>1, <1>6, ServedDecides DEF CreateThrows, dbVars
<1>7. CASE CreateQueued(c) \/ FollowUpQueue(c)
  <2>1. /\ client[c].pc \in FullPc /\ drain' = drain
        /\ status' = [status EXCEPT ![client[c].s] = "queued"]
    BY <1>7 DEF CreateQueued, FollowUpQueue, FullPc
  <2> QED
    BY <2>1, QueuesServed
<1>8. CASE CreateStarted(c) \/ FollowUpResume(c)
  <2>1. /\ client[c].s \in Session /\ UNCHANGED <<mark, of, drain>>
        /\ status' = [status EXCEPT ![client[c].s] = "in_progress"]
    BY <1>0, <1>8 DEF CreateStarted, FollowUpResume
  <2>2. StaysActive /\ \A s \in Session : status'[s] = "queued" => status[s] = "queued"
    BY <1>0, <2>1 DEF RowsInv, StaysActive
  <2>3. \A s \in Session : PendingOf(s)' = PendingOf(s)
    BY <2>1 DEF PendingOf, Pending
  <2>4. NoNewFull
    BY <1>0, <1>8, ServedDecides DEF CreateStarted, FollowUpResume, FullPc
  <2> QED
    BY <1>0, <2>1, <2>2, <2>3, <2>4, RowsServed
<1>9. CASE CreateLaunch(c) \/ FollowUpLaunch(c) \/ FollowUpInsert(c)
  <2>1. /\ client[c].s \in Session /\ UNCHANGED <<status, drain>>
        /\ \/ \E m \in {"pending", "dispatched"} : Insert(client[c].s, m)
           \/ UNCHANGED <<mark, of>>
    BY <1>0, <1>9 DEF CreateLaunch, FollowUpLaunch, FollowUpInsert, dbVars
  <2>2. WaitingStay
    BY <2>1, InsertStay DEF WaitingStay
  <2>3. NoNewFull
    BY <1>0, <1>9, ServedDecides DEF CreateLaunch, FollowUpLaunch, FollowUpInsert
  <2> QED
    BY <1>0, <2>1, <2>2, <2>3, StatusServed
<1>10. ASSUME NEW s, NEW st, NEW u, EndRun(s, st, u) PROVE ServedInv'
  BY <1>0, <1>10, StartedServed DEF EndRun
<1>11. CASE CreateHookFails(c) \/ CreateAborted(c)
  BY <1>0, <1>10, <1>11, StartedServed DEF CreateHookFails, CreateAborted, CancelsInLock
<1>12. CASE CancelWrite(c)
  <2>1. CASE UNCHANGED <<dbVars, drain>>
    BY <1>0, <1>1, <1>12, <2>1, ServedDecides DEF CancelWrite, dbVars
  <2> QED
    BY <1>10, <1>12, <2>1 DEF CancelWrite
<1>13. ASSUME NEW s \in Session, NEW st, PatchStatus(c, s, st) PROVE ServedInv'
  BY <1>10, <1>13 DEF PatchStatus
<1>14. CASE CreateDropQueued(c) \/ CancelQueued(c)
  <2>1. client[c].s \in Session /\ of' = of /\ drain' = drain
    BY <1>0, <1>14 DEF CreateDropQueued, CancelQueued
  <2>2. NoNewFull
    BY <1>0, <1>14, ServedDecides DEF CreateDropQueued, CancelQueued
  <2>3. CASE UNCHANGED <<status, mark>>
    BY <1>1, <2>1, <2>2, <2>3
  <2> QED
    BY <1>0, <1>14, <2>1, <2>2, <2>3, DroppedServed DEF CreateDropQueued, CancelQueued
<1>15. CASE FollowUpUndo(c) \/ \E p \in Pos : RemoveQueued(c, p)
  BY <1>0, <1>15 DEF FollowUpUndo, RemoveQueued
<1> QED
  BY <1>3, <1>4, <1>5, <1>6, <1>7, <1>8, <1>9, <1>11, <1>12, <1>13, <1>14, <1>15
     DEF Request, ClientStep

(* Drain d moves on; every other drain stays where it is. *)
LEMMA OnlyDrain ==
  ASSUME NEW d \in Drain, \A e \in Drain : e # d => drain'[e] = drain[e],
         NEW p, Looks(d, p) => Looks(d, p)'
  PROVE  StillLooked(p)
<1> SUFFICES ASSUME NEW e \in Drain, Looks(e, p) PROVE \E f \in Drain : Looks(f, p)'
  BY DEF StillLooked
<1>1. CASE e = d
  BY <1>1
<1>2. CASE e # d
  <2>1. Looks(e, p)'
    BY <1>2 DEF Looks
  <2> QED
    BY <2>1
<1> QED
  BY <1>1, <1>2

(* Nobody decides about capacity while a drain has the lock or takes it. *)
LEMMA NobodyDecides ==
  ASSUME LockInv, client' = client, lock \in Drain \cup {Nobody}
  PROVE  FullDecisions'
<1>1. \A c \in Client : client[c].pc \notin FullPc
  BY SlotsAssumption DEF LockInv, Locked, FullPc
<1> QED
  BY <1>1 DEF FullDecisions

(* A drain that has just read the queue has everything in its list. *)
LEMMA ListServed ==
  ASSUME TypeInv, LockInv, WholeQueue, client' = client, lock \in Drain \cup {Nobody},
         NEW d \in Drain, MoveDrain(d, "scan", Listed(d), 0), UNCHANGED <<mark, of>>
  PROVE  ServedInv'
<1>1. /\ drain'[d].todo = Pending /\ drain'[d].only = Pos
      /\ \A e \in Drain : e # d => drain'[e] = drain[e]
  BY DEF MoveDrain, Listed, TypeInv, DrainsInv, WholeQueue, Pending
<1>2. \A s \in Session : PendingOf(s)' \subseteq drain'[d].todo
  BY <1>1 DEF PendingOf, Pending
<1>3. \A p \in drain'[d].todo : Looks(d, p)'
  BY DEF Looks
<1>4. NoIdleCapacity'
  BY <1>2, <1>3 DEF NoIdleCapacity
<1>5. WholeQueue'
  BY <1>1 DEF WholeQueue
<1> QED
  BY <1>4, <1>5, NobodyDecides DEF ServedInv

LEMMA DrainServed ==
  ASSUME TypeInv, LockInv, EntryInv, ServedInv, NEW d \in Drain, DrainStep(d)
  PROVE  ServedInv'
<1>0. RowsInv /\ DrainsInv /\ WholeQueue /\ QueuedHasEntry
  BY DEF TypeInv, EntryInv, ServedInv
<1>1. client' = client /\ NoNewFull
  BY DEF DrainStep, DrainList, DrainRequeue, DrainNext, DrainAdmit, DrainClaim, DrainLaunch,
     NoNewFull
<1>2. \A e \in Drain : e # d => drain'[e] = drain[e]
  BY <1>0 DEF DrainStep, DrainList, DrainRequeue, DrainNext, DrainAdmit, DrainClaim,
     DrainLaunch, Scan, MoveDrain, DrainsInv
<1>3. ASSUME NEW pc, NEW todo, NEW cur, MoveDrain(d, pc, todo, cur)
      PROVE  /\ drain'[d].pc = pc /\ drain'[d].todo = todo /\ drain'[d].cur = cur
             /\ drain'[d].only = Pos
  BY <1>0, <1>3 DEF MoveDrain, DrainsInv, WholeQueue
<1>4. ASSUME drain'[d].only = Pos PROVE WholeQueue'
  BY <1>0, <1>2, <1>4 DEF WholeQueue
<1>5. ASSUME drain[d].pc # "want" PROVE Coming => Coming'
  BY <1>2, <1>5 DEF Coming
<1>6. ASSUME drain[d].pc # "want", drain'[d].only = Pos, StaysActive,
             \A s \in Session : status'[s] = "queued" =>
               /\ status[s] = "queued"
               /\ \A p \in PendingOf(s) : p \in PendingOf(s)' /\ (Looks(d, p) => Looks(d, p)')
      PROVE  ServedInv'
  <2>1. QueuedSeen
    BY <1>2, <1>6, OnlyDrain DEF QueuedSeen
  <2> QED
    BY <1>0, <1>1, <1>4, <1>5, <1>6, <2>1, ServedKept
<1>7. CASE DrainList(d)
  <2>1. UNCHANGED <<status, mark, of>> /\ lock = Nobody /\ drain[d].pc = "want"
    BY <1>7 DEF DrainList, dbVars
  <2>2. CASE MoveDrain(d, "scan", Listed(d), 0)
    BY <1>0, <1>1, <2>1, <2>2, ListServed
  <2>3. CASE MoveDrain(d, "requeue", drain[d].todo, drain[d].cur)
    <3>1. \A p : Looks(d, p) => Looks(d, p)'
      BY <1>0, <1>3, <2>1, <2>3 DEF Looks, WholeQueue
    <3>2. QueuedSeen /\ StaysActive
      BY <1>2, <2>1, <3>1, OnlyDrain DEF QueuedSeen, StaysActive, PendingOf, Pending
    <3>3. NoIdleCapacity' /\ WholeQueue' /\ FullDecisions'
      BY <1>0, <1>1, <1>3, <1>4, <2>1, <2>3, <3>2, SeenKept, NobodyDecides
    <3> QED
      BY <3>3 DEF ServedInv
  <2> QED
    BY <1>7, <2>2, <2>3 DEF DrainList
<1>8. CASE DrainRequeue(d)
  <2>1. lock = d /\ UNCHANGED <<mark, of>> /\ MoveDrain(d, "scan", Listed(d), 0)
    BY <1>8 DEF DrainRequeue, LockInv, Holds
  <2> QED
    BY <1>0, <1>1, <2>1, ListServed
<1>9. CASE DrainNext(d)
  <2>1. UNCHANGED <<status, mark, of>> /\ drain[d].pc = "scan"
    BY <1>9 DEF DrainNext, dbVars
  <2>2. StaysActive /\ \A s \in Session : PendingOf(s)' = PendingOf(s)
    BY <2>1 DEF StaysActive, PendingOf, Pending
  <2>3. CASE drain[d].todo = {} /\ drain' = [drain EXCEPT ![d] = IdleDrain]
    <3>1. drain'[d].only = Pos
      BY <1>0, <2>3 DEF DrainsInv, IdleDrain
    <3>2. \A p : ~Looks(d, p)
      BY <2>1, <2>3 DEF Looks
    <3> QED
      BY <1>6, <2>1, <2>2, <3>1, <3>2
  <2>4. ASSUME NEW q \in drain[d].todo,
               IF of[q] \in Session /\ status[of[q]] = "queued"
               THEN MoveDrain(d, "admit", drain[d].todo \ {q}, q)
               ELSE MoveDrain(d, "scan", drain[d].todo \ {q}, 0)
        PROVE  ServedInv'
    <3>1. /\ drain'[d].only = Pos /\ drain'[d].todo = drain[d].todo \ {q}
          /\ of[q] \in Session /\ status[of[q]] = "queued" =>
               drain'[d].pc = "admit" /\ drain'[d].cur = q
      BY <1>3, <2>4
    <3>2. ASSUME NEW s \in Session, status[s] = "queued", NEW p \in PendingOf(s), Looks(d, p)
          PROVE  Looks(d, p)'
      <4>1. p \in drain[d].todo /\ of[p] = s
        BY <2>1, <3>2 DEF Looks, PendingOf
      <4> QED
        BY <3>1, <3>2, <4>1 DEF Looks
    <3> QED
      BY <1>6, <2>1, <2>2, <3>1, <3>2
  <2> QED
    BY <1>9, <2>3, <2>4 DEF DrainNext
<1>10. CASE DrainAdmit(d)
  <2>1. UNCHANGED <<status, mark, of>> /\ drain[d].pc = "admit"
    BY <1>10 DEF DrainAdmit, dbVars
  <2>2. StaysActive /\ \A s \in Session : PendingOf(s)' = PendingOf(s)
    BY <2>1 DEF StaysActive, PendingOf, Pending
  <2>3. CASE MoveDrain(d, "claim", drain[d].todo, drain[d].cur)
    <3>1. drain'[d].only = Pos /\ \A p : Looks(d, p) => Looks(d, p)'
      BY <1>3, <2>1, <2>3 DEF Looks
    <3> QED
      BY <1>6, <2>1, <2>2, <3>1
  <2>4. CASE (status[of[drain[d].cur]] # "queued" \/ AtCapacity) /\ Scan(d)
    <3>1. drain'[d].only = Pos /\ drain'[d].todo = drain[d].todo
      BY <1>3, <2>4 DEF Scan
    <3>2. CASE AtCapacity
      BY <1>4, <2>2, <3>1, <3>2, StaysFull, Offered
    <3>3. CASE status[of[drain[d].cur]] # "queued"
      <4>1. ASSUME NEW s \in Session, status[s] = "queued", NEW p \in PendingOf(s), Looks(d, p)
            PROVE  Looks(d, p)'
        BY <2>1, <3>1, <3>3, <4>1 DEF Looks, PendingOf
      <4> QED
        BY <1>6, <2>1, <2>2, <3>1, <4>1
    <3> QED
      BY <2>4, <3>2, <3>3
  <2> QED
    BY <1>10, <2>3, <2>4 DEF DrainAdmit
<1>11. CASE DrainClaim(d)
  <2> DEFINE q == drain[d].cur
  <2>1. drain[d].pc = "claim" /\ of' = of /\ q \in Pos /\ of[q] \in Session
    BY <1>0, <1>11 DEF DrainClaim, DrainsInv, Dispatching
  <2>2. drain'[d].only = Pos /\ drain'[d].todo = drain[d].todo
    BY <1>3, <1>11 DEF DrainClaim, Scan
  <2>3. CASE /\ status' = [status EXCEPT ![of[q]] = "in_progress"]
             /\ mark' = [mark EXCEPT ![q] = "dispatched"]
    <3>1. /\ status'[of[q]] = "in_progress"
          /\ \A s \in Session : s # of[q] => status'[s] = status[s]
          /\ \A p \in Pos : p # q => mark'[p] = mark[p]
      BY <1>0, <2>1, <2>3 DEF RowsInv
    <3>2. StaysActive
      BY <3>1 DEF StaysActive
    <3>3. ASSUME NEW s \in Session, status'[s] = "queued", NEW p \in PendingOf(s)
          PROVE  p \in PendingOf(s)' /\ (Looks(d, p) => Looks(d, p)')
      <4>1. p # q
        BY <3>1, <3>3 DEF PendingOf
      <4> QED
        BY <2>1, <2>2, <3>1, <4>1 DEF PendingOf, Pending, Looks
    <3> QED
      BY <1>6, <2>1, <2>2, <3>1, <3>2, <3>3
  <2>4. CASE ~Claimable(of[q], q) /\ UNCHANGED <<status, mark>>
    <3>1. StaysActive /\ \A s \in Session : PendingOf(s)' = PendingOf(s)
      BY <2>1, <2>4 DEF StaysActive, PendingOf, Pending
    <3>2. ASSUME NEW s \in Session, status[s] = "queued", NEW p \in PendingOf(s), Looks(d, p)
          PROVE  Looks(d, p)'
      <4>1. p # q
        BY <2>4, <3>2 DEF Claimable, PendingOf, Pending
      <4> QED
        BY <2>1, <2>2, <3>2, <4>1 DEF Looks
    <3> QED
      BY <1>6, <2>1, <2>2, <2>4, <3>1, <3>2
  <2> QED
    BY <1>11, <2>3, <2>4 DEF DrainClaim
<1>12. CASE DrainLaunch(d)
  <2>1. UNCHANGED <<status, mark, of>> /\ drain[d].pc = "launch"
    BY <1>12 DEF DrainLaunch, dbVars
  <2>2. drain'[d].only = Pos /\ drain'[d].todo = drain[d].todo
    BY <1>3, <1>12 DEF DrainLaunch, Scan
  <2>3. StaysActive /\ \A s \in Session : PendingOf(s)' = PendingOf(s)
    BY <2>1 DEF StaysActive, PendingOf, Pending
  <2>4. \A p : Looks(d, p) => Looks(d, p)'
    BY <2>1, <2>2 DEF Looks
  <2> QED
    BY <1>6, <2>1, <2>2, <2>3, <2>4
<1> QED
  BY <1>7, <1>8, <1>9, <1>10, <1>11, <1>12 DEF DrainStep

LEMMA LaunchServed ==
  ASSUME TypeInv, ClaimInv, EntryInv, ServedInv, NEW l \in launches, LaunchStep(l)
  PROVE  ServedInv'
<1>0. /\ RowsInv /\ DrainsInv /\ WholeQueue /\ QueuedHasEntry
      /\ l.pos \in Pos => mark[l.pos] \in Taken
  BY DEF TypeInv, EntryInv, ServedInv, ClaimInv, HeldInv
<1>1. client' = client /\ of' = of /\ NoNewFull
  BY DEF LaunchStep, HarnessStart, HarnessAccept, InitFails, StartFails, FailRemovesEntry,
     FailEndsRun, LaunchRetries, LaunchCloses, ExitRead, ExitWrite, EndRun, dbVars, NoNewFull
<1>2. ASSUME UNCHANGED <<status, drain>>, mark' = mark \/ mark' = WithoutEntry(l.pos)
      PROVE  ServedInv'
  <2>1. WaitingStay
    BY <1>0, <1>1, <1>2, TakenRemoved
  <2> QED
    BY <1>0, <1>1, <1>2, <2>1, StatusServed
<1>3. ASSUME NEW s, NEW st, NEW u, EndRun(s, st, u) PROVE ServedInv'
  BY <1>0, <1>3, StartedServed DEF EndRun
<1>4. CASE HarnessStart(l) \/ HarnessAccept(l) \/ InitFails(l) \/ StartFails(l) \/ LaunchCloses(l)
  BY <1>2, <1>4 DEF HarnessStart, HarnessAccept, InitFails, StartFails, LaunchCloses, dbVars
<1>5. CASE FailRemovesEntry(l) \/ ExitRead(l)
  BY <1>2, <1>5 DEF FailRemovesEntry, ExitRead
<1>6. CASE FailEndsRun(l) \/ ExitWrite(l)
  BY <1>2, <1>3, <1>6 DEF FailEndsRun, ExitWrite, dbVars
<1>7. CASE LaunchRetries(l)
  BY <1>0, <1>2, <1>7, StartedServed DEF LaunchRetries
<1> QED
  BY <1>4, <1>5, <1>6, <1>7 DEF LaunchStep

LEMMA SweepServed ==
  ASSUME TypeInv, ClaimInv, EntryInv, ServedInv, recovery = NoRecovery, SweepStep
  PROVE  ServedInv'
<1>1. PICK p \in Pos : RemoveAccepted(p)
  BY DEF SweepStep, RecoverClaim, RecoverDrain, ResolveOrphan, NoRecovery
<1>2. /\ UNCHANGED <<status, of, drain>> /\ mark' = WithoutEntry(p) /\ mark[p] \in Taken
      /\ NoNewFull
  BY <1>1 DEF RemoveAccepted, ClaimInv, CleanInv, CleanAt, NoNewFull
<1>3. WaitingStay
  BY <1>2, TakenRemoved DEF TypeInv
<1> QED
  BY <1>2, <1>3, StatusServed DEF EntryInv

LEMMA CapacityInit == Init => CapacityInv
<1> SUFFICES ASSUME Init PROVE ServedInv
  BY DEF CapacityInv
<1>1. WholeQueue /\ FullDecisions
  BY DEF Init, WholeQueue, FullDecisions, FullPc, IdleDrain, IdleClient
<1>2. NoIdleCapacity
  BY DEF Init, NoIdleCapacity
<1> QED
  BY <1>1, <1>2 DEF ServedInv

LEMMA CapacityStep ==
  ASSUME NobodyWithdraws
  PROVE  RequeueInv /\ EntryInv /\ CapacityInv /\ [Next]_vars => CapacityInv'
<1> SUFFICES ASSUME RequeueInv, EntryInv, CapacityInv, [Next]_vars, restarts' = 0
             PROVE  ServedInv'
  BY DEF CapacityInv
<1>1. TypeInv /\ LockInv /\ IdleInv /\ ClaimInv
  BY DEF RequeueInv, QueueInv, AdmissionInv
<1>2. ~Restart
  BY <1>1 DEF Restart, TypeInv, AuxInv
<1>3. restarts = 0
  BY <1>2 DEF Next, vars, auxVars, Request, ClientStep, DrainStep, LaunchStep, SweepStep,
     CreateEnter, FollowUpEnter, CancelRead, PatchStatus, RemoveQueued, CreateQueued,
     CreateDropQueued, CreateStarted, CreateHookFails, CreateAborted, CreateThrows,
     CreateLaunch, FollowUpInsert, FollowUpCapacity, FollowUpQueue, FollowUpUndo,
     FollowUpResume, FollowUpLaunch, CancelQueued, CancelWrite, DrainList, DrainRequeue,
     DrainNext, DrainAdmit, DrainClaim, DrainLaunch, HarnessStart, HarnessAccept, InitFails,
     StartFails, FailRemovesEntry, FailEndsRun, LaunchRetries, LaunchCloses, ExitRead,
     ExitWrite, RemoveAccepted, RecoverClaim, RecoverDrain, ResolveOrphan
<1>4. ServedInv /\ recovery = NoRecovery
  BY <1>3 DEF CapacityInv, RequeueInv, StrandInv, OwedInv
<1>5. CASE UNCHANGED vars
  <2>1. UNCHANGED <<status, mark, of, client, drain>>
    BY <1>5 DEF vars, dbVars
  <2>2. WaitingStay /\ NoNewFull
    BY <2>1 DEF WaitingStay, NoNewFull
  <2> QED
    BY <1>4, <2>1, <2>2, StatusServed DEF EntryInv
<1>6. CASE Next
  BY <1>1, <1>2, <1>4, <1>6, ClientServed, DrainServed, LaunchServed, SweepServed DEF Next
<1> QED
  BY <1>5, <1>6

(* As long as the host was not interrupted, no queued session waits beside free
   capacity without a drain on its way to it, for any limit and any number of
   requests and drains, provided that nobody withdraws a waiting request
   (FindIdle.cfg shows what a withdrawn one does) and no late write takes a
   cancelled session for a finished one, which would also leave a session queued
   without a request. *)
THEOREM CapacityOffered ==
  ASSUME NobodyWithdraws
  PROVE  Spec /\ CancelledRunStaysCancelled => [](restarts = 0 => NoIdleCapacity)
<1>1. CancelledRunStaysCancelled => [][StaysCancelled]_vars
  BY PTL DEF CancelledRunStaysCancelled, StaysCancelled
<1>2. CapacityInv => (restarts = 0 => NoIdleCapacity)
  BY DEF CapacityInv, ServedInv
<1>3. Init => RequeueInv
  BY QueueInit, StrandInit DEF RequeueInv
<1>4. RequeueInv => QueueInv
  BY DEF RequeueInv
<1> QED
  BY <1>1, <1>2, <1>3, <1>4, RequeueStep, EntryInit, EntryStep, CapacityInit, CapacityStep, PTL
     DEF Spec

(* Where no request ends a run from outside, a session never has two launches
   under way, one that has ended and is only leaving the store aside: no follow-up, drain,
   retry or reattachment starts a run beside another one. *)
OneRunPerSession ==
  \A l, k \in launches :
    l.s = k.s /\ l.phase # "closing" /\ k.phase # "closing" => l = k

THEOREM RunsAlone ==
  ASSUME NobodyInterrupts
  PROVE  Spec => []OneRunPerSession
<1>1. TypeInv /\ RunInv => OneRunPerSession
  <2> SUFFICES ASSUME TypeInv, RunInv, NEW l \in launches, NEW k \in launches,
                      l.s = k.s, l.phase # "closing", k.phase # "closing"
               PROVE  l = k
    BY DEF OneRunPerSession
  <2>1. SessionInv(l.s) /\ l \in UnderWay(l.s) /\ k \in UnderWay(l.s)
    BY DEF RunInv, TypeInv, HostInv, Launches, UnderWay
  <2> QED
    BY <2>1 DEF SessionInv, UnderWayInv
<1>2. QueueInv => TypeInv
  BY DEF QueueInv, AdmissionInv
<1> QED
  BY <1>1, <1>2, QueueInit, QueueStep, RunInit, RunStep, PTL DEF Spec

(* Whoever writes the end of a run finds the session in that run. *)
LEMMA LateWrites ==
  ASSUME NobodyInterrupts, TypeInv, RunInv, Next
  PROVE  StaysCancelled
<1>0. /\ RowsInv /\ ClientsInv /\ HostInv /\ AuxInv
      /\ "cancel" \notin Ops /\ "patch" \notin Ops
      /\ \A s \in Session : SessionInv(s)
  BY DEF TypeInv, RunInv, NobodyInterrupts
<1> SUFFICES ASSUME NEW s \in Session, status[s] = "cancelled"
             PROVE  status'[s] \notin {"completed", "failed"}
  BY DEF StaysCancelled
<1>1. ASSUME NEW x \in Session, NEW st \in Terminal, NEW u, EndRun(x, st, u),
             status[x] = "in_progress" \/ st \notin {"completed", "failed"}
      PROVE  status'[s] \notin {"completed", "failed"}
  BY <1>0, <1>1 DEF EndRun, RowsInv
<1>2. ASSUME NEW c \in Client, Request(c) \/ ClientStep(c)
      PROVE  status'[s] \notin {"completed", "failed"}
  <2>1. client[c].pc \notin {"idle", "done"} => client[c].s \in Session
    BY <1>0 DEF ClientsInv
  <2>2. CASE CreateHookFails(c)
    <3>1. client[c].s \in Session /\ status[client[c].s] = "in_progress"
      BY <1>0, <2>1, <2>2 DEF CreateHookFails, SessionInv, BeginInv, Begins, Free
    <3> QED
      BY <1>0, <2>2, <3>1 DEF CreateHookFails, RowsInv
  <2>3. CASE CreateAborted(c) \/ CancelWrite(c)
    <3>1. client[c].s \in Session
      BY <2>1, <2>3 DEF CreateAborted, CancelsInLock, CancelWrite
    <3> QED
      BY <1>0, <1>1, <2>3, <3>1 DEF CreateAborted, CancelWrite, Terminal, dbVars
  <2>4. ASSUME NEW x \in Session, NEW st, PatchStatus(c, x, st) PROVE FALSE
    BY <1>0, <2>4 DEF PatchStatus
  <2>5. CASE \/ CreateQueued(c) \/ CreateDropQueued(c) \/ CreateStarted(c) \/ FollowUpQueue(c)
             \/ FollowUpResume(c) \/ CancelQueued(c)
    BY <1>0, <2>5 DEF CreateQueued, CreateDropQueued, CreateStarted, FollowUpQueue,
       FollowUpResume, CancelQueued, RowsInv
  <2> QED
    BY <1>2, <2>2, <2>3, <2>4, <2>5 DEF Request, ClientStep, CreateEnter, FollowUpEnter, CancelRead,
       RemoveQueued, CreateThrows, CreateLaunch, FollowUpInsert, FollowUpCapacity, FollowUpUndo,
       FollowUpLaunch, dbVars
<1>3. ASSUME NEW d \in Drain, DrainStep(d) PROVE status'[s] \notin {"completed", "failed"}
  BY <1>0, <1>3 DEF DrainStep, DrainList, DrainRequeue, DrainNext, DrainAdmit, DrainClaim,
     DrainLaunch, RowsInv, dbVars
<1>4. ASSUME NEW l \in launches, LaunchStep(l) PROVE status'[s] \notin {"completed", "failed"}
  <2>1. l.s \in Session
    BY <1>0 DEF HostInv, Launches
  <2>2. CASE FailEndsRun(l) \/ ExitWrite(l)
    <3>1. l.phase # "closing"
      BY <2>2 DEF FailEndsRun, ExitWrite
    <3>2. status[l.s] = "in_progress"
      BY <1>0, <2>1, <3>1 DEF SessionInv, UnderWayInv, UnderWay
    <3> QED
      BY <1>1, <2>1, <2>2, <3>2 DEF FailEndsRun, ExitWrite, Terminal, dbVars
  <2>3. CASE LaunchRetries(l)
    BY <1>0, <2>3 DEF LaunchRetries, RowsInv
  <2> QED
    BY <1>4, <2>2, <2>3 DEF LaunchStep, HarnessStart, HarnessAccept, InitFails, StartFails,
       FailRemovesEntry, LaunchCloses, ExitRead, dbVars
<1>5. CASE SweepStep
  <2>1. ASSUME NEW sn \in recovery.stale, ResolveOrphan(sn[1], sn[2])
        PROVE  status'[s] \notin {"completed", "failed"}
    <3>1. sn[1] \in Session
      BY <1>0 DEF AuxInv, Recoveries
    <3> QED
      BY <1>1, <2>1, <3>1 DEF ResolveOrphan, Terminal, dbVars
  <2>2. ASSUME NEW p \in Pos, RemoveAccepted(p) \/ RecoverClaim(p)
        PROVE  status'[s] \notin {"completed", "failed"}
    BY <1>0, <2>2 DEF RemoveAccepted, RecoverClaim, Unowned, RowsInv
  <2> QED
    BY <1>5, <2>1, <2>2 DEF SweepStep, RecoverDrain, dbVars
<1> QED
  BY <1>2, <1>3, <1>4, <1>5 DEF Next, Restart, dbVars

(* Where no request ends a run from outside, no late write takes a cancelled
   session for a finished one. *)
THEOREM CancelledStays ==
  ASSUME NobodyInterrupts
  PROVE  Spec => CancelledRunStaysCancelled
<1>1. QueueInv /\ RunInv /\ [Next]_vars => [StaysCancelled]_vars
  BY LateWrites DEF QueueInv, AdmissionInv
<1>2. [][StaysCancelled]_vars => CancelledRunStaysCancelled
  BY PTL DEF CancelledRunStaysCancelled, StaysCancelled
<1> QED
  BY <1>1, <1>2, QueueInit, QueueStep, RunInit, RunStep, PTL DEF Spec

(* So with creates and follow-ups, failing hooks, launches and harnesses, every
   queued session has a request, and no free capacity is left idle beside it. *)
THEOREM OrdinaryService ==
  ASSUME NobodyInterrupts, NobodyWithdraws
  PROVE  Spec => []QueuedHasEntry /\ [](restarts = 0 => NoIdleCapacity)
BY CancelledStays, EntriesQueued, CapacityOffered, PTL

-----------------------------------------------------------------------------
(* A session that takes up capacity has somebody to end its run.  Most steps
   pass the run on in one piece.  Two could drop it: a retry that finds the claim
   of its launch gone, and a sweep that finds a stale run owned. *)

\* The entry of a queued run stays dispatched until its launch has left the
\* preparation, and an aborted follow-up takes back its own entry, which waits.
UndoInv ==
  \A c \in Client : client[c].pc = "undo" =>
    client[c].pos \in Pos /\ mark[client[c].pos] # "dispatched"

FirmInv ==
  /\ UndoInv
  /\ \A d \in Drain : Launching(d) => mark[drain[d].cur] = "dispatched"
  /\ \A l \in launches : l.phase = "preparing" /\ l.queued => mark[l.pos] = "dispatched"

Attended(s) ==
  status[s] = "in_progress" => UnderWay(s) # {} \/ Stale(s) \/ ~Unclaimed(s)

AttendedInv == \A s \in Session : Attended(s)

FirmLaunch(l) == l.phase = "preparing" /\ l.queued
Firm(p) ==
  \/ \E d \in Drain : Launching(d) /\ drain[d].cur = p
  \/ \E l \in launches : FirmLaunch(l) /\ l.pos = p
FirmStays == \A p \in Pos : Firm(p) => mark'[p] = mark[p]
NoNewFirm == \A l \in launches' : FirmLaunch(l) => l \in launches
UndoKept ==
  \A c \in Client : client'[c].pc = "undo" =>
    /\ client'[c].pos \in Pos
    /\ mark'[client'[c].pos] = "dispatched" =>
         client[c].pc = "undo" /\ client'[c].pos = client[c].pos

LEMMA FirmKept ==
  ASSUME TypeInv, FirmInv, FirmStays, NoNewFirm, LaunchersKept, UndoInv'
  PROVE  FirmInv'
<1>1. ASSUME NEW d \in Drain, Launching(d)' PROVE mark'[drain'[d].cur] = "dispatched"
  <2>1. Launching(d) /\ drain'[d] = drain[d] /\ drain[d].cur \in Pos
    BY <1>1, ClaimTypes DEF LaunchersKept, Launching
  <2> QED
    BY <2>1 DEF FirmInv, FirmStays, Firm
<1>2. ASSUME NEW l \in launches', FirmLaunch(l) PROVE mark'[l.pos] = "dispatched"
  <2>1. l \in launches /\ l.pos \in Pos
    BY <1>2 DEF NoNewFirm, FirmLaunch, TypeInv, HostInv
  <2> QED
    BY <1>2, <2>1 DEF FirmInv, FirmStays, Firm, FirmLaunch
<1> QED
  BY <1>1, <1>2 DEF FirmInv, FirmLaunch, Launching

LEMMA UndoStays ==
  ASSUME UndoInv, FlightKept, UndoKept
  PROVE  UndoInv'
BY DEF UndoInv, FlightKept, UndoKept

\* Nothing is taken out of the queue, and nothing that a run still needs removed.
LEMMA FirmRows ==
  ASSUME TypeInv, HeldInv, of' = of,
         \/ mark' = mark
         \/ \E q : ~Firm(q) /\ mark' = WithoutEntry(q)
         \/ \E x \in Session : InFlight(x) = {} /\ mark' = WithoutEntriesOf(x)
  PROVE  FlightKept /\ (FirmInv => FirmStays)
<1>1. FlightKept
  <2>1. RowsInv
    BY DEF TypeInv
  <2> QED
    BY <2>1, FewerFlights
<1>2. ASSUME FirmInv, NEW p \in Pos, Firm(p) PROVE mark'[p] = mark[p]
  <2>1. mark[p] = "dispatched"
    BY <1>2 DEF FirmInv, Firm, FirmLaunch
  <2>2. ASSUME NEW q, ~Firm(q), mark' = WithoutEntry(q) PROVE mark'[p] = mark[p]
    BY <1>2, <2>2 DEF WithoutEntry, TypeInv, RowsInv
  <2>3. ASSUME NEW x \in Session, InFlight(x) = {}, mark' = WithoutEntriesOf(x)
        PROVE  mark'[p] = mark[p]
    BY <2>1, <2>3 DEF WithoutEntriesOf, InFlight
  <2> QED
    BY <2>2, <2>3
<1> QED
  BY <1>1, <1>2 DEF FirmStays

LEMMA FirmInserts ==
  ASSUME TypeInv, FirmInv, NEW s, NEW m, Insert(s, m)
  PROVE  FirmStays
<1>1. /\ nextPos \in Pos /\ mark[nextPos] = "unused"
      /\ \A q \in Pos : q # nextPos => mark'[q] = mark[q]
  BY InsertClaims DEF TypeInv, RowsInv, Insert
<1>2. ASSUME NEW p \in Pos, Firm(p) PROVE mark[p] = "dispatched"
  BY <1>2 DEF FirmInv, Firm, FirmLaunch
<1> QED
  BY <1>1, <1>2 DEF FirmStays

\* The session keeps what it has.
LEMMA AttendedKept ==
  ASSUME NEW s \in Session, Attended(s), status'[s] = "in_progress" => status[s] = "in_progress",
         UnderWay(s) # {} => UnderWay(s)' # {}, Stale(s) => Stale(s)',
         Unclaimed(s)' => Unclaimed(s)
  PROVE  Attended(s)'
BY DEF Attended

LEMMA ClientFirm ==
  ASSUME QueueInv, RunInv, FirmInv, NobodyInterrupts,
         NEW c \in Client, Request(c) \/ ClientStep(c)
  PROVE  FirmInv'
<1>0. /\ TypeInv /\ RowsInv /\ DrainsInv /\ ClientsInv /\ LockInv /\ HeldInv /\ UndoInv
      /\ client[c].pc \notin {"idle", "done"} => client[c].s \in Session
      /\ client[c].pc \notin {"stop", "stopQueued"}
      /\ "cancel" \notin Ops /\ "patch" \notin Ops
      /\ \A s \in Session : SessionInv(s)
  <2>1. TypeInv /\ LockInv /\ HeldInv
    BY DEF QueueInv, AdmissionInv, ClaimInv
  <2>2. client[c].pc \notin {"idle", "done"} => client[c].s \in Session
    BY <2>1 DEF TypeInv, ClientsInv
  <2> QED
    BY <2>1, <2>2 DEF TypeInv, NobodyInterrupts, RunInv, CalmInv, FirmInv
<1>1. ASSUME \/ client' = [client EXCEPT ![c] = ServedClient] \/ Release(c)
             \/ \E pc : pc # "undo" /\ client' = [client EXCEPT ![c].pc = pc]
             \/ \E pc : \E n : pc # "undo" /\ client' = [client EXCEPT ![c].pc = pc, ![c].run = n]
             \/ \E r : r.pc # "undo" /\ client' = [client EXCEPT ![c] = r]
      PROVE  \A b \in Client : client'[b].pc = "undo" => b # c /\ client'[b] = client[b]
  <2>1. client'[c].pc # "undo"
    <3>1. CASE client' = [client EXCEPT ![c] = ServedClient] \/ Release(c)
      BY <1>0, <3>1 DEF ClientsInv, Release, ServedClient, IdleClient
    <3>2. ASSUME NEW pc, pc # "undo", NEW n,
                 \/ client' = [client EXCEPT ![c].pc = pc]
                 \/ client' = [client EXCEPT ![c].pc = pc, ![c].run = n]
          PROVE  client'[c].pc # "undo"
      BY <1>0, <3>2 DEF ClientsInv, Clients
    <3>3. ASSUME NEW r, r.pc # "undo", client' = [client EXCEPT ![c] = r]
          PROVE  client'[c].pc # "undo"
      BY <1>0, <3>3 DEF ClientsInv
    <3> QED
      BY <1>1, <3>1, <3>2, <3>3
  <2>2. \A b \in Client : b # c => client'[b] = client[b]
    BY <1>0, <1>1 DEF ClientsInv, Release
  <2> QED
    BY <2>1, <2>2
\* The handler has a next step that takes nothing out of the queue.
<1>2. ASSUME \A b \in Client : client'[b].pc = "undo" => b # c /\ client'[b] = client[b],
             UNCHANGED launches, LaunchersKept, FlightKept, FirmStays
      PROVE  FirmInv'
  <2>1. UndoKept
    BY <1>0, <1>2 DEF UndoKept, UndoInv
  <2> QED
    BY <1>0, <1>2, <2>1, UndoStays, FirmKept DEF NoNewFirm
<1>3. drain' = drain => LaunchersKept
  BY DEF LaunchersKept
<1>4. mark' = mark /\ of' = of => FlightKept /\ FirmStays
  BY DEF FlightKept, FirmStays
<1>5. ASSUME NEW s \in Session, CreateEnter(c, s) \/ FollowUpEnter(c, s) PROVE FirmInv'
  <2>1. \E r : r.pc # "undo" /\ client' = [client EXCEPT ![c] = r]
    <3>1. CASE CreateEnter(c, s)
      <4> DEFINE r == [IdleClient EXCEPT !.s = s, !.pc = IF AtCapacity THEN "createFull" ELSE "create"]
      <4>1. r.pc # "undo"
        BY DEF IdleClient
      <4> QED
        BY <3>1, <4>1 DEF CreateEnter, Enter
    <3>2. CASE FollowUpEnter(c, s)
      <4> DEFINE r == [IdleClient EXCEPT !.s = s, !.pc =
                       IF status[s] \in Terminal THEN "capacity" ELSE "insert"]
      <4>1. r.pc # "undo"
        BY DEF IdleClient
      <4> QED
        BY <3>2, <4>1 DEF FollowUpEnter, Enter
    <3> QED
      BY <1>5, <3>1, <3>2
  <2> QED
    BY <1>1, <1>2, <1>3, <1>4, <1>5, <2>1 DEF CreateEnter, FollowUpEnter, hostVars, dbVars
<1>6. CASE CreateThrows(c)
  BY <1>1, <1>2, <1>3, <1>4, <1>6 DEF CreateThrows, hostVars, dbVars
<1>7. CASE FollowUpCapacity(c)
  <2>1. \E pc : pc # "undo" /\ client' = [client EXCEPT ![c].pc = pc]
    BY <1>7 DEF FollowUpCapacity
  <2> QED
    BY <1>1, <1>2, <1>3, <1>4, <1>7, <2>1 DEF FollowUpCapacity, hostVars, dbVars
<1>8. CASE CreateQueued(c)
  <2>1. \A b \in Client : client'[b].pc = "undo" => b # c /\ client'[b] = client[b]
    BY <1>1, <1>8 DEF CreateQueued
  <2>2. Insert(client[c].s, "pending") /\ UNCHANGED <<drain, launches>>
    BY <1>8 DEF CreateQueued, hostVars
  <2>3. FlightKept /\ FirmStays
    BY <1>0, <2>2, InsertFlights, FirmInserts
  <2> QED
    BY <1>2, <1>3, <2>1, <2>2, <2>3
<1>9. CASE CreateDropQueued(c)
  <2>1. /\ Release(c) /\ UNCHANGED <<drain, launches, of>> /\ client[c].s \in Session
        /\ \/ mark' = mark
           \/ status[client[c].s] # "in_progress" /\ mark' = WithoutEntriesOf(client[c].s)
    BY <1>0, <1>9 DEF CreateDropQueued, hostVars
  <2>2. \/ mark' = mark
        \/ InFlight(client[c].s) = {} /\ mark' = WithoutEntriesOf(client[c].s)
    BY <1>0, <2>1, Resting
  <2>3. FlightKept /\ FirmStays
    BY <1>0, <2>1, <2>2, FirmRows
  <2> QED
    BY <1>1, <1>2, <1>3, <2>1, <2>3
<1>10. CASE CreateStarted(c) \/ FollowUpResume(c)
  <2>1. /\ \E pc : \E n : pc # "undo" /\ client' = [client EXCEPT ![c].pc = pc, ![c].run = n]
        /\ UNCHANGED <<mark, of, drain, launches>>
    BY <1>10 DEF CreateStarted, FollowUpResume, hostVars
  <2> QED
    BY <1>1, <1>2, <1>3, <1>4, <2>1
<1>11. CASE CreateHookFails(c) \/ CreateAborted(c)
  <2>1. /\ client[c].pc = "created" \/ status[client[c].s] # "in_progress"
        /\ client[c].s \in Session /\ UNCHANGED <<of, launches>>
        /\ mark' = mark \/ mark' = WithoutEntriesOf(client[c].s)
        /\ \E rel : StartDrain(rel, Pos)
        /\ \E pc : pc # "undo" /\ client' = [client EXCEPT ![c].pc = pc]
    BY <1>0, <1>11
       DEF CreateHookFails, CreateAborted, CancelsInLock, EndRun, hostVars, QueueInv, AdmissionInv,
           IdleInv, Deciding
  <2>2. InFlight(client[c].s) = {}
    BY <1>0, <2>1, Resting DEF SessionInv, BeginInv, Begins
  <2>3. FlightKept /\ FirmStays
    BY <1>0, <2>1, <2>2, FirmRows
  <2>4. LaunchersKept
    BY <1>0, <2>1, StartDrainClaims
  <2> QED
    BY <1>1, <1>2, <2>1, <2>3, <2>4
<1>12. CASE CreateLaunch(c) \/ FollowUpLaunch(c)
  <2>1. /\ client[c].pc \in Begins /\ client[c].pc \in Locked /\ Release(c) /\ UNCHANGED drain
        /\ \/ Insert(client[c].s, "dispatched")
           \/ UNCHANGED <<mark, of>>
        /\ \E p : Launch(client[c].s, client[c].run, p, "preparing", FALSE)
    BY <1>12 DEF CreateLaunch, FollowUpLaunch, Begins, Locked
  <2>2. \A b \in Client : client'[b].pc # "undo"
    <3>1. \A b \in Client : b # c => client[b].pc # "undo"
      BY <1>0, <2>1 DEF LockInv, Locked
    <3> QED
      BY <1>1, <2>1, <3>1
  <2>3. FirmStays
    BY <1>0, <1>4, <2>1, FirmInserts
  <2>4. NoNewFirm
    <3> PICK p : Launch(client[c].s, client[c].run, p, "preparing", FALSE)
      BY <2>1
    <3> DEFINE m == [s |-> client[c].s, run |-> client[c].run, pos |-> p, phase |-> "preparing",
                     queued |-> FALSE, prev |-> owner[client[c].s]]
    <3>1. launches' = launches \cup {m} /\ m.queued = FALSE
      BY DEF Launch
    <3> HIDE DEF m
    <3> QED
      BY <3>1 DEF NoNewFirm, FirmLaunch
  <2> QED
    BY <1>0, <1>3, <2>1, <2>2, <2>3, <2>4, FirmKept DEF UndoInv
<1>13. CASE FollowUpInsert(c) \/ FollowUpQueue(c)
  <2>1. /\ UNCHANGED <<drain, launches>> /\ client[c].s \in Session
        /\ \/ Release(c) /\ UNCHANGED <<mark, of>>
           \/ /\ Insert(client[c].s, "pending")
              /\ \/ Release(c)
                 \/ client' = [client EXCEPT ![c].pc = "undo", ![c].pos = nextPos]
    BY <1>0, <1>13 DEF FollowUpInsert, FollowUpQueue, hostVars, dbVars
  <2>2. CASE Release(c) /\ UNCHANGED <<mark, of>>
    BY <1>1, <1>2, <1>3, <1>4, <2>1, <2>2
  <2>3. ASSUME Insert(client[c].s, "pending") PROVE FlightKept /\ FirmStays
    BY <1>0, <2>3, InsertFlights, FirmInserts
  <2>4. CASE Insert(client[c].s, "pending") /\ Release(c)
    BY <1>1, <1>2, <1>3, <2>1, <2>3, <2>4
  <2>5. CASE /\ Insert(client[c].s, "pending")
             /\ client' = [client EXCEPT ![c].pc = "undo", ![c].pos = nextPos]
    <3>1. /\ client'[c].pos = nextPos /\ \A b \in Client : b # c => client'[b] = client[b]
      BY <1>0, <2>5 DEF ClientsInv, Clients
    <3>2. nextPos \in Pos /\ mark'[nextPos] = "pending"
      BY <1>0, <2>5, InsertClaims
    <3>3. UndoKept
      BY <1>0, <3>1, <3>2 DEF UndoKept, UndoInv
    <3> QED
      BY <1>0, <1>3, <2>1, <2>3, <2>5, <3>3, UndoStays, FirmKept DEF NoNewFirm
  <2> QED
    BY <2>1, <2>2, <2>4, <2>5
<1>14. CASE FollowUpUndo(c)
  <2>1. /\ client[c].pc = "undo" /\ Release(c) /\ UNCHANGED <<of, drain, launches>>
        /\ mark' = WithoutEntry(client[c].pos)
    BY <1>14 DEF FollowUpUndo, hostVars
  <2>2. ~Firm(client[c].pos)
    BY <1>0, <2>1 DEF UndoInv, FirmInv, Firm, FirmLaunch
  <2>3. FlightKept /\ FirmStays
    BY <1>0, <2>1, <2>2, FirmRows
  <2> QED
    BY <1>1, <1>2, <1>3, <2>1, <2>3
<1>15. ASSUME NEW p \in Pos, RemoveQueued(c, p) PROVE FirmInv'
  <2>1. /\ mark[p] = "pending" /\ mark' = WithoutEntry(p) /\ UNCHANGED <<of, drain, launches>>
        /\ client' = [client EXCEPT ![c] = ServedClient]
    BY <1>15 DEF RemoveQueued, hostVars
  <2>2. ~Firm(p)
    BY <2>1 DEF FirmInv, Firm, FirmLaunch
  <2>3. FlightKept /\ FirmStays
    BY <1>0, <2>1, <2>2, FirmRows
  <2> QED
    BY <1>1, <1>2, <1>3, <2>1, <2>3
<1>16. ~CancelQueued(c) /\ ~CancelWrite(c)
  BY <1>0 DEF CancelQueued, CancelWrite
<1>17. ASSUME NEW s \in Session PROVE ~CancelRead(c, s) /\ \A st : ~PatchStatus(c, s, st)
  BY <1>0 DEF CancelRead, PatchStatus
<1> QED
  BY <1>5, <1>6, <1>7, <1>8, <1>9, <1>10, <1>11, <1>12, <1>13, <1>14, <1>15, <1>16, <1>17
     DEF Request, ClientStep

LEMMA DrainFirm ==
  ASSUME QueueInv, FirmInv, NEW d \in Drain, DrainStep(d)
  PROVE  FirmInv'
<1>0. TypeInv /\ RowsInv /\ DrainsInv /\ LockInv /\ HeldInv /\ UndoInv
  BY DEF QueueInv, AdmissionInv, ClaimInv, TypeInv, FirmInv
<1>1. client' = client /\ of' = of
  BY DEF DrainStep, DrainList, DrainRequeue, DrainNext, DrainAdmit, DrainClaim, DrainLaunch, dbVars
<1>2. mark' = mark => UndoInv' /\ FirmStays
  BY <1>0, <1>1 DEF UndoInv, FirmStays
<1>3. ASSUME UNCHANGED <<mark, launches>>, LaunchersKept PROVE FirmInv'
  BY <1>0, <1>2, <1>3, FirmKept DEF NoNewFirm
<1>4. ASSUME NEW pc, pc # "launch", NEW todo, NEW cur, MoveDrain(d, pc, todo, cur)
      PROVE  LaunchersKept
  BY <1>0, <1>4, MoveDrainClaims
<1>5. CASE DrainList(d) \/ DrainRequeue(d) \/ DrainAdmit(d)
  <2>1. UNCHANGED <<mark, launches>>
    BY <1>5 DEF DrainList, DrainRequeue, DrainAdmit, dbVars, hostVars
  <2>2. LaunchersKept
    BY <1>4, <1>5 DEF DrainList, DrainRequeue, DrainAdmit, Scan
  <2> QED
    BY <1>3, <2>1, <2>2
<1>6. CASE DrainNext(d)
  <2>1. UNCHANGED <<mark, launches>>
    BY <1>6 DEF DrainNext, dbVars, hostVars
  <2>2. CASE drain' = [drain EXCEPT ![d] = IdleDrain]
    <3>1. LaunchersKept
      BY <1>0, <2>2 DEF LaunchersKept, Launching, DrainsInv, IdleDrain
    <3> QED
      BY <1>3, <2>1, <3>1
  <2>3. ASSUME NEW p, NEW pc \in {"admit", "scan"}, NEW cur,
               MoveDrain(d, pc, drain[d].todo \ {p}, cur)
        PROVE  FirmInv'
    BY <1>3, <1>4, <2>1, <2>3
  <2> QED
    BY <1>6, <2>2, <2>3 DEF DrainNext
<1>7. CASE DrainClaim(d)
  <2>1. /\ drain[d].cur \in Pos /\ UNCHANGED launches
        /\ \A b \in Client : client[b].pc # "undo"
    BY <1>0, <1>7, SlotsAssumption DEF DrainClaim, DrainsInv, Dispatching, hostVars, LockInv,
       Holds, Locked
  <2>2. CASE mark' = mark /\ Scan(d)
    BY <1>3, <1>4, <2>1, <2>2 DEF Scan
  <2>3. CASE /\ mark' = [mark EXCEPT ![drain[d].cur] = "dispatched"]
             /\ MoveDrain(d, "launch", drain[d].todo, drain[d].cur)
    <3>1. /\ mark'[drain[d].cur] = "dispatched"
          /\ \A p \in Pos : mark[p] = "dispatched" => mark'[p] = "dispatched"
      BY <1>0, <2>1, <2>3 DEF RowsInv
    <3>2. /\ drain'[d].cur = drain[d].cur
          /\ \A e \in Drain : e # d => drain'[e] = drain[e]
      BY <1>0, <2>3 DEF MoveDrain, DrainsInv
    <3>3. \A e \in Drain : Launching(e)' => mark'[drain'[e].cur] = "dispatched"
      <4>1. ASSUME NEW e \in Drain, e # d, Launching(e)' PROVE mark'[drain'[e].cur] = "dispatched"
        <5>1. Launching(e) /\ drain[e].cur \in Pos /\ drain'[e].cur = drain[e].cur
          BY <1>0, <3>2, <4>1, ClaimTypes DEF Launching
        <5> QED
          BY <3>1, <5>1 DEF FirmInv
      <4> QED
        BY <3>1, <3>2, <4>1
    <3>4. \A l \in launches' : FirmLaunch(l) => mark'[l.pos] = "dispatched"
      BY <1>0, <2>1, <3>1 DEF FirmInv, FirmLaunch, TypeInv, HostInv
    <3> QED
      BY <1>1, <2>1, <3>3, <3>4 DEF FirmInv, FirmLaunch, UndoInv, Launching
  <2> QED
    BY <1>7, <2>2, <2>3 DEF DrainClaim
<1>8. CASE DrainLaunch(d)
  <2>1. mark' = mark /\ LaunchersKept
    BY <1>4, <1>8 DEF DrainLaunch, dbVars, Scan
  <2>2. \E m : launches' = launches \cup {m} /\ m.pos = drain[d].cur
    <3> DEFINE m(ph, n) == [s |-> of[drain[d].cur], run |-> run[of[drain[d].cur]],
                            pos |-> drain[d].cur, phase |-> ph, queued |-> TRUE, prev |-> n]
    <3>1. \A ph, n : m(ph, n).pos = drain[d].cur
      OBVIOUS
    <3>2. \E ph, n : launches' = launches \cup {m(ph, n)}
      BY <1>8 DEF DrainLaunch, Launch
    <3> HIDE DEF m
    <3> QED
      BY <3>1, <3>2
  <2> PICK m : launches' = launches \cup {m} /\ m.pos = drain[d].cur
    BY <2>2
  <2>3. mark[m.pos] = "dispatched"
    BY <1>8, <2>2 DEF DrainLaunch, FirmInv, Launching
  <2>4. \A l \in launches' : FirmLaunch(l) => mark'[l.pos] = "dispatched"
    BY <2>1, <2>3 DEF FirmInv, FirmLaunch
  <2>5. \A e \in Drain : Launching(e)' => mark'[drain'[e].cur] = "dispatched"
    BY <2>1 DEF FirmInv, LaunchersKept, Launching
  <2> QED
    BY <1>2, <2>1, <2>4, <2>5 DEF FirmInv, FirmLaunch, Launching
<1> QED
  BY <1>5, <1>6, <1>7, <1>8 DEF DrainStep

LEMMA LaunchFirm ==
  ASSUME QueueInv, RunInv, FirmInv, NEW l \in launches, LaunchStep(l)
  PROVE  FirmInv'
<1>0. /\ TypeInv /\ RowsInv /\ DrainsInv /\ HeldInv /\ UndoInv /\ l.s \in Session
      /\ \A s \in Session : SessionInv(s)
  BY DEF QueueInv, AdmissionInv, ClaimInv, TypeInv, HostInv, Launches, RunInv, FirmInv
<1>1. client' = client /\ of' = of /\ LaunchersKept
  <2>1. client' = client /\ of' = of /\ (drain' = drain \/ \E rel : StartDrain(rel, Pos))
    BY DEF LaunchStep, HarnessStart, HarnessAccept, InitFails, StartFails, FailRemovesEntry,
       FailEndsRun, LaunchRetries, LaunchCloses, ExitRead, ExitWrite, EndRun, dbVars
  <2> QED
    BY <1>0, <2>1, StartDrainClaims DEF LaunchersKept
<1>2. ASSUME FlightKept, FirmStays, NoNewFirm PROVE FirmInv'
  <2>1. UndoInv'
    BY <1>0, <1>1, <1>2, UndoStays DEF UndoKept, UndoInv
  <2> QED
    BY <1>0, <1>1, <1>2, <2>1, FirmKept
<1>3. ASSUME NEW ph, ph # "preparing", MoveLaunch(l, ph) PROVE NoNewFirm
  <2> DEFINE m == [l EXCEPT !.phase = ph]
  <2>1. launches' = (launches \ {l}) \cup {m} /\ m.phase = ph
    BY <1>0, <1>3, ClaimTypes DEF MoveLaunch, Launches
  <2> HIDE DEF m
  <2> QED
    BY <1>3, <2>1 DEF NoNewFirm, FirmLaunch
<1>4. launches' \subseteq launches => NoNewFirm
  BY DEF NoNewFirm
<1>5. mark' = mark => FlightKept /\ FirmStays
  BY <1>1 DEF FlightKept, FirmStays
<1>6. ASSUME l.phase # "preparing" PROVE l.pos \in Pos => ~Firm(l.pos)
  BY <1>0, <1>6 DEF HeldInv, Firm, FirmLaunch
<1>7. ASSUME l.phase # "preparing", mark' = WithoutEntry(l.pos) PROVE FlightKept /\ FirmStays
  <2>1. CASE l.pos \in Pos
    BY <1>0, <1>1, <1>6, <1>7, <2>1, FirmRows
  <2>2. CASE l.pos \notin Pos
    <3>1. mark' = mark
      BY <1>7, <2>2 DEF WithoutEntry
    <3> QED
      BY <1>5, <3>1
  <2> QED
    BY <2>1, <2>2
<1>8. CASE HarnessStart(l)
  <2>1. mark' = mark /\ MoveLaunch(l, "starting")
    BY <1>8 DEF HarnessStart, dbVars
  <2> QED
    BY <1>2, <1>3, <1>5, <2>1
<1>9. CASE HarnessAccept(l)
  <2>1. mark' = mark /\ MoveLaunch(l, "running")
    BY <1>9 DEF HarnessAccept, dbVars
  <2> QED
    BY <1>2, <1>3, <1>5, <2>1
<1>10. CASE InitFails(l)
  <2>1. mark' = mark /\ MoveLaunch(l, "unready")
    BY <1>10 DEF InitFails, dbVars
  <2> QED
    BY <1>2, <1>3, <1>5, <2>1
<1>11. CASE StartFails(l)
  <2>1. mark' = mark /\ MoveLaunch(l, "failing")
    BY <1>11 DEF StartFails, dbVars
  <2> QED
    BY <1>2, <1>3, <1>5, <2>1
<1>12. CASE FailRemovesEntry(l)
  <2>1. /\ l.phase # "preparing" /\ \E ph \in {"failed", "unsaved"} : MoveLaunch(l, ph)
        /\ mark' = mark \/ mark' = WithoutEntry(l.pos)
    BY <1>12 DEF FailRemovesEntry
  <2> QED
    BY <1>2, <1>3, <1>5, <1>7, <2>1
\* Rows that a run ends without are gone from the session.
<1>13. ASSUME l.phase \in {"exiting", "failed", "unsaved"}, mark' = mark \/ mark' = WithoutEntriesOf(l.s)
       PROVE  FlightKept /\ FirmStays
  <2>1. InFlight(l.s) = {}
    <3>1. l \in UnderWay(l.s)
      BY <1>13 DEF UnderWay
    <3> QED
      BY <1>0, <1>13, <3>1 DEF SessionInv, UnderWayInv
  <2> QED
    BY <1>0, <1>1, <1>13, <2>1, FirmRows
<1>14. CASE FailEndsRun(l)
  <2>1. /\ l.phase \in {"failed", "unsaved"}
        /\ MoveLaunch(l, "closing") \/ launches' = launches \ {l}
        /\ mark' = mark \/ mark' = WithoutEntriesOf(l.s)
    BY <1>14 DEF FailEndsRun, EndRun, dbVars
  <2> QED
    BY <1>2, <1>3, <1>4, <1>13, <2>1
<1>15. CASE ExitWrite(l)
  <2>1. /\ l.phase = "exiting" /\ MoveLaunch(l, "closing")
        /\ mark' = mark \/ mark' = WithoutEntriesOf(l.s)
    BY <1>15 DEF ExitWrite, EndRun, dbVars
  <2> QED
    BY <1>2, <1>3, <1>13, <2>1
<1>16. CASE ExitRead(l)
  <2>1. /\ l.phase # "preparing"
        /\ MoveLaunch(l, "exiting") \/ launches' = launches \ {l}
        /\ mark' = mark \/ mark' = WithoutEntry(l.pos)
    BY <1>16 DEF ExitRead
  <2> QED
    BY <1>2, <1>3, <1>4, <1>5, <1>7, <1>16, <2>1 DEF ExitRead
<1>17. CASE LaunchCloses(l)
  <2>1. mark' = mark /\ launches' = launches \ {l}
    BY <1>17 DEF LaunchCloses, dbVars
  <2> QED
    BY <1>2, <1>4, <1>5, <2>1
<1>18. CASE LaunchRetries(l)
  <2>1. /\ l.phase = "preparing" /\ l.queued /\ l.pos \in Pos /\ launches' = launches \ {l}
        /\ mark' = mark \/ mark' = [mark EXCEPT ![l.pos] = "pending"]
    BY <1>0, <1>18 DEF LaunchRetries, TypeInv, HostInv
  <2>2. CASE mark' = mark
    BY <1>2, <1>4, <1>5, <2>1, <2>2
  <2>3. CASE mark' = [mark EXCEPT ![l.pos] = "pending"]
    <3>1. \A p \in Pos : p # l.pos => mark'[p] = mark[p]
      BY <1>0, <2>3 DEF RowsInv
    <3>2. mark'[l.pos] = "pending"
      BY <1>0, <2>1, <2>3 DEF RowsInv
    <3>3. FlightKept
      BY <1>1, <3>1, <3>2 DEF FlightKept
    <3>4. UndoInv'
      BY <1>0, <1>1, <3>3, UndoStays DEF UndoKept, UndoInv
    <3>5. \A k \in launches' : FirmLaunch(k) => mark'[k.pos] = "dispatched"
      BY <1>0, <2>1, <3>1 DEF FirmInv, FirmLaunch, HeldInv, TypeInv, HostInv
    <3>6. \A d \in Drain : Launching(d)' => mark'[drain'[d].cur] = "dispatched"
      <4>1. ASSUME NEW d \in Drain, Launching(d)' PROVE mark'[drain'[d].cur] = "dispatched"
        <5>1. Launching(d) /\ drain'[d] = drain[d] /\ drain[d].cur \in Pos
          BY <1>0, <1>1, <4>1, ClaimTypes DEF LaunchersKept, Launching
        <5>2. drain[d].cur # l.pos
          BY <1>0, <5>1 DEF HeldInv
        <5> QED
          BY <3>1, <5>1, <5>2 DEF FirmInv
      <4> QED
        BY <4>1
    <3> QED
      BY <3>4, <3>5, <3>6 DEF FirmInv, FirmLaunch, Launching
  <2> QED
    BY <2>1, <2>2, <2>3
<1> QED
  BY <1>8, <1>9, <1>10, <1>11, <1>12, <1>14, <1>15, <1>16, <1>17, <1>18 DEF LaunchStep

LEMMA SweepFirm ==
  ASSUME QueueInv, RunInv, FirmInv, SweepStep
  PROVE  FirmInv'
<1>0. /\ TypeInv /\ RowsInv /\ DrainsInv /\ HeldInv /\ CleanInv /\ SweepInv /\ UndoInv
      /\ \A s \in Session : SessionInv(s)
  BY DEF QueueInv, AdmissionInv, ClaimInv, TypeInv, RunInv, FirmInv
<1>1. client' = client /\ of' = of
  BY DEF SweepStep, RemoveAccepted, RecoverClaim, RecoverDrain, ResolveOrphan, EndRun, dbVars
<1>2. ASSUME FlightKept, FirmStays, NoNewFirm, LaunchersKept PROVE FirmInv'
  <2>1. UndoInv'
    BY <1>0, <1>1, <1>2, UndoStays DEF UndoKept, UndoInv
  <2> QED
    BY <1>0, <1>2, <2>1, FirmKept
<1>3. drain' = drain => LaunchersKept
  BY DEF LaunchersKept
<1>4. launches' = launches => NoNewFirm
  BY DEF NoNewFirm
<1>5. mark' = mark => FlightKept /\ FirmStays
  BY <1>1 DEF FlightKept, FirmStays
<1>6. ASSUME NEW p \in Pos, RemoveAccepted(p) PROVE FirmInv'
  <2>1. p \in cleanup /\ mark' = WithoutEntry(p) /\ UNCHANGED <<launches, drain>>
    BY <1>6 DEF RemoveAccepted
  <2>2. ~Firm(p)
    BY <1>0, <2>1 DEF CleanInv, CleanAt, Firm, FirmLaunch
  <2>3. FlightKept /\ FirmStays
    BY <1>0, <1>1, <2>1, <2>2, FirmRows
  <2> QED
    BY <1>2, <1>3, <1>4, <2>1, <2>3
<1>7. ASSUME NEW p \in Pos, RecoverClaim(p) PROVE FirmInv'
  <2>1. /\ p \in recovery.claims /\ UNCHANGED <<launches, drain>>
        /\ mark' = mark \/ mark' = [mark EXCEPT ![p] = "pending"]
    BY <1>7 DEF RecoverClaim, hostVars
  <2>2. ~Firm(p)
    BY <1>0, <2>1 DEF HeldInv, Firm, FirmLaunch
  <2>3. FlightKept /\ FirmStays
    BY <1>0, <1>1, <2>1, <2>2 DEF RowsInv, FlightKept, FirmStays
  <2> QED
    BY <1>2, <1>3, <1>4, <2>1, <2>3
<1>8. CASE RecoverDrain
  <2>1. StartDrain(NoSession, recovery.only) /\ UNCHANGED <<mark, launches>>
    BY <1>8 DEF RecoverDrain, dbVars, hostVars
  <2>2. LaunchersKept
    BY <1>0, <2>1, StartDrainClaims
  <2> QED
    BY <1>2, <1>4, <1>5, <2>1, <2>2
<1>9. ASSUME NEW sn \in recovery.stale, ResolveOrphan(sn[1], sn[2]) PROVE FirmInv'
  <2>0. sn \in Session \X Nat /\ recovery.claims = {}
    BY <1>0, <1>9 DEF ResolveOrphan, SweepInv, TypeInv, AuxInv, Recoveries
  <2> PICK x \in Session, n \in Nat : sn = <<x, n>>
    BY <2>0
  <2>1. CASE Unowned(x) /\ run[x] = n /\ EndRun(x, "disconnected", FALSE) /\ UNCHANGED hostVars
    <3>1. /\ mark' = mark \/ mark' = WithoutEntriesOf(x)
          /\ StartDrain(x, Pos) /\ UNCHANGED launches
      BY <2>1 DEF EndRun, hostVars
    <3>2. Stale(x) /\ status[x] = "in_progress"
      BY <2>1 DEF Stale, Unowned
    <3>3. InFlight(x) = {}
      BY <1>0, <2>0, <3>2 DEF SessionInv, FlightInv
    <3>4. FlightKept /\ FirmStays
      BY <1>0, <1>1, <3>1, <3>3, FirmRows
    <3>5. LaunchersKept
      BY <1>0, <3>1, StartDrainClaims
    <3> QED
      BY <1>2, <1>4, <3>1, <3>4, <3>5
  <2>2. CASE Launch(x, n, 0, "starting", FALSE) /\ UNCHANGED <<dbVars, drain>>
    <3> DEFINE m == [s |-> x, run |-> n, pos |-> 0, phase |-> "starting",
                     queued |-> FALSE, prev |-> owner[x]]
    <3>1. launches' = launches \cup {m} /\ m.queued = FALSE
      BY <2>2 DEF Launch
    <3> HIDE DEF m
    <3>2. NoNewFirm
      BY <3>1 DEF NoNewFirm, FirmLaunch
    <3> QED
      BY <1>2, <1>3, <1>5, <2>2, <3>2 DEF dbVars
  <2>3. CASE UNCHANGED <<dbVars, drain, hostVars>>
    BY <1>2, <1>3, <1>4, <1>5, <2>3 DEF dbVars, hostVars
  <2> QED
    BY <1>9, <2>1, <2>2, <2>3 DEF ResolveOrphan
<1> QED
  BY <1>6, <1>7, <1>8, <1>9 DEF SweepStep

LEMMA RestartFirm ==
  ASSUME Restart
  PROVE  FirmInv'
<1>1. /\ launches' = {} /\ \A c \in Client : client'[c].pc # "undo"
      /\ \A d \in Drain : ~Launching(d)'
  BY DEF Restart, IdleClient, ServedClient, IdleDrain, Launching
<1> QED
  BY <1>1 DEF FirmInv, UndoInv, Launching

LEMMA FirmInit == Init => FirmInv
<1> SUFFICES ASSUME Init PROVE FirmInv
  OBVIOUS
<1>1. /\ launches = {} /\ \A c \in Client : client[c].pc # "undo"
      /\ \A d \in Drain : ~Launching(d)
  BY DEF Init, IdleClient, IdleDrain, Launching
<1> QED
  BY <1>1 DEF FirmInv, UndoInv, Launching

LEMMA FirmStep ==
  ASSUME NobodyInterrupts
  PROVE  QueueInv /\ RunInv /\ FirmInv /\ [Next]_vars => FirmInv'
<1> SUFFICES ASSUME QueueInv, RunInv, FirmInv, [Next]_vars PROVE FirmInv'
  OBVIOUS
<1>1. CASE UNCHANGED vars
  BY <1>1 DEF vars, dbVars, hostVars, FirmInv, UndoInv, Launching
<1>2. CASE Next
  BY <1>2, ClientFirm, DrainFirm, LaunchFirm, SweepFirm, RestartFirm DEF Next
<1> QED
  BY <1>1, <1>2

\* What a step that works for the session x leaves to the others.
OthersAttended(x) ==
  /\ \A s \in Session : s # x =>
       (status'[s] = "in_progress" => status[s] = "in_progress" /\ run'[s] = run[s])
  /\ \A l \in launches : l.s # x /\ l.phase # "closing" =>
       \E k \in launches' : k.s = l.s /\ k.phase # "closing"
  /\ \A sn \in recovery.stale : sn[1] # x => sn \in recovery'.stale
  /\ \A c \in Client : client[c].pc \in Begins /\ client[c].s # x => client'[c] = client[c]
  /\ \A d \in Drain : Launching(d) /\ of[drain[d].cur] # x => drain'[d] = drain[d]
DrainsGoOn == \A d \in Drain : Launching(d) => drain'[d] = drain[d]

LEMMA AttendedStep ==
  ASSUME AttendedInv, LinksKept, NEW x, OthersAttended(x), x \in Session => Attended(x)'
  PROVE  AttendedInv'
<1>1. ASSUME NEW s \in Session, s # x PROVE Attended(s)'
  <2> SUFFICES ASSUME status'[s] = "in_progress"
               PROVE  UnderWay(s)' # {} \/ Stale(s)' \/ ~Unclaimed(s)'
    BY DEF Attended
  <2>1. run'[s] = run[s] /\ (UnderWay(s) # {} \/ Stale(s) \/ ~Unclaimed(s))
    BY <1>1 DEF AttendedInv, Attended, OthersAttended
  <2>2. UnderWay(s) # {} => UnderWay(s)' # {}
    BY <1>1 DEF UnderWay, OthersAttended
  <2>3. Stale(s) => Stale(s)'
    BY <1>1, <2>1 DEF Stale, OthersAttended
  <2>4. Unclaimed(s)' => Unclaimed(s)
    BY <1>1 DEF Unclaimed, Launching, OthersAttended, LinksKept
  <2> QED
    BY <2>1, <2>2, <2>3, <2>4
<1> QED
  BY <1>1 DEF AttendedInv

LEMMA StartDrainGoesOn ==
  ASSUME DrainsInv, NEW rel, NEW only, StartDrain(rel, only)
  PROVE  DrainsGoOn
BY DEF DrainsGoOn, Launching, StartDrain, DrainsInv

LEMMA ClientAttended ==
  ASSUME QueueInv, AttendedInv, NobodyInterrupts,
         NEW c \in Client, Request(c) \/ ClientStep(c)
  PROVE  AttendedInv'
<1>0. /\ TypeInv /\ RowsInv /\ DrainsInv /\ ClientsInv /\ HeldInv
      /\ client[c].pc \notin {"idle", "done"} => client[c].s \in Session
      /\ "cancel" \notin Ops /\ "patch" \notin Ops
  <2>1. TypeInv /\ HeldInv
    BY DEF QueueInv, AdmissionInv, ClaimInv
  <2>2. client[c].pc \notin {"idle", "done"} => client[c].s \in Session
    BY <2>1 DEF TypeInv, ClientsInv
  <2> QED
    BY <2>1, <2>2 DEF TypeInv, NobodyInterrupts
<1>1. (of' = of \/ \E s, m : Insert(s, m)) => LinksKept
  BY <1>0, InsertClaims, TakenLinks
<1>2. ASSUME recovery' = recovery, launches \subseteq launches', DrainsGoOn, LinksKept,
             \A b \in Client : b # c => client'[b] = client[b],
             NEW x, client[c].pc \in Begins => client[c].s = x,
             \A s \in Session : s # x => status'[s] = status[s] /\ run'[s] = run[s],
             x \in Session => Attended(x)'
      PROVE  AttendedInv'
  <2>1. OthersAttended(x)
    BY <1>2 DEF OthersAttended, DrainsGoOn
  <2> QED
    BY <1>2, <2>1, AttendedStep
<1>3. drain' = drain \/ (\E rel : StartDrain(rel, Pos)) => DrainsGoOn
  BY <1>0, StartDrainGoesOn DEF DrainsGoOn
<1>4. ASSUME \/ client' = [client EXCEPT ![c] = ServedClient] \/ Release(c)
             \/ \E pc : client' = [client EXCEPT ![c].pc = pc]
             \/ \E pc : \E n : client' = [client EXCEPT ![c].pc = pc, ![c].run = n]
             \/ \E pc : \E n : client' = [client EXCEPT ![c].pc = pc, ![c].pos = n]
             \/ \E r : client' = [client EXCEPT ![c] = r]
      PROVE  \A b \in Client : b # c => client'[b] = client[b]
  BY <1>0, <1>4 DEF ClientsInv, Release
\* The handler does nothing to a run.
<1>5. ASSUME client[c].pc \notin Begins, UNCHANGED <<status, run, launches, recovery>>,
             drain' = drain, of' = of \/ \E s, m : Insert(s, m),
             \A b \in Client : b # c => client'[b] = client[b]
      PROVE  AttendedInv'
  BY <1>1, <1>2, <1>3, <1>5, SlotsAssumption
\* Or its session stops running.
<1>6. ASSUME UNCHANGED <<run, launches, recovery>>,
             drain' = drain \/ \E rel : StartDrain(rel, Pos),
             of' = of \/ \E s, m : Insert(s, m),
             \A b \in Client : b # c => client'[b] = client[b],
             NEW st, st # "in_progress", status' = [status EXCEPT ![client[c].s] = st]
      PROVE  AttendedInv'
  <2> PICK x : x = client[c].s
    OBVIOUS
  <2>1. /\ x \in Session => status'[x] # "in_progress"
        /\ \A s \in Session : s # x => status'[s] = status[s]
    BY <1>0, <1>6 DEF RowsInv
  <2>2. x \in Session => Attended(x)'
    BY <2>1 DEF Attended
  <2>3. DrainsGoOn /\ LinksKept /\ launches \subseteq launches'
    BY <1>1, <1>3, <1>6
  <2> QED
    BY <1>2, <1>6, <2>1, <2>2, <2>3
<1>7. ASSUME NEW s \in Session, CreateEnter(c, s) \/ FollowUpEnter(c, s) PROVE AttendedInv'
  <2>1. client[c].pc = "idle" /\ \E r : client' = [client EXCEPT ![c] = r]
    BY <1>7 DEF CreateEnter, FollowUpEnter, Enter
  <2>2. \A b \in Client : b # c => client'[b] = client[b]
    BY <1>4, <2>1
  <2> QED
    BY <1>5, <1>7, <2>1, <2>2 DEF CreateEnter, FollowUpEnter, Begins, dbVars, hostVars, auxVars
<1>8. CASE CreateThrows(c)
  <2>1. \A b \in Client : b # c => client'[b] = client[b]
    BY <1>4, <1>8 DEF CreateThrows
  <2> QED
    BY <1>5, <1>8, <2>1 DEF CreateThrows, Begins, dbVars, hostVars, auxVars
<1>9. CASE FollowUpCapacity(c)
  <2>1. \A b \in Client : b # c => client'[b] = client[b]
    BY <1>4, <1>9 DEF FollowUpCapacity
  <2> QED
    BY <1>5, <1>9, <2>1 DEF FollowUpCapacity, Begins, dbVars, hostVars, auxVars
<1>10. CASE CreateQueued(c) \/ FollowUpQueue(c)
  <2>1. \A b \in Client : b # c => client'[b] = client[b]
    BY <1>4, <1>10 DEF CreateQueued, FollowUpQueue
  <2>2. /\ status' = [status EXCEPT ![client[c].s] = "queued"] /\ Insert(client[c].s, "pending")
        /\ UNCHANGED <<run, launches, recovery, drain>>
    BY <1>10 DEF CreateQueued, FollowUpQueue, hostVars, auxVars
  <2> QED
    BY <1>6, <2>1, <2>2
<1>11. CASE CreateDropQueued(c)
  <2>1. \A b \in Client : b # c => client'[b] = client[b]
    BY <1>4, <1>11 DEF CreateDropQueued
  <2>2. /\ UNCHANGED <<run, of, launches, recovery, drain>> /\ client[c].pc \notin Begins
        /\ status' = status \/ status' = [status EXCEPT ![client[c].s] = "cancelled"]
    BY <1>11 DEF CreateDropQueued, hostVars, auxVars, Begins
  <2> QED
    BY <1>5, <1>6, <2>1, <2>2
<1>12. CASE CreateStarted(c) \/ FollowUpResume(c)
  <2> PICK x \in Session : x = client[c].s
    BY <1>0, <1>12 DEF CreateStarted, FollowUpResume
  <2>1. /\ \E pc \in Begins : \E n : client' = [client EXCEPT ![c].pc = pc, ![c].run = n]
        /\ client[c].pc \notin Begins
        /\ status' = [status EXCEPT ![x] = "in_progress"] /\ run' = [run EXCEPT ![x] = @ + 1]
        /\ UNCHANGED <<of, launches, recovery, drain>>
    BY <1>12 DEF CreateStarted, FollowUpResume, Begins, hostVars, auxVars
  <2>2. /\ \A b \in Client : b # c => client'[b] = client[b]
        /\ client'[c].pc \in Begins /\ client'[c].s = x
    BY <1>0, <2>1 DEF ClientsInv, Clients
  <2>3. Attended(x)'
    BY <2>2 DEF Attended, Unclaimed
  <2>4. \A s \in Session : s # x => status'[s] = status[s] /\ run'[s] = run[s]
    BY <1>0, <2>1 DEF RowsInv
  <2> QED
    BY <1>1, <1>2, <1>3, <2>1, <2>2, <2>3, <2>4
<1>13. CASE CreateHookFails(c)
  <2>1. \A b \in Client : b # c => client'[b] = client[b]
    BY <1>4, <1>13 DEF CreateHookFails
  <2> QED
    BY <1>6, <1>13, <2>1 DEF CreateHookFails, hostVars, auxVars
<1>14. CASE CreateAborted(c)
  <2>1. \A b \in Client : b # c => client'[b] = client[b]
    BY <1>4, <1>14 DEF CreateAborted
  <2> QED
    BY <1>6, <1>14, <2>1 DEF CreateAborted, EndRun, hostVars, auxVars
<1>15. CASE CreateLaunch(c) \/ FollowUpLaunch(c)
  <2> PICK x \in Session : x = client[c].s
    BY <1>0, <1>15 DEF CreateLaunch, FollowUpLaunch
  <2>1. /\ Release(c) /\ UNCHANGED <<status, run, drain, recovery>>
        /\ Insert(x, "dispatched") \/ of' = of
        /\ \E p : Launch(x, client[c].run, p, "preparing", FALSE)
    BY <1>15 DEF CreateLaunch, FollowUpLaunch, auxVars
  <2> PICK p : Launch(x, client[c].run, p, "preparing", FALSE)
    BY <2>1
  <2> DEFINE m == [s |-> x, run |-> client[c].run, pos |-> p, phase |-> "preparing",
                   queued |-> FALSE, prev |-> owner[x]]
  <2>2. launches' = launches \cup {m} /\ m.s = x /\ m.phase = "preparing"
    BY DEF Launch
  <2> HIDE DEF m
  <2>3. Attended(x)'
    BY <2>2 DEF Attended, UnderWay
  <2>4. \A b \in Client : b # c => client'[b] = client[b]
    BY <1>4, <2>1
  <2> QED
    BY <1>1, <1>2, <1>3, <2>1, <2>2, <2>3, <2>4
<1>16. CASE FollowUpInsert(c)
  <2>1. \A b \in Client : b # c => client'[b] = client[b]
    BY <1>4, <1>16 DEF FollowUpInsert
  <2> QED
    BY <1>5, <1>16, <2>1 DEF FollowUpInsert, Begins, dbVars, hostVars, auxVars
<1>17. CASE FollowUpUndo(c)
  <2>1. \A b \in Client : b # c => client'[b] = client[b]
    BY <1>4, <1>17 DEF FollowUpUndo
  <2> QED
    BY <1>5, <1>17, <2>1 DEF FollowUpUndo, Begins, hostVars, auxVars
<1>18. ASSUME NEW p \in Pos, RemoveQueued(c, p) PROVE AttendedInv'
  <2>1. \A b \in Client : b # c => client'[b] = client[b]
    BY <1>4, <1>18 DEF RemoveQueued
  <2> QED
    BY <1>5, <1>18, <2>1 DEF RemoveQueued, Begins, hostVars, auxVars
<1>19. CASE CancelQueued(c)
  <2>1. \A b \in Client : b # c => client'[b] = client[b]
    BY <1>4, <1>19 DEF CancelQueued
  <2>2. /\ UNCHANGED <<run, of, launches, recovery, drain>> /\ client[c].pc \notin Begins
        /\ status' = status \/ status' = [status EXCEPT ![client[c].s] = "cancelled"]
    BY <1>19 DEF CancelQueued, hostVars, auxVars, Begins
  <2> QED
    BY <1>5, <1>6, <2>1, <2>2
<1>20. CASE CancelWrite(c)
  <2>1. \A b \in Client : b # c => client'[b] = client[b]
    BY <1>4, <1>20 DEF CancelWrite
  <2>2. CASE EndRun(client[c].s, "cancelled", TRUE)
    BY <1>6, <1>20, <2>1, <2>2 DEF CancelWrite, EndRun, hostVars, auxVars
  <2>3. CASE UNCHANGED <<dbVars, drain>>
    BY <1>5, <1>20, <2>1, <2>3 DEF CancelWrite, Begins, dbVars, hostVars, auxVars
  <2> QED
    BY <1>20, <2>2, <2>3 DEF CancelWrite
<1>21. ASSUME NEW s \in Session PROVE ~CancelRead(c, s) /\ \A st : ~PatchStatus(c, s, st)
  BY <1>0 DEF CancelRead, PatchStatus
<1> QED
  BY <1>7, <1>8, <1>9, <1>10, <1>11, <1>12, <1>13, <1>14, <1>15, <1>16, <1>17, <1>18, <1>19,
     <1>20, <1>21 DEF Request, ClientStep

LEMMA DrainAttended ==
  ASSUME QueueInv, AttendedInv, NEW d \in Drain, DrainStep(d)
  PROVE  AttendedInv'
<1>0. TypeInv /\ RowsInv /\ DrainsInv
  BY DEF QueueInv, AdmissionInv, TypeInv
<1>1. /\ client' = client /\ recovery' = recovery /\ LinksKept
      /\ launches \subseteq launches' /\ \A e \in Drain : e # d => drain'[e] = drain[e]
  <2>1. client' = client /\ recovery' = recovery /\ of' = of
    BY DEF DrainStep, DrainList, DrainRequeue, DrainNext, DrainAdmit, DrainClaim, DrainLaunch,
       dbVars, auxVars
  <2>2. launches \subseteq launches'
    BY DEF DrainStep, DrainList, DrainRequeue, DrainNext, DrainAdmit, DrainClaim, DrainLaunch,
       Launch, hostVars
  <2>3. \A e \in Drain : e # d => drain'[e] = drain[e]
    BY <1>0 DEF DrainStep, DrainList, DrainRequeue, DrainNext, DrainAdmit, DrainClaim,
       DrainLaunch, Scan, MoveDrain, DrainsInv
  <2> QED
    BY <2>1, <2>2, <2>3 DEF LinksKept
<1>2. ASSUME NEW x, Launching(d) => of[drain[d].cur] = x,
             \A s \in Session : s # x =>
               (status'[s] = "in_progress" => status[s] = "in_progress" /\ run'[s] = run[s]),
             x \in Session => Attended(x)'
      PROVE  AttendedInv'
  <2>1. OthersAttended(x)
    BY <1>1, <1>2 DEF OthersAttended
  <2> QED
    BY <1>1, <1>2, <2>1, AttendedStep
<1>3. CASE DrainList(d) \/ DrainNext(d) \/ DrainAdmit(d)
  <2>1. ~Launching(d) /\ UNCHANGED <<status, run>>
    BY <1>3 DEF DrainList, DrainNext, DrainAdmit, dbVars, Launching
  <2> QED
    BY <1>2, <2>1, SlotsAssumption
<1>4. CASE DrainRequeue(d)
  <2>1. /\ ~Launching(d) /\ run' = run
        /\ \A s \in Session : status'[s] = "in_progress" => status[s] = "in_progress"
    BY <1>0, <1>4 DEF DrainRequeue, Launching, RowsInv
  <2> QED
    BY <1>2, <2>1, SlotsAssumption
<1>5. CASE DrainClaim(d)
  <2>1. ~Launching(d)
    BY <1>5 DEF DrainClaim, Launching
  <2>2. CASE UNCHANGED <<status, run>>
    BY <1>2, <2>1, <2>2, SlotsAssumption
  <2>3. CASE /\ status' = [status EXCEPT ![of[drain[d].cur]] = "in_progress"]
             /\ run' = [run EXCEPT ![of[drain[d].cur]] = @ + 1]
             /\ MoveDrain(d, "launch", drain[d].todo, drain[d].cur)
    <3> PICK x : x = of[drain[d].cur]
      OBVIOUS
    <3>1. \A s \in Session : s # x => status'[s] = status[s] /\ run'[s] = run[s]
      BY <1>0, <2>3 DEF RowsInv
    <3>2. Launching(d)' /\ of'[drain'[d].cur] = x
      BY <1>0, <1>5, <2>3 DEF DrainClaim, MoveDrain, DrainsInv, Launching
    <3>3. Attended(x)'
      BY <3>2 DEF Attended, Unclaimed, Launching
    <3> QED
      BY <1>2, <2>1, <3>1, <3>3
  <2> QED
    BY <1>5, <2>2, <2>3 DEF DrainClaim
<1>6. CASE DrainLaunch(d)
  <2> PICK x : x = of[drain[d].cur]
    OBVIOUS
  <2> DEFINE m(ph, n) == [s |-> x, run |-> run[x], pos |-> drain[d].cur, phase |-> ph,
                          queued |-> TRUE, prev |-> n]
  <2>1. \A ph, n : m(ph, n).s = x /\ m(ph, n).phase = ph
    OBVIOUS
  <2>2. \E ph \in {"preparing", "unready"} : \E n : launches' = launches \cup {m(ph, n)}
    BY <1>6 DEF DrainLaunch, Launch
  <2> HIDE DEF m
  <2>3. Attended(x)'
    BY <2>1, <2>2 DEF Attended, UnderWay
  <2>4. UNCHANGED <<status, run>>
    BY <1>6 DEF DrainLaunch, dbVars
  <2> QED
    BY <1>2, <2>3, <2>4
<1> QED
  BY <1>3, <1>4, <1>5, <1>6 DEF DrainStep

\* Each of the last steps of a launch finds that the run is still its own: an
\* exit is not taken for a run that somebody ended, and a retry returns the claim.
LEMMA LaunchAttended ==
  ASSUME QueueInv, RunInv, FirmInv, AttendedInv, NEW l \in launches, LaunchStep(l)
  PROVE  AttendedInv'
<1>0. /\ TypeInv /\ RowsInv /\ DrainsInv /\ l.s \in Session
      /\ \A s \in Session : SessionInv(s)
  BY DEF QueueInv, AdmissionInv, TypeInv, HostInv, Launches, RunInv
<1>1. client' = client /\ run' = run /\ recovery' = recovery /\ LinksKept /\ DrainsGoOn
  <2>1. client' = client /\ of' = of /\ run' = run /\ recovery' = recovery
    BY DEF LaunchStep, HarnessStart, HarnessAccept, InitFails, StartFails, FailRemovesEntry,
       FailEndsRun, LaunchRetries, LaunchCloses, ExitRead, ExitWrite, EndRun, dbVars, auxVars
  <2>2. drain' = drain \/ \E rel : StartDrain(rel, Pos)
    BY DEF LaunchStep, HarnessStart, HarnessAccept, InitFails, StartFails, FailRemovesEntry,
       FailEndsRun, LaunchRetries, LaunchCloses, ExitRead, ExitWrite, EndRun
  <2> QED
    BY <1>0, <2>1, <2>2, StartDrainGoesOn DEF LinksKept, DrainsGoOn
<1>2. l.phase # "closing" =>
        /\ status[l.s] = "in_progress" /\ run[l.s] = l.run
        /\ l.phase \in Holders => owner[l.s] = l.run
  BY <1>0 DEF UnderWay, SessionInv, UnderWayInv
\* The launch goes on.
<1>3. ASSUME NEW ph, ph # "closing", MoveLaunch(l, ph), status' = status PROVE AttendedInv'
  <2> DEFINE m == [l EXCEPT !.phase = ph]
  <2>1. launches' = (launches \ {l}) \cup {m} /\ m.s = l.s /\ m.phase = ph
    BY <1>0, <1>3, ClaimTypes DEF MoveLaunch, Launches
  <2> HIDE DEF m
  <2>2. OthersAttended(NoSession)
    BY <1>1, <1>3, <2>1 DEF OthersAttended, DrainsGoOn
  <2> QED
    BY <1>1, <2>2, AttendedStep, SlotsAssumption
\* It ends, and so does the run.
<1>4. ASSUME NEW st, st # "in_progress", status' = [status EXCEPT ![l.s] = st],
             MoveLaunch(l, "closing") \/ launches' = launches \ {l}
      PROVE  AttendedInv'
  <2>1. status'[l.s] # "in_progress" /\ \A s \in Session : s # l.s => status'[s] = status[s]
    BY <1>0, <1>4 DEF RowsInv
  <2>2. Attended(l.s)'
    BY <2>1 DEF Attended
  <2>3. \A k \in launches : k.s # l.s => k \in launches'
    BY <1>4 DEF MoveLaunch
  <2>4. OthersAttended(l.s)
    BY <1>1, <2>1, <2>3 DEF OthersAttended, DrainsGoOn
  <2> QED
    BY <1>1, <2>2, <2>4, AttendedStep
<1>5. CASE HarnessStart(l)
  BY <1>3, <1>5 DEF HarnessStart, dbVars
<1>6. CASE HarnessAccept(l)
  BY <1>3, <1>6 DEF HarnessAccept, dbVars
<1>7. CASE InitFails(l)
  BY <1>3, <1>7 DEF InitFails, dbVars
<1>8. CASE StartFails(l)
  BY <1>3, <1>8 DEF StartFails, dbVars
<1>9. CASE FailRemovesEntry(l)
  <2>1. status' = status /\ \E ph \in {"failed", "unsaved"} : MoveLaunch(l, ph)
    BY <1>9 DEF FailRemovesEntry
  <2> QED
    BY <1>3, <2>1
<1>10. CASE FailEndsRun(l)
  <2>1. l.phase # "closing" /\ (MoveLaunch(l, "closing") \/ launches' = launches \ {l})
    BY <1>10 DEF FailEndsRun
  <2>2. \E st \in {"cancelled", "failed"} : status' = [status EXCEPT ![l.s] = st]
    BY <1>2, <1>10, <2>1 DEF FailEndsRun, FailWrites, EndRun
  <2> QED
    BY <1>4, <2>1, <2>2
<1>11. CASE LaunchRetries(l)
  <2>1. l.phase = "preparing" /\ l.queued /\ launches' = launches \ {l}
    BY <1>11 DEF LaunchRetries
  <2>2. ClaimIsStale(l.s, l.pos, l.run)
    BY <1>2, <2>1 DEF ClaimIsStale, FirmInv
  <2>3. status' = [status EXCEPT ![l.s] = "queued"]
    BY <1>11, <2>2 DEF LaunchRetries
  <2> QED
    BY <1>4, <2>1, <2>3
<1>12. CASE LaunchCloses(l)
  <2>1. l.phase = "closing" /\ launches' = launches \ {l} /\ status' = status
    BY <1>12 DEF LaunchCloses, dbVars
  <2>2. OthersAttended(NoSession)
    BY <1>1, <2>1 DEF OthersAttended, DrainsGoOn
  <2> QED
    BY <1>1, <2>2, AttendedStep, SlotsAssumption
<1>13. CASE ExitRead(l)
  <2>1. l.phase = "running" /\ status' = status
    BY <1>13 DEF ExitRead
  <2>2. owner[l.s] = l.run /\ status[l.s] # "cancelled"
    BY <1>2, <2>1 DEF Holders
  <2>3. MoveLaunch(l, "exiting")
    BY <1>13, <2>2 DEF ExitRead
  <2> QED
    BY <1>3, <2>1, <2>3
<1>14. CASE ExitWrite(l)
  <2>1. owner[l.s] = l.run /\ MoveLaunch(l, "closing")
    BY <1>2, <1>14 DEF ExitWrite, Holders
  <2>2. \E st \in {"completed", "failed"} : status' = [status EXCEPT ![l.s] = st]
    BY <1>14, <2>1 DEF ExitWrite, EndRun
  <2> QED
    BY <1>4, <2>1, <2>2
<1> QED
  BY <1>5, <1>6, <1>7, <1>8, <1>9, <1>10, <1>11, <1>12, <1>13, <1>14 DEF LaunchStep

LEMMA SweepAttended ==
  ASSUME QueueInv, RunInv, AttendedInv, SweepStep
  PROVE  AttendedInv'
<1>0. /\ TypeInv /\ RowsInv /\ DrainsInv
      /\ \A s \in Session : SessionInv(s)
  BY DEF QueueInv, AdmissionInv, TypeInv, RunInv
<1>1. client' = client /\ run' = run /\ LinksKept /\ DrainsGoOn /\ launches \subseteq launches'
  <2>1. client' = client /\ of' = of /\ run' = run
    BY DEF SweepStep, RemoveAccepted, RecoverClaim, RecoverDrain, ResolveOrphan, EndRun, dbVars
  <2>2. drain' = drain \/ \E rel, only : StartDrain(rel, only)
    BY DEF SweepStep, RemoveAccepted, RecoverClaim, RecoverDrain, ResolveOrphan, EndRun
  <2>3. launches \subseteq launches'
    BY DEF SweepStep, RemoveAccepted, RecoverClaim, RecoverDrain, ResolveOrphan, Launch, hostVars
  <2> QED
    BY <1>0, <2>1, <2>2, <2>3, StartDrainGoesOn DEF LinksKept, DrainsGoOn
<1>2. ASSUME NEW x,
             \A s \in Session : s # x => (status'[s] = "in_progress" => status[s] = "in_progress"),
             \A sn \in recovery.stale : sn[1] # x => sn \in recovery'.stale,
             x \in Session => Attended(x)'
      PROVE  AttendedInv'
  <2>1. OthersAttended(x)
    BY <1>1, <1>2 DEF OthersAttended, DrainsGoOn
  <2> QED
    BY <1>1, <1>2, <2>1, AttendedStep
<1>3. ASSUME NEW p \in Pos, RemoveAccepted(p) PROVE AttendedInv'
  BY <1>2, <1>3, SlotsAssumption DEF RemoveAccepted, auxVars
<1>4. ASSUME NEW p \in Pos, RecoverClaim(p) PROVE AttendedInv'
  <2>1. /\ recovery' = [recovery EXCEPT !.claims = @ \ {p}]
        /\ status' = status \/ status' = [status EXCEPT ![of[p]] = "queued"]
    BY <1>4 DEF RecoverClaim
  <2>2. recovery'.stale = recovery.stale
    BY <1>0, <2>1 DEF TypeInv, AuxInv, Recoveries
  <2>3. \A s \in Session : status'[s] = "in_progress" => status[s] = "in_progress"
    BY <1>0, <2>1 DEF RowsInv
  <2> QED
    BY <1>2, <2>2, <2>3, SlotsAssumption
<1>5. CASE RecoverDrain
  <2>1. status' = status /\ recovery' = [recovery EXCEPT !.pc = "orphans"]
    BY <1>5 DEF RecoverDrain, dbVars
  <2>2. recovery'.stale = recovery.stale
    BY <1>0, <2>1 DEF TypeInv, AuxInv, Recoveries
  <2> QED
    BY <1>2, <2>1, <2>2, SlotsAssumption
<1>6. ASSUME NEW sn \in recovery.stale, ResolveOrphan(sn[1], sn[2]) PROVE AttendedInv'
  <2>0. /\ sn \in Session \X Nat
        /\ recovery' = [recovery EXCEPT !.stale = @ \ {<<sn[1], sn[2]>>}]
    BY <1>0, <1>6 DEF ResolveOrphan, TypeInv, AuxInv, Recoveries
  <2> PICK x \in Session, n \in Nat : sn = <<x, n>>
    BY <2>0
  <2>1. recovery'.stale = recovery.stale \ {<<x, n>>}
    BY <1>0, <2>0 DEF TypeInv, AuxInv, Recoveries
  <2>2. ASSUME \A s \in Session : s # x => status'[s] = status[s], Attended(x)'
        PROVE  AttendedInv'
    BY <1>2, <2>1, <2>2
  <2>3. CASE EndRun(x, "disconnected", FALSE)
    <3>1. status'[x] # "in_progress" /\ \A s \in Session : s # x => status'[s] = status[s]
      BY <1>0, <2>3 DEF EndRun, RowsInv
    <3>2. Attended(x)'
      BY <3>1 DEF Attended
    <3> QED
      BY <2>2, <3>1, <3>2
  <2>4. CASE Launch(x, n, 0, "starting", FALSE) /\ UNCHANGED dbVars
    <3> DEFINE m == [s |-> x, run |-> n, pos |-> 0, phase |-> "starting",
                     queued |-> FALSE, prev |-> owner[x]]
    <3>1. launches' = launches \cup {m} /\ m.s = x /\ m.phase = "starting"
      BY <2>4 DEF Launch
    <3> HIDE DEF m
    <3>2. Attended(x)'
      BY <3>1 DEF Attended, UnderWay
    <3> QED
      BY <2>2, <2>4, <3>2 DEF dbVars
  <2>5. CASE ~(Unowned(x) /\ run[x] = n)
    <3>1. UNCHANGED <<status, of, drain, launches>>
      BY <1>6, <2>5 DEF ResolveOrphan, dbVars, hostVars
    <3>2. CASE run[x] = n
      <4>1. Stale(x)
        BY <3>2 DEF Stale
      <4>2. status[x] # "in_progress"
        BY <1>0, <2>5, <3>2, <4>1 DEF SessionInv, StaleInv, Unowned
      <4>3. Attended(x)'
        BY <3>1, <4>2 DEF Attended
      <4> QED
        BY <2>2, <3>1, <4>3
    <3>3. CASE run[x] # n
      <4>1. Stale(x) => Stale(x)'
        BY <1>1, <2>1, <3>3 DEF Stale
      <4>2. UnderWay(x)' = UnderWay(x) /\ (Unclaimed(x)' => Unclaimed(x))
        BY <1>1, <3>1 DEF UnderWay, Unclaimed, Launching
      <4>3. Attended(x)
        BY DEF AttendedInv
      <4>4. Attended(x)'
        BY <3>1, <4>1, <4>2, <4>3, AttendedKept
      <4> QED
        BY <2>2, <3>1, <4>4
    <3> QED
      BY <3>2, <3>3
  <2> QED
    BY <1>6, <2>3, <2>4, <2>5 DEF ResolveOrphan
<1> QED
  BY <1>3, <1>4, <1>5, <1>6 DEF SweepStep

\* Every run of the time before the crash is left to the sweep.
LEMMA RestartAttended ==
  ASSUME Restart
  PROVE  AttendedInv'
<1>1. recovery'.stale = StaleRuns /\ UNCHANGED <<status, run>>
  BY DEF Restart, dbVars
<1>2. \A s \in Session : status'[s] = "in_progress" => Stale(s)'
  BY <1>1 DEF Stale, StaleRuns, Active
<1> QED
  BY <1>2 DEF AttendedInv, Attended

LEMMA AttendedInit == Init => AttendedInv
<1> SUFFICES ASSUME Init PROVE AttendedInv
  OBVIOUS
<1>1. \A s \in Session : status[s] = "none"
  BY DEF Init
<1> QED
  BY <1>1 DEF AttendedInv, Attended

LEMMA AttendedNext ==
  ASSUME NobodyInterrupts
  PROVE  QueueInv /\ RunInv /\ FirmInv /\ AttendedInv /\ [Next]_vars => AttendedInv'
<1> SUFFICES ASSUME QueueInv, RunInv, FirmInv, AttendedInv, [Next]_vars PROVE AttendedInv'
  OBVIOUS
<1>1. CASE UNCHANGED vars
  BY <1>1 DEF vars, dbVars, hostVars, auxVars, AttendedInv, Attended, UnderWay, Stale,
     Unclaimed, Launching
<1>2. CASE Next
  BY <1>2, ClientAttended, DrainAttended, LaunchAttended, SweepAttended, RestartAttended
     DEF Next
<1> QED
  BY <1>1, <1>2

(* No session takes up capacity that nobody gives back: a handler, a drain or a
   launch has its run in hand, or the sweep has still to come to it.  Creates,
   follow-ups, aborts, withdrawals, failing launches, retries and crashes pass
   the run on between them without a gap.  The hypothesis leaves out the two
   requests that end a run from outside: RunInv, which the proof uses, does not
   survive them. *)
THEOREM CapacityAttended ==
  ASSUME NobodyInterrupts
  PROVE  Spec => []ActiveIsAttended
<1>1. RunInv /\ AttendedInv => ActiveIsAttended
  <2> SUFFICES ASSUME RunInv, AttendedInv, NEW s \in Active
               PROVE  \/ \E l \in launches : l.s = s /\ l.run = run[s] /\ l.phase # "closing"
                      \/ <<s, run[s]>> \in recovery.stale
                      \/ \E c \in Client : client[c].pc \in {"created", "launch"} /\ client[c].s = s
                      \/ \E d \in Drain : drain[d].pc = "launch" /\ of[drain[d].cur] = s
    BY DEF ActiveIsAttended
  <2>1. s \in Session /\ (UnderWay(s) # {} \/ Stale(s) \/ ~Unclaimed(s))
    BY DEF Active, AttendedInv, Attended
  <2>2. \A l \in UnderWay(s) : l.run = run[s]
    BY <2>1 DEF RunInv, SessionInv, UnderWayInv
  <2> QED
    BY <2>1, <2>2 DEF UnderWay, Stale, Unclaimed, Launching, Begins
<1> QED
  BY <1>1, QueueInit, QueueStep, RunInit, RunStep, FirmInit, FirmStep, AttendedInit,
     AttendedNext, PTL DEF Spec

=============================================================================
