----------------------- MODULE SessionAdmissionProofs -----------------------
(***************************************************************************)
(* The scheduler implements the abstract admission, for every number of    *)
(* sessions, handlers, drains, entries and restarts.                       *)
(***************************************************************************)
EXTENDS SessionQueueProofs

AdmissionStepped == [Admission!Next]_(Admission!admissionVars)

LEMMA SameCardinality == ASSUME NEW S PROVE Admission!Cardinality(S) = Cardinality(S)
BY DEF Admission!Cardinality, Cardinality

FateOf == [p \in Pos |-> Fate(p)]

LEMMA FateMoves ==
  ASSUME RowsInv, NEW p \in Pos, NEW m \in {"pending", "dispatched"},
         mark' = [mark EXCEPT ![p] = m]
  PROVE  FateOf' = [FateOf EXCEPT ![p] = IF m = "pending" THEN "waiting" ELSE "claimed"]
BY DEF FateOf, Fate, RowsInv, Marks

(* One lemma per abstract step: the concrete changes that look like it. *)

LEMMA Stutters ==
  ASSUME mark' = mark, Active' = Active
  PROVE  AdmissionStepped
BY DEF AdmissionStepped, Admission!admissionVars, Fate

LEMMA Starts ==
  ASSUME NEW s \in Session, s \notin Active, Active' = Active \cup {s},
         Cardinality(Active) < Limit, mark' = mark
  PROVE  AdmissionStepped
<1>1. Admission!StartDirect(s)
  BY SameCardinality DEF Admission!StartDirect, Admission!Start, Fate
<1> QED
  BY <1>1 DEF AdmissionStepped, Admission!Next

LEMMA Submits ==
  ASSUME RowsInv, NEW s \in Session, NEW m \in {"pending", "dispatched"}, Insert(s, m),
         Active' = Active
  PROVE  AdmissionStepped
<1>1. nextPos \in Pos /\ mark[nextPos] = "unused" /\ mark' = [mark EXCEPT ![nextPos] = m]
  BY DEF RowsInv, Insert, Marks
<1>2. Admission!Submit(nextPos)
  BY <1>1, FateMoves DEF Admission!Submit, Fate, FateOf
<1> QED
  BY <1>1, <1>2 DEF AdmissionStepped, Admission!Next

LEMMA Claims ==
  ASSUME RowsInv, NEW s \in Session, NEW p \in Pos, s \notin Active,
         Active' = Active \cup {s}, Cardinality(Active) < Limit,
         mark[p] = "pending", mark' = [mark EXCEPT ![p] = "dispatched"]
  PROVE  AdmissionStepped
<1>1. Admission!Claim(p, s)
  BY SameCardinality, FateMoves DEF Admission!Claim, Admission!Start, Fate, FateOf
<1> QED
  BY <1>1 DEF AdmissionStepped, Admission!Next

LEMMA Returns ==
  ASSUME RowsInv, NEW s \in Session, NEW p \in Pos, s \in Active, Active' = Active \ {s},
         mark[p] = "dispatched", mark' = [mark EXCEPT ![p] = "pending"]
  PROVE  AdmissionStepped
<1>1. Admission!Return(p, s)
  BY FateMoves DEF Admission!Return, Fate, FateOf
<1> QED
  BY <1>1 DEF AdmissionStepped, Admission!Next

LEMMA Finishes ==
  ASSUME RowsInv, NEW S \in SUBSET Session, NEW D \in SUBSET Pos, Cardinality(S) <= 1,
         \A p \in D : mark[p] # "unused", Active' = Active \ S,
         mark' = [p \in Pos |-> IF p \in D THEN "removed" ELSE mark[p]]
  PROVE  AdmissionStepped
<1>1. \A p \in D : Fate(p) # "absent"
  BY DEF Fate, RowsInv, Marks
<1>2. [p \in Pos |-> Fate(p)]' = [p \in Pos |-> IF p \in D THEN "gone" ELSE Fate(p)]
  BY DEF Fate, RowsInv, Marks
<1>3. Admission!Finish(S, D)
  BY <1>1, <1>2 DEF Admission!Finish
<1>4. Admission!Next
  BY <1>3, SameCardinality DEF Admission!Next
<1> QED
  BY <1>4 DEF AdmissionStepped

(* The pieces the handlers share. *)

LEMMA RemovesEntry ==
  ASSUME RowsInv, NEW p, mark' = WithoutEntry(p), Active' = Active
  PROVE  AdmissionStepped
<1>1. CASE p \in Pos /\ mark[p] # "unused"
  <2>1. mark' = [q \in Pos |-> IF q \in {p} THEN "removed" ELSE mark[q]]
    BY <1>1 DEF WithoutEntry, RowsInv
  <2>2. Cardinality({}) <= 1 /\ Active' = Active \ {}
    BY FS_EmptySet
  <2>3. {} \in SUBSET Session /\ {p} \in SUBSET Pos /\ \A q \in {p} : mark[q] # "unused"
    BY <1>1
  <2> QED
    BY <2>1, <2>2, <2>3, Finishes
<1> QED
  BY <1>1, Stutters DEF WithoutEntry

LEMMA RemovesEntries ==
  ASSUME RowsInv, NEW s \in Session, Active' = Active \ {s},
         mark' = WithoutEntriesOf(s) \/ mark' = mark
  PROVE  AdmissionStepped
<1>1. Cardinality({s}) <= 1
  BY FS_Singleton
<1>2. CASE mark' = WithoutEntriesOf(s)
  <2> DEFINE D == {p \in Pos : of[p] = s /\ mark[p] # "unused"}
  <2>1. /\ D \in SUBSET Pos /\ \A p \in D : mark[p] # "unused"
        /\ mark' = [p \in Pos |-> IF p \in D THEN "removed" ELSE mark[p]]
    BY <1>2 DEF WithoutEntriesOf
  <2> HIDE DEF D
  <2> QED
    BY <1>1, <2>1, Finishes
<1>3. CASE mark' = mark
  <2>1. /\ {} \in SUBSET Pos /\ \A p \in {} : mark[p] # "unused"
        /\ mark' = [p \in Pos |-> IF p \in {} THEN "removed" ELSE mark[p]]
    BY <1>3 DEF RowsInv
  <2> QED
    BY <1>1, <2>1, Finishes
<1> QED
  BY <1>2, <1>3

LEMMA EndsRun ==
  ASSUME RowsInv, NEW s \in Session, NEW st \in Terminal, NEW u, EndRun(s, st, u)
  PROVE  AdmissionStepped
<1>1. Active' = Active \ {s}
  BY DEF EndRun, Active, RowsInv, Terminal
<1>2. mark' = WithoutEntriesOf(s) \/ mark' = mark
  BY DEF EndRun
<1> QED
  BY <1>1, <1>2, RemovesEntries

LEMMA DropsQueued ==
  ASSUME RowsInv, NEW s \in Session, status[s] = "queued",
         status' = [status EXCEPT ![s] = "cancelled"], mark' = WithoutEntriesOf(s)
  PROVE  AdmissionStepped
<1>1. Active' = Active \ {s}
  BY DEF Active, RowsInv
<1> QED
  BY <1>1, RemovesEntries

(* A step that writes no status and no mark. *)
LEMMA HostOnly ==
  ASSUME status' = status, mark' = mark
  PROVE  AdmissionStepped
BY Stutters DEF Active

(* A handler that writes a status of a session that does not run. *)
LEMMA IdleWrite ==
  ASSUME RowsInv, NEW s \in Session, status[s] # "in_progress", NEW st,
         st # "in_progress", status' = [status EXCEPT ![s] = st]
  PROVE  Active' = Active
BY DEF Active, RowsInv

LEMMA StartWrite ==
  ASSUME RowsInv, NEW s \in Session, status' = [status EXCEPT ![s] = "in_progress"]
  PROVE  Active' = Active \cup {s}
BY DEF Active, RowsInv

LEMMA ClientImplements ==
  ASSUME AdmissionInv, NEW c \in Client, Request(c) \/ ClientStep(c)
  PROVE  AdmissionStepped
<1>0. /\ RowsInv
      /\ client[c].pc \notin {"idle", "done"} => client[c].s \in Session
      /\ client[c].pc \in Deciding => client[c].s \notin Active
  BY DEF AdmissionInv, TypeInv, ClientsInv, IdleInv, Active
<1>1. CASE CreateQueued(c)
  <2>1. /\ client[c].s \in Session /\ status[client[c].s] # "in_progress"
        /\ status' = [status EXCEPT ![client[c].s] = "queued"]
        /\ Insert(client[c].s, "pending")
    BY <1>0, <1>1 DEF CreateQueued, AdmissionInv, IdleInv, Deciding
  <2> QED
    BY <1>0, <2>1, IdleWrite, Submits
<1>2. CASE CreateDropQueued(c) \/ CancelQueued(c)
  <2>1. client[c].s \in Session
    BY <1>0, <1>2 DEF CreateDropQueued, CancelQueued
  <2> QED
    BY <1>0, <1>2, <2>1, DropsQueued, HostOnly DEF CreateDropQueued, CancelQueued
<1>3. CASE CreateStarted(c) \/ FollowUpResume(c)
  <2>1. /\ client[c].s \in Session /\ client[c].s \notin Active
        /\ status' = [status EXCEPT ![client[c].s] = "in_progress"]
        /\ mark' = mark
    BY <1>0, <1>3 DEF CreateStarted, FollowUpResume, Deciding
  <2>2. Cardinality(Active) < Limit
    BY <1>3 DEF CreateStarted, FollowUpResume, AdmissionInv, RoomInv
  <2> QED
    BY <1>0, <2>1, <2>2, StartWrite, Starts
<1>4. CASE CreateHookFails(c)
  <2>1. Active' = Active \ {client[c].s}
    BY <1>0, <1>4 DEF CreateHookFails, Active, RowsInv
  <2> QED
    BY <1>0, <1>4, <2>1, RemovesEntries DEF CreateHookFails
<1>5. CASE CreateAborted(c)
  BY <1>0, <1>5, EndsRun DEF CreateAborted, CancelsInLock, Terminal
<1>6. CASE CreateLaunch(c)
  BY <1>0, <1>6, Submits DEF CreateLaunch, Active
<1>7. CASE FollowUpInsert(c)
  BY <1>0, <1>7, Submits, HostOnly DEF FollowUpInsert, Active, dbVars
<1>8. CASE FollowUpQueue(c)
  <2>1. /\ client[c].s \in Session /\ status[client[c].s] # "in_progress"
        /\ status' = [status EXCEPT ![client[c].s] = "queued"]
        /\ Insert(client[c].s, "pending")
    BY <1>0, <1>8 DEF FollowUpQueue, AdmissionInv, IdleInv, Deciding
  <2> QED
    BY <1>0, <2>1, IdleWrite, Submits
<1>9. CASE FollowUpUndo(c)
  BY <1>0, <1>9, RemovesEntry DEF FollowUpUndo, Active
<1>10. CASE FollowUpLaunch(c)
  BY <1>0, <1>10, Submits, HostOnly DEF FollowUpLaunch, Active
<1>11. CASE CancelWrite(c)
  BY <1>0, <1>11, EndsRun, HostOnly DEF CancelWrite, Terminal, dbVars
<1>12. ASSUME NEW p \in Pos, RemoveQueued(c, p) PROVE AdmissionStepped
  BY <1>0, <1>12, RemovesEntry DEF RemoveQueued, Active
<1>13. ASSUME NEW s \in Session, NEW st \in {"completed", "failed"}, PatchStatus(c, s, st)
       PROVE AdmissionStepped
  BY <1>0, <1>13, EndsRun DEF PatchStatus, Terminal
<1>14. ASSUME NEW s \in Session, CreateEnter(c, s) \/ FollowUpEnter(c, s) \/ CancelRead(c, s)
       PROVE AdmissionStepped
  BY <1>14, HostOnly DEF CreateEnter, FollowUpEnter, CancelRead, dbVars
<1>15. CASE CreateThrows(c) \/ FollowUpCapacity(c)
  BY <1>15, HostOnly DEF CreateThrows, FollowUpCapacity, dbVars
<1> QED
  BY <1>1, <1>2, <1>3, <1>4, <1>5, <1>6, <1>7, <1>8, <1>9, <1>10, <1>11, <1>12, <1>13,
     <1>14, <1>15 DEF Request, ClientStep

LEMMA DrainImplements ==
  ASSUME AdmissionInv, NEW d \in Drain, DrainStep(d)
  PROVE  AdmissionStepped
<1>0. RowsInv /\ DrainsInv
  BY DEF AdmissionInv, TypeInv
<1>1. CASE DrainList(d) \/ DrainNext(d) \/ DrainAdmit(d) \/ DrainLaunch(d)
  BY <1>1, HostOnly DEF DrainList, DrainNext, DrainAdmit, DrainLaunch, dbVars
<1>2. CASE DrainRequeue(d)
  <2>1. Active' = Active /\ mark' = mark
    BY <1>0, <1>2 DEF DrainRequeue, Active, RowsInv, Requeueable, Terminal
  <2> QED
    BY <2>1, Stutters
<1>3. CASE DrainClaim(d)
  <2>1. of[drain[d].cur] \in Session /\ drain[d].cur \in Pos /\ Cardinality(Active) < Limit
    BY <1>0, <1>3 DEF DrainClaim, DrainsInv, Dispatching, AdmissionInv, RoomInv
  <2>2. CASE /\ Claimable(of[drain[d].cur], drain[d].cur)
             /\ status' = [status EXCEPT ![of[drain[d].cur]] = "in_progress"]
             /\ mark' = [mark EXCEPT ![drain[d].cur] = "dispatched"]
    <3>1. of[drain[d].cur] \notin Active /\ mark[drain[d].cur] = "pending"
      BY <2>2 DEF Claimable, Active
    <3> QED
      BY <1>0, <2>1, <2>2, <3>1, StartWrite, Claims
  <2>3. CASE UNCHANGED <<status, run, mark>>
    BY <2>3, HostOnly
  <2> QED
    BY <1>3, <2>2, <2>3 DEF DrainClaim
<1> QED
  BY <1>1, <1>2, <1>3 DEF DrainStep

LEMMA LaunchImplements ==
  ASSUME AdmissionInv, NEW l \in launches, LaunchStep(l)
  PROVE  AdmissionStepped
<1>0. RowsInv /\ l.s \in Session
  BY DEF AdmissionInv, TypeInv, HostInv, Launches
<1>1. CASE HarnessStart(l) \/ HarnessAccept(l) \/ InitFails(l) \/ StartFails(l) \/ LaunchCloses(l)
  BY <1>1, HostOnly DEF HarnessStart, HarnessAccept, InitFails, StartFails, LaunchCloses, dbVars
<1>2. CASE FailRemovesEntry(l) \/ ExitRead(l)
  BY <1>0, <1>2, RemovesEntry, HostOnly DEF FailRemovesEntry, ExitRead, Active
<1>3. CASE FailEndsRun(l) \/ ExitWrite(l)
  BY <1>0, <1>3, EndsRun, HostOnly DEF FailEndsRun, ExitWrite, Terminal, dbVars
<1>4. CASE LaunchRetries(l)
  <2>1. CASE /\ ClaimIsStale(l.s, l.pos, l.run)
             /\ mark' = [mark EXCEPT ![l.pos] = "pending"]
             /\ status' = [status EXCEPT ![l.s] = "queued"]
    <3>1. l.pos \in Pos
      BY <1>4 DEF LaunchRetries, AdmissionInv, TypeInv, HostInv
    <3>2. l.s \in Active /\ Active' = Active \ {l.s} /\ mark[l.pos] = "dispatched"
      BY <1>0, <2>1 DEF ClaimIsStale, Active, RowsInv
    <3> QED
      BY <1>0, <2>1, <3>1, <3>2, Returns
  <2>2. CASE UNCHANGED <<status, mark>>
    BY <2>2, HostOnly
  <2> QED
    BY <1>4, <2>1, <2>2 DEF LaunchRetries
<1> QED
  BY <1>1, <1>2, <1>3, <1>4 DEF LaunchStep

LEMMA SweepImplements ==
  ASSUME AdmissionInv, SweepStep \/ Restart
  PROVE  AdmissionStepped
<1>0. RowsInv
  BY DEF AdmissionInv, TypeInv
<1>1. ASSUME NEW p \in Pos, RemoveAccepted(p) PROVE AdmissionStepped
  BY <1>0, <1>1, RemovesEntry DEF RemoveAccepted, Active
<1>2. ASSUME NEW p \in Pos, RecoverClaim(p) PROVE AdmissionStepped
  <2>1. CASE /\ Unowned(of[p]) /\ mark[p] = "dispatched"
             /\ mark' = [mark EXCEPT ![p] = "pending"]
             /\ status' = [status EXCEPT ![of[p]] = "queued"]
    <3>1. of[p] \in Session
      BY <1>0, <2>1 DEF RowsInv
    <3>2. of[p] \in Active /\ Active' = Active \ {of[p]}
      BY <1>0, <2>1, <3>1 DEF Unowned, Active, RowsInv
    <3> QED
      BY <1>0, <2>1, <3>1, <3>2, Returns
  <2>2. CASE UNCHANGED <<mark, status>>
    BY <2>2, HostOnly
  <2> QED
    BY <1>2, <2>1, <2>2 DEF RecoverClaim
<1>3. CASE RecoverDrain \/ Restart
  BY <1>3, HostOnly DEF RecoverDrain, Restart, dbVars
<1>4. ASSUME NEW sn \in recovery.stale, ResolveOrphan(sn[1], sn[2]) PROVE AdmissionStepped
  <2>1. sn[1] \in Session
    BY DEF AdmissionInv, TypeInv, AuxInv, Recoveries
  <2> QED
    BY <1>0, <1>4, <2>1, EndsRun, HostOnly DEF ResolveOrphan, Terminal, dbVars
<1> QED
  BY <1>1, <1>2, <1>3, <1>4 DEF SweepStep

LEMMA InitImplements == Init => Admission!Init
BY DEF Init, Admission!Init, Active, Fate

LEMMA StepImplements == AdmissionInv /\ [Next]_vars => AdmissionStepped
<1>1. ASSUME UNCHANGED vars PROVE AdmissionStepped
  BY <1>1, HostOnly DEF vars, dbVars
<1> QED
  BY <1>1, ClientImplements, DrainImplements, LaunchImplements, SweepImplements DEF Next

(* Every behaviour of the scheduler, crashes and retries included, is one of
   the abstract admission: the capacity read under the lock and the status
   written later are one step, and a claimed request waits again only together
   with its run. *)
THEOREM SchedulerImplementsAdmission == Spec => ImplementsAdmission
<1>1. AdmissionInv /\ [Next]_vars => [Admission!Next]_(Admission!admissionVars)
  BY StepImplements DEF AdmissionStepped
<1> QED
  BY <1>1, AdmissionInit, AdmissionStep, InitImplements, PTL
  DEF Spec, ImplementsAdmission, Admission!Spec

=============================================================================
