------------------------ MODULE CronSchedulerProofs ------------------------
(***************************************************************************)
(* What the scheduler of extension commands keeps for any number of        *)
(* schedules, minutes, edits, faults and crashes: which minute runs how    *)
(* often, what the journal says of it, and what a shutdown leaves behind.  *)
(***************************************************************************)
EXTENDS CronScheduler, NumberLemmas, FiniteSetTheorems, SequenceTheorems

USE JobsAssumption

PlanTypes ==
  /\ clock \in 0..MaxMinute
  /\ plan \in [Job -> Specs]
  /\ edits \in 0..MaxEdits
  /\ crashes \in 0..MaxCrashes

EntryTypes ==
  /\ active \in [Job -> Entries]
  /\ gens \in Nat

RunTypes == runs \subseteq Runs

MarkTypes ==
  /\ watermarks \in Marks
  /\ saves \in Seq(Marks)
  /\ file \in Marks

RefreshTypes ==
  /\ refresher \in [pc: {"idle", "list", "load", "apply", "settle"}, got: [Job -> Specs],
                    pending: BOOLEAN, loaded: BOOLEAN]
  /\ disposal \in {"no", "refresh", "runs", "saves", "done"}
  /\ initialized \subseteq Assigned

JournalTypes ==
  /\ cursor \in Marks
  /\ occurrence \in [Job -> [Minute -> Statuses]]
  /\ effects \in [Job -> [Minute -> Nat]]

\* No handle is armed, and no refresh can arm one, once dispose() has stopped
\* them; it returns when the queue of snapshots is empty.
FlushInv ==
  /\ disposal \in {"runs", "saves", "done"} =>
       refresher.pc = "idle" /\ \A j \in Job : ~active[j].armed
  /\ disposal = "done" => saves = <<>>

\* Nothing is armed, claimed or called before the watermark file is read; from
\* then on neither the file nor a queued snapshot is ahead of the claims.
MarksInv ==
  /\ refresher.pc = "load" => ~refresher.loaded
  /\ refresher.pc = "apply" => refresher.loaded
  /\ ~refresher.loaded => /\ saves = <<>>
                          /\ runs = {}
                          /\ \A j \in Job : ~active[j].armed
  /\ refresher.loaded => \A j \in Job : file[j] <= watermarks[j]
  /\ \A i \in DOMAIN saves : \A j \in Job : saves[i][j] <= watermarks[j]

\* A minute is called once, since a call follows a claim.
RunsInv ==
  /\ \A r \in runs : r.minute <= watermarks[r.job]
  /\ \A r, q \in runs : r.job = q.job /\ r.minute = q.minute => r = q

Owning(r) == r.phase \in {"claimed", "executing", "skipping"}

\* The run that owns an occurrence of the journal finds it started, and has
\* executed its command exactly if it says so.
JournalInv ==
  /\ \A j \in Assigned : \A m \in Minute :
       /\ effects[j][m] \in {0, 1}
       /\ effects[j][m] > 0 => occurrence[j][m] \in {"started", "completed", "failed"}
       /\ occurrence[j][m] = "completed" => effects[j][m] = 1
       /\ occurrence[j][m] # "none" => m <= cursor[j]
  /\ \A r \in runs : r.job \in Assigned /\ Owning(r) =>
       /\ occurrence[r.job][r.minute] = "started"
       /\ effects[r.job][r.minute] = IF r.phase = "executing" THEN 1 ELSE 0

Waiting == {"called", "admitted", "claimed"}

\* A minute has run at most once per crash before it is claimed in this boot,
\* and before the run that claimed it executes its command.
LocalInv ==
  \A j \in Job \ Assigned : \A m \in Minute :
    /\ effects[j][m] <= 1 + crashes
    /\ ~refresher.loaded => effects[j][m] <= crashes
    /\ watermarks[j] < m => effects[j][m] <= crashes
    /\ \A r \in runs : r.job = j /\ r.minute = m /\ r.phase \in Waiting =>
         effects[j][m] <= crashes

-----------------------------------------------------------------------------
(* The search for a missed minute, and the order of the claims *)

\* findCatchupMinute returns a minute that is not claimed yet.
LEMMA CatchupIsNew ==
  ASSUME PlanTypes, MarkTypes, NEW j \in Job, NEW cron \in SUBSET Minute,
         CatchupMinute(j, cron) # 0
  PROVE  CatchupMinute(j, cron) \in Minute /\ watermarks[j] < CatchupMinute(j, cron)
<1> DEFINE due == {m \in cron : watermarks[j] < m /\ m < clock}
           reached == {m \in due : Cardinality({k \in due : k <= m}) <= CatchupSteps}
<1>1. reached # {} /\ CatchupMinute(j, cron) = CHOOSE m \in reached : \A k \in reached : k <= m
  BY DEF CatchupMinute
<1>2. reached \in SUBSET (1..MaxMinute) /\ \A m \in reached : watermarks[j] < m
  BY DEF Minute
<1> HIDE DEF reached, due
<1>3. \E m \in reached : \A k \in reached : k <= m
  BY <1>1, <1>2, GreatestElement
<1>4. CatchupMinute(j, cron) \in reached
  BY <1>1, <1>3
<1> QED
  BY <1>2, <1>4 DEF Minute

\* An order of the claims names each schedule that catches up.
LEMMA OrderCovers ==
  ASSUME NEW S \in SUBSET Job, NEW o \in Orders(S)
  PROVE  /\ Cardinality(S) \in Nat /\ o \in [1..Cardinality(S) -> S] /\ Len(o) = Cardinality(S)
         /\ \A j \in S : \E k \in 1..Len(o) : o[k] = j
<1>1. IsFiniteSet(S) /\ Cardinality(S) \in Nat
  BY FS_Subset, FS_CardinalityType
<1>2. o \in [1..Cardinality(S) -> S] /\ \A a, b \in DOMAIN o : o[a] = o[b] => a = b
  BY DEF Orders
<1>3. o \in Injection(1..Cardinality(S), S)
  BY <1>2 DEF Injection, IsInjective
<1>4. Cardinality(1..Cardinality(S)) = Cardinality(S)
  BY <1>1, FS_Interval
<1>5. o \in Surjection(1..Cardinality(S), S)
  BY <1>1, <1>3, <1>4, FS_Injection
<1>6. o \in Seq(S) /\ Len(o) = Cardinality(S)
  BY <1>1, <1>2
<1> QED
  BY <1>1, <1>2, <1>5, <1>6 DEF Surjection

Types == PlanTypes /\ EntryTypes /\ RunTypes /\ MarkTypes /\ RefreshTypes /\ JournalTypes

LEMMA EntryTyped ==
  ASSUME EntryTypes, PlanTypes, RefreshTypes, NEW j \in Job
  PROVE  /\ Entry(j) \in Entries
         /\ refresher.got[j] = Never => Entry(j) = NoEntry
         /\ Entry(j) = NoEntry \/ Entry(j).gen \in {gens + 1, active[j].gen}
<1>1. refresher.got[j] \in Specs /\ Never \in Specs /\ clock \in 0..MaxMinute /\ 0 \in 0..MaxMinute
  BY DEF RefreshTypes, PlanTypes, Specs
<1>2. active[j] \in Entries /\ gens + 1 \in Nat
  BY DEF EntryTypes
<1>3. NoEntry \in Entries
  BY <1>1 DEF NoEntry, Entries
<1>4. CASE refresher.got[j] = Never
  <2>1. Entry(j) = NoEntry
    BY <1>4 DEF Entry
  <2> QED
    BY <1>3, <1>4, <2>1
<1>5. CASE refresher.got[j] # Never /\ Kept(j)
  <2>1. Entry(j) = [active[j] EXCEPT !.checked = @ \/ j \notin Assigned]
    BY <1>5 DEF Entry
  <2> QED
    BY <1>2, <1>5, <2>1 DEF Entries
<1>6. CASE refresher.got[j] # Never /\ ~Kept(j)
  <2>1. Entry(j) = [gen |-> gens + 1, cron |-> refresher.got[j], checked |-> j \notin Assigned,
                    armed |-> TRUE, last |-> clock]
    BY <1>6 DEF Entry
  <2> QED
    BY <1>1, <1>2, <1>6, <2>1 DEF Entries
<1> QED
  BY <1>4, <1>5, <1>6

\* What a pass over listed jobs does: it claims, for each schedule that catches
\* up, a minute that was not claimed, and calls it; each claim is queued for the
\* file, and none is once dispose() was called.
Claims(caught, minute, gen) ==
  /\ caught # {} => disposal = "no"
  /\ \A j \in caught : minute[j] \in Minute /\ watermarks[j] < minute[j]
  /\ runs' = runs \cup {Call(j, gen[j], minute[j]) : j \in caught}
  /\ watermarks' = [j \in Job |-> IF j \in caught THEN minute[j] ELSE watermarks[j]]
  /\ saves' \in Seq(Marks)
  /\ (\A i \in DOMAIN saves : \A j \in Job : saves[i][j] <= watermarks[j]) =>
       \A i \in DOMAIN saves' : \A j \in Job : saves'[i][j] <= watermarks'[j]
  /\ gens' \in {gens, gens + 1}

LEMMA PassClaims ==
  ASSUME Types, NEW jobs \in SUBSET Job, \A j \in jobs : refresher.got[j] \in Crons \cup {Never},
         Pass(jobs)
  PROVE  \E caught \in SUBSET jobs, minute \in [Job -> Nat], gen \in [Job -> Nat] : Claims(caught, minute, gen)
<1> DEFINE caught == {j \in jobs : refresher.got[j] # Never /\ CatchesUp(j)}
           minute(j) == CatchupMinute(j, refresher.got[j])
           upTo(o, i) == [j \in Job |-> IF \E k \in 1..i : o[k] = j THEN minute(j) ELSE watermarks[j]]
<1> USE DEF Types
<1>1. \A j \in caught : j \in Job /\ minute(j) \in Minute /\ watermarks[j] < minute(j)
  <2> TAKE j \in caught
  <2>1. minute(j) # 0 /\ refresher.got[j] \in Crons
    BY DEF CatchesUp
  <2> HIDE DEF minute
  <2>2. refresher.got[j] \in SUBSET Minute
    BY <2>1
  <2> USE DEF minute
  <2> QED
    BY <2>1, <2>2, CatchupIsNew
<1>2. caught # {} => disposal = "no"
  BY DEF CatchesUp
<1>3. /\ gens' = IF \E j \in jobs : Entry(j).gen = gens + 1 THEN gens + 1 ELSE gens
      /\ runs' = runs \cup {Call(j, Entry(j).gen, minute(j)) : j \in caught}
      /\ \E o \in Orders(caught) :
           /\ watermarks' = upTo(o, Len(o))
           /\ saves' = saves \o [i \in 1..Len(o) |-> upTo(o, i)]
  BY DEF Pass
<1>4. caught \in SUBSET jobs /\ caught \in SUBSET Job
  OBVIOUS
<1> HIDE DEF caught
<1>5. \A j \in Job : Entry(j).gen \in Nat
  BY EntryTyped DEF Entries
<1>6. PICK o \in Orders(caught) : /\ watermarks' = upTo(o, Len(o))
                                  /\ saves' = saves \o [i \in 1..Len(o) |-> upTo(o, i)]
  BY <1>3
<1>7. /\ Len(o) \in Nat /\ o \in [1..Len(o) -> caught]
      /\ \A j \in caught : \E k \in 1..Len(o) : o[k] = j
  BY <1>4, OrderCovers
<1> HIDE DEF minute
<1>8. \A i \in 1..Len(o) : upTo(o, i) \in Marks /\ \A j \in Job : upTo(o, i)[j] <= watermarks'[j]
  <2> TAKE i \in 1..Len(o)
  <2>1. \A j \in Job : watermarks[j] \in 0..MaxMinute /\ watermarks'[j] = upTo(o, Len(o))[j]
    BY <1>6 DEF MarkTypes, Marks
  <2>2. ASSUME NEW j \in Job PROVE upTo(o, i)[j] \in 0..MaxMinute /\ upTo(o, i)[j] <= watermarks'[j]
    <3>1. CASE j \in caught
      <4>1. watermarks'[j] = minute(j)
        BY <1>7, <2>1, <3>1
      <4>2. minute(j) \in 1..MaxMinute /\ watermarks[j] < minute(j)
        BY <1>1, <3>1 DEF Minute
      <4>3. upTo(o, i)[j] \in {minute(j), watermarks[j]}
        OBVIOUS
      <4> QED
        BY <2>1, <4>1, <4>2, <4>3
    <3>2. CASE j \notin caught
      <4>1. \A k \in 1..Len(o) : o[k] # j
        BY <1>7, <3>2
      <4>2. \A k \in 1..i : o[k] # j
        BY <1>7, <4>1
      <4>3. watermarks'[j] = watermarks[j] /\ upTo(o, i)[j] = watermarks[j]
        BY <2>1, <4>1, <4>2
      <4> QED
        BY <2>1, <4>3
    <3> QED
      BY <3>1, <3>2
  <2> QED
    BY <2>2 DEF Marks
<1>9. watermarks' = [j \in Job |-> IF j \in caught THEN minute(j) ELSE watermarks[j]]
  <2>1. \A j \in Job : (\E k \in 1..Len(o) : o[k] = j) <=> j \in caught
    BY <1>7
  <2> QED
    BY <1>6, <2>1
<1> DEFINE tail == [i \in 1..Len(o) |-> upTo(o, i)]
<1>10. tail \in Seq(Marks) /\ Len(tail) = Len(o) /\ \A i \in 1..Len(o) : tail[i] = upTo(o, i)
  BY <1>7, <1>8
<1>11. saves' = saves \o tail /\ saves \in Seq(Marks)
  BY <1>6 DEF MarkTypes
<1> HIDE DEF tail, upTo
<1>12. saves' \in Seq(Marks) /\ Len(saves') = Len(saves) + Len(o) /\ Len(saves) \in Nat
  <2>1. saves \o tail \in Seq(Marks) /\ Len(saves \o tail) = Len(saves) + Len(tail)
    BY <1>10, <1>11, ConcatProperties
  <2> QED
    BY <1>7, <1>10, <1>11, <2>1
<1>13. ASSUME \A i \in DOMAIN saves : \A j \in Job : saves[i][j] <= watermarks[j],
              NEW i \in DOMAIN saves', NEW j \in Job
       PROVE  saves'[i][j] <= watermarks'[j]
  <2>1. i \in 1..(Len(saves) + Len(o))
    BY <1>12
  <2>2. saves'[i] = IF i <= Len(saves) THEN saves[i] ELSE tail[i - Len(saves)]
    BY <1>10, <1>11, <2>1, ConcatProperties
  <2>3. CASE i <= Len(saves)
    <3>1. i \in DOMAIN saves /\ saves[i] \in Marks
      BY <1>11, <1>12, <2>1, <2>3
    <3>2. saves[i][j] <= watermarks[j] /\ saves[i][j] \in 0..MaxMinute
      BY <1>13, <3>1 DEF Marks
    <3>3. watermarks[j] <= watermarks'[j] /\ watermarks[j] \in 0..MaxMinute /\ watermarks'[j] \in 0..MaxMinute
      BY <1>1, <1>9 DEF MarkTypes, Marks, Minute
    <3> QED
      BY <2>2, <2>3, <3>2, <3>3
  <2>4. CASE ~(i <= Len(saves))
    <3>1. i - Len(saves) \in 1..Len(o)
      BY <1>7, <1>12, <2>1, <2>4
    <3> QED
      BY <1>8, <1>10, <2>2, <2>4, <3>1
  <2> QED
    BY <2>3, <2>4
<1> DEFINE F == [j \in Job |-> IF j \in caught THEN minute(j) ELSE 0]
           G == [j \in Job |-> Entry(j).gen]
<1>15. /\ F \in [Job -> Nat] /\ G \in [Job -> Nat]
       /\ \A j \in caught : F[j] = minute(j) /\ G[j] = Entry(j).gen
  BY <1>1, <1>4, <1>5 DEF Minute
<1> HIDE DEF F, G
<1>16. runs' = runs \cup {Call(j, G[j], F[j]) : j \in caught}
  BY <1>3, <1>15
<1>17. watermarks' = [j \in Job |-> IF j \in caught THEN F[j] ELSE watermarks[j]]
  BY <1>9, <1>15
<1>18. \A j \in caught : F[j] \in Minute /\ watermarks[j] < F[j]
  BY <1>1, <1>15
<1>19. gens' \in {gens, gens + 1}
  BY <1>3
<1>20. Claims(caught, F, G)
  BY <1>2, <1>12, <1>13, <1>16, <1>17, <1>18, <1>19 DEF Claims
<1> QED
  BY <1>4, <1>15, <1>20

-----------------------------------------------------------------------------
(* Types *)

Refreshers == [pc: {"idle", "list", "load", "apply", "settle"}, got: [Job -> Specs],
               pending: BOOLEAN, loaded: BOOLEAN]

LEMMA LoopTyped ==
  ASSUME RefreshTypes, Loop
  PROVE  /\ refresher' \in Refreshers
         /\ refresher'.pc \in {"list", "settle"}
         /\ refresher'.loaded = refresher.loaded
         /\ disposal # "no" => refresher'.pc = "settle"
<1>1. Nothing \in [Job -> Specs]
  BY DEF Nothing, Specs
<1>2. refresher \in Refreshers
  BY DEF RefreshTypes, Refreshers
<1> QED
  BY <1>1, <1>2 DEF Loop, Refreshers

LEMMA FreshTyped == FreshRefresher \in Refreshers /\ NoEntry \in Entries /\ NoMarks \in Marks
<1>1. Nothing \in [Job -> Specs] /\ Never \in Specs /\ 0 \in 0..MaxMinute
  BY DEF Nothing, Specs
<1> QED
  BY <1>1 DEF FreshRefresher, Refreshers, NoEntry, Entries, NoMarks, Marks

LEMMA CallTyped ==
  ASSUME NEW j \in Job, NEW gen \in Nat, NEW minute \in Minute
  PROVE  /\ Call(j, gen, minute) \in Runs
         /\ Call(j, gen, minute).job = j /\ Call(j, gen, minute).minute = minute
         /\ Call(j, gen, minute).phase = "called" /\ Call(j, gen, minute).gen = gen
BY DEF Call, Runs, RunPhases, Specs

\* The runs a run turns into, and what is left of it.
LEMMA RunTyped ==
  ASSUME NEW r \in Runs
  PROVE  /\ r.job \in Job /\ r.minute \in Minute /\ r.gen \in Nat /\ r.cron \in Specs
         /\ \A phase \in RunPhases :
              /\ [r EXCEPT !.phase = phase] \in Runs
              /\ [r EXCEPT !.phase = phase].job = r.job
              /\ [r EXCEPT !.phase = phase].minute = r.minute
              /\ [r EXCEPT !.phase = phase].gen = r.gen
              /\ [r EXCEPT !.phase = phase].phase = phase
         /\ \A cron \in Specs :
              /\ [r EXCEPT !.phase = "admitted", !.cron = cron] \in Runs
              /\ [r EXCEPT !.phase = "admitted", !.cron = cron].job = r.job
              /\ [r EXCEPT !.phase = "admitted", !.cron = cron].minute = r.minute
              /\ [r EXCEPT !.phase = "admitted", !.cron = cron].gen = r.gen
              /\ [r EXCEPT !.phase = "admitted", !.cron = cron].phase = "admitted"
         /\ [r EXCEPT !.late = TRUE] \in Runs
         /\ [r EXCEPT !.late = TRUE].job = r.job /\ [r EXCEPT !.late = TRUE].minute = r.minute
         /\ [r EXCEPT !.late = TRUE].gen = r.gen /\ [r EXCEPT !.late = TRUE].phase = r.phase
         /\ [r EXCEPT !.late = TRUE].late
BY DEF Runs, RunPhases

\* A step of a run leaves every run as it is but that one, which keeps its
\* schedule, its minute and its entry, or ends.
Replaced(r) ==
  \/ runs' = runs \ {r}
  \/ \E q \in Runs : /\ runs' = (runs \ {r}) \cup {q}
                     /\ q.job = r.job /\ q.minute = r.minute /\ q.gen = r.gen

LEMMA RunReplaced ==
  ASSUME Types, NEW r \in runs, RunStep(r) \/ RunDeadline(r)
  PROVE  Replaced(r)
<1> USE DEF Types
<1>1. r \in Runs
  BY DEF RunTypes
<1>2. CASE RunAdmit(r)
  <2>1. CASE plan[r.job] = Never
    <3>1. runs' = (runs \ {r}) \cup {}
      BY <1>2, <2>1 DEF RunAdmit
    <3> QED
      BY <3>1 DEF Replaced
  <2>2. CASE plan[r.job] # Never
    <3> DEFINE q == [r EXCEPT !.phase = "admitted", !.cron = plan[r.job]]
    <3>1. runs' = (runs \ {r}) \cup {q}
      BY <1>2, <2>2 DEF RunAdmit
    <3>2. plan[r.job] \in Specs
      BY <1>1, RunTyped DEF PlanTypes
    <3>3. q \in Runs /\ q.job = r.job /\ q.minute = r.minute /\ q.gen = r.gen
      BY <1>1, <3>2, RunTyped
    <3> QED
      BY <3>1, <3>3 DEF Replaced
  <2> QED
    BY <2>1, <2>2
<1>3. ASSUME NEW phase \in RunPhases, Move(r, phase) PROVE Replaced(r)
  <2> DEFINE q == [r EXCEPT !.phase = phase]
  <2>1. runs' = (runs \ {r}) \cup {q}
    BY <1>3 DEF Move
  <2>2. q \in Runs /\ q.job = r.job /\ q.minute = r.minute /\ q.gen = r.gen
    BY <1>1, <1>3, RunTyped
  <2> QED
    BY <2>1, <2>2 DEF Replaced
<1>4. CASE RunClaim(r)
  <2>1. Move(r, "claimed") \/ runs' = runs \ {r}
    BY <1>4 DEF RunClaim
  <2> QED
    BY <1>3, <2>1 DEF Replaced, RunPhases
<1>5. CASE RunDispatch(r)
  <2>1. Move(r, "executing") \/ Move(r, "skipping")
    BY <1>5 DEF RunDispatch
  <2> QED
    BY <1>3, <2>1 DEF RunPhases
<1>6. CASE RunFinish(r)
  BY <1>6 DEF RunFinish, Replaced
<1>7. CASE RunDeadline(r)
  <2>1. runs' = (runs \ {r}) \cup {[r EXCEPT !.late = TRUE]}
    BY <1>7 DEF RunDeadline
  <2> QED
    BY <1>1, <2>1, RunTyped DEF Replaced
<1> QED
  BY <1>2, <1>4, <1>5, <1>6, <1>7 DEF RunStep

LEMMA AdvanceTyped ==
  ASSUME JournalTypes, NEW j \in Job, NEW cron, NEW end \in Minute, Advance(j, cron, end, TRUE)
  PROVE  cursor' \in Marks /\ occurrence' \in [Job -> [Minute -> Statuses]]
<1>1. CASE cursor[j] >= end
  BY <1>1 DEF Advance, journalVars, JournalTypes
<1>2. CASE ~(cursor[j] >= end)
  <2>1. cursor' = [cursor EXCEPT ![j] = end]
    BY <1>2 DEF Advance
  <2> DEFINE row == [m \in Minute |->
               CASE m \notin Open(j, cron, end) -> occurrence[j][m]
                 [] m \in Open(j, cron, end) /\ m = end /\ TRUE -> "started"
                 [] OTHER -> "skipped"]
  <2>2. occurrence' = [occurrence EXCEPT ![j] = row]
    BY <1>2 DEF Advance
  <2>3. row \in [Minute -> Statuses]
    <3> SUFFICES ASSUME NEW m \in Minute
                 PROVE  (CASE m \notin Open(j, cron, end) -> occurrence[j][m]
                           [] m \in Open(j, cron, end) /\ m = end /\ TRUE -> "started"
                           [] OTHER -> "skipped") \in Statuses
      OBVIOUS
    <3>1. occurrence[j][m] \in Statuses
      BY DEF JournalTypes
    <3> HIDE DEF Open
    <3> QED
      BY <3>1 DEF Statuses
  <2> HIDE DEF row
  <2>4. occurrence' \in [Job -> [Minute -> Statuses]]
    BY <2>2, <2>3 DEF JournalTypes
  <2>5. end \in 0..MaxMinute
    BY DEF Minute
  <2> QED
    BY <2>1, <2>4, <2>5 DEF JournalTypes, Marks
<1> QED
  BY <1>1, <1>2

LEMMA PassTyped ==
  ASSUME Types, NEW jobs \in SUBSET Job, \A j \in jobs : refresher.got[j] \in Crons \cup {Never},
         Pass(jobs)
  PROVE  /\ RunTypes' /\ MarkTypes' /\ gens' \in Nat /\ PlanTypes' /\ JournalTypes'
         /\ disposal' = disposal /\ initialized' = initialized /\ initialized' \subseteq Assigned
<1> USE DEF Types
<1>1. PICK caught \in SUBSET jobs, minute \in [Job -> Nat], gen \in [Job -> Nat] : Claims(caught, minute, gen)
  BY PassClaims
<1>2. RunTypes'
  <2>1. \A j \in caught : Call(j, gen[j], minute[j]) \in Runs
    BY <1>1, CallTyped DEF Claims
  <2> QED
    BY <1>1, <2>1 DEF RunTypes, Claims
<1>3. file' = file /\ UNCHANGED <<clock, plan, edits, crashes, disposal, initialized, cursor, occurrence, effects>>
  BY DEF Pass, planVars, journalVars
<1>4. watermarks' \in Marks
  <2>1. \A j \in Job : watermarks[j] \in 0..MaxMinute
    BY DEF MarkTypes, Marks
  <2>2. \A j \in caught : minute[j] \in 0..MaxMinute
    BY <1>1 DEF Minute, Claims
  <2> QED
    BY <1>1, <2>1, <2>2 DEF Marks, Claims
<1> QED
  BY <1>1, <1>2, <1>3, <1>4 DEF Claims, MarkTypes, EntryTypes, PlanTypes, JournalTypes, RefreshTypes

LEMMA RefreshTyped ==
  ASSUME Types, RefreshStep
  PROVE  Types'
<1> USE DEF Types
<1>1. refresher \in Refreshers
  BY DEF RefreshTypes, Refreshers
<1>2. CASE RefreshList
  <2>1. PICK lost \in SUBSET Job :
          LET got == [j \in Job |-> IF j \in lost THEN Never ELSE plan[j]]
              new == {j \in Journaled(got) \ initialized : cursor[j] < clock}
          IN /\ initialized' = Journaled(got)
             /\ cursor' = [j \in Job |-> IF j \in new THEN clock ELSE cursor[j]]
             /\ occurrence' = [j \in Job |-> [m \in Minute |->
                  IF j \in new /\ m \in Open(j, got[j], clock) THEN "skipped" ELSE occurrence[j][m]]]
             /\ refresher' = [refresher EXCEPT !.got = got,
                                !.pc = IF refresher.loaded THEN "apply" ELSE "load"]
    BY <1>2 DEF RefreshList
  <2> DEFINE got == [j \in Job |-> IF j \in lost THEN Never ELSE plan[j]]
             new == {j \in Journaled(got) \ initialized : cursor[j] < clock}
  <2>2. got \in [Job -> Specs]
    BY DEF PlanTypes, Specs
  <2>3. refresher' \in Refreshers
    BY <1>1, <2>1, <2>2 DEF Refreshers
  <2>4. initialized' \subseteq Assigned
    BY <2>1 DEF Journaled
  <2> HIDE DEF got, new
  <2>5. cursor' \in Marks
    BY <2>1 DEF JournalTypes, Marks, PlanTypes, got, new
  <2>6. occurrence' \in [Job -> [Minute -> Statuses]]
    <3>1. \A j \in Job, m \in Minute : occurrence[j][m] \in Statuses /\ "skipped" \in Statuses
      BY DEF JournalTypes, Statuses
    <3>2. occurrence' = [j \in Job |-> [m \in Minute |->
              IF j \in new /\ m \in Open(j, got[j], clock) THEN "skipped" ELSE occurrence[j][m]]]
      BY <2>1 DEF new, got
    <3> QED
      BY <3>1, <3>2
  <2>7. UNCHANGED <<clock, plan, edits, active, gens, runs, watermarks, saves, file, disposal, effects, crashes>>
    BY <1>2 DEF RefreshList, planVars, jobVars, claimVars
  <2> QED
    BY <2>3, <2>4, <2>5, <2>6, <2>7
    DEF PlanTypes, EntryTypes, RunTypes, MarkTypes, RefreshTypes, JournalTypes, Refreshers
<1>3. CASE RefreshStops
  <2>1. Loop
    BY <1>3 DEF RefreshStops
  <2> QED
    BY <1>3, <2>1, LoopTyped DEF RefreshStops, PlanTypes, EntryTypes, RunTypes, MarkTypes, RefreshTypes,
      JournalTypes, planVars, jobVars, claimVars, journalVars, Refreshers
<1>4. CASE RefreshLoad
  <2>1. refresher' \in Refreshers
    BY <1>1, <1>4 DEF RefreshLoad, Refreshers
  <2> QED
    BY <1>4, <2>1 DEF RefreshLoad, PlanTypes, EntryTypes, RunTypes, MarkTypes, RefreshTypes,
      JournalTypes, planVars, jobVars, journalVars, Refreshers
<1>5. CASE RefreshSettles
  <2>1. refresher' \in Refreshers
    BY <1>1, <1>5 DEF RefreshSettles, Refreshers
  <2> QED
    BY <1>5, <2>1 DEF RefreshSettles, PlanTypes, EntryTypes, RunTypes, MarkTypes, RefreshTypes,
      JournalTypes, planVars, jobVars, claimVars, journalVars, Refreshers
<1>6. CASE RefreshApply
  <2>1. \A j \in Job : refresher.got[j] \in Crons \cup {Never}
    BY <1>6 DEF RefreshApply, RefreshTypes, Specs
  <2>2. Pass(Job) /\ Loop /\ active' = [j \in Job |-> Entry(j)]
    BY <1>6 DEF RefreshApply
  <2>3. active' \in [Job -> Entries]
    BY <2>2, EntryTyped
  <2>4. refresher' \in Refreshers
    BY <2>2, LoopTyped
  <2>5. /\ RunTypes' /\ MarkTypes' /\ gens' \in Nat /\ PlanTypes' /\ JournalTypes'
        /\ disposal' = disposal /\ initialized' \subseteq Assigned
    BY <2>1, <2>2, PassTyped
  <2> QED
    BY <2>3, <2>4, <2>5 DEF EntryTypes, RefreshTypes, Refreshers
<1>7. ASSUME NEW k \in Job, RefreshThrows(k) PROVE Types'
  <2>1. PICK before \in SUBSET {j \in Job : refresher.got[j] \in Crons} :
          /\ active' = [j \in Job |-> CASE j \in before -> Entry(j)
                                        [] j = k -> [active[j] EXCEPT !.armed = FALSE]
                                        [] OTHER -> active[j]]
          /\ Pass(before)
    BY <1>7 DEF RefreshThrows
  <2>2. refresher' = [refresher EXCEPT !.pc = "settle", !.got = Nothing]
    BY <1>7 DEF RefreshThrows
  <2>3. active' \in [Job -> Entries]
    <3>1. \A j \in Job : [active[j] EXCEPT !.armed = FALSE] \in Entries /\ active[j] \in Entries
      BY DEF EntryTypes, Entries
    <3>2. k \notin before
      BY <1>7 DEF RefreshThrows
    <3> QED
      BY <2>1, <3>1, <3>2, EntryTyped
  <2>4. refresher' \in Refreshers
    BY <1>1, <2>2 DEF Refreshers, Nothing, Specs
  <2>5. /\ RunTypes' /\ MarkTypes' /\ gens' \in Nat /\ PlanTypes' /\ JournalTypes'
        /\ disposal' = disposal /\ initialized' \subseteq Assigned
    BY <2>1, PassTyped
  <2> QED
    BY <2>3, <2>4, <2>5 DEF EntryTypes, RefreshTypes, Refreshers
<1> QED
  BY <1>2, <1>3, <1>4, <1>5, <1>6, <1>7 DEF RefreshStep

LEMMA RunTypedStep ==
  ASSUME Types, NEW r \in runs, RunStep(r) \/ RunDeadline(r)
  PROVE  Types'
<1> USE DEF Types
<1>1. r \in Runs /\ r.job \in Job /\ r.minute \in Minute
  BY RunTyped DEF RunTypes
<1>2. RunTypes'
  BY RunReplaced DEF Replaced, RunTypes
<1>3. UNCHANGED <<clock, plan, edits, active, gens, watermarks, saves, file, refresher, disposal, initialized, crashes>>
  BY DEF RunStep, RunAdmit, RunClaim, RunDispatch, RunFinish, RunDeadline, runUnchanged, planVars, jobVars, claimVars
<1>4. JournalTypes'
  <2>1. CASE RunAdmit(r) \/ RunDeadline(r)
    BY <2>1 DEF RunAdmit, RunDeadline, journalVars, JournalTypes
  <2>2. CASE RunClaim(r)
    <3>1. effects' = effects
      BY <2>2 DEF RunClaim
    <3>2. Advance(r.job, r.cron, r.minute, TRUE) \/ UNCHANGED journalVars
      BY <2>2 DEF RunClaim
    <3> QED
      BY <1>1, <3>1, <3>2, AdvanceTyped DEF JournalTypes, journalVars
  <2>3. CASE RunDispatch(r)
    <3>1. UNCHANGED <<cursor, occurrence>>
      BY <2>3 DEF RunDispatch, journalVars
    <3>2. effects' \in [Job -> [Minute -> Nat]]
      BY <1>1, <2>3 DEF RunDispatch, JournalTypes
    <3> QED
      BY <3>1, <3>2 DEF JournalTypes
  <2>4. CASE RunFinish(r)
    <3>1. cursor' = cursor /\ effects' = effects
      BY <2>4 DEF RunFinish
    <3>2. PICK st \in Statuses :
            occurrence' = IF r.job \in Assigned
                          THEN [occurrence EXCEPT ![r.job][r.minute] = st] ELSE occurrence
      BY <2>4 DEF RunFinish, Statuses
    <3>3. occurrence' \in [Job -> [Minute -> Statuses]]
      BY <1>1, <3>2 DEF JournalTypes
    <3> QED
      BY <3>1, <3>3 DEF JournalTypes
  <2> QED
    BY <2>1, <2>2, <2>3, <2>4 DEF RunStep
<1> QED
  BY <1>2, <1>3, <1>4 DEF PlanTypes, EntryTypes, MarkTypes, RefreshTypes

LEMMA FireTyped ==
  ASSUME Types, NEW j \in Job, Fire(j)
  PROVE  Types'
<1> USE DEF Types
<1>1. active[j] \in Entries /\ active[j].gen \in Nat /\ clock \in 0..MaxMinute
  BY DEF EntryTypes, Entries, PlanTypes
<1>2. EntryTypes'
  <2>1. active' = [active EXCEPT ![j].last = clock] /\ gens' = gens
    BY DEF Fire
  <2>2. [active[j] EXCEPT !.last = clock] \in Entries
    BY <1>1 DEF Entries
  <2> QED
    BY <2>1, <2>2 DEF EntryTypes
<1>3. UNCHANGED <<clock, plan, edits, file, refresher, disposal, initialized, cursor, occurrence, effects, crashes>>
  BY DEF Fire, planVars, journalVars
<1>4. RunTypes' /\ MarkTypes'
  <2>1. CASE disposal = "no" /\ ~Busy(j, active[j].gen) /\ Claimable(j, clock)
    <3>1. clock \in Minute
      BY <1>1, <2>1 DEF Claimable, MarkTypes, Marks, Minute
    <3>2. /\ runs' = runs \cup {Call(j, active[j].gen, clock)}
          /\ watermarks' = [watermarks EXCEPT ![j] = clock]
          /\ saves' = Append(saves, watermarks')
      BY <2>1 DEF Fire
    <3>3. watermarks' \in Marks
      BY <1>1, <3>2 DEF MarkTypes, Marks
    <3>4. saves' \in Seq(Marks)
      BY <3>2, <3>3, AppendProperties DEF MarkTypes
    <3> QED
      BY <1>1, <1>3, <3>1, <3>2, <3>3, <3>4, CallTyped DEF RunTypes, MarkTypes
  <2>2. CASE ~(disposal = "no" /\ ~Busy(j, active[j].gen) /\ Claimable(j, clock))
    <3>1. runs' = runs /\ watermarks' = watermarks /\ saves' = saves
      BY <2>2 DEF Fire
    <3> QED
      BY <1>3, <3>1 DEF RunTypes, MarkTypes
  <2> QED
    BY <2>1, <2>2
<1> QED
  BY <1>2, <1>3, <1>4 DEF PlanTypes, RefreshTypes, JournalTypes

LEMMA TypesStep ==
  ASSUME Types, [Next]_vars
  PROVE  Types'
<1> USE DEF Types
<1>0. refresher \in Refreshers
  BY DEF RefreshTypes, Refreshers
<1>1. ASSUME NEW j \in Job, NEW cron \in Specs, EditPlan(j, cron) PROVE Types'
  <2>1. plan' = [plan EXCEPT ![j] = cron] /\ edits' = edits + 1 /\ edits < MaxEdits
    BY <1>1 DEF EditPlan
  <2>2. refresher' \in {refresher, [refresher EXCEPT !.pc = "list"], [refresher EXCEPT !.pending = TRUE]}
    BY <1>1 DEF EditPlan
  <2>3. refresher' \in Refreshers
    BY <1>0, <2>2 DEF Refreshers
  <2>4. UNCHANGED <<clock, active, gens, runs, watermarks, saves, file, disposal, initialized, cursor,
                    occurrence, effects, crashes>>
    BY <1>1 DEF EditPlan, jobVars, claimVars, journalVars
  <2>5. PlanTypes'
    BY <2>1, <2>4 DEF PlanTypes
  <2> QED
    BY <2>3, <2>4, <2>5 DEF EntryTypes, RunTypes, MarkTypes, RefreshTypes, JournalTypes, Refreshers
<1>2. CASE Save
  <2>1. Head(saves) \in Marks /\ Tail(saves) \in Seq(Marks)
    BY <1>2, HeadTailProperties DEF Save, MarkTypes
  <2> QED
    BY <1>2, <2>1 DEF Save, PlanTypes, EntryTypes, RunTypes, MarkTypes, RefreshTypes, JournalTypes,
      planVars, jobVars, journalVars
<1>3. CASE Dispose \/ DisposeStep
  <2>1. active' \in [Job -> Entries] /\ disposal' \in {"refresh", "runs", "saves", "done"}
    BY <1>3, FreshTyped DEF Dispose, DisposeStep, DisposeStops, DisposeRuns, DisposeSaves, EntryTypes, jobVars
  <2>2. UNCHANGED <<clock, plan, edits, gens, runs, watermarks, saves, file, refresher, initialized, cursor,
                    occurrence, effects, crashes>>
    BY <1>3 DEF Dispose, DisposeStep, DisposeStops, DisposeRuns, DisposeSaves, planVars, jobVars, claimVars,
      journalVars
  <2> QED
    BY <2>1, <2>2 DEF PlanTypes, EntryTypes, RunTypes, MarkTypes, RefreshTypes, JournalTypes
<1>4. CASE Crash
  <2>1. file' \in Marks /\ active' \in [Job -> Entries] /\ refresher' \in Refreshers /\ watermarks' \in Marks
    BY <1>4, FreshTyped DEF Crash, MarkTypes
  <2>2. /\ crashes' \in 0..MaxCrashes /\ gens' = 0 /\ runs' = {} /\ saves' = <<>>
        /\ disposal' = "no" /\ initialized' = {}
    BY <1>4 DEF Crash, PlanTypes
  <2>3. UNCHANGED <<clock, plan, edits, cursor, occurrence, effects>>
    BY <1>4 DEF Crash, planVars, journalVars
  <2>4. saves' \in Seq(Marks)
    BY <2>2, EmptySeq
  <2> QED
    BY <2>1, <2>2, <2>3, <2>4
    DEF PlanTypes, EntryTypes, RunTypes, MarkTypes, RefreshTypes, JournalTypes, Refreshers
<1>5. CASE Tick
  <2>1. clock' \in 0..MaxMinute /\ edits' \in 0..MaxEdits
    BY <1>5 DEF Tick, PlanTypes
  <2>2. UNCHANGED <<plan, active, gens, runs, watermarks, saves, file, refresher, disposal, initialized,
                    cursor, occurrence, effects, crashes>>
    BY <1>5 DEF Tick, jobVars, claimVars, journalVars
  <2> QED
    BY <2>1, <2>2 DEF PlanTypes, EntryTypes, RunTypes, MarkTypes, RefreshTypes, JournalTypes
<1>6. CASE UNCHANGED vars
  BY <1>6 DEF vars, planVars, jobVars, claimVars, journalVars, PlanTypes, EntryTypes, RunTypes, MarkTypes,
    RefreshTypes, JournalTypes
<1> QED
  BY <1>1, <1>2, <1>3, <1>4, <1>5, <1>6, RefreshTyped, RunTypedStep, FireTyped DEF Next

-----------------------------------------------------------------------------
(* Shutdown, and the watermark file *)

Inv == Types /\ FlushInv /\ MarksInv /\ RunsInv /\ JournalInv /\ LocalInv

LEMMA FlushStep ==
  ASSUME Types, FlushInv, [Next]_vars
  PROVE  FlushInv'
<1> USE DEF FlushInv
<1>1. refresher \in Refreshers /\ active \in [Job -> Entries]
  BY DEF Types, RefreshTypes, Refreshers, EntryTypes
<1>2. ASSUME NEW j \in Job, NEW cron \in Specs, EditPlan(j, cron) PROVE FlushInv'
  <2>1. disposal \in {"runs", "saves", "done"} => refresher' = refresher
    BY <1>2 DEF EditPlan
  <2> QED
    BY <1>2, <2>1 DEF EditPlan, jobVars, claimVars
<1>3. CASE RefreshStep
  <2>1. refresher.pc # "idle" /\ disposal' = disposal
    BY <1>3 DEF RefreshStep, RefreshList, RefreshStops, RefreshLoad, RefreshApply, RefreshSettles, RefreshThrows, Pass
  <2> QED
    BY <2>1
<1>4. ASSUME NEW j \in Job, Fire(j) PROVE FlushInv'
  <2>1. active[j].armed /\ disposal' = disposal
    BY <1>4 DEF Fire
  <2> QED
    BY <2>1
<1>5. ASSUME NEW r \in runs, RunStep(r) \/ RunDeadline(r) PROVE FlushInv'
  BY <1>5 DEF RunStep, RunAdmit, RunClaim, RunDispatch, RunFinish, RunDeadline, runUnchanged, jobVars, claimVars
<1>6. CASE Save
  BY <1>6 DEF Save, jobVars
<1>7. CASE Dispose
  BY <1>7 DEF Dispose
<1>8. CASE DisposeStep
  <2>1. CASE DisposeStops
    <3>1. \A j \in Job : ~active'[j].armed
      BY <2>1 DEF DisposeStops, NoEntry
    <3> QED
      BY <2>1, <3>1 DEF DisposeStops
  <2>2. CASE DisposeRuns
    BY <2>2 DEF DisposeRuns, jobVars
  <2>3. CASE DisposeSaves
    BY <2>3 DEF DisposeSaves, jobVars, claimVars
  <2> QED
    BY <1>8, <2>1, <2>2, <2>3 DEF DisposeStep
<1>9. CASE Crash
  BY <1>9 DEF Crash
<1>10. CASE Tick
  BY <1>10 DEF Tick, jobVars, claimVars
<1>11. CASE UNCHANGED vars
  BY <1>11 DEF vars, jobVars, claimVars
<1> QED
  BY <1>2, <1>3, <1>4, <1>5, <1>6, <1>7, <1>8, <1>9, <1>10, <1>11 DEF Next

\* A firing claims its minute like a pass over the jobs does, or nothing.
LEMMA FireClaims ==
  ASSUME Types, NEW j \in Job, Fire(j)
  PROVE  \E caught \in SUBSET Job, minute \in [Job -> Nat], gen \in [Job -> Nat] : Claims(caught, minute, gen)
<1> USE DEF Types
<1>1. active[j] \in Entries /\ active[j].gen \in Nat /\ clock \in 0..MaxMinute /\ gens' = gens
  BY DEF EntryTypes, Entries, PlanTypes, Fire
<1>2. saves' \in Seq(Marks)
  BY FireTyped DEF MarkTypes
<1> DEFINE minute == [k \in Job |-> clock]
           gen == [k \in Job |-> active[j].gen]
<1>3. minute \in [Job -> Nat] /\ gen \in [Job -> Nat] /\ \A k \in Job : minute[k] = clock /\ gen[k] = active[j].gen
  BY <1>1
<1> HIDE DEF minute, gen
<1>4. CASE disposal = "no" /\ ~Busy(j, active[j].gen) /\ Claimable(j, clock)
  <2>1. /\ runs' = runs \cup {Call(j, active[j].gen, clock)}
        /\ watermarks' = [watermarks EXCEPT ![j] = clock]
        /\ saves' = Append(saves, watermarks')
    BY <1>4 DEF Fire
  <2>2. watermarks[j] < clock /\ clock \in Minute
    BY <1>1, <1>4 DEF Claimable, MarkTypes, Marks, Minute
  <2>3. runs' = runs \cup {Call(k, gen[k], minute[k]) : k \in {j}}
    BY <1>3, <2>1
  <2>4. watermarks' = [k \in Job |-> IF k \in {j} THEN minute[k] ELSE watermarks[k]]
    BY <1>3, <2>1 DEF MarkTypes, Marks
  <2>5. watermarks' \in Marks
    BY FireTyped DEF MarkTypes
  <2>6. Len(saves) \in Nat /\ Len(saves') = Len(saves) + 1 /\ saves'[Len(saves) + 1] = watermarks'
        /\ \A i \in 1..Len(saves) : saves'[i] = saves[i]
    BY <2>1, <2>5, AppendProperties DEF MarkTypes
  <2>7. ASSUME \A i \in DOMAIN saves : \A k \in Job : saves[i][k] <= watermarks[k],
               NEW i \in DOMAIN saves', NEW k \in Job
        PROVE  saves'[i][k] <= watermarks'[k]
    <3>1. watermarks[k] \in Nat /\ watermarks'[k] \in Nat /\ watermarks[k] <= watermarks'[k]
      BY <2>1, <2>2, <2>5 DEF MarkTypes, Marks
    <3>2. i \in 1..Len(saves) \/ i = Len(saves) + 1
      BY <1>2, <2>6
    <3>3. CASE i \in 1..Len(saves)
      <4>1. i \in DOMAIN saves /\ saves[i] \in Marks /\ saves'[i] = saves[i]
        BY <2>6, <3>3 DEF MarkTypes
      <4>2. saves[i][k] <= watermarks[k] /\ saves[i][k] \in Nat
        BY <2>7, <4>1 DEF Marks
      <4> QED
        BY <3>1, <4>1, <4>2
    <3>4. CASE i = Len(saves) + 1
      BY <2>6, <3>1, <3>4
    <3> QED
      BY <3>2, <3>3, <3>4
  <2>8. Claims({j}, minute, gen)
    BY <1>1, <1>2, <1>3, <1>4, <2>2, <2>3, <2>4, <2>7 DEF Claims
  <2> QED
    BY <1>3, <2>8
<1>5. CASE ~(disposal = "no" /\ ~Busy(j, active[j].gen) /\ Claimable(j, clock))
  <2>1. runs' = runs /\ watermarks' = watermarks /\ saves' = saves
    BY <1>5 DEF Fire
  <2>2. watermarks' = [k \in Job |-> IF k \in {} THEN minute[k] ELSE watermarks[k]]
    BY <2>1 DEF MarkTypes, Marks
  <2>3. Claims({}, minute, gen)
    BY <1>1, <1>2, <2>1, <2>2 DEF Claims
  <2> QED
    BY <1>3, <2>3
<1> QED
  BY <1>4, <1>5

\* Claiming: what Fire, RefreshApply and RefreshThrows have in common.
Claiming ==
  /\ \E caught \in SUBSET Job, minute \in [Job -> Nat], gen \in [Job -> Nat] : Claims(caught, minute, gen)
  /\ refresher.loaded /\ refresher'.loaded
  /\ refresher'.pc = "load" => refresher.pc = "load"
  /\ UNCHANGED <<file, disposal, crashes, cursor, occurrence, effects>>

\* Quiet: a step that touches neither runs, claims nor the journal.
Quiet ==
  /\ UNCHANGED <<runs, watermarks, saves, file, crashes, cursor, occurrence, effects>>
  /\ refresher'.loaded = refresher.loaded
  /\ refresher'.pc \in {"load", "apply"} => refresher'.pc = refresher.pc
  /\ \A j \in Job : active'[j].armed => active[j].armed

LEMMA Kinds ==
  ASSUME Types, MarksInv, [Next]_vars
  PROVE  \/ Claiming \/ Quiet
         \/ \E r \in runs : RunStep(r) \/ RunDeadline(r)
         \/ RefreshList \/ RefreshLoad \/ Save \/ Crash
<1> USE DEF Types
<1>1. refresher \in Refreshers /\ active \in [Job -> Entries]
  BY DEF RefreshTypes, Refreshers, EntryTypes
<1>2. ASSUME NEW j \in Job, NEW cron \in Specs, EditPlan(j, cron) PROVE Quiet
  <2>1. refresher' \in {refresher, [refresher EXCEPT !.pending = TRUE]}
        \/ refresher' = [refresher EXCEPT !.pc = "list"]
    BY <1>2 DEF EditPlan
  <2>2. UNCHANGED <<active, runs, watermarks, saves, file, cursor, occurrence, effects, crashes>>
    BY <1>2 DEF EditPlan, jobVars, claimVars, journalVars
  <2> QED
    BY <1>1, <2>1, <2>2 DEF Quiet, Refreshers
<1>3. ASSUME NEW j \in Job, Fire(j) PROVE Claiming
  <2>1. refresher.loaded
    BY <1>3 DEF Fire, MarksInv
  <2>2. UNCHANGED <<file, refresher, disposal, crashes, cursor, occurrence, effects>>
    BY <1>3 DEF Fire, journalVars
  <2> QED
    BY <1>3, <2>1, <2>2, FireClaims DEF Claiming
<1>4. CASE RefreshStops
  <2>1. refresher'.pc \in {"list", "settle"} /\ refresher'.loaded = refresher.loaded
    BY <1>4, LoopTyped DEF RefreshStops
  <2> QED
    BY <1>4, <2>1 DEF RefreshStops, Quiet, jobVars, claimVars, journalVars
<1>5. CASE RefreshSettles
  BY <1>1, <1>5 DEF RefreshSettles, Quiet, Refreshers, jobVars, claimVars, journalVars
<1>6. ASSUME NEW jobs \in SUBSET Job, \A j \in jobs : refresher.got[j] \in Crons \cup {Never}, Pass(jobs),
             refresher.pc = "apply", refresher'.loaded = refresher.loaded, refresher'.pc # "load"
      PROVE  Claiming
  <2>1. \E caught \in SUBSET Job, minute \in [Job -> Nat], gen \in [Job -> Nat] : Claims(caught, minute, gen)
    BY <1>6, PassClaims
  <2>2. refresher.loaded
    BY <1>6 DEF MarksInv
  <2>3. UNCHANGED <<file, disposal, crashes, cursor, occurrence, effects>>
    BY <1>6 DEF Pass, journalVars
  <2> QED
    BY <1>6, <2>1, <2>2, <2>3 DEF Claiming
<1>7. CASE RefreshApply
  <2>1. \A j \in Job : refresher.got[j] \in Crons \cup {Never}
    BY <1>7 DEF RefreshApply, RefreshTypes, Specs
  <2>2. Pass(Job) /\ refresher.pc = "apply" /\ Loop
    BY <1>7 DEF RefreshApply
  <2>3. refresher'.loaded = refresher.loaded /\ refresher'.pc # "load"
    BY <2>2, LoopTyped
  <2> QED
    BY <1>6, <2>1, <2>2, <2>3
<1>8. ASSUME NEW k \in Job, RefreshThrows(k) PROVE Claiming
  <2>1. PICK before \in SUBSET {j \in Job : refresher.got[j] \in Crons} : Pass(before)
    BY <1>8 DEF RefreshThrows
  <2>2. refresher.pc = "apply" /\ refresher'.loaded = refresher.loaded /\ refresher'.pc # "load"
    BY <1>1, <1>8 DEF RefreshThrows, Refreshers
  <2>3. before \in SUBSET Job /\ \A j \in before : refresher.got[j] \in Crons \cup {Never}
    OBVIOUS
  <2> QED
    BY <1>6, <2>1, <2>2, <2>3
<1>9. CASE Dispose \/ DisposeStep
  <2>1. \A j \in Job : active'[j].armed => active[j].armed
    BY <1>9 DEF Dispose, DisposeStep, DisposeStops, DisposeRuns, DisposeSaves, NoEntry, jobVars
  <2> QED
    BY <1>9, <2>1 DEF Dispose, DisposeStep, DisposeStops, DisposeRuns, DisposeSaves, Quiet, claimVars, journalVars
<1>10. CASE Tick
  BY <1>10 DEF Tick, Quiet, jobVars, claimVars, journalVars
<1>11. CASE UNCHANGED vars
  BY <1>11 DEF vars, jobVars, claimVars, journalVars, Quiet
<1> QED
  BY <1>2, <1>3, <1>4, <1>5, <1>7, <1>8, <1>9, <1>10, <1>11 DEF Next, RefreshStep

LEMMA MarksStep ==
  ASSUME Types, MarksInv, [Next]_vars
  PROVE  MarksInv'
<1> USE DEF Types, MarksInv
<1>1. refresher \in Refreshers /\ saves \in Seq(Marks) /\ watermarks \in Marks /\ Types'
  BY TypesStep DEF RefreshTypes, Refreshers, MarkTypes
<1>2. CASE Quiet
  BY <1>2 DEF Quiet
<1>3. CASE Claiming
  <2>1. PICK caught \in SUBSET Job, minute \in [Job -> Nat], gen \in [Job -> Nat] : Claims(caught, minute, gen)
    BY <1>3 DEF Claiming
  <2>2. \A i \in DOMAIN saves' : \A j \in Job : saves'[i][j] <= watermarks'[j]
    BY <2>1 DEF Claims
  <2>3. ASSUME NEW j \in Job PROVE file'[j] <= watermarks'[j]
    <3>1. file'[j] <= watermarks[j] /\ file[j] \in Nat /\ watermarks[j] \in Nat /\ file' = file
      BY <1>3 DEF Claiming, MarkTypes, Marks
    <3>2. watermarks'[j] \in Nat /\ watermarks[j] <= watermarks'[j]
      BY <2>1, <3>1 DEF Claims, Minute
    <3> QED
      BY <3>1, <3>2
  <2>4. refresher.loaded /\ refresher'.loaded /\ (refresher'.pc = "load" => refresher.pc = "load")
    BY <1>3 DEF Claiming
  <2> QED
    BY <2>2, <2>3, <2>4
<1>4. CASE \E r \in runs : RunStep(r) \/ RunDeadline(r)
  <2>1. UNCHANGED <<watermarks, saves, file, refresher>> /\ refresher.loaded
    BY <1>4 DEF RunStep, RunAdmit, RunClaim, RunDispatch, RunFinish, RunDeadline, runUnchanged, jobVars, claimVars
  <2> QED
    BY <2>1
<1>5. CASE RefreshList
  <2>1. UNCHANGED <<active, runs, watermarks, saves, file>>
    BY <1>5 DEF RefreshList, jobVars, claimVars
  <2>2. refresher'.loaded = refresher.loaded /\ refresher'.pc = IF refresher.loaded THEN "apply" ELSE "load"
    BY <1>1, <1>5 DEF RefreshList, Refreshers
  <2> QED
    BY <2>1, <2>2
<1>6. CASE RefreshLoad
  <2>1. UNCHANGED <<saves, file>> /\ watermarks' = file /\ saves = <<>>
    BY <1>6 DEF RefreshLoad
  <2>2. refresher'.loaded /\ refresher'.pc = "apply"
    BY <1>1, <1>6 DEF RefreshLoad, Refreshers
  <2>3. \A j \in Job : file[j] \in Nat
    BY DEF MarkTypes, Marks
  <2> QED
    BY <2>1, <2>2, <2>3
<1>7. CASE Save
  <2>1. saves # <<>> /\ saves' = Tail(saves) /\ file' \in {file, Head(saves)} /\ UNCHANGED <<active, runs, watermarks, refresher>>
    BY <1>7 DEF Save, jobVars
  <2>2. Len(saves) \in Nat \ {0} /\ Head(saves) = saves[1] /\ 1 \in DOMAIN saves
    BY <1>1, <2>1
  <2>3. \A j \in Job : Head(saves)[j] <= watermarks[j]
    BY <2>2
  <2>4. \A i \in DOMAIN saves' : i + 1 \in DOMAIN saves /\ saves'[i] = saves[i + 1]
    BY <1>1, <2>1
  <2> QED
    BY <2>1, <2>3, <2>4
<1>8. CASE Crash
  <2>1. ~refresher'.loaded /\ refresher'.pc = "list" /\ saves' = <<>> /\ runs' = {} /\ \A j \in Job : ~active'[j].armed
    BY <1>8 DEF Crash, FreshRefresher, NoEntry
  <2> QED
    BY <2>1
<1> QED
  BY <1>2, <1>3, <1>4, <1>5, <1>6, <1>7, <1>8, Kinds

-----------------------------------------------------------------------------
(* Runs and the journal *)

\* A run of the next state is one of this state, one that goes on for the same
\* minute, or one whose minute was claimed by this step.
LEMMA NewRuns ==
  ASSUME Types, MarksInv, [Next]_vars, NEW r \in runs'
  PROVE  \/ \E q \in runs : q.job = r.job /\ q.minute = r.minute /\ q.gen = r.gen
         \/ /\ Claiming /\ disposal = "no"
            /\ watermarks[r.job] < r.minute /\ r.minute = watermarks'[r.job]
            /\ r.job \in Job /\ r.phase = "called" /\ r \notin runs
<1>1. CASE Claiming /\ r \notin runs
  <2>1. PICK caught \in SUBSET Job, minute \in [Job -> Nat], gen \in [Job -> Nat] : Claims(caught, minute, gen)
    BY <1>1 DEF Claiming
  <2>2. PICK j \in caught : r = Call(j, gen[j], minute[j])
    BY <1>1, <2>1 DEF Claims
  <2>3. disposal = "no" /\ minute[j] \in Minute /\ watermarks[j] < minute[j] /\ watermarks'[j] = minute[j]
    BY <2>1 DEF Claims
  <2>4. r.job = j /\ r.minute = minute[j] /\ r.phase = "called"
    BY <2>2, <2>3, CallTyped
  <2> QED
    BY <1>1, <2>3, <2>4
<1>2. CASE \E q \in runs : RunStep(q) \/ RunDeadline(q)
  BY <1>2, RunReplaced DEF Replaced
<1>3. CASE Quiet \/ RefreshList \/ RefreshLoad \/ Save \/ Crash
  BY <1>3 DEF Quiet, RefreshList, RefreshLoad, Save, Crash
<1> QED
  BY <1>1, <1>2, <1>3, Kinds

\* Claims only move forward, while the process lives and has read the file.
LEMMA ClaimsMove ==
  ASSUME Types, MarksInv, [Next]_vars, refresher.loaded, refresher'.loaded, NEW j \in Job
  PROVE  watermarks[j] <= watermarks'[j]
<1>1. watermarks[j] \in Nat
  BY DEF Types, MarkTypes, Marks
<1>2. CASE Claiming
  <2>1. PICK caught \in SUBSET Job, minute \in [Job -> Nat], gen \in [Job -> Nat] : Claims(caught, minute, gen)
    BY <1>2 DEF Claiming
  <2> QED
    BY <1>1, <2>1 DEF Claims, Minute
<1>3. CASE Quiet \/ RefreshList \/ Save
  <2>1. watermarks' = watermarks
    BY <1>3 DEF Quiet, RefreshList, Save, claimVars
  <2> QED
    BY <1>1, <2>1
<1>4. CASE \E r \in runs : RunStep(r) \/ RunDeadline(r)
  <2>1. watermarks' = watermarks
    BY <1>4 DEF RunStep, RunAdmit, RunClaim, RunDispatch, RunFinish, RunDeadline, runUnchanged, claimVars
  <2> QED
    BY <1>1, <2>1
<1>5. ~RefreshLoad
  BY DEF RefreshLoad, MarksInv
<1>6. ~Crash
  BY DEF Crash, FreshRefresher
<1> QED
  BY <1>2, <1>3, <1>4, <1>5, <1>6, Kinds

LEMMA RunsStep ==
  ASSUME Types, MarksInv, RunsInv, [Next]_vars
  PROVE  RunsInv'
<1> USE DEF RunsInv
<1>1. Types' /\ MarksInv'
  BY TypesStep, MarksStep
<1>2. runs \subseteq Runs /\ runs' \subseteq Runs /\ watermarks \in Marks /\ watermarks' \in Marks
  BY <1>1 DEF Types, RunTypes, MarkTypes
<1>3. \A r \in Runs : r.job \in Job /\ r.minute \in Nat
  BY DEF Runs, Minute
<1>4. ASSUME NEW r \in runs' PROVE r.minute <= watermarks'[r.job]
  <2>1. CASE \E q \in runs : q.job = r.job /\ q.minute = r.minute
    <3>1. r.minute <= watermarks[r.job]
      BY <2>1
    <3>2. refresher.loaded /\ refresher'.loaded
      BY <1>1, <2>1 DEF MarksInv
    <3>3. r.job \in Job
      BY <1>2, <1>3
    <3>4. watermarks[r.job] <= watermarks'[r.job]
      BY <3>2, <3>3, ClaimsMove
    <3> QED
      BY <1>2, <1>3, <3>1, <3>3, <3>4 DEF Marks
  <2>2. CASE r.minute = watermarks'[r.job]
    BY <1>2, <1>3, <2>2
  <2> QED
    BY <2>1, <2>2, NewRuns
<1>5. ASSUME NEW r \in runs', NEW q \in runs', r.job = q.job, r.minute = q.minute PROVE r = q
  <2>1. CASE Claiming
    <3>1. PICK caught \in SUBSET Job, minute \in [Job -> Nat], gen \in [Job -> Nat] : Claims(caught, minute, gen)
      BY <2>1 DEF Claiming
    <3>2. \A p \in runs' : p \in runs \/ \E j \in caught : p = Call(j, gen[j], minute[j])
      BY <3>1 DEF Claims
    <3>3. \A j \in caught : /\ Call(j, gen[j], minute[j]).job = j
                            /\ Call(j, gen[j], minute[j]).minute = minute[j]
                            /\ watermarks[j] < minute[j]
      BY <3>1, CallTyped DEF Claims
    <3>4. ASSUME NEW p \in runs, NEW j \in caught, p.job = j PROVE p.minute # minute[j]
      <4>1. p.minute <= watermarks[j] /\ p.minute \in Nat /\ watermarks[j] \in Nat /\ minute[j] \in Nat
        BY <1>2, <1>3, <3>4 DEF Marks
      <4> QED
        BY <3>3, <4>1
    <3> QED
      BY <1>5, <3>2, <3>3, <3>4
  <2>2. CASE \E p \in runs : RunStep(p) \/ RunDeadline(p)
    BY <1>5, <2>2, RunReplaced DEF Replaced
  <2>3. CASE Quiet \/ RefreshList \/ RefreshLoad \/ Save \/ Crash
    BY <1>5, <2>3 DEF Quiet, RefreshList, RefreshLoad, Save, Crash
  <2> QED
    BY <2>1, <2>2, <2>3, Kinds
<1> QED
  BY <1>4, <1>5

LEMMA AdvanceRecords ==
  ASSUME Types, NEW j \in Job, NEW cron, NEW end \in Minute, Advance(j, cron, end, TRUE)
  PROVE  /\ \A k \in Job : cursor[k] <= cursor'[k]
         /\ \A k \in Job : \A m \in Minute :
              \/ occurrence'[k][m] = occurrence[k][m]
              \/ /\ k = j /\ occurrence[k][m] = "none" /\ m <= cursor'[k]
                 /\ occurrence'[k][m] \in {"started", "skipped"}
         /\ ClaimedRun(j, cron, end) => occurrence[j][end] = "none" /\ occurrence'[j][end] = "started"
<1> USE DEF Types
<1>1. end \in Nat /\ \A k \in Job : cursor[k] \in Nat
  BY DEF JournalTypes, Marks, Minute
<1>2. CASE cursor[j] >= end
  <2>1. cursor' = cursor /\ occurrence' = occurrence
    BY <1>2 DEF Advance, journalVars
  <2>2. ~ClaimedRun(j, cron, end)
    BY <1>1, <1>2 DEF ClaimedRun
  <2> QED
    BY <1>1, <2>1, <2>2
<1>3. CASE ~(cursor[j] >= end)
  <2> DEFINE row == [m \in Minute |->
               CASE m \notin Open(j, cron, end) -> occurrence[j][m]
                 [] m \in Open(j, cron, end) /\ m = end /\ TRUE -> "started"
                 [] OTHER -> "skipped"]
  <2>1. cursor' = [cursor EXCEPT ![j] = end] /\ occurrence' = [occurrence EXCEPT ![j] = row]
    BY <1>3 DEF Advance
  <2>2. ASSUME NEW m \in Minute
        PROVE  /\ m \notin Open(j, cron, end) => row[m] = occurrence[j][m]
               /\ m \in Open(j, cron, end) => row[m] \in {"started", "skipped"}
               /\ m \in Open(j, cron, end) /\ m = end => row[m] = "started"
    <3> HIDE DEF Open
    <3> QED
      OBVIOUS
  <2>3. \A m \in Minute : m \in Open(j, cron, end) => occurrence[j][m] = "none" /\ m <= end
    BY DEF Open
  <2> HIDE DEF row
  <2>4. cursor'[j] = end /\ occurrence'[j] = row /\ \A k \in Job \ {j} : cursor'[k] = cursor[k] /\ occurrence'[k] = occurrence[k]
    BY <2>1 DEF JournalTypes, Marks
  <2>5. \A k \in Job : cursor[k] <= cursor'[k]
    BY <1>1, <1>3, <2>4
  <2>6. ASSUME NEW k \in Job, NEW m \in Minute
        PROVE \/ occurrence'[k][m] = occurrence[k][m]
              \/ /\ k = j /\ occurrence[k][m] = "none" /\ m <= cursor'[k]
                 /\ occurrence'[k][m] \in {"started", "skipped"}
    BY <2>2, <2>3, <2>4
  <2>7. ClaimedRun(j, cron, end) => occurrence[j][end] = "none" /\ occurrence'[j][end] = "started"
    BY <2>2, <2>3, <2>4 DEF ClaimedRun
  <2> QED
    BY <2>5, <2>6, <2>7
<1> QED
  BY <1>2, <1>3

\* Steps that record in the journal only what it did not know, and execute
\* nothing: listing, and the claim of a run.
Recorded ==
  /\ effects' = effects
  /\ \A k \in Job : cursor[k] <= cursor'[k]
  /\ \A k \in Assigned : \A m \in Minute :
       \/ occurrence'[k][m] = occurrence[k][m]
       \/ /\ occurrence[k][m] = "none" /\ m <= cursor'[k]
          /\ occurrence'[k][m] \in {"started", "skipped"}

LEMMA RecordedKeeps ==
  ASSUME Types, Types', JournalInv, Recorded
  PROVE  /\ \A j \in Assigned : \A m \in Minute :
              /\ effects'[j][m] \in {0, 1}
              /\ effects'[j][m] > 0 => occurrence'[j][m] \in {"started", "completed", "failed"}
              /\ occurrence'[j][m] = "completed" => effects'[j][m] = 1
              /\ occurrence'[j][m] # "none" => m <= cursor'[j]
         /\ \A r \in runs : r.job \in Assigned /\ Owning(r) =>
              /\ occurrence'[r.job][r.minute] = "started"
              /\ effects'[r.job][r.minute] = IF r.phase = "executing" THEN 1 ELSE 0
<1>1. ASSUME NEW j \in Assigned, NEW m \in Minute
      PROVE  /\ effects'[j][m] \in {0, 1}
             /\ effects'[j][m] > 0 => occurrence'[j][m] \in {"started", "completed", "failed"}
             /\ occurrence'[j][m] = "completed" => effects'[j][m] = 1
             /\ occurrence'[j][m] # "none" => m <= cursor'[j]
  <2>1. cursor[j] \in Nat /\ cursor[j] <= cursor'[j] /\ m \in Nat
    BY DEF Recorded, Types, JournalTypes, Marks, Minute
  <2>2. /\ effects'[j][m] = effects[j][m]
        /\ \/ occurrence'[j][m] = occurrence[j][m]
           \/ /\ occurrence[j][m] = "none" /\ m <= cursor'[j]
              /\ occurrence'[j][m] \in {"started", "skipped"}
    BY DEF Recorded
  <2>3. /\ effects[j][m] \in {0, 1}
        /\ effects[j][m] > 0 => occurrence[j][m] \in {"started", "completed", "failed"}
        /\ occurrence[j][m] = "completed" => effects[j][m] = 1
    BY DEF JournalInv
  <2>4. occurrence[j][m] # "none" => m <= cursor'[j]
    <3>1. occurrence[j][m] # "none" => m <= cursor[j]
      BY DEF JournalInv
    <3>2. cursor'[j] \in Nat
      BY DEF Types, JournalTypes, Marks
    <3> QED
      BY <2>1, <3>1, <3>2
  <2> QED
    BY <2>2, <2>3, <2>4
<1>2. ASSUME NEW r \in runs, r.job \in Assigned, Owning(r)
      PROVE  /\ occurrence'[r.job][r.minute] = "started"
             /\ effects'[r.job][r.minute] = IF r.phase = "executing" THEN 1 ELSE 0
  <2>1. r.minute \in Minute
    BY DEF Types, RunTypes, Runs
  <2> QED
    BY <1>2, <2>1 DEF JournalInv, Recorded
<1> QED
  BY <1>1, <1>2
LEMMA JournalStep ==
  ASSUME Types, RunsInv, JournalInv, [Next]_vars, MarksInv
  PROVE  JournalInv'
<1>1. Types' /\ runs \subseteq Runs
  BY TypesStep DEF Types, RunTypes
<1>2. ASSUME Recorded, runs' = runs PROVE JournalInv'
  BY <1>1, <1>2, RecordedKeeps DEF JournalInv
<1>3. ASSUME UNCHANGED <<cursor, occurrence, effects>> PROVE Recorded
  BY <1>3 DEF Recorded, Types, JournalTypes, Marks
<1>4. CASE Quiet \/ RefreshLoad \/ Save
  BY <1>2, <1>3, <1>4 DEF Quiet, RefreshLoad, Save, journalVars
<1>5. CASE Crash
  <2>1. UNCHANGED <<cursor, occurrence, effects>> /\ runs' = {}
    BY <1>5 DEF Crash, journalVars
  <2> QED
    BY <2>1 DEF JournalInv
<1>6. CASE Claiming
  <2>1. UNCHANGED <<cursor, occurrence, effects>>
    BY <1>6 DEF Claiming
  <2>2. \A r \in runs' : r \in runs \/ r.phase = "called"
    <3>1. PICK caught \in SUBSET Job, minute \in [Job -> Nat], gen \in [Job -> Nat] : Claims(caught, minute, gen)
      BY <1>6 DEF Claiming
    <3> QED
      BY <3>1, CallTyped DEF Claims
  <2> QED
    BY <2>1, <2>2 DEF JournalInv, Owning
<1>7. CASE RefreshList
  <2>1. PICK lost \in SUBSET Job :
          LET got == [j \in Job |-> IF j \in lost THEN Never ELSE plan[j]]
              new == {j \in Journaled(got) \ initialized : cursor[j] < clock}
          IN /\ initialized' = Journaled(got)
             /\ cursor' = [j \in Job |-> IF j \in new THEN clock ELSE cursor[j]]
             /\ occurrence' = [j \in Job |-> [m \in Minute |->
                  IF j \in new /\ m \in Open(j, got[j], clock) THEN "skipped" ELSE occurrence[j][m]]]
             /\ refresher' = [refresher EXCEPT !.got = got,
                                !.pc = IF refresher.loaded THEN "apply" ELSE "load"]
    BY <1>7 DEF RefreshList
  <2> DEFINE got == [j \in Job |-> IF j \in lost THEN Never ELSE plan[j]]
             new == {j \in Journaled(got) \ initialized : cursor[j] < clock}
  <2>2. UNCHANGED <<runs, effects>>
    BY <1>7 DEF RefreshList
  <2>3. \A k \in Job : cursor[k] <= cursor'[k] /\ (k \in new => cursor'[k] = clock)
    BY <2>1 DEF Types, JournalTypes, Marks, PlanTypes
  <2>4. ASSUME NEW k \in Assigned, NEW m \in Minute
        PROVE  \/ occurrence'[k][m] = occurrence[k][m]
               \/ /\ occurrence[k][m] = "none" /\ m <= cursor'[k]
                  /\ occurrence'[k][m] \in {"started", "skipped"}
    <3>1. occurrence'[k][m] = IF k \in new /\ m \in Open(k, got[k], clock) THEN "skipped" ELSE occurrence[k][m]
      BY <2>1
    <3>2. m \in Open(k, got[k], clock) => occurrence[k][m] = "none" /\ m <= clock
      BY DEF Open
    <3> HIDE DEF got, new
    <3> QED
      BY <2>3, <3>1, <3>2
  <2>5. Recorded
    BY <2>2, <2>3, <2>4 DEF Recorded
  <2> QED
    BY <1>2, <2>2, <2>5
<1>8. ASSUME NEW r \in runs, RunStep(r) \/ RunDeadline(r) PROVE JournalInv'
  <2>1. r \in Runs /\ r.job \in Job /\ r.minute \in Minute
    BY <1>1, RunTyped
  <2>2. \A p \in runs : p.job = r.job /\ p.minute = r.minute => p = r
    BY DEF RunsInv
  <2>4. CASE RunAdmit(r)
    <3>1. UNCHANGED <<cursor, occurrence, effects>>
      BY <2>4 DEF RunAdmit, journalVars
    <3>2. \A p \in runs' : p \in runs \/ ~Owning(p)
      <4>1. \A p \in runs' : p \in runs \/ p = [r EXCEPT !.phase = "admitted", !.cron = plan[r.job]]
        BY <2>4 DEF RunAdmit
      <4>2. plan[r.job] \in Specs
        BY <2>1 DEF Types, PlanTypes
      <4> QED
        BY <2>1, <4>1, <4>2, RunTyped DEF Owning
    <3> QED
      BY <1>1, <1>3, <3>1, <3>2, RecordedKeeps DEF JournalInv
  <2>5. CASE RunDeadline(r)
    <3>1. UNCHANGED <<cursor, occurrence, effects>>
      BY <2>5 DEF RunDeadline, journalVars
    <3> DEFINE q == [r EXCEPT !.late = TRUE]
    <3>2. \A p \in runs' : p \in runs \/ p = q
      BY <2>5 DEF RunDeadline
    <3>3. q.job = r.job /\ q.minute = r.minute /\ q.phase = r.phase
      BY <2>1, RunTyped
    <3> HIDE DEF q
    <3>4. ASSUME NEW p \in runs', p.job \in Assigned, Owning(p)
          PROVE  \E o \in runs : o.job = p.job /\ o.minute = p.minute /\ o.phase = p.phase
      BY <3>2, <3>3
    <3> QED
      BY <3>1, <3>4 DEF JournalInv, Owning
  <2>6. CASE RunClaim(r)
    <3>1. CASE r.job \notin Assigned
      <4>1. UNCHANGED <<cursor, occurrence, effects>> /\ Move(r, "claimed")
        BY <2>6, <3>1 DEF RunClaim, journalVars
      <4>2. \A p \in runs' : p \in runs \/ p.job \notin Assigned
        <5> DEFINE q == [r EXCEPT !.phase = "claimed"]
        <5>1. \A p \in runs' : p \in runs \/ p = q
          BY <4>1 DEF Move
        <5>2. q.job = r.job
          BY <2>1, RunTyped DEF RunPhases
        <5> HIDE DEF q
        <5> QED
          BY <3>1, <5>1, <5>2
      <4> QED
        BY <1>1, <1>3, <4>1, <4>2, RecordedKeeps DEF JournalInv
    <3>2. CASE r.job \in Assigned
      <4>1. Advance(r.job, r.cron, r.minute, TRUE) /\ effects' = effects
        BY <2>6, <3>2 DEF RunClaim
      <4>2. Recorded
        <5>1. /\ \A k \in Job : cursor[k] <= cursor'[k]
              /\ \A k \in Job : \A m \in Minute :
                   \/ occurrence'[k][m] = occurrence[k][m]
                   \/ /\ k = r.job /\ occurrence[k][m] = "none" /\ m <= cursor'[k]
                      /\ occurrence'[k][m] \in {"started", "skipped"}
          BY <2>1, <4>1, AdvanceRecords
        <5> QED
          BY <4>1, <5>1 DEF Recorded
      <4>3. CASE ClaimedRun(r.job, r.cron, r.minute)
        <5>1. occurrence[r.job][r.minute] = "none" /\ occurrence'[r.job][r.minute] = "started"
          BY <2>1, <4>1, <4>3, AdvanceRecords
        <5>2. effects'[r.job][r.minute] = 0
          BY <2>1, <3>2, <4>1, <5>1 DEF JournalInv
        <5> DEFINE q == [r EXCEPT !.phase = "claimed"]
        <5>3. runs' = (runs \ {r}) \cup {q}
          BY <2>6, <3>2, <4>3 DEF RunClaim, Move
        <5>4. q.job = r.job /\ q.minute = r.minute /\ q.phase = "claimed"
          BY <2>1, RunTyped DEF RunPhases
        <5> HIDE DEF q
        <5>5. \A p \in runs' : p \in runs \/ p = q
          BY <5>3
        <5>6. q.job \in Assigned /\ Owning(q) =>
                /\ occurrence'[q.job][q.minute] = "started"
                /\ effects'[q.job][q.minute] = IF q.phase = "executing" THEN 1 ELSE 0
          BY <5>1, <5>2, <5>4
        <5> QED
          BY <1>1, <4>2, <5>5, <5>6, RecordedKeeps DEF JournalInv
      <4>4. CASE ~ClaimedRun(r.job, r.cron, r.minute)
        <5>1. runs' \subseteq runs
          BY <2>6, <3>2, <4>4 DEF RunClaim
        <5> QED
          BY <1>1, <4>2, <5>1, RecordedKeeps DEF JournalInv
      <4> QED
        BY <4>3, <4>4
    <3> QED
      BY <3>1, <3>2
  <2>7. CASE RunDispatch(r)
    <3>1. UNCHANGED <<cursor, occurrence>> /\ r.phase = "claimed"
      BY <2>7 DEF RunDispatch, journalVars
    <3>2. PICK phase \in {"executing", "skipping"} :
            /\ runs' = (runs \ {r}) \cup {[r EXCEPT !.phase = phase]}
            /\ effects' = IF phase = "executing" THEN [effects EXCEPT ![r.job][r.minute] = @ + 1] ELSE effects
      BY <2>7 DEF RunDispatch, Move
    <3> DEFINE q == [r EXCEPT !.phase = phase]
    <3>3. q.job = r.job /\ q.minute = r.minute /\ q.phase = phase
      <4>1. phase \in RunPhases
        BY DEF RunPhases
      <4> QED
        BY <2>1, <4>1, RunTyped
    <3>4. \A p \in runs' : (p \in runs /\ p # r) \/ p = q
      BY <3>2
    <3> HIDE DEF q
    <3>5. \A j \in Job, m \in Minute :
            effects'[j][m] = IF phase = "executing" /\ j = r.job /\ m = r.minute THEN effects[j][m] + 1 ELSE effects[j][m]
      BY <2>1, <3>2 DEF Types, JournalTypes
    <3>6. r.job \in Assigned => occurrence[r.job][r.minute] = "started" /\ effects[r.job][r.minute] = 0
      BY <3>1 DEF JournalInv, Owning
    <3>7. ASSUME NEW j \in Assigned, NEW m \in Minute
          PROVE  /\ effects'[j][m] \in {0, 1}
                 /\ effects'[j][m] > 0 => occurrence'[j][m] \in {"started", "completed", "failed"}
                 /\ occurrence'[j][m] = "completed" => effects'[j][m] = 1
                 /\ occurrence'[j][m] # "none" => m <= cursor'[j]
      BY <3>1, <3>5, <3>6 DEF JournalInv
    <3>8. ASSUME NEW p \in runs', p.job \in Assigned, Owning(p)
          PROVE  /\ occurrence'[p.job][p.minute] = "started"
                 /\ effects'[p.job][p.minute] = IF p.phase = "executing" THEN 1 ELSE 0
      <4>1. CASE p = q
        BY <2>1, <3>1, <3>3, <3>5, <3>6, <3>8, <4>1
      <4>2. CASE p \in runs /\ p # r
        <5>1. ~(p.job = r.job /\ p.minute = r.minute) /\ p.minute \in Minute
          BY <1>1, <2>2, <4>2, RunTyped
        <5>2. effects'[p.job][p.minute] = effects[p.job][p.minute]
          BY <3>5, <3>8, <5>1
        <5> QED
          BY <3>1, <3>8, <4>2, <5>2 DEF JournalInv
      <4> QED
        BY <3>4, <4>1, <4>2
    <3> QED
      BY <3>7, <3>8 DEF JournalInv
  <2>8. CASE RunFinish(r)
    <3>1. UNCHANGED <<cursor, effects>> /\ runs' = runs \ {r} /\ Owning(r)
      BY <2>8 DEF RunFinish, Owning
    <3>2. PICK st : /\ r.phase = "executing" => st \in {"completed", "failed"}
                    /\ r.phase = "skipping" => st = "skipped"
                    /\ r.phase = "claimed" => st = "failed"
                    /\ occurrence' = IF r.job \in Assigned
                                     THEN [occurrence EXCEPT ![r.job][r.minute] = st] ELSE occurrence
      BY <2>8 DEF RunFinish
    <3>3. \A j \in Assigned, m \in Minute :
            occurrence'[j][m] = IF j = r.job /\ m = r.minute THEN st ELSE occurrence[j][m]
      BY <2>1, <3>2 DEF Types, JournalTypes
    <3>4. r.job \in Assigned =>
            /\ occurrence[r.job][r.minute] = "started"
            /\ effects[r.job][r.minute] = IF r.phase = "executing" THEN 1 ELSE 0
      BY <3>1 DEF JournalInv
    <3>5. ASSUME NEW j \in Assigned, NEW m \in Minute
          PROVE  /\ effects'[j][m] \in {0, 1}
                 /\ effects'[j][m] > 0 => occurrence'[j][m] \in {"started", "completed", "failed"}
                 /\ occurrence'[j][m] = "completed" => effects'[j][m] = 1
                 /\ occurrence'[j][m] # "none" => m <= cursor'[j]
      <4>1. CASE j = r.job /\ m = r.minute
        BY <3>1, <3>2, <3>3, <3>4, <4>1 DEF JournalInv, Owning
      <4>2. CASE ~(j = r.job /\ m = r.minute)
        BY <3>1, <3>3, <4>2 DEF JournalInv
      <4> QED
        BY <4>1, <4>2
    <3>6. ASSUME NEW p \in runs', p.job \in Assigned, Owning(p)
          PROVE  /\ occurrence'[p.job][p.minute] = "started"
                 /\ effects'[p.job][p.minute] = IF p.phase = "executing" THEN 1 ELSE 0
      <4>1. p \in runs /\ ~(p.job = r.job /\ p.minute = r.minute) /\ p.minute \in Minute
        BY <1>1, <2>2, <3>1, RunTyped
      <4> QED
        BY <3>1, <3>3, <3>6, <4>1 DEF JournalInv
    <3> QED
      BY <3>5, <3>6 DEF JournalInv
  <2> QED
    BY <1>8, <2>4, <2>5, <2>6, <2>7, <2>8 DEF RunStep
<1> QED
  BY <1>4, <1>5, <1>6, <1>7, <1>8, Kinds

LEMMA LocalStep ==
  ASSUME Types, MarksInv, RunsInv, LocalInv, [Next]_vars
  PROVE  LocalInv'
<1>1. Types' /\ MarksInv' /\ runs \subseteq Runs /\ runs' \subseteq Runs
  BY TypesStep, MarksStep DEF Types, RunTypes
<1>2. /\ crashes \in Nat /\ crashes' \in Nat
      /\ \A j \in Job : watermarks[j] \in Nat /\ watermarks'[j] \in Nat /\ \A m \in Minute : effects[j][m] \in Nat
  BY <1>1 DEF Types, PlanTypes, MarkTypes, Marks, JournalTypes
<1> SUFFICES ASSUME NEW j \in Job \ Assigned, NEW m \in Minute
             PROVE  /\ effects'[j][m] <= 1 + crashes'
                    /\ ~refresher'.loaded => effects'[j][m] <= crashes'
                    /\ watermarks'[j] < m => effects'[j][m] <= crashes'
                    /\ \A r \in runs' : r.job = j /\ r.minute = m /\ r.phase \in Waiting =>
                         effects'[j][m] <= crashes'
  BY DEF LocalInv
<1>3. /\ effects[j][m] <= 1 + crashes
      /\ ~refresher.loaded => effects[j][m] <= crashes
      /\ watermarks[j] < m => effects[j][m] <= crashes
      /\ \A r \in runs : r.job = j /\ r.minute = m /\ r.phase \in Waiting => effects[j][m] <= crashes
  BY DEF LocalInv
<1>4. m \in Nat /\ effects[j][m] \in Nat /\ watermarks[j] \in Nat /\ watermarks'[j] \in Nat
  BY <1>2 DEF Minute
<1>5. CASE Quiet \/ RefreshList \/ Save
  <2>1. UNCHANGED <<runs, watermarks, effects, crashes>> /\ refresher'.loaded = refresher.loaded
    BY <1>5 DEF Quiet, RefreshList, Save, claimVars, Types, RefreshTypes
  <2> QED
    BY <1>3, <2>1
<1>6. CASE RefreshLoad
  <2>1. ~refresher.loaded /\ runs = {} /\ UNCHANGED <<runs, effects, crashes>>
    BY <1>6 DEF RefreshLoad, MarksInv
  <2>2. effects[j][m] <= crashes
    BY <1>3, <2>1
  <2> QED
    BY <1>2, <1>3, <2>1, <2>2
<1>7. CASE Crash
  <2>1. runs' = {} /\ effects' = effects /\ crashes' = crashes + 1
    BY <1>7 DEF Crash
  <2> QED
    BY <1>2, <1>3, <1>4, <2>1
<1>8. CASE Claiming
  <2>1. UNCHANGED <<effects, crashes>> /\ refresher.loaded /\ refresher'.loaded
    BY <1>8 DEF Claiming
  <2>2. watermarks[j] <= watermarks'[j]
    BY <2>1, ClaimsMove
  <2>3. PICK caught \in SUBSET Job, minute \in [Job -> Nat], gen \in [Job -> Nat] : Claims(caught, minute, gen)
    BY <1>8 DEF Claiming
  <2>4. ASSUME NEW r \in runs', r.job = j, r.minute = m, r \notin runs PROVE watermarks[j] < m
    <3>1. PICK k \in caught : r = Call(k, gen[k], minute[k])
      BY <2>3, <2>4 DEF Claims
    <3>2. k = j /\ minute[k] = m /\ watermarks[k] < minute[k]
      BY <2>3, <2>4, <3>1, CallTyped DEF Claims
    <3> QED
      BY <3>2
  <2> QED
    BY <1>3, <1>4, <2>1, <2>2, <2>4
<1>9. ASSUME NEW r \in runs, RunStep(r) \/ RunDeadline(r)
      PROVE  /\ effects'[j][m] <= 1 + crashes'
             /\ ~refresher'.loaded => effects'[j][m] <= crashes'
             /\ watermarks'[j] < m => effects'[j][m] <= crashes'
             /\ \A q \in runs' : q.job = j /\ q.minute = m /\ q.phase \in Waiting =>
                  effects'[j][m] <= crashes'
  <2>1. UNCHANGED <<watermarks, refresher, crashes>> /\ refresher.loaded
    BY <1>9 DEF RunStep, RunAdmit, RunClaim, RunDispatch, RunFinish, RunDeadline, runUnchanged, claimVars, MarksInv
  <2>2. r \in Runs /\ r.job \in Job /\ r.minute \in Minute
    BY <1>1, RunTyped
  <2>3. CASE RunDispatch(r) /\ r.job = j /\ r.minute = m
    <3>1. r.phase \in Waiting /\ effects[j][m] <= crashes
      BY <1>3, <2>3 DEF RunDispatch, Waiting
    <3>2. effects'[j][m] \in {effects[j][m], effects[j][m] + 1}
      BY <2>2, <2>3 DEF RunDispatch, Types, JournalTypes
    <3>3. ~(watermarks[j] < m)
      BY <1>4, <2>3 DEF RunsInv
    <3>4. \A q \in runs' : ~(q.job = j /\ q.minute = m /\ q.phase \in Waiting)
      <4>1. PICK phase \in {"executing", "skipping"} : runs' = (runs \ {r}) \cup {[r EXCEPT !.phase = phase]}
        BY <2>3 DEF RunDispatch, Move
      <4>2. [r EXCEPT !.phase = phase].phase \notin Waiting
        BY <2>2, RunTyped DEF RunPhases, Waiting
      <4>3. \A q \in runs \ {r} : ~(q.job = j /\ q.minute = m)
        BY <2>3 DEF RunsInv
      <4> QED
        BY <4>1, <4>2, <4>3
    <3> QED
      BY <1>2, <1>4, <2>1, <3>1, <3>2, <3>3, <3>4
  <2>4. CASE ~(RunDispatch(r) /\ r.job = j /\ r.minute = m)
    <3>1. effects'[j][m] = effects[j][m]
      <4>1. CASE RunDispatch(r)
        <5>1. effects' \in {effects, [effects EXCEPT ![r.job][r.minute] = @ + 1]}
          BY <4>1 DEF RunDispatch
        <5> QED
          BY <2>2, <2>4, <4>1, <5>1 DEF Types, JournalTypes
      <4>2. CASE RunAdmit(r) \/ RunClaim(r) \/ RunFinish(r) \/ RunDeadline(r)
        BY <4>2 DEF RunAdmit, RunClaim, RunFinish, RunDeadline
      <4> QED
        BY <1>9, <4>1, <4>2 DEF RunStep
    <3>2. ASSUME NEW q \in runs', q.job = j, q.minute = m, q.phase \in Waiting
          PROVE  effects[j][m] <= crashes
      <4>1. CASE q \in runs
        BY <1>3, <3>2, <4>1
      <4>2. CASE q \notin runs
        <5>1. r.job = j /\ r.minute = m
          BY <1>9, <3>2, <4>2, RunReplaced DEF Replaced
        <5>2. CASE RunDispatch(r)
          BY <2>4, <5>1, <5>2
        <5>3. CASE RunAdmit(r) \/ RunClaim(r)
          BY <1>3, <5>1, <5>3 DEF RunAdmit, RunClaim, Waiting
        <5>4. CASE RunFinish(r)
          BY <4>2, <5>4 DEF RunFinish
        <5>5. CASE RunDeadline(r)
          <6>1. q = [r EXCEPT !.late = TRUE]
            BY <4>2, <5>5 DEF RunDeadline
          <6>2. q.phase = r.phase
            BY <2>2, <6>1, RunTyped
          <6> QED
            BY <1>3, <3>2, <5>1, <6>2
        <5> QED
          BY <1>9, <5>2, <5>3, <5>4, <5>5 DEF RunStep
      <4> QED
        BY <4>1, <4>2
    <3> QED
      BY <1>3, <2>1, <3>1, <3>2
  <2> QED
    BY <2>3, <2>4
<1> QED
  BY <1>5, <1>6, <1>7, <1>8, <1>9, Kinds

-----------------------------------------------------------------------------
(* Theorems *)

LEMMA InvInit == Init => Inv
<1> SUFFICES ASSUME Init PROVE Inv
  OBVIOUS
<1> USE DEF Init
<1>1. Types
  <2>1. active \in [Job -> Entries] /\ watermarks \in Marks /\ file \in Marks /\ cursor \in Marks
        /\ refresher \in Refreshers
    BY FreshTyped
  <2>2. saves \in Seq(Marks)
    BY EmptySeq
  <2>3. plan \in [Job -> Specs]
    BY DEF Specs
  <2>4. occurrence \in [Job -> [Minute -> Statuses]] /\ effects \in [Job -> [Minute -> Nat]]
    BY DEF Statuses
  <2> QED
    BY <2>1, <2>2, <2>3, <2>4
    DEF Types, PlanTypes, EntryTypes, RunTypes, MarkTypes, RefreshTypes, JournalTypes, Refreshers
<1>2. FlushInv
  BY DEF FlushInv
<1>3. MarksInv
  BY DEF MarksInv, FreshRefresher, NoEntry
<1>4. RunsInv
  BY DEF RunsInv
<1>5. JournalInv
  BY DEF JournalInv
<1>6. LocalInv
  BY DEF LocalInv
<1> QED
  BY <1>1, <1>2, <1>3, <1>4, <1>5, <1>6 DEF Inv

LEMMA InvAlways == Spec => []Inv
<1>1. Inv /\ [Next]_vars => Inv'
  <2> SUFFICES ASSUME Inv, [Next]_vars PROVE Inv'
    OBVIOUS
  <2> USE DEF Inv
  <2> QED
    BY TypesStep, FlushStep, MarksStep, RunsStep, JournalStep, LocalStep
<1> QED
  BY <1>1, InvInit, PTL DEF Spec

\* The scheduler's own state, the file and the journal keep their types.
THEOREM CronTypes == Spec => []TypeOK
<1>1. Inv => TypeOK
  BY DEF Inv, Types, PlanTypes, EntryTypes, RunTypes, MarkTypes, RefreshTypes, JournalTypes, TypeOK
<1> QED
  BY <1>1, InvAlways, PTL

\* An assigned occurrence is dispatched at most once, whatever crashes, edits,
\* clock changes and lost watermarks lie between two attempts at its minute
\* (the claim of the journal, automation-repository).
THEOREM AssignedOnce == Spec => []AssignedAtMostOnce
<1>1. Inv => AssignedAtMostOnce
  <2> SUFFICES ASSUME Inv, NEW j \in Assigned, NEW m \in Minute PROVE effects[j][m] <= 1
    BY DEF AssignedAtMostOnce
  <2>1. effects[j][m] \in {0, 1}
    BY DEF Inv, JournalInv
  <2> QED
    BY <2>1
<1> QED
  BY <1>1, InvAlways, PTL

\* A schedule without a journal repeats a minute only after a crash, each crash
\* at most once more: within one process the claim of the minute is enough
\* (tryClaimMinute), also when the file could not be written.
THEOREM LocalOnce == Spec => []LocalOncePerBoot
<1>1. Inv => LocalOncePerBoot
  BY DEF Inv, LocalInv, LocalOncePerBoot
<1> QED
  BY <1>1, InvAlways, PTL

\* The journal tells the truth about what ran (advance, finish and the skip of
\* the missed occurrences).
THEOREM JournalTells == Spec => []JournalTruthful
<1>1. Inv => JournalTruthful
  BY DEF Inv, JournalInv, JournalTruthful
<1> QED
  BY <1>1, InvAlways, PTL

\* When dispose() has returned no handle is armed, no refresh can arm one, and
\* each claim was handed to the file (scheduler.ts, dispose).
THEOREM ShutdownFlushes == Spec => []ShutdownFlushed
<1>1. Inv => ShutdownFlushed
  BY DEF Inv, FlushInv, ShutdownFlushed
<1> QED
  BY <1>1, InvAlways, PTL

\* No run is for a minute that the watermark file covers already: the file is
\* read before the first job is armed, no snapshot is ahead of the claims, and
\* claims only move forward while the process lives.
THEOREM RunsForward == Spec => RunsMoveForward
<1>1. Inv /\ [Next]_vars =>
        [\A r \in runs' : (\A q \in runs : q.job # r.job \/ q.minute # r.minute) => r.minute > file[r.job]]_vars
  <2> SUFFICES ASSUME Inv, [Next]_vars, NEW r \in runs', \A q \in runs : q.job # r.job \/ q.minute # r.minute
               PROVE  r.minute > file[r.job]
    OBVIOUS
  <2>1. Claiming /\ watermarks[r.job] < r.minute /\ r.job \in Job
    BY NewRuns DEF Inv
  <2>2. file[r.job] <= watermarks[r.job]
    BY <2>1 DEF Claiming, Inv, MarksInv
  <2>3. file[r.job] \in Nat /\ watermarks[r.job] \in Nat
    BY <2>1 DEF Inv, Types, MarkTypes, Marks
  <2>4. r.minute \in Nat
    BY TypesStep DEF Inv, Types, RunTypes, Runs, Minute
  <2> QED
    BY <2>1, <2>2, <2>3, <2>4
<1> QED
  BY <1>1, InvAlways, PTL DEF Spec, RunsMoveForward

\* Once dispose() has been called no run is dispatched any more, although a
\* refresh that is under way still arms and catches up its jobs.
THEOREM DisposedStartsNothing == Spec => NoRunAfterDispose
<1>1. Inv /\ [Next]_vars =>
        [disposal # "no" /\ disposal' # "no" =>
           \A r \in runs' : \E q \in runs : q.job = r.job /\ q.minute = r.minute /\ q.gen = r.gen]_vars
  <2> SUFFICES ASSUME Inv, [Next]_vars, disposal # "no", NEW r \in runs'
               PROVE  \E q \in runs : q.job = r.job /\ q.minute = r.minute /\ q.gen = r.gen
    OBVIOUS
  <2> QED
    BY NewRuns DEF Inv
<1> QED
  BY <1>1, InvAlways, PTL DEF Spec, NoRunAfterDispose

=============================================================================
