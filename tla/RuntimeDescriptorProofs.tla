---------------------- MODULE RuntimeDescriptorProofs ----------------------
(***************************************************************************)
(* Proofs about RuntimeDescriptor, for any number of processes, ids and    *)
(* faults: types, exclusion, and that a serving runtime is the one its     *)
(* descriptor names.                                                       *)
(*                                                                         *)
(* Exclusion is the argument of the bakery: a process that has seen all    *)
(* earlier choosers go is ahead of everyone who numbers himself later, and *)
(* the one that is first among the listed is ahead of everyone.  The       *)
(* descriptor rests on exclusion and on the database lock: only its owner  *)
(* publishes or is promoted, and nobody cleans up for a runtime that       *)
(* serves.                                                                 *)
(***************************************************************************)
EXTENDS RuntimeDescriptor, TLAPS

USE DEF Procs, None

Positions == {"out", "choosing", "numbered", "waiting", "looking", "in", "checked", "done"}

-----------------------------------------------------------------------------
(* Types *)

\* The types without what TypeOK adds about the owner of the database.
Types ==
  /\ proc \in [Procs -> {"ready", "starting", "serving", "closing", "gone"}]
  /\ db \in Runtimes \cup {None}
  /\ owner \in [Runtimes -> {"desktop", "persistent"}]
  /\ descriptor \in Descriptors \cup {NoDescriptor}
  /\ op \in [Procs -> {None, "publish", "promote", "cleanup", "probe"}]
  /\ target \in [Procs -> Runtimes \cup {None}]
  /\ matched \in [Procs -> BOOLEAN]
  /\ at \in [Procs -> Positions]
  /\ id \in [Procs -> Int]
  /\ ticket \in [Procs -> Nat]
  /\ awaited \in [Procs -> SUBSET Procs]
  /\ faults \in 0..MaxFaults

\* What a process is doing follows from what it wants the lock for.
Purposes ==
  /\ \A p \in Procs : op[p] = "publish" => p \in Runtimes /\ proc[p] = "starting" /\ target[p] = p
  /\ \A p \in Procs : op[p] = "promote" => p \in Runtimes /\ proc[p] = "serving" /\ target[p] = p
  /\ \A p \in Procs : op[p] = "cleanup" =>
       /\ target[p] \in Runtimes
       /\ proc[target[p]] \in {"closing", "gone"}
       /\ p \in Runtimes => proc[p] = "closing"
  /\ \A p \in Procs : op[p] = "probe" => p \in Clients /\ target[p] \in Runtimes /\ at[p] = "out"
  /\ \A p \in Procs : Alive(p) /\ at[p] # "out" => op[p] \in {"publish", "promote", "cleanup"}
  /\ \A p \in Procs : at[p] = "checked" => op[p] # "publish"
  /\ \A p \in Procs : proc[p] \in {"starting", "serving"} => db = p
  /\ \A p \in Procs : proc[p] = "starting" => op[p] = "publish"
  /\ db # None => proc[db] \in {"starting", "serving"}

\* Who is behind p, whatever it does next.
Behind(q, p) ==
  \/ at[q] \in {"out", "choosing"}
  \/ at[q] = "numbered" /\ ticket[p] < ticket[q]
  \/ q \in Listed /\ Before(p, q)

Critical(p) == at[p] \in {"in", "checked", "done"}

\* A process that looked is ahead of every number taken since by somebody it
\* does not wait for; the holder is ahead of everybody.
Queueing ==
  /\ \A p, q \in Procs : p # q /\ at[p] = "looking" /\ q \notin awaited[p] /\ at[q] = "numbered"
       => ticket[p] < ticket[q]
  /\ \A p, q \in Procs : p # q /\ Critical(p) => Behind(q, p)

\* What the holder read and wrote is still there.
Current ==
  /\ \A r \in Runtimes : proc[r] = "serving" => descriptor = [by |-> r, owner |-> owner[r]]
  /\ \A p \in Procs : Alive(p) /\ at[p] = "checked" /\ matched[p] => descriptor.by = target[p]
  /\ \A p \in Procs : Alive(p) /\ at[p] = "done" /\ op[p] = "publish"
       => descriptor = [by |-> p, owner |-> owner[p]]

-----------------------------------------------------------------------------

\* Every step keeps the types.
LEMMA TypesKept ==
  ASSUME Types, Purposes, [Next]_vars PROVE Types'
  <1> USE DescriptorAssumption DEF Types, Positions, Move, Remove, Begin, claims
  <1> SUFFICES ASSUME Next PROVE Types'
    BY DEF vars
  <1>1. ASSUME NEW p \in Procs, Number(p) PROVE Types'
    <2>1. PICK t \in {1} \cup {ticket[q] + 1 : q \in Listed} :
            ticket' = [ticket EXCEPT ![p] = t]
      BY <1>1 DEF Number
    <2>2. t \in Nat
      BY <2>1 DEF Listed
    <2> QED BY <1>1, <2>1, <2>2 DEF Number
  <1>2. ASSUME NEW p \in Procs, Join(p) \/ Look(p) \/ Enter(p) \/ Retry(p) \/ RemoveDead(p)
        PROVE Types'
    BY <1>2 DEF Join, Look, Enter, Retry, RemoveDead, Choosers
  <1>3. ASSUME NEW p \in Procs, Publish(p) PROVE Types'
    BY <1>3 DEF Publish, Descriptors, Purposes
  <1>4. ASSUME NEW p \in Procs, Read(p) PROVE Types'
    BY <1>4 DEF Read, Matches
  <1>5. ASSUME NEW p \in Procs, Apply(p) PROVE Types'
    <2>1. op[p] \in {"promote", "cleanup"}
      BY <1>5 DEF Apply, Purposes
    <2>2. CASE op[p] = "promote"
      BY <1>5, <2>2 DEF Apply, Purposes, Descriptors
    <2>3. CASE op[p] = "cleanup"
      BY <1>5, <2>3 DEF Apply
    <2> QED BY <2>1, <2>2, <2>3
  <1>6. ASSUME NEW p \in Procs, Release(p) PROVE Types'
    BY <1>6 DEF Release, After
  <1>7. ASSUME NEW p \in Procs, TimeOut(p) PROVE Types'
    BY <1>7 DEF TimeOut, After
  <1>8. ASSUME NEW p \in Procs, Crash(p) PROVE Types'
    BY <1>8 DEF Crash
  <1>9. ASSUME NEW r \in Runtimes, Start(r) \/ RefuseStart(r) \/ Promote(r) \/ Close(r) \/ Cleanup(r)
        PROVE Types'
    BY <1>9 DEF Start, RefuseStart, Promote, Close, Cleanup
  <1>10. ASSUME NEW c \in Clients, Discover(c) PROVE Types'
    BY <1>10 DEF Discover, Descriptors
  <1>11. ASSUME NEW c \in Clients, Probe(c) PROVE Types'
    BY <1>11 DEF Probe
  <1> QED
    BY <1>1, <1>2, <1>3, <1>4, <1>5, <1>6, <1>7, <1>8, <1>9, <1>10, <1>11 DEF Next, LockStep

\* Every step keeps what a process is doing in line with what it asked for.
LEMMA PurposesKept ==
  ASSUME Types, Purposes, [Next]_vars PROVE Purposes'
  <1> USE DescriptorAssumption DEF Types, Positions, Purposes, Alive, Move, Remove, Begin, claims
  <1> SUFFICES ASSUME Next PROVE Purposes'
    BY DEF vars
  <1>1. ASSUME NEW p \in Procs, Number(p) \/ Join(p) \/ Look(p) \/ Enter(p) \/ Retry(p)
        PROVE Purposes'
    BY <1>1 DEF Number, Join, Look, Enter, Retry, Turned, Clear
  <1>2. ASSUME NEW p \in Procs, RemoveDead(p) PROVE Purposes'
    BY <1>2 DEF RemoveDead
  <1>3. ASSUME NEW p \in Procs, Publish(p) \/ Read(p) \/ Apply(p) PROVE Purposes'
    BY <1>3 DEF Publish, Read, Apply
  <1>4. ASSUME NEW p \in Procs, Release(p) PROVE Purposes'
    BY <1>4 DEF Release, After
  <1>5. ASSUME NEW p \in Procs, TimeOut(p) PROVE Purposes'
    BY <1>5 DEF TimeOut, After, Turned, Clear
  <1>6. ASSUME NEW p \in Procs, Crash(p) PROVE Purposes'
    BY <1>6 DEF Crash
  <1>7. ASSUME NEW r \in Runtimes, Start(r) PROVE Purposes'
    BY <1>7 DEF Start
  <1>8. ASSUME NEW r \in Runtimes, RefuseStart(r) \/ Promote(r) \/ Close(r) \/ Cleanup(r)
        PROVE Purposes'
    BY <1>8 DEF RefuseStart, Promote, Close, Cleanup
  <1>9. ASSUME NEW c \in Clients, Discover(c) PROVE Purposes'
    BY <1>9 DEF Discover, Descriptors
  <1>10. ASSUME NEW c \in Clients, Probe(c) PROVE Purposes'
    BY <1>10 DEF Probe
  <1> QED
    BY <1>1, <1>2, <1>3, <1>4, <1>5, <1>6, <1>7, <1>8, <1>9, <1>10 DEF Next, LockStep

-----------------------------------------------------------------------------
(* The lock *)

\* Every step keeps later numbers behind those who looked, and everybody behind
\* the holder.
LEMMA QueueingKept ==
  ASSUME Types, Purposes, Queueing, [Next]_vars PROVE Queueing'
  <1> USE DescriptorAssumption
      DEF Types, Positions, Queueing, Behind, Critical, Before, Listed, Move, Remove, Begin, claims
  <1> SUFFICES ASSUME Next PROVE Queueing'
    BY DEF vars
  <1>1. ASSUME NEW p \in Procs, Number(p) PROVE Queueing'
    <2>1. PICK t \in {1} \cup {ticket[q] + 1 : q \in Listed} :
            /\ \A q \in Listed : ticket[q] < t
            /\ ticket' = [ticket EXCEPT ![p] = t]
      BY <1>1 DEF Number
    <2>2. at[p] = "choosing" /\ at' = [at EXCEPT ![p] = "numbered"] /\ UNCHANGED awaited
      BY <1>1 DEF Number
    <2>3. \A q \in Procs : q # p => ticket'[q] = ticket[q] /\ at'[q] = at[q]
      BY <2>1, <2>2
    <2>4. ticket'[p] = t /\ at'[p] = "numbered" /\ t \in Nat
      BY <2>1, <2>2
    <2>5. \A q \in Procs : at[q] \in {"looking", "in", "checked", "done"} => ticket[q] < t
      BY <2>1
    <2> HIDE DEF Before
    <2>6. \A q, r \in Procs : q # p /\ r # p => (Before(q, r)' <=> Before(q, r))
      BY <2>3, <1>1 DEF Before, Number
    <2>7. ASSUME NEW q \in Procs, NEW r \in Procs, q # r, at'[q] = "looking",
                 r \notin awaited'[q], at'[r] = "numbered"
          PROVE ticket'[q] < ticket'[r]
      BY <2>2, <2>3, <2>4, <2>5, <2>7
    <2>8. ASSUME NEW q \in Procs, NEW r \in Procs, q # r, Critical(q)' PROVE Behind(r, q)'
      BY <2>2, <2>3, <2>4, <2>5, <2>6, <2>8
    <2> QED BY <2>7, <2>8
  <1>2. ASSUME NEW p \in Procs, Join(p) PROVE Queueing'
    BY <1>2 DEF Join
  <1>3. ASSUME NEW p \in Procs, Look(p) PROVE Queueing'
    BY <1>3 DEF Look, Choosers
  <1>4. ASSUME NEW p \in Procs, Retry(p) PROVE Queueing'
    BY <1>4 DEF Retry, Turned, Clear
  <1>5. ASSUME NEW p \in Procs, RemoveDead(p) PROVE Queueing'
    BY <1>5 DEF RemoveDead
  <1>6. ASSUME NEW p \in Procs, Enter(p) PROVE Queueing'
    <2>1. /\ at[p] = "looking" /\ awaited[p] = {}
          /\ \A q \in Listed \ {p} : Before(p, q)
          /\ at' = [at EXCEPT ![p] = "in"]
          /\ UNCHANGED <<ticket, id, awaited>>
      BY <1>6 DEF Enter, Clear, First
    <2>2. \A q \in Procs : q # p => Behind(q, p)
      BY <2>1
    <2> QED BY <2>1, <2>2
  <1>7. ASSUME NEW p \in Procs, Publish(p) \/ Read(p) \/ Apply(p) PROVE Queueing'
    BY <1>7 DEF Publish, Read, Apply
  <1>8. ASSUME NEW p \in Procs, Release(p) \/ TimeOut(p) PROVE Queueing'
    <2>1. Remove(p)
      BY <1>8 DEF Release, TimeOut
    <2> QED BY <2>1
  <1>9. ASSUME NEW p \in Procs, Crash(p) PROVE Queueing'
    BY <1>9 DEF Crash
  <1>10. ASSUME NEW r \in Runtimes,
                Start(r) \/ RefuseStart(r) \/ Promote(r) \/ Close(r) \/ Cleanup(r)
         PROVE Queueing'
    <2>1. CASE Start(r)
      BY <2>1 DEF Start, Purposes, Alive
    <2>2. CASE RefuseStart(r) \/ Close(r)
      BY <2>2 DEF RefuseStart, Close
    <2>3. CASE Promote(r)
      BY <2>3 DEF Promote
    <2>4. CASE Cleanup(r)
      BY <2>4 DEF Cleanup
    <2> QED BY <1>10, <2>1, <2>2, <2>3, <2>4
  <1>11. ASSUME NEW c \in Clients, Discover(c) \/ Probe(c) PROVE Queueing'
    <2>1. CASE UNCHANGED claims
      BY <2>1
    <2>2. CASE Begin(c, "cleanup", target[c])
      BY <2>2
    <2> QED BY <1>11, <2>1, <2>2 DEF Discover, Probe
  <1> QED
    BY <1>1, <1>2, <1>3, <1>4, <1>5, <1>6, <1>7, <1>8, <1>9, <1>10, <1>11 DEF Next, LockStep

\* Of two holders each would be behind the other.
LEMMA Exclusion == ASSUME Types, Queueing PROVE OneHolder
  <1> SUFFICES ASSUME NEW p \in Procs, NEW q \in Procs, Holding(p), Holding(q), p # q
               PROVE FALSE
    BY DEF OneHolder
  <1>1. Before(p, q) /\ Before(q, p)
    BY DEF Queueing, Behind, Critical, Holding, Listed
  <1>2. /\ ticket[p] \in Int /\ ticket[q] \in Int
        /\ id[p] \in Int /\ id[q] \in Int
    BY DEF Types
  <1> QED BY <1>1, <1>2 DEF Before

-----------------------------------------------------------------------------
(* The descriptor *)

\* Every step keeps the descriptor of whoever serves, and what the holder read.
LEMMA CurrentKept ==
  ASSUME Types, Purposes, Queueing, Current, [Next]_vars PROVE Current'
  <1> USE DescriptorAssumption
      DEF Types, Positions, Current, Alive, Move, Remove, Begin, claims
  <1>0. \A p, q \in Procs : Holding(p) /\ Holding(q) => p = q
    BY Exclusion DEF OneHolder
  <1> SUFFICES ASSUME Next PROVE Current'
    BY DEF vars
  <1>1. ASSUME NEW p \in Procs, Number(p) \/ Join(p) \/ Look(p) \/ Enter(p) \/ Retry(p)
        PROVE Current'
    BY <1>1 DEF Number, Join, Look, Enter, Retry
  <1>2. ASSUME NEW p \in Procs, RemoveDead(p) PROVE Current'
    BY <1>2 DEF RemoveDead
  <1>3. ASSUME NEW p \in Procs, Publish(p) PROVE Current'
    <2>1. proc[p] = "starting" /\ db = p
      BY <1>3 DEF Publish, Purposes
    <2>2. \A q \in Procs : Alive(q) /\ q # p => at[q] \notin {"checked", "done"}
      BY <1>0, <1>3 DEF Publish, Holding
    <2> QED BY <1>3, <2>1, <2>2 DEF Publish, Purposes
  <1>4. ASSUME NEW p \in Procs, Read(p) PROVE Current'
    BY <1>4 DEF Read, Matches
  <1>5. ASSUME NEW p \in Procs, Apply(p) PROVE Current'
    <2>1. \A q \in Procs : Alive(q) /\ q # p => at[q] \notin {"checked", "done"}
      BY <1>0, <1>5 DEF Apply, Holding
    <2>2. op[p] \in {"promote", "cleanup"}
      BY <1>5 DEF Apply, Purposes
    <2>3. CASE ~matched[p]
      BY <1>5, <2>1, <2>2, <2>3 DEF Apply
    <2>4. CASE matched[p] /\ op[p] = "promote"
      <3>1. p \in Runtimes /\ proc[p] = "serving" /\ target[p] = p /\ db = p
        BY <2>4 DEF Purposes
      <3> QED BY <1>5, <2>1, <2>4, <3>1 DEF Apply, Purposes
    <2>5. CASE matched[p] /\ op[p] = "cleanup"
      <3>1. descriptor.by = target[p] /\ proc[target[p]] \in {"closing", "gone"}
        BY <1>5, <2>5 DEF Apply, Purposes
      <3>2. \A r \in Runtimes : proc[r] # "serving"
        BY <3>1
      <3> QED BY <1>5, <2>1, <2>5, <3>2 DEF Apply
    <2> QED BY <2>2, <2>3, <2>4, <2>5
  <1>6. ASSUME NEW p \in Procs, Release(p) PROVE Current'
    BY <1>6 DEF Release, After
  <1>7. ASSUME NEW p \in Procs, TimeOut(p) PROVE Current'
    BY <1>7 DEF TimeOut, After, Turned, Clear
  <1>8. ASSUME NEW p \in Procs, Crash(p) PROVE Current'
    BY <1>8 DEF Crash
  <1>9. ASSUME NEW r \in Runtimes, Start(r) \/ RefuseStart(r) \/ Promote(r) \/ Close(r) \/ Cleanup(r)
        PROVE Current'
    BY <1>9 DEF Start, RefuseStart, Promote, Close, Cleanup, Purposes
  <1>10. ASSUME NEW c \in Clients, Discover(c) \/ Probe(c) PROVE Current'
    BY <1>10 DEF Discover, Probe, Purposes
  <1> QED
    BY <1>1, <1>2, <1>3, <1>4, <1>5, <1>6, <1>7, <1>8, <1>9, <1>10 DEF Next, LockStep

-----------------------------------------------------------------------------

IInv == Types /\ Purposes /\ Queueing /\ Current

LEMMA Inductive == Spec => []IInv
  <1>1. Init => IInv
    BY DescriptorAssumption
    DEF Init, IInv, Types, Positions, Purposes, Queueing, Current, Critical, Alive
  <1>2. IInv /\ [Next]_vars => IInv'
    BY TypesKept, PurposesKept, QueueingKept, CurrentKept DEF IInv
  <1> QED BY <1>1, <1>2, PTL DEF Spec

\* Every variable keeps its type, and the database is locked only by a runtime
\* that starts or serves.
THEOREM DescriptorTypes == Spec => []TypeOK
  <1>1. IInv => TypeOK
    BY DEF IInv, Types, Positions, Purposes, TypeOK
  <1> QED BY Inductive, <1>1, PTL

\* The claim files exclude each other, for any number of processes and whatever
\* they do: die, give up, or start over.
THEOREM LockIsExclusive == Spec => []OneHolder
  <1>1. IInv => OneHolder
    BY Exclusion DEF IInv
  <1> QED BY Inductive, <1>1, PTL

\* A serving runtime is found under its own descriptor, whoever cleans up after
\* others, reclaims what it once read, or promotes in between.
THEOREM DescriptorIsCurrent == Spec => []PublishedIsFound
  <1>1. IInv => PublishedIsFound
    BY DEF IInv, Current, PublishedIsFound
  <1> QED BY Inductive, <1>1, PTL
=============================================================================
