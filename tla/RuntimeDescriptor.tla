------------------------- MODULE RuntimeDescriptor -------------------------
(***************************************************************************)
(* The runtime descriptor: the one file through which every client finds   *)
(* the running host ("runtime"), and the directory of claim files that     *)
(* serialises the processes that write it.                                 *)
(*                                                                         *)
(*   runtime-descriptor-lock.ts   the lock: a bakery of claim files        *)
(*   runtime-descriptor.ts        publish, promote, clean up, discover     *)
(*   serve-runtime.ts, serve-app.ts   when a runtime does which of them    *)
(*                                                                         *)
(* A process announces itself with a .choosing file, takes a ticket above  *)
(* every ticket it can list, renames its file to .waiting, and enters once *)
(* nobody is choosing and it is the first by ticket and id.  The files of  *)
(* a process that died stay behind until somebody who lists them removes   *)
(* them.  A directory listing is one step; what is done with its names,    *)
(* one by one, is not: a name that is gone by then is skipped (choosing)   *)
(* or makes the reader start again (waiting, active).                      *)
(***************************************************************************)
EXTENDS Integers

CONSTANTS
  Runtimes,     \* host processes, each started at most once
  Clients,      \* processes that look for a host: pst commands, the desktop app
  Ids,          \* the random ids of claims, ordered
  MaxFaults     \* bound: claims given up after five seconds, and processes
                \* that die without a goodbye

Procs == Runtimes \cup Clients
None == "none"
NoDescriptor == [by |-> None, owner |-> None]

ASSUME DescriptorAssumption ==
  /\ Runtimes \cap Clients = {}
  /\ None \notin Procs
  /\ Ids \subseteq Int
  /\ MaxFaults \in Nat

VARIABLES
  proc,        \* life of a process; a client is "ready" until it dies
  db,          \* the runtime that holds the database lock
  owner,       \* ownerType as the runtime itself remembers it
  descriptor,  \* runtime.json: whose it is, and the owner type it names
  op,          \* what the process wants the lock for
  target,      \* the runtime whose descriptor it means to clean up
  matched,     \* whether the descriptor it read was the one it means
  at,          \* how far its claim is; the claim file of a dead process stays
  id,          \* id in its claim file
  ticket,      \* ticket in its claim file
  awaited,     \* .choosing files listed and not yet found gone
  faults

claims == <<at, id, ticket, awaited>>
vars == <<proc, db, owner, descriptor, op, target, matched, claims, faults>>

Init ==
  /\ proc = [p \in Procs |-> "ready"]
  /\ db = None
  /\ owner \in [Runtimes -> {"desktop", "persistent"}]
  /\ descriptor = NoDescriptor
  /\ op = [p \in Procs |-> None]
  /\ target = [p \in Procs |-> None]
  /\ matched = [p \in Procs |-> FALSE]
  /\ at = [p \in Procs |-> "out"]
  /\ id = [p \in Procs |-> 0]
  /\ ticket = [p \in Procs |-> 0]
  /\ awaited = [p \in Procs |-> {}]
  /\ faults = 0

-----------------------------------------------------------------------------
(* The lock *)

Alive(p) == proc[p] # "gone"

ChoosersMutant == {q \in Procs : at[q] = "choosing"}
Choosers == {q \in Procs : at[q] \in {"choosing", "numbered"}}

\* Whose .waiting or .active file a listing shows.
Listed == {q \in Procs : at[q] \in {"waiting", "looking", "in", "checked", "done"}}

\* Listed files whose owner is dead: whoever lists them removes them.
AbandonedMutant == {q \in Listed : ~Alive(q) /\ at[q] \notin {"in", "checked", "done"}}
Abandoned == {q \in Listed : ~Alive(q)}

Before(p, q) ==
  \/ ticket[p] < ticket[q]
  \/ ticket[p] = ticket[q] /\ id[p] < id[q]

First(p) == \A q \in Listed \ {p} : Before(p, q)

Move(p, place) == at' = [at EXCEPT ![p] = place]

\* p's claim file is removed; the contents of a claim say nothing without it.
Remove(p) ==
  /\ Move(p, "out")
  /\ id' = [id EXCEPT ![p] = 0]
  /\ ticket' = [ticket EXCEPT ![p] = 0]
  /\ awaited' = [q \in Procs |-> IF q = p THEN {} ELSE awaited[q] \ {p}]

\* Writes the .choosing file, to do o about the descriptor of t.
Begin(p, o, t) ==
  /\ op' = [op EXCEPT ![p] = o]
  /\ target' = [target EXCEPT ![p] = t]
  /\ Move(p, "choosing")
  /\ \E i \in Ids \ {id[q] : q \in {q \in Procs : at[q] # "out"}} :
       id' = [id EXCEPT ![p] = i]
  /\ UNCHANGED <<ticket, awaited>>

\* Takes the ticket that follows the highest one listed.
Number(p) ==
  /\ at[p] = "choosing" /\ Alive(p)
  /\ Abandoned = {}
  /\ \E t \in {1} \cup {ticket[q] + 1 : q \in Listed} :
       /\ \A q \in Listed : ticket[q] < t
       /\ ticket' = [ticket EXCEPT ![p] = t]
  /\ Move(p, "numbered")
  /\ UNCHANGED <<proc, db, owner, descriptor, op, target, matched, id, awaited, faults>>

\* Renames .choosing to .waiting.
Join(p) ==
  /\ at[p] = "numbered" /\ Alive(p)
  /\ Move(p, "waiting")
  /\ awaited' = [q \in Procs |-> awaited[q] \ {p}]
  /\ UNCHANGED <<proc, db, owner, descriptor, op, target, matched, id, ticket, faults>>

\* Lists the directory for .choosing files.
Look(p) ==
  /\ at[p] = "waiting" /\ Alive(p)
  /\ awaited' = [awaited EXCEPT ![p] = Choosers]
  /\ Move(p, "looking")
  /\ UNCHANGED <<proc, db, owner, descriptor, op, target, matched, id, ticket, faults>>

\* Every .choosing file it listed is gone: it goes on to list the others.
Clear(p) == at[p] = "looking" /\ awaited[p] = {}

\* Removes the file of a dead process from what it just listed.
RemoveDead(p) ==
  /\ Alive(p)
  /\ \E q \in Procs :
       /\ \/ (at[p] = "choosing" \/ Clear(p)) /\ q \in Abandoned
          \/ at[p] = "looking" /\ q \in awaited[p] /\ ~Alive(q)
       /\ Remove(q)
  /\ UNCHANGED <<proc, db, owner, descriptor, op, target, matched, faults>>

\* Lists the others, is the first, and renames .waiting to .active.
Enter(p) ==
  /\ Clear(p) /\ Alive(p)
  /\ Abandoned = {} /\ First(p)
  /\ Move(p, "in")
  /\ UNCHANGED <<proc, db, owner, descriptor, op, target, matched, id, ticket, awaited, faults>>

\* Somebody is choosing, or somebody else is first.
Turned(p) ==
  /\ Alive(p)
  /\ \/ at[p] = "looking" /\ \E q \in awaited[p] : Alive(q)
     \/ Clear(p) /\ Abandoned = {} /\ ~First(p)

\* Sleeps a millisecond and looks again.
Retry(p) ==
  /\ Turned(p)
  /\ Move(p, "waiting")
  /\ awaited' = [awaited EXCEPT ![p] = {}]
  /\ UNCHANGED <<proc, db, owner, descriptor, op, target, matched, id, ticket, faults>>

-----------------------------------------------------------------------------
(* What is done under the lock *)

Descriptors == [by : Runtimes, owner : {"desktop", "persistent"}]

\* isMatchingRuntime
MatchesMutant(p) == descriptor # NoDescriptor
Matches(p) == descriptor.by = target[p]

\* writeRuntimeDescriptor: renames the new file over whatever is there.
Publish(p) ==
  /\ at[p] = "in" /\ op[p] = "publish" /\ Alive(p)
  /\ descriptor' = [by |-> p, owner |-> owner[p]]
  /\ Move(p, "done")
  /\ UNCHANGED <<proc, db, owner, op, target, matched, id, ticket, awaited, faults>>

\* Promotion and cleanup first read the descriptor ...
Read(p) ==
  /\ at[p] = "in" /\ op[p] \in {"promote", "cleanup"} /\ Alive(p)
  /\ matched' = [matched EXCEPT ![p] = Matches(p)]
  /\ Move(p, "checked")
  /\ UNCHANGED <<proc, db, owner, descriptor, op, target, id, ticket, awaited, faults>>

\* ... and write or unlink it only if it is the one they mean.
Apply(p) ==
  /\ at[p] = "checked" /\ Alive(p)
  /\ descriptor' = IF ~matched[p] THEN descriptor
                   ELSE IF op[p] = "cleanup" THEN NoDescriptor
                   ELSE [by |-> target[p], owner |-> "persistent"]
  /\ owner' = IF matched[p] /\ op[p] = "promote"
              THEN [owner EXCEPT ![p] = "persistent"] ELSE owner
  /\ Move(p, "done")
  /\ UNCHANGED <<proc, db, op, target, matched, id, ticket, awaited, faults>>

\* Where a process goes on after its operation; a runtime that cleaned up exits.
After(p, published) ==
  proc' = [proc EXCEPT ![p] =
             CASE op[p] = "publish" -> published
               [] op[p] = "cleanup" /\ p \in Runtimes -> "gone"
               [] OTHER -> @]

\* Removes the .active file; the operation returns.
Release(p) ==
  /\ at[p] = "done" /\ Alive(p)
  /\ After(p, "serving")
  /\ op' = [op EXCEPT ![p] = None]
  /\ target' = [target EXCEPT ![p] = None]
  /\ matched' = [matched EXCEPT ![p] = FALSE]
  /\ Remove(p)
  /\ UNCHANGED <<db, owner, descriptor, faults>>

\* Five seconds are over: the claim is removed and the operation fails.  A
\* runtime that could not publish closes its database and then cleans up.
TimeOut(p) ==
  /\ faults < MaxFaults
  /\ Turned(p)
  /\ After(p, "closing")
  /\ db' = IF db = p /\ op[p] = "publish" THEN None ELSE db
  /\ op' = [op EXCEPT ![p] = None]
  /\ target' = [target EXCEPT ![p] = None]
  /\ Remove(p)
  /\ faults' = faults + 1
  /\ UNCHANGED <<owner, descriptor, matched>>

-----------------------------------------------------------------------------
(* Runtimes and their clients *)

\* Takes the database lock, and with it the right to publish.
Start(r) ==
  /\ proc[r] = "ready" /\ db = None
  /\ db' = r
  /\ proc' = [proc EXCEPT ![r] = "starting"]
  /\ Begin(r, "publish", r)
  /\ UNCHANGED <<owner, descriptor, matched, faults>>

\* The database is locked by another runtime: it never published, so it exits.
RefuseStart(r) ==
  /\ proc[r] = "ready" /\ db # None
  /\ proc' = [proc EXCEPT ![r] = "gone"]
  /\ UNCHANGED <<db, owner, descriptor, op, target, matched, claims, faults>>

\* POST /runtime/promote, sent by `pst serve`.
Promote(r) ==
  /\ proc[r] = "serving" /\ op[r] = None
  /\ owner[r] = "desktop"
  /\ Begin(r, "promote", r)
  /\ UNCHANGED <<proc, db, owner, descriptor, matched, faults>>

\* A shutdown, a signal or a failed start: the database is closed first, so that
\* the next runtime may already publish ...
Close(r) ==
  /\ proc[r] = "serving" /\ op[r] = None
  /\ proc' = [proc EXCEPT ![r] = "closing"]
  /\ db' = None
  /\ UNCHANGED <<owner, descriptor, op, target, matched, claims, faults>>

\* ... before this one removes its descriptor.
Cleanup(r) ==
  /\ proc[r] = "closing" /\ op[r] = None
  /\ Begin(r, "cleanup", r)
  /\ UNCHANGED <<proc, db, owner, descriptor, matched, faults>>

\* discoverRuntime reads the descriptor without the lock and probes its owner ...
Discover(c) ==
  /\ Alive(c) /\ op[c] = None
  /\ descriptor # NoDescriptor
  /\ op' = [op EXCEPT ![c] = "probe"]
  /\ target' = [target EXCEPT ![c] = descriptor.by]
  /\ UNCHANGED <<proc, db, owner, descriptor, matched, claims, faults>>

\* ... and reclaims it only when that process is dead.
Probe(c) ==
  /\ Alive(c) /\ op[c] = "probe"
  /\ IF Alive(target[c])
     THEN /\ op' = [op EXCEPT ![c] = None]
          /\ target' = [target EXCEPT ![c] = None]
          /\ UNCHANGED claims
     ELSE Begin(c, "cleanup", target[c])
  /\ UNCHANGED <<proc, db, owner, descriptor, matched, faults>>

\* The process dies: the operating system frees the database lock, its claim and
\* its descriptor stay.
Crash(p) ==
  /\ faults < MaxFaults
  /\ Alive(p) /\ (p \in Runtimes => proc[p] # "ready")
  /\ proc' = [proc EXCEPT ![p] = "gone"]
  /\ db' = IF db = p THEN None ELSE db
  /\ op' = [op EXCEPT ![p] = None]
  /\ target' = [target EXCEPT ![p] = None]
  /\ matched' = [matched EXCEPT ![p] = FALSE]
  /\ faults' = faults + 1
  /\ UNCHANGED <<owner, descriptor, claims>>

-----------------------------------------------------------------------------

LockStep(p) ==
  \/ Number(p) \/ Join(p) \/ Look(p) \/ RemoveDead(p)
  \/ Enter(p) \/ Retry(p)
  \/ Publish(p) \/ Read(p) \/ Apply(p) \/ Release(p)

Next ==
  \/ \E p \in Procs : LockStep(p) \/ TimeOut(p) \/ Crash(p)
  \/ \E r \in Runtimes : Start(r) \/ RefuseStart(r) \/ Promote(r) \/ Close(r) \/ Cleanup(r)
  \/ \E c \in Clients : Discover(c) \/ Probe(c)

\* A process that asked for the lock keeps running until it crashes.
Fairness == \A p \in Procs : WF_vars(LockStep(p))

Spec == Init /\ [][Next]_vars
LiveSpec == Spec /\ Fairness

-----------------------------------------------------------------------------
(* Properties *)

Holding(p) == Alive(p) /\ at[p] \in {"in", "checked", "done"}

TypeOK ==
  /\ proc \in [Procs -> {"ready", "starting", "serving", "closing", "gone"}]
  /\ db \in Runtimes \cup {None}
  /\ db # None => proc[db] \in {"starting", "serving"}
  /\ owner \in [Runtimes -> {"desktop", "persistent"}]
  /\ descriptor \in Descriptors \cup {NoDescriptor}
  /\ op \in [Procs -> {None, "publish", "promote", "cleanup", "probe"}]
  /\ target \in [Procs -> Runtimes \cup {None}]
  /\ matched \in [Procs -> BOOLEAN]
  /\ at \in [Procs -> {"out", "choosing", "numbered", "waiting", "looking",
                       "in", "checked", "done"}]
  /\ id \in [Procs -> Int]
  /\ ticket \in [Procs -> Nat]
  /\ awaited \in [Procs -> SUBSET Procs]
  /\ faults \in 0..MaxFaults

\* Never do two live processes work on the descriptor at once, whatever is still
\* choosing, dies with its claim, or gives up (acquireRuntimeDescriptorLock).
OneHolder == \A p, q \in Procs : Holding(p) /\ Holding(q) => p = q

\* A runtime that serves is the one the descriptor names, with the owner type it
\* has itself: no late cleanup by a predecessor, no reclaim by a client that read
\* an older descriptor and no promotion in between takes it away
\* (promoteRuntimeDescriptor, cleanupRuntimeDescriptor, discoverRuntime).
PublishedIsFound ==
  \A r \in Runtimes : proc[r] = "serving" => descriptor = [by |-> r, owner |-> owner[r]]

\* Whoever asks for the lock and stays alive gets it, or gives up: claims that
\* dead processes left behind do not hold it up (listClaims, hasChoosingClaim).
WaiterGetsIn ==
  \A p \in Procs :
    at[p] \in {"choosing", "numbered", "waiting", "looking"} /\ Alive(p)
      ~> Holding(p) \/ at[p] = "out" \/ ~Alive(p)
=============================================================================
