-------------------------- MODULE DocumentConnection --------------------------
(***************************************************************************)
(* Who starts the passes of DocumentSync, and when: the drain of           *)
(* packages/pstdio-sync/src/relay/document-connection.ts over the live     *)
(* socket (connection.ts, live-controls.ts) and the relay's notices        *)
(* (services/relay/src/transport/live.ts).                                 *)
(*                                                                         *)
(* The relay keeps no queue for a device: a notice of a change reaches the *)
(* sockets that are subscribed at that moment, and a socket that goes down *)
(* loses it.  The notice follows the commit in a step of its own, and a    *)
(* commit whose answer is lost on its way to the relay has none.  Whether  *)
(* every edit arrives everywhere depends on the flags of this module, so   *)
(* its passes begin only where the drain begins them.                      *)
(***************************************************************************)
EXTENDS DocumentSync

VARIABLES
  socket,   \* "down", "up", or "renewing": down for a moment, status unchanged
  topic,    \* the subscription: "none", "awaiting" the relay, "admitted"
  notice,   \* a change notice is on its way to the device
  dirty,
  running,  \* a drain is running
  aborted,  \* the current attempt is aborted
  former,   \* the running drain belongs to an earlier attempt, aborted too
  retry,    \* the retry timer is set
  stale,    \* the replica belongs to an earlier attempt
  waiting,  \* the devices whose commit is to be announced before it is answered
  orphans,  \* such commits whose sender has left
  told      \* history: how far the log and the states were at the last notice

newsVars == <<waiting, orphans, told>>
connVars == <<socket, topic, notice, dirty, running, aborted, former, retry, stale, newsVars>>
allVars == <<vars, connVars>>

ConnTypeOK ==
  /\ TypeOK
  /\ socket \in [Device -> {"down", "up", "renewing"}]
  /\ topic \in [Device -> {"none", "awaiting", "admitted"}]
  /\ notice \in [Device -> BOOLEAN]
  /\ dirty \in [Device -> BOOLEAN]
  /\ running \in [Device -> BOOLEAN]
  /\ aborted \in [Device -> BOOLEAN]
  /\ former \in [Device -> BOOLEAN]
  /\ retry \in [Device -> BOOLEAN]
  /\ stale \in [Device -> BOOLEAN]
  /\ waiting \in SUBSET Device
  /\ orphans \in Nat
  /\ told \in [updates : 0..MaxUpdates, states : 0..MaxStates]

ConnInit ==
  /\ Init
  /\ socket = [d \in Device |-> "down"]
  /\ topic = [d \in Device |-> "none"]
  /\ notice = [d \in Device |-> FALSE]
  /\ dirty = [d \in Device |-> FALSE]
  /\ running = [d \in Device |-> FALSE]
  /\ aborted = [d \in Device |-> FALSE]
  /\ former = [d \in Device |-> FALSE]
  /\ retry = [d \in Device |-> FALSE]
  /\ stale = [d \in Device |-> FALSE]
  /\ waiting = {}
  /\ orphans = 0
  /\ told = [updates |-> 0, states |-> 0]

Set(f, d, value) == [f EXCEPT ![d] = value]

(* live.status().connected: a renewal does not clear it. *)
Connected(d) == socket[d] # "down"

(* wake: marks the drain dirty and starts it if nothing stands in the way. *)
WakeWith(d, connectedNow, abortedNow) ==
  /\ dirty' = Set(dirty, d, TRUE)
  /\ running' = Set(running, d, running[d] \/ (connectedNow /\ ~abortedNow))

Wake(d) == WakeWith(d, Connected(d), aborted[d])

(* The end of a drain: what was marked dirty meanwhile wakes it again. *)
EndOfDrain(d, abortedNow) ==
  /\ running' = Set(running, d, dirty[d] /\ Connected(d) /\ ~abortedNow)
  /\ former' = Set(former, d, FALSE)

(* A new attempt: a drain of the old one, if there is one, is aborted, and the
   next pass opens the replica anew. *)
NewAttempt(d) ==
  /\ aborted' = Set(aborted, d, FALSE)
  /\ retry' = Set(retry, d, FALSE)
  /\ stale' = Set(stale, d, TRUE)
  /\ former' = Set(former, d, running[d])

(* The relay accepted an update or a state. *)
Stored == Last' # Last \/ Latest' # Latest

(* The pass ends without an answer; the relay's handler goes on. *)
Unanswered(d) ==
  /\ waiting' = waiting \ {d}
  /\ orphans' = IF d \in waiting THEN orphans + 1 ELSE orphans
  /\ UNCHANGED told

-----------------------------------------------------------------------------
(* A local edit is watched, and wakes the drain. *)
EditAndWake(d) ==
  /\ MakeEdit(d)
  /\ Wake(d)
  /\ UNCHANGED <<socket, topic, notice, aborted, former, retry, stale, newsVars>>

Live(d) == ~aborted[d] /\ ~former[d]

BeginPass(d) ==
  /\ running[d]
  /\ dirty[d] /\ Connected(d) /\ Live(d)
  /\ IF stale[d] THEN ReopenAndStart(d) ELSE StartPass(d)
  /\ dirty' = Set(dirty, d, FALSE)
  /\ stale' = Set(stale, d, FALSE)
  /\ topic' = Set(topic, d, IF topic[d] = "none" THEN "awaiting" ELSE topic[d])
  /\ UNCHANGED <<socket, notice, running, aborted, former, retry, newsVars>>

LeaveDrain(d) ==
  /\ running[d]
  /\ pc[d] = "idle"
  /\ ~(dirty[d] /\ Connected(d) /\ Live(d))
  /\ EndOfDrain(d, aborted[d])
  /\ UNCHANGED <<vars, socket, topic, notice, dirty, aborted, retry, stale, newsVars>>

(* The steps of the pass.  With its attempt aborted it makes no more requests,
   but a transaction under way still ends.  A change is announced before its
   sender has the answer. *)
PassStep(d) ==
  /\ d \notin waiting
  /\ LocalStep(d) \/ (Live(d) /\ RequestStep(d))
  /\ waiting' = IF Stored THEN waiting \cup {d} ELSE waiting
  /\ UNCHANGED <<orphans, told>>
  /\ UNCHANGED <<socket, topic, notice, dirty, running, aborted, former, retry, stale>>

(* A pass that throws under a live attempt aborts it and sets the timer. *)
PassFails(d) ==
  /\ Live(d)
  /\ RequestFails(d) \/ (d \notin waiting /\ RelayRefuses(d))
  /\ aborted' = Set(aborted, d, TRUE)
  /\ retry' = Set(retry, d, TRUE)
  /\ EndOfDrain(d, TRUE)
  /\ Unanswered(d)
  /\ UNCHANGED <<socket, topic, notice, dirty, stale>>

(* A pass whose attempt was aborted throws; its failure sets no timer. *)
PassAborted(d) ==
  /\ pc[d] # "idle"
  /\ ~Live(d)
  /\ Stop(d)
  /\ EndOfDrain(d, aborted[d])
  /\ Unanswered(d)
  /\ UNCHANGED <<relayVars, local, engineVars, faults>>
  /\ UNCHANGED <<socket, topic, notice, dirty, aborted, retry, stale>>

RetryTimer(d) ==
  /\ retry[d]
  /\ NewAttempt(d)
  /\ WakeWith(d, Connected(d), FALSE)
  /\ UNCHANGED <<vars, socket, topic, notice, newsVars>>

-----------------------------------------------------------------------------
(* The live socket. *)

(* What the socket carried is gone, and so are the relay's subscriptions. *)
SocketLost(d) ==
  /\ topic' = Set(topic, d, IF topic[d] = "none" THEN "none" ELSE "awaiting")
  /\ notice' = Set(notice, d, FALSE)

GoOffline(d) ==
  /\ socket[d] # "down"
  /\ Fault("offline")
  /\ socket' = Set(socket, d, "down")
  /\ SocketLost(d)
  /\ aborted' = Set(aborted, d, TRUE)
  /\ UNCHANGED <<relayVars, local, engineVars, passVars, dirty, running, former, retry, stale, newsVars>>

(* Access is renewed on a new socket; the pass under way goes on. *)
RenewSocket(d) ==
  /\ socket[d] = "up"
  /\ Fault("renew")
  /\ socket' = Set(socket, d, "renewing")
  /\ SocketLost(d)
  /\ UNCHANGED <<relayVars, local, engineVars, passVars>>
  /\ UNCHANGED <<dirty, running, aborted, former, retry, stale, newsVars>>

(* ready: a new attempt unless a renewal found the old one alive; the relay is
   read again, for nobody knows what was missed. *)
SocketReady(d) ==
  /\ socket[d] # "up"
  /\ socket' = Set(socket, d, "up")
  /\ IF socket[d] = "renewing" /\ ~aborted[d]
     THEN UNCHANGED <<aborted, retry, stale, former>>
     ELSE NewAttempt(d)
  /\ WakeWith(d, TRUE, FALSE)
  /\ UNCHANGED <<vars, topic, notice, newsVars>>

(* Trusts the pass that ran before the relay began to announce. *)
AdmittedMutant(d) ==
  /\ socket[d] = "up"
  /\ topic[d] = "awaiting"
  /\ topic' = Set(topic, d, "admitted")
  /\ UNCHANGED <<vars, socket, notice, dirty, running, aborted, former, retry, stale, newsVars>>

(* The relay admits the subscription: it announces from here on.  What changed
   before is fetched by a pass of its own. *)
Admitted(d) ==
  /\ socket[d] = "up"
  /\ topic[d] = "awaiting"
  /\ topic' = Set(topic, d, "admitted")
  /\ Wake(d)
  /\ UNCHANGED <<vars, socket, notice, aborted, former, retry, stale, newsVars>>

Changed(d) ==
  /\ notice[d]
  /\ notice' = Set(notice, d, FALSE)
  /\ Wake(d)
  /\ UNCHANGED <<vars, socket, topic, aborted, former, retry, stale, newsVars>>

CrashHost(d) ==
  /\ Crash(d)
  /\ socket' = Set(socket, d, "down")
  /\ topic' = Set(topic, d, "none")
  /\ notice' = Set(notice, d, FALSE)
  /\ dirty' = Set(dirty, d, FALSE)
  /\ running' = Set(running, d, FALSE)
  /\ aborted' = Set(aborted, d, FALSE)
  /\ former' = Set(former, d, FALSE)
  /\ retry' = Set(retry, d, FALSE)
  /\ stale' = Set(stale, d, FALSE)
  /\ Unanswered(d)

-----------------------------------------------------------------------------
(* The relay's notices. *)

(* A request whose sender failed or left.  The relay may have lost the commit's
   answer, or cut its connection while it was committing: then store throws, the
   change is stored and nobody is told. *)
LateChange(d) ==
  /\ LateRequest(d)
  /\ orphans' \in {orphans, IF Stored THEN orphans + 1 ELSE orphans}
  /\ UNCHANGED <<waiting, told>>
  /\ UNCHANGED <<socket, topic, notice, dirty, running, aborted, former, retry, stale>>

(* changed: a commit that returned is told to the sockets subscribed by now.
   Whoever is told reads to the end, so what is told is all there is. *)
Announce ==
  /\ \/ /\ \E d \in waiting : waiting' = waiting \ {d}
        /\ UNCHANGED orphans
     \/ /\ orphans > 0
        /\ orphans' = orphans - 1
        /\ UNCHANGED waiting
  /\ told' = [updates |-> Last, states |-> Latest]
  /\ notice' = [d \in Device |-> notice[d] \/ (socket[d] = "up" /\ topic[d] = "admitted")]
  /\ UNCHANGED <<vars, socket, topic, dirty, running, aborted, former, retry, stale>>

-----------------------------------------------------------------------------
(* What the program does without anyone asking. *)
Work(d) ==
  \/ BeginPass(d) \/ LeaveDrain(d) \/ PassStep(d)
  \/ Live(d) /\ RelayRefuses(d) /\ PassFails(d)
  \/ PassAborted(d) \/ RetryTimer(d)

ConnNext ==
  \/ \E d \in Device :
       \/ EditAndWake(d) \/ BeginPass(d) \/ LeaveDrain(d) \/ PassStep(d)
       \/ PassFails(d) \/ PassAborted(d) \/ RetryTimer(d)
       \/ GoOffline(d) \/ RenewSocket(d) \/ SocketReady(d) \/ Admitted(d) \/ Changed(d)
       \/ CrashHost(d) \/ LateChange(d)
  \/ Announce
  \/ RelayCleanup /\ UNCHANGED <<deviceVars, connVars>>

(* Scheduled work runs, timers fire, a socket that is down is opened again (the
   transport retries for ever), a handler of the relay goes on after its commit,
   and a message on an open socket arrives. *)
Fairness ==
  /\ WF_allVars(Announce)
  /\ \A d \in Device :
       /\ WF_allVars(Work(d))
       /\ WF_allVars(SocketReady(d))
       /\ WF_allVars(Admitted(d))
       /\ WF_allVars(Changed(d))

ConnSpec == ConnInit /\ [][ConnNext]_allVars /\ Fairness

-----------------------------------------------------------------------------
(* A device that lacks something the relay has announced to whoever listens, or
   has edits it has not reported as synced, is never left alone: its drain has a
   pass to make or is making it, a notice or the timer will wake it, or the
   socket or the subscription is still to come up, which wakes it too (wake,
   retry and the listeners of document-connection.ts).  No notice lost with its
   socket, no renewal, abort, failure or crash leaves a device with nothing that
   would start its next pass. *)
LacksNews(d) == after[d] < told.updates \/ base[d] < told.states

Attended(d) ==
  \/ running[d] /\ (dirty[d] \/ pc[d] # "idle")
  \/ notice[d] \/ retry[d]
  \/ socket[d] # "up" \/ topic[d] = "awaiting"

NoDeviceForgotten == \A d \in Device : LacksNews(d) \/ Pending(d) => Attended(d)

(* Once the relay has announced what it stores, no device is behind it with
   nothing to wake it.  It fails after a commit whose answer was lost: the change
   is stored, nobody is told, and the sender's retry is a duplicate, which is not
   announced either (appendUpdate and replaceState of storage/documents.ts). *)
Behind(d) == after[d] < Last \/ Latest \notin {0, base[d]}

NobodyStaysBehind ==
  waiting = {} /\ orphans = 0 => \A d \in Device : Behind(d) => Attended(d)

(* When edits and faults have ceased, every device has every edit that the relay
   has announced and reports its own as synced, or says that it needs attention;
   and if the relay has announced all it stores, every device has every edit. *)
AnnouncedEdits == UNION {log[s] : s \in 1..told.updates} \cup EditsOf(told.states)
AllTold == told = [updates |-> Last, states |-> Latest]

EveryoneSettles ==
  <>[](\A d \in Device :
         \/ incomplete[d]
         \/ /\ Synced(d)
            /\ AnnouncedEdits \subseteq local[d]
            /\ AllTold => local[d] = UNION {local[x] : x \in Device})
=============================================================================
