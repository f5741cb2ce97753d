------------------------- MODULE QueuedRequestsProofs -------------------------
(***************************************************************************)
(* What becomes of the waiting requests of a session, for any number of    *)
(* messages, rows, revisions, steering calls, drains and crashes: none is  *)
(* forgotten, none is replayed into the harness, and what the user acts on *)
(* is what the user saw.                                                   *)
(***************************************************************************)
EXTENDS QueuedRequests, NumberLemmas, FiniteSetTheorems

USE RequestsAssumption

Texts == SUBSET (Message \X Nat)
Rows == [mark: Marks, texts: Texts, rev: 0..MaxRevision, made: 0..MaxPos, by: Steer \cup {NoSteer}]
Slots == [phase: {"empty", "starting", "live", "closing", "saved", "writing", "ended"},
          run: 0..MaxRuns, texts: Texts, pos: 0..MaxPos, prev: 0..MaxRuns]
Calls == [phase: {"idle", "claimed", "sent", "taken", "refused", "done"},
          pos: 0..MaxPos, run: 0..MaxRuns, fresh: BOOLEAN]

RowTypes == entry \in [Pos -> Rows] /\ nextPos \in 1..(MaxPos + 1)

SlotTypes ==
  /\ slot \in Slots
  /\ slot.phase # "empty" => slot.run \in Run
  /\ status \in Statuses
  /\ run \in Run
  /\ cancelling \in 0..MaxRuns
  /\ accepted \subseteq Pos

SteerTypes ==
  /\ steer \in [Steer -> Calls]
  /\ talk \in [Run -> SUBSET Steer]
  /\ history \subseteq Steer /\ native \subseteq Steer

FateTypes ==
  /\ newest \in [Message -> Nat]
  /\ turned \in [Message -> Nat] /\ steered \in [Message -> Nat]
  /\ dropped \subseteq Message
  /\ faults \in Nat /\ crashes \in Nat

ShownTypes == shown \in [Pos -> [rev: 0..MaxRevision, texts: Texts]]

Types == RowTypes /\ SlotTypes /\ SteerTypes /\ FateTypes /\ ShownTypes

Alive == {"pending", "held", "dispatched"}
Starting == slot.phase = "starting"
IsOpen(s) == steer[s].phase \in {"claimed", "sent", "taken", "refused"}

\* The messages that wait in a row.
Msgs(p) == IF entry[p].mark \in Alive THEN Of(entry[p].texts) ELSE {}

-----------------------------------------------------------------------------
(* The inductive invariant. *)

RowInv ==
  /\ \A p \in Pos : p >= nextPos => entry[p] = NoEntry
  /\ \A p \in Pos : entry[p].mark = "held" <=> entry[p].by # NoSteer
  /\ \A p \in Pos : entry[p].mark = "unused" => entry[p].rev = 0

\* Who saw a row in its present revision saw its present text.
ShownInv ==
  \A p \in Pos :
    /\ entry[p].mark \in Alive => /\ shown[p].rev <= entry[p].rev
                                  /\ shown[p].rev = entry[p].rev => shown[p].texts = entry[p].texts
    /\ entry[p].mark = "unused" => shown[p].rev = 0

\* The slot belongs to the newest run; a dispatched row is the one being launched
\* until its removal is issued.
HostInv ==
  /\ slot.phase # "empty" => slot.run = run
  /\ slot.phase = "empty" => slot.run = 0
  /\ cancelling <= run
  /\ Starting => status = "in_progress" /\ cancelling < run
  /\ Starting /\ slot.pos # 0 => /\ entry[slot.pos].mark = "dispatched"
                                 /\ entry[slot.pos].texts = slot.texts
                                 /\ slot.pos \notin accepted
  /\ \A p \in accepted : entry[p].mark \in {"dispatched", "gone"}
  /\ crashes = 0 /\ status \in Requeueable => slot.phase \in {"ended", "empty"}

\* The owner of a run that is stopped, or ended for others, knows that it is stopped.
StopInv ==
  slot.phase \in {"live", "closing", "saved", "writing"} /\ (status # "in_progress" \/ cancelling = run)
    => stopping

\* An open steering call holds its row, and the owner of its run is still there.
SteerInv ==
  /\ \A s \in Steer :
       /\ IsOpen(s) => /\ steer[s].pos \in Pos /\ entry[steer[s].pos].by = s
                       /\ steer[s].run \in Run
                       /\ \/ slot.phase \in {"live", "closing"} /\ steer[s].run = slot.run
                          \/ Starting /\ steer[s].run = slot.prev
       /\ steer[s].phase \in {"idle", "claimed", "sent", "refused"} => s \notin native
       /\ steer[s].phase = "idle" => \A p \in Pos : entry[p].by # s
  /\ \A p, q \in Pos : entry[p].by = entry[q].by /\ entry[p].by # NoSteer => p = q

\* What is saved is in the live conversation, which a later save writes again.
SavedInv ==
  /\ history \subseteq native /\ \A r \in Run : talk[r] \subseteq native
  /\ slot.phase \in {"live", "closing", "saved", "writing", "ended"} => history \subseteq talk[slot.run]
  /\ Starting /\ slot.prev # 0 => history \subseteq talk[slot.prev]

\* A message waits in one row.
PlaceInv == \A p, q \in Pos : \A m \in Msgs(p) : m \in Msgs(q) => p = q
SentInv == \A p \in Pos : \A m \in Msgs(p) : newest[m] > 0 /\ m \notin dropped
VersionInv ==
  /\ \A p \in Pos : entry[p].mark \in Alive => \A t \in entry[p].texts : t[2] = newest[t[1]]
  /\ Starting => \A t \in slot.texts : t[2] = newest[t[1]]
\* A waiting message was given to a run exactly when its row is held for a call the
\* harness has taken.
SteeredInv == \A p \in Pos : \A m \in Msgs(p) : steered[m] > 0 <=> entry[p].by \in native
TurnedInv ==
  \A p \in Pos : \A m \in Msgs(p) :
    /\ entry[p].mark # "dispatched" \/ (Starting /\ p = slot.pos) => turned[m] = 0 \/ crashes > 0
    /\ p \in accepted => turned[m] > 0
\* A message launched straight away is in no row.
MemoryInv ==
  Starting /\ slot.pos = 0 =>
    \A m \in Of(slot.texts) : /\ turned[m] = 0 /\ steered[m] = 0 /\ newest[m] > 0 /\ m \notin dropped
                              /\ \A p \in Pos : m \notin Msgs(p)
UnsentInv == \A m \in Message : newest[m] = 0 => turned[m] = 0 /\ steered[m] = 0 /\ m \notin dropped
KeptInv ==
  \A m \in Message : newest[m] > 0 =>
    \/ \E p \in Pos : m \in Msgs(p)
    \/ InMemory(m) \/ turned[m] > 0 \/ steered[m] > 0
    \/ m \in dropped \/ m \in swept

TextInv ==
  /\ PlaceInv /\ SentInv /\ VersionInv /\ SteeredInv
  /\ TurnedInv /\ MemoryInv /\ UnsentInv /\ KeptInv

Inv ==
  /\ Types /\ RowInv /\ ShownInv /\ HostInv /\ StopInv /\ SteerInv /\ SavedInv /\ TextInv
  /\ AcceptedIsSaved /\ NoRequestStranded

-----------------------------------------------------------------------------
(* Rows *)

LEMMA RowTyped ==
  ASSUME NEW row \in Rows
  PROVE  /\ row.texts \in Texts /\ row.mark \in Marks /\ row.by \in Steer \cup {NoSteer}
         /\ row.rev \in 0..MaxRevision /\ row.made \in 0..MaxPos
BY DEF Rows

LEMMA EmptyTyped ==
  /\ NoEntry \in Rows /\ NoEntry.mark = "unused" /\ NoEntry.by = NoSteer /\ NoEntry.texts = {} /\ NoEntry.rev = 0
  /\ Deleted \in Rows /\ Deleted.mark = "gone" /\ Deleted.by = NoSteer
  /\ EmptySlot \in Slots /\ EmptySlot.phase = "empty" /\ EmptySlot.run = 0
  /\ IdleSteer \in Calls /\ IdleSteer.phase = "idle" /\ Finished \in Calls /\ Finished.phase = "done"
<1>1. {} \in Texts /\ 0 \in 0..MaxPos /\ 0 \in 0..MaxRevision /\ 0 \in 0..MaxRuns
  BY DEF Texts
<1>2. NoEntry \in Rows /\ NoEntry.mark = "unused" /\ NoEntry.by = NoSteer /\ NoEntry.texts = {} /\ NoEntry.rev = 0
  BY <1>1 DEF NoEntry, Rows, Marks
<1>3. Deleted = [mark |-> "gone", texts |-> {}, rev |-> 0, made |-> 0, by |-> NoSteer]
  BY DEF Deleted, NoEntry
<1>4. Deleted \in Rows /\ Deleted.mark = "gone" /\ Deleted.by = NoSteer
  BY <1>1, <1>3 DEF Rows, Marks
<1>5. EmptySlot \in Slots /\ EmptySlot.phase = "empty" /\ EmptySlot.run = 0
  BY <1>1 DEF EmptySlot, Slots
<1>6. IdleSteer \in Calls /\ IdleSteer.phase = "idle" /\ Finished \in Calls /\ Finished.phase = "done"
  BY <1>1 DEF IdleSteer, Finished, Calls
<1> QED
  BY <1>2, <1>4, <1>5, <1>6

\* Rows are deleted.
Removal(S) == entry' = [p \in Pos |-> IF p \in S THEN Deleted ELSE entry[p]]

\* A row gets another mark, for a delivery or for none; its text stays.
Marking(p, mark, by) == entry' = [entry EXCEPT ![p] = [entry[p] EXCEPT !.mark = mark, !.by = by]]

\* Rows get other texts, and new revisions.
Revision(S, texts, made) ==
  entry' = [p \in Pos |-> IF p \in S THEN [entry[p] EXCEPT !.texts = texts[p], !.rev = @ + 1, !.made = made[p]]
                                     ELSE entry[p]]

LEMMA RemovalRows ==
  ASSUME RowTypes, NEW S, Removal(S)
  PROVE  /\ entry' \in [Pos -> Rows]
         /\ \A p \in Pos : entry'[p] = IF p \in S THEN Deleted ELSE entry[p]
         /\ \A p \in Pos \ S : entry'[p] = entry[p] /\ Msgs(p)' = Msgs(p)
         /\ \A p \in Pos : p \in S => entry'[p] = Deleted /\ Msgs(p)' = {}
BY EmptyTyped DEF RowTypes, Removal, Msgs, Alive, Of

LEMMA MarkingRows ==
  ASSUME RowTypes, NEW p \in Pos, NEW mark \in Marks, NEW by \in Steer \cup {NoSteer}, Marking(p, mark, by)
  PROVE  /\ entry' \in [Pos -> Rows]
         /\ \A q \in Pos \ {p} : entry'[q] = entry[q] /\ Msgs(q)' = Msgs(q)
         /\ entry'[p].mark = mark /\ entry'[p].by = by
         /\ entry'[p].texts = entry[p].texts /\ entry'[p].rev = entry[p].rev
         /\ entry[p].mark \in Alive /\ mark \in Alive => Msgs(p)' = Msgs(p)
<1>1. entry[p] \in Rows
  BY DEF RowTypes
<1>2. entry'[p] = [entry[p] EXCEPT !.mark = mark, !.by = by] /\ \A q \in Pos \ {p} : entry'[q] = entry[q]
  BY DEF RowTypes, Marking
<1>3. PICK row \in Rows, marked \in {entry'[p]} : row = entry[p]
  BY <1>1
<1>4. marked = [row EXCEPT !.mark = mark, !.by = by]
  BY <1>2, <1>3
<1>5. /\ marked \in Rows /\ marked.mark = mark /\ marked.by = by
      /\ marked.texts = row.texts /\ marked.rev = row.rev
  BY <1>4 DEF Rows
<1>6. entry' \in [Pos -> Rows]
  BY <1>2, <1>3, <1>5 DEF RowTypes, Marking
<1> QED
  BY <1>2, <1>3, <1>5, <1>6 DEF Msgs, Of

LEMMA RevisionRows ==
  ASSUME RowTypes, NEW S \in SUBSET Pos, CanRevise(S), NEW texts, NEW made,
         \A p \in S : texts[p] \in Texts /\ made[p] \in 0..MaxPos, Revision(S, texts, made)
  PROVE  /\ entry' \in [Pos -> Rows]
         /\ \A p \in Pos \ S : entry'[p] = entry[p] /\ Msgs(p)' = Msgs(p)
         /\ \A p \in S : /\ entry'[p].mark = entry[p].mark /\ entry'[p].by = entry[p].by
                         /\ entry'[p].texts = texts[p] /\ entry'[p].rev = entry[p].rev + 1
                         /\ entry[p].mark \in Alive => Msgs(p)' = Of(texts[p])
<1>1. ASSUME NEW p \in S
      PROVE  /\ entry'[p] \in Rows
             /\ entry'[p].mark = entry[p].mark /\ entry'[p].by = entry[p].by
             /\ entry'[p].texts = texts[p] /\ entry'[p].rev = entry[p].rev + 1
  <2>1. entry'[p] = [entry[p] EXCEPT !.texts = texts[p], !.rev = @ + 1, !.made = made[p]]
    BY DEF Revision
  <2>2. entry[p] \in Rows /\ entry[p].rev < MaxRevision
    BY DEF RowTypes, CanRevise
  <2>3. PICK row \in Rows, t \in Texts, d \in 0..MaxPos, revised \in {entry'[p]} :
             row = entry[p] /\ t = texts[p] /\ d = made[p]
    <3>1. texts[p] \in Texts /\ made[p] \in 0..MaxPos
      OBVIOUS
    <3> QED
      BY <3>1, <2>2, Zenon
  <2>4. revised = [row EXCEPT !.texts = t, !.rev = @ + 1, !.made = d] /\ row.rev < MaxRevision
    BY <2>1, <2>2, <2>3
  <2>5. /\ revised \in Rows /\ revised.mark = row.mark /\ revised.by = row.by
        /\ revised.texts = t /\ revised.rev = row.rev + 1
    <3>1. row.rev + 1 \in 0..MaxRevision
      BY <2>4 DEF Rows
    <3>2. revised.mark = row.mark /\ revised.by = row.by /\ revised.texts = t /\ revised.rev = row.rev + 1
      BY <2>4 DEF Rows
    <3>3. revised \in Rows
      BY <2>4, <3>1 DEF Rows
    <3> QED
      BY <3>2, <3>3
  <2> QED
    BY <2>3, <2>5
<1>2. \A p \in Pos \ S : entry'[p] = entry[p] /\ entry[p] \in Rows
  BY DEF Revision, RowTypes
<1>3. entry' \in [Pos -> Rows]
  BY <1>1, <1>2 DEF Revision
<1> QED
  BY <1>1, <1>2, <1>3 DEF Msgs, Of

-----------------------------------------------------------------------------
(* How a step changes the rows. *)

\* The row whose payload a move puts at k.
SourceOf(p, q) ==
  [k \in Pos |-> IF k = q THEN p
                 ELSE IF p < q THEN NextIn(Span(p, q), k) ELSE PreviousIn(Span(p, q), k)]
MovedTexts(p, q) == [k \in Pos |-> entry[SourceOf(p, q)[k]].texts]
MovedMade(p, q) == [k \in Pos |-> entry[SourceOf(p, q)[k]].made]

\* A move only permutes the payloads of the rows between its ends.
LEMMA MovePermutes ==
  ASSUME NEW p \in Pos, NEW q \in Pos, {p, q} \subseteq Movable, p # q
  PROVE  /\ \A k \in Span(p, q) : SourceOf(p, q)[k] \in Span(p, q)
         /\ \A j, k \in Span(p, q) : SourceOf(p, q)[j] = SourceOf(p, q)[k] => j = k
         /\ \A n \in Span(p, q) : \E k \in Span(p, q) : SourceOf(p, q)[k] = n
<1> DEFINE S == Span(p, q)  f == SourceOf(p, q)
<1>1. S \in SUBSET (1..MaxPos) /\ p \in S /\ q \in S /\ MaxPos \in Nat
  BY DEF Span, Movable, Pending, Marked, Pos
<1>2. \A k \in S : (p <= k /\ k <= q) \/ (q <= k /\ k <= p)
  BY DEF Span
<1>3. \A k \in S : k \in Pos
  BY DEF Span, Movable, Pending, Marked
<1>4. \A k \in S : f[k] = IF k = q THEN p ELSE IF p < q THEN NextIn(S, k) ELSE PreviousIn(S, k)
  BY <1>3 DEF SourceOf
<1> HIDE DEF S, f
<1>5. CASE p < q
  <2>1. RotatesUp(f, S, p, q)
    BY <1>1, <1>2, <1>4, <1>5 DEF RotatesUp
  <2>2. PermutesOn(f, S)
    BY <1>1, <1>5, <2>1, UpwardRotation
  <2> QED
    BY <2>2 DEF S, f, PermutesOn
<1>6. CASE q < p
  <2>1. RotatesDown(f, S, p, q)
    BY <1>1, <1>2, <1>4, <1>6 DEF RotatesDown
  <2>2. PermutesOn(f, S)
    BY <1>1, <1>6, <2>1, DownwardRotation
  <2> QED
    BY <2>2 DEF S, f, PermutesOn
<1> QED
  BY <1>5, <1>6 DEF Pos

LEMMA MoveIsRevision ==
  ASSUME NEW p \in Pos, NEW q \in Pos, Move(p, q)
  PROVE  Revision(Span(p, q), MovedTexts(p, q), MovedMade(p, q))
<1>1. entry' = Reordered(p, q)
  BY DEF Move
<1>2. ASSUME NEW k \in Span(p, q)
      PROVE  [Revised(k, entry[SourceOf(p, q)[k]].texts) EXCEPT !.made = entry[SourceOf(p, q)[k]].made]
               = [entry[k] EXCEPT !.texts = MovedTexts(p, q)[k], !.rev = @ + 1, !.made = MovedMade(p, q)[k]]
  BY DEF Revised, MovedTexts, MovedMade, Span, Movable, Pending, Marked
<1>3. Reordered(p, q) = [k \in Pos |-> IF k \in Span(p, q)
            THEN [Revised(k, entry[SourceOf(p, q)[k]].texts) EXCEPT !.made = entry[SourceOf(p, q)[k]].made]
            ELSE entry[k]]
  BY DEF Reordered, SourceOf, NextIn, PreviousIn
<1> QED
  BY <1>1, <1>2, <1>3 DEF Revision

\* What a step may do to the rows.
RemovesRows == \E S \in SUBSET Pos :
  /\ Removal(S) /\ UNCHANGED nextPos
  /\ \A p \in S : entry[p].mark # "unused" /\ ~(Starting /\ p = slot.pos)
MarksRow == \E p \in Pos : \E mark \in Alive : \E by \in Steer \cup {NoSteer} :
  /\ Marking(p, mark, by) /\ entry[p].mark \in Alive
  /\ entry[p].mark = "dispatched" => crashes' # crashes
  /\ mark = "held" <=> by # NoSteer
  /\ UNCHANGED nextPos
AddsRow == \E m \in Message : \E mark \in {"pending", "held"} : \E by \in Steer \cup {NoSteer} :
  NewEntry(m, mark, by) /\ (mark = "held" <=> by # NoSteer)
RevisesRows(S, texts, made) ==
  /\ Revision(S, texts, made) /\ CanRevise(S)
  /\ \A p \in S : entry[p].mark = "pending" /\ texts[p] \in Texts /\ made[p] \in 0..MaxPos
  /\ UNCHANGED nextPos
CombinesRows(p, q) ==
  /\ p # q /\ entry[p].mark = "pending" /\ entry[q].mark = "pending" /\ CanRevise({q})
  /\ entry' = [entry EXCEPT ![q] = Revised(q, entry[p].texts \cup entry[q].texts), ![p] = Deleted]
  /\ UNCHANGED nextPos

RowStep ==
  \/ UNCHANGED <<entry, nextPos>>
  \/ RemovesRows \/ MarksRow \/ AddsRow
  \/ \E S \in SUBSET Pos : \E texts, made : RevisesRows(S, texts, made)
  \/ \E p, q \in Pos : CombinesRows(p, q)

\* A step deletes rows, marks one, adds one, or revises the text of waiting ones.
LEMMA StepOfRows ==
  ASSUME Inv, [Next]_vars
  PROVE  RowStep
<1> USE DEF RowStep
<1>0. Types /\ RowTypes /\ RowInv /\ HostInv /\ SteerInv
  BY DEF Inv, Types
<1>1. CASE UNCHANGED <<entry, nextPos>>
  BY <1>1
<1>2. CASE CancelQueued \/ CancelWrites \/ ExitWrites
  <2>1. CASE Removal(Cancellable) /\ UNCHANGED nextPos /\ ~Starting
    <3>1. RemovesRows
      BY <2>1 DEF RemovesRows, Cancellable, Pending, Marked
    <3> QED
      BY <3>1
  <2>2. CASE CancelQueued
    BY <1>0, <2>1, <2>2 DEF CancelQueued, Cleared, Removal, HostInv
  <2>3. CASE CancelWrites
    <3>1. run = cancelling => ~Starting
      BY <1>0 DEF HostInv, SlotTypes, Types, Run
    <3> QED
      BY <1>1, <2>1, <2>3, <3>1 DEF CancelWrites, Cleared, Removal
  <2>4. CASE ExitWrites
    BY <1>1, <2>1, <2>4 DEF ExitWrites, Cleared, Removal, Starting
  <2> QED
    BY <1>2, <2>2, <2>3, <2>4
<1>3. ASSUME NEW p \in Pos, Delete(p) \/ RemoveAccepted(p)
      PROVE  RemovesRows
  <2>1. Removal({p}) /\ entry[p].mark # "unused" /\ ~(Starting /\ p = slot.pos)
    BY <1>0, <1>3 DEF Delete, RemoveAccepted, HostInv, Pending, Marked, Removal, RowTypes, Pos
  <2> QED
    BY <1>3, <2>1 DEF Delete, RemoveAccepted, RemovesRows
<1>4. ASSUME NEW s \in Steer, Release(s) \/ Accept(s)
      PROVE  RemovesRows \/ MarksRow \/ UNCHANGED <<entry, nextPos>>
  <2> DEFINE p == steer[s].pos
  <2>1. p \in Pos /\ entry[p].by = s /\ entry[p].mark = "held" /\ ~(Starting /\ p = slot.pos)
    BY <1>0, <1>4 DEF Release, Accept, SteerInv, IsOpen, RowInv, HostInv, Pos
  <2>2. CASE entry' = [entry EXCEPT ![p] = Deleted]
    <3>1. Removal({p})
      BY <1>0, <2>1, <2>2 DEF Removal, RowTypes
    <3> QED
      BY <1>4, <2>1, <3>1 DEF Release, Accept, RemovesRows
  <2>3. CASE entry' = [entry EXCEPT ![p].mark = "pending", ![p].by = NoSteer]
    <3>1. Marking(p, "pending", NoSteer)
      BY <1>0, <2>1, <2>3 DEF Marking, RowTypes
    <3> QED
      BY <1>4, <2>1, <3>1 DEF Release, Accept, MarksRow, Alive
  <2> QED
    BY <1>4, <2>1, <2>2, <2>3 DEF Release, Accept, AcceptedRows
<1>5. CASE Reconcile
  <2>1. PICK messages \in Loaded(history) :
          entry' = [p \in Pos |-> IF p \in {k \in Marked("held") : entry[k].by \in messages} THEN Deleted ELSE entry[p]]
    BY <1>5 DEF Reconcile
  <2>2. Removal({k \in Marked("held") : entry[k].by \in messages})
    BY <2>1 DEF Removal
  <2> QED
    BY <1>5, <2>2 DEF Reconcile, RemovesRows, Marked, Starting
<1>6. ASSUME NEW s \in Steer, NEW p \in Pos, Claim(s, p)
      PROVE  MarksRow
  <2>1. Marking(p, "held", s) /\ entry[p].mark = "pending"
    BY <1>0, <1>6 DEF Claim, Marking, RowTypes, Pending, Marked
  <2> QED
    BY <1>6, <2>1 DEF Claim, MarksRow, Alive
<1>7. ASSUME NEW list, DrainDispatches(list)
      PROVE  MarksRow
  <2> DEFINE p == Head(list).pos
  <2>1. p \in Pos /\ entry[p].mark = "pending" /\ entry[p].by = NoSteer
    BY <1>0, <1>7 DEF DrainDispatches, Dispatchable, Pending, Marked, RowInv
  <2>2. Marking(p, "dispatched", NoSteer)
    BY <1>0, <1>7, <2>1 DEF DrainDispatches, Marking, RowTypes, Rows
  <2> QED
    BY <1>7, <2>1, <2>2 DEF DrainDispatches, MarksRow, Alive
<1>8. CASE Crash
  <2>1. ASSUME NEW p \in Marked("dispatched"), entry' = [entry EXCEPT ![p].mark = "pending"]
        PROVE  MarksRow
    <3>1. p \in Pos /\ entry[p].mark = "dispatched" /\ entry[p].by = NoSteer
      BY <1>0 DEF Marked, RowInv
    <3>2. Marking(p, "pending", NoSteer)
      BY <1>0, <2>1, <3>1 DEF Marking, RowTypes, Rows
    <3> QED
      BY <1>0, <1>8, <3>1, <3>2 DEF Crash, MarksRow, Alive, Types, FateTypes
  <2> QED
    BY <1>1, <1>8, <2>1 DEF Crash
<1>9. ASSUME NEW m \in Message, FollowUpWaits(m)
      PROVE  AddsRow
  BY <1>9 DEF FollowUpWaits, AddsRow
<1>10. ASSUME NEW s \in Steer, NEW m \in Message, SteerNew(s, m)
       PROVE  AddsRow
  BY <1>10 DEF SteerNew, AddsRow
<1>11. ASSUME NEW p \in Pos, Edit(p)
       PROVE  \E S \in SUBSET Pos : \E texts, made : RevisesRows(S, texts, made)
  <2> DEFINE text == {<<m, newest[m] + 1>> : m \in Of(entry[p].texts)}
             texts == [k \in Pos |-> text]
             made == [k \in Pos |-> entry[k].made]
  <2>1. entry[p] \in Rows /\ entry[p].texts \in Texts
    BY <1>0, RowTyped DEF RowTypes
  <2>2. \A m \in Of(entry[p].texts) : m \in Message /\ newest[m] + 1 \in Nat
    BY <1>0, <2>1 DEF Of, Texts, Types, FateTypes
  <2>3. text \in Texts
    BY <2>2 DEF Texts
  <2>4. texts[p] \in Texts /\ made[p] \in 0..MaxPos
    BY <2>1, <2>3, RowTyped
  <2>5. [entry[p] EXCEPT !.texts = text, !.rev = @ + 1]
          = [entry[p] EXCEPT !.texts = texts[p], !.rev = @ + 1, !.made = made[p]]
    BY <2>1 DEF Rows
  <2>6. entry' = [entry EXCEPT ![p] = [entry[p] EXCEPT !.texts = text, !.rev = @ + 1]]
    BY <1>11 DEF Edit, Revised
  <2>7. Revision({p}, texts, made)
    BY <1>0, <2>5, <2>6 DEF Revision, RowTypes
  <2>8. CanRevise({p}) /\ entry[p].mark = "pending" /\ UNCHANGED nextPos
    BY <1>11 DEF Edit, Pending, Marked
  <2>9. RevisesRows({p}, texts, made)
    BY <2>4, <2>7, <2>8 DEF RevisesRows
  <2> QED
    BY <2>9
<1>12. ASSUME NEW p \in Pos, NEW q \in Pos, Move(p, q)
       PROVE  \E S \in SUBSET Pos : \E texts, made : RevisesRows(S, texts, made)
  <2>1. Revision(Span(p, q), MovedTexts(p, q), MovedMade(p, q))
    BY <1>12, MoveIsRevision
  <2>2. \A k \in Span(p, q) : k \in Pos /\ entry[k] \in Rows /\ entry[k].mark = "pending"
    BY <1>0 DEF Span, Movable, Pending, Marked, RowTypes
  <2>3. \A k \in Span(p, q) : SourceOf(p, q)[k] \in Span(p, q)
    BY <1>12, MovePermutes DEF Move
  <2>4. \A k \in Span(p, q) : MovedTexts(p, q)[k] \in Texts /\ MovedMade(p, q)[k] \in 0..MaxPos
    BY <2>2, <2>3, RowTyped DEF MovedTexts, MovedMade
  <2>5. RevisesRows(Span(p, q), MovedTexts(p, q), MovedMade(p, q))
    BY <1>12, <2>1, <2>2, <2>4 DEF Move, RevisesRows
  <2>6. Span(p, q) \in SUBSET Pos
    BY <2>2
  <2> QED
    BY <2>5, <2>6
<1>13. ASSUME NEW p \in Pos, NEW q \in Pos, Combine(p, q)
       PROVE  CombinesRows(p, q)
  BY <1>13 DEF Combine, CombinesRows, Pending, Marked
<1>14. CASE /\ ~UNCHANGED <<entry, nextPos>>
            /\ Next
  <2>1. CASE UserStep
    <3>1. ~Refresh /\ ~CancelStops /\ \A m \in Message : ~FollowUpStarts(m)
      BY <1>14 DEF Refresh, CancelStops, FollowUpStarts, rows
    <3> QED
      BY <2>1, <3>1, <1>2, <1>3, <1>6, <1>9, <1>10, <1>11, <1>12, <1>13 DEF UserStep
  <2>2. CASE \E s \in Steer : SteerStep(s)
    <3>1. \A s \in Steer : ~Gate(s) /\ ~HarnessTakes(s) /\ ~HarnessRejects(s) /\ ~AnswerLost(s)
      BY <1>14 DEF Gate, HarnessTakes, HarnessRejects, AnswerLost, rows
    <3> QED
      BY <2>2, <3>1, <1>4, <1>14 DEF SteerStep
  <2>3. CASE HostStep
    <3>1. ~Begin /\ ~ExitSeen /\ ~ExitSaves /\ ~ExitReads /\ ~ExitRemoves /\ ~Woken /\ ~DrainLists
      BY <1>14 DEF Begin, ExitSeen, ExitSaves, ExitReads, ExitRemoves, Woken, DrainLists, rows
    <3>2. \A list \in todo : ~DrainSkips(list)
      BY <1>14 DEF DrainSkips, rows
    <3> QED
      BY <2>3, <3>1, <3>2, <1>2, <1>3, <1>5, <1>7 DEF HostStep
  <2> QED
    BY <2>1, <2>2, <2>3, <1>8, <1>14 DEF Next
<1> QED
  BY <1>1, <1>14 DEF vars, rows

\* The row of a new message.
NewRow(m, mark, by) == [mark |-> mark, texts |-> {<<m, 1>>}, rev |-> 1, made |-> nextPos, by |-> by]

LEMMA AddingRows ==
  ASSUME RowTypes, RowInv, NEW m \in Message, NEW mark \in {"pending", "held"},
         NEW by \in Steer \cup {NoSteer}, NewEntry(m, mark, by), NEW n, n = nextPos
  PROVE  /\ n \in Pos /\ entry[n] = NoEntry /\ Msgs(n) = {}
         /\ entry' \in [Pos -> Rows] /\ entry'[n] = NewRow(m, mark, by)
         /\ Msgs(n)' = {m} /\ nextPos' = n + 1 /\ nextPos' \in 1..(MaxPos + 1)
         /\ \A p \in Pos \ {n} : entry'[p] = entry[p] /\ Msgs(p)' = Msgs(p)
<1>1. n \in Pos /\ entry[n] = NoEntry /\ Msgs(n) = {}
  BY EmptyTyped DEF RowTypes, RowInv, NewEntry, Pos, Msgs, Alive
<1>2. NewRow(m, mark, by) \in Rows
  <2>1. {<<m, 1>>} \in Texts /\ 1 \in 0..MaxRevision /\ n \in 0..MaxPos /\ mark \in Marks
    BY <1>1 DEF Texts, Marks, Pos
  <2> QED
    BY <2>1 DEF NewRow, Rows
<1>3. entry' = [entry EXCEPT ![n] = NewRow(m, mark, by)]
  BY DEF NewEntry, NewRow
<1>4. entry' \in [Pos -> Rows] /\ entry'[n] = NewRow(m, mark, by)
      /\ \A p \in Pos \ {n} : entry'[p] = entry[p]
  BY <1>1, <1>2, <1>3 DEF RowTypes
<1>5. Msgs(n)' = {m}
  <2>1. entry'[n].mark \in Alive /\ entry'[n].texts = {<<m, 1>>}
    BY <1>4 DEF NewRow, Alive
  <2>2. Of({<<m, 1>>}) = {m}
    BY DEF Of
  <2> QED
    BY <2>1, <2>2 DEF Msgs, Of
<1>6. nextPos' = n + 1 /\ nextPos' \in 1..(MaxPos + 1)
  BY <1>1 DEF NewEntry, Pos
<1> QED
  BY <1>1, <1>4, <1>5, <1>6 DEF Msgs, Of

LEMMA CombiningRows ==
  ASSUME RowTypes, NEW p \in Pos, NEW q \in Pos, CombinesRows(p, q)
  PROVE  /\ entry' \in [Pos -> Rows] /\ entry'[p] = Deleted /\ Msgs(p)' = {}
         /\ entry'[q].mark = "pending" /\ entry'[q].by = entry[q].by
         /\ entry'[q].rev = entry[q].rev + 1
         /\ entry'[q].texts = entry[p].texts \cup entry[q].texts
         /\ Msgs(q)' = Msgs(p) \cup Msgs(q)
         /\ \A k \in Pos \ {p, q} : entry'[k] = entry[k] /\ Msgs(k)' = Msgs(k)
<1> DEFINE text == entry[p].texts \cup entry[q].texts
           row == Revised(q, text)
<1>1. entry[p] \in Rows /\ entry[q] \in Rows /\ text \in Texts
  BY RowTyped DEF RowTypes, Texts
<1>2. entry[q].rev + 1 \in 0..MaxRevision
  BY <1>1 DEF CombinesRows, CanRevise, Rows
<1>3. row = [entry[q] EXCEPT !.texts = text, !.rev = @ + 1]
  BY DEF Revised
<1>4. row.mark = entry[q].mark /\ row.by = entry[q].by /\ row.rev = entry[q].rev + 1 /\ row.texts = text
  BY <1>1, <1>3 DEF Rows
<1>5. row \in Rows
  BY <1>1, <1>2, <1>3 DEF Rows
<1>6. entry' = [entry EXCEPT ![q] = row, ![p] = Deleted]
  BY DEF CombinesRows
<1> HIDE DEF row
<1>7. /\ entry' \in [Pos -> Rows] /\ entry'[p] = Deleted /\ entry'[q] = row
      /\ \A k \in Pos \ {p, q} : entry'[k] = entry[k]
  BY <1>5, <1>6, EmptyTyped DEF RowTypes, CombinesRows
<1>8. Of(text) = Of(entry[p].texts) \cup Of(entry[q].texts)
  BY DEF Of
<1>9. Msgs(p)' = {} /\ Msgs(q)' = Of(text) /\ Msgs(p) = Of(entry[p].texts) /\ Msgs(q) = Of(entry[q].texts)
  BY <1>4, <1>7, EmptyTyped DEF Msgs, Of, Alive, CombinesRows
<1> QED
  BY <1>4, <1>7, <1>8, <1>9 DEF Msgs, Of, CombinesRows

\* The rows stay well-formed.
LEMMA RowsKept ==
  ASSUME RowTypes, RowInv, RowStep
  PROVE  RowTypes' /\ RowInv'
<1> USE DEF RowTypes
<1>1. CASE UNCHANGED <<entry, nextPos>>
  BY <1>1 DEF RowInv
<1>2. ASSUME NEW S \in SUBSET Pos, Removal(S), \A p \in S : entry[p].mark # "unused", UNCHANGED nextPos
      PROVE  RowTypes' /\ RowInv'
  <2>1. \A p \in Pos : p >= nextPos => p \notin S
    BY <1>2, EmptyTyped DEF RowInv
  <2> QED
    BY <1>2, <2>1, RemovalRows, EmptyTyped DEF RowInv
<1>3. ASSUME NEW p \in Pos, NEW mark \in Alive, NEW by \in Steer \cup {NoSteer},
             Marking(p, mark, by), entry[p].mark \in Alive, mark = "held" <=> by # NoSteer,
             UNCHANGED nextPos
      PROVE  RowTypes' /\ RowInv'
  <2>1. mark \in Marks /\ mark # "unused"
    BY DEF Alive, Marks
  <2>2. ~(p >= nextPos)
    BY <1>3, EmptyTyped DEF RowInv, Alive
  <2> QED
    BY <1>3, <2>1, <2>2, MarkingRows DEF RowInv
<1>4. ASSUME NEW m \in Message, NEW mark \in {"pending", "held"}, NEW by \in Steer \cup {NoSteer},
             NewEntry(m, mark, by), mark = "held" <=> by # NoSteer
      PROVE  RowTypes' /\ RowInv'
  <2>1. /\ nextPos \in Pos /\ entry' \in [Pos -> Rows] /\ entry'[nextPos] = NewRow(m, mark, by)
        /\ nextPos' = nextPos + 1 /\ nextPos' \in 1..(MaxPos + 1)
        /\ \A p \in Pos \ {nextPos} : entry'[p] = entry[p]
    BY <1>4, AddingRows
  <2>2. NewRow(m, mark, by).mark = mark /\ NewRow(m, mark, by).by = by
    BY DEF NewRow
  <2>3. \A p \in Pos : p >= nextPos' => p # nextPos /\ p >= nextPos
    BY <2>1 DEF Pos
  <2> QED
    BY <1>4, <2>1, <2>2, <2>3 DEF RowInv
<1>5. ASSUME NEW S \in SUBSET Pos, NEW texts, NEW made, RevisesRows(S, texts, made)
      PROVE  RowTypes' /\ RowInv'
  <2>1. \A p \in Pos : p >= nextPos => p \notin S
    BY <1>5, EmptyTyped DEF RowInv, RevisesRows
  <2>2. /\ entry' \in [Pos -> Rows] /\ \A p \in Pos \ S : entry'[p] = entry[p]
        /\ \A p \in S : entry'[p].mark = entry[p].mark /\ entry'[p].by = entry[p].by
    BY <1>5, RevisionRows DEF RevisesRows
  <2> QED
    BY <1>5, <2>1, <2>2 DEF RowInv, RevisesRows
<1>6. ASSUME NEW p \in Pos, NEW q \in Pos, CombinesRows(p, q)
      PROVE  RowTypes' /\ RowInv'
  <2>1. ~(p >= nextPos) /\ ~(q >= nextPos) /\ entry[q].by = NoSteer
    BY <1>6, EmptyTyped DEF RowInv, CombinesRows
  <2>2. /\ entry' \in [Pos -> Rows] /\ entry'[p] = Deleted
        /\ entry'[q].mark = "pending" /\ entry'[q].by = entry[q].by
        /\ \A k \in Pos \ {p, q} : entry'[k] = entry[k]
    BY <1>6, CombiningRows
  <2>3. nextPos' = nextPos
    BY <1>6 DEF CombinesRows
  <2> QED
    BY <2>1, <2>2, <2>3, EmptyTyped DEF RowInv
<1> QED
  BY <1>1, <1>2, <1>3, <1>4, <1>5, <1>6 DEF RowStep, RemovesRows, MarksRow, AddsRow

\* What was seen keeps meaning what it meant: rows only change their text together
\* with their revision.
LEMMA ShownKept ==
  ASSUME RowTypes, RowInv, ShownTypes, ShownInv, RowStep, UNCHANGED shown
  PROVE  ShownInv'
<1>1. CASE UNCHANGED <<entry, nextPos>>
  BY <1>1 DEF ShownInv
<1>2. ASSUME NEW S \in SUBSET Pos, Removal(S)
      PROVE  ShownInv'
  BY <1>2, RemovalRows, EmptyTyped DEF ShownInv, Alive
<1>3. ASSUME NEW p \in Pos, NEW mark \in Alive, NEW by \in Steer \cup {NoSteer},
             Marking(p, mark, by), entry[p].mark \in Alive
      PROVE  ShownInv'
  <2>1. mark \in Marks /\ mark # "unused"
    BY DEF Alive, Marks
  <2> QED
    BY <1>3, <2>1, MarkingRows DEF ShownInv
<1>4. ASSUME NEW m \in Message, NEW mark \in {"pending", "held"}, NEW by \in Steer \cup {NoSteer},
             NewEntry(m, mark, by)
      PROVE  ShownInv'
  <2>1. /\ nextPos \in Pos /\ entry[nextPos] = NoEntry /\ entry'[nextPos] = NewRow(m, mark, by)
        /\ \A p \in Pos \ {nextPos} : entry'[p] = entry[p]
    BY <1>4, AddingRows
  <2>2. shown[nextPos].rev = 0
    BY <2>1, EmptyTyped DEF ShownInv
  <2>3. NewRow(m, mark, by).mark = mark /\ NewRow(m, mark, by).rev = 1 /\ mark # "unused"
    BY DEF NewRow
  <2> QED
    BY <2>1, <2>2, <2>3 DEF ShownInv
<1>5. ASSUME NEW S \in SUBSET Pos, NEW texts, NEW made, RevisesRows(S, texts, made)
      PROVE  ShownInv'
  <2>1. /\ \A p \in Pos \ S : entry'[p] = entry[p]
        /\ \A p \in S : entry'[p].mark = entry[p].mark /\ entry'[p].rev = entry[p].rev + 1
    BY <1>5, RevisionRows DEF RevisesRows
  <2>2. \A p \in S : entry[p].mark \in Alive /\ entry[p].mark # "unused"
    BY <1>5 DEF RevisesRows, Alive
  <2>3. \A p \in S : shown[p].rev <= entry[p].rev /\ shown[p].rev \in Nat /\ entry[p].rev \in Nat
    BY <2>2, RowTyped DEF ShownInv, ShownTypes, RowTypes
  <2>4. \A p \in S : shown[p].rev < entry'[p].rev
    BY <2>1, <2>3
  <2> QED
    BY <2>1, <2>2, <2>3, <2>4 DEF ShownInv
<1>6. ASSUME NEW p \in Pos, NEW q \in Pos, CombinesRows(p, q)
      PROVE  ShownInv'
  <2>1. shown[q].rev <= entry[q].rev /\ shown[q].rev \in Nat /\ entry[q].rev \in Nat
    BY <1>6, RowTyped DEF ShownInv, ShownTypes, RowTypes, CombinesRows, Alive
  <2>2. entry'[p] = Deleted /\ entry'[q].mark = "pending" /\ entry'[q].rev = entry[q].rev + 1
        /\ \A k \in Pos \ {p, q} : entry'[k] = entry[k]
    BY <1>6, CombiningRows
  <2>3. shown[q].rev < entry'[q].rev
    BY <2>1, <2>2
  <2> QED
    BY <2>1, <2>2, <2>3, EmptyTyped DEF ShownInv, Alive
<1> QED
  BY <1>1, <1>2, <1>3, <1>4, <1>5, <1>6 DEF RowStep, RemovesRows, MarksRow, AddsRow

-----------------------------------------------------------------------------
(* Types *)

\* A launch puts a request in the slot of the next run.
LEMMA LaunchedSlot ==
  ASSUME SlotTypes, NEW texts \in Texts, NEW p \in 0..MaxPos, Launch(texts, p)
  PROVE  /\ slot' \in Slots /\ slot'.phase = "starting" /\ slot'.run = run + 1
         /\ slot'.texts = texts /\ slot'.pos = p /\ slot'.prev = slot.run
         /\ run' = run + 1 /\ run' \in Run /\ status' = "in_progress"
<1>1. slot.run \in 0..MaxRuns /\ run + 1 \in Run /\ run + 1 \in 0..MaxRuns
  BY DEF SlotTypes, Slots, Launch, Run
<1>2. slot' = [phase |-> "starting", run |-> run + 1, texts |-> texts, pos |-> p, prev |-> slot.run]
  BY DEF Launch
<1> QED
  BY <1>1, <1>2 DEF Slots, Launch

\* The next phase of a slot.
LEMMA SteppedSlot ==
  ASSUME SlotTypes, NEW phase \in {"closing", "saved", "writing", "ended"}, Step(phase)
  PROVE  /\ slot' \in Slots /\ slot'.phase = phase /\ slot'.run = slot.run
         /\ slot'.texts = slot.texts /\ slot'.pos = slot.pos /\ slot'.prev = slot.prev
BY DEF SlotTypes, Slots, Step

LEMMA BegunSlot ==
  ASSUME SlotTypes, Begin
  PROVE  slot' \in Slots /\ slot'.phase = "live" /\ slot'.run = slot.run
<1>1. {} \in Texts /\ 0 \in 0..MaxPos /\ 0 \in 0..MaxRuns
  BY DEF Texts
<1>2. slot' = [slot EXCEPT !.phase = "live", !.texts = {}, !.pos = 0, !.prev = 0]
  BY DEF Begin
<1> QED
  BY <1>1, <1>2 DEF SlotTypes, Slots

LEMMA SlotTyped ==
  ASSUME SlotTypes
  PROVE  slot.texts \in Texts /\ slot.pos \in 0..MaxPos /\ slot.run \in 0..MaxRuns /\ slot.prev \in 0..MaxRuns
BY DEF SlotTypes, Slots

LEMMA SlotTypesKept ==
  ASSUME Inv, [Next]_vars
  PROVE  SlotTypes'
<1>0. RowTypes /\ SlotTypes /\ HostInv
  BY DEF Inv, Types
<1>1. CASE UNCHANGED <<slot, status, run, cancelling, accepted>>
  BY <1>0, <1>1 DEF SlotTypes
<1>2. CASE UNCHANGED <<slot, run>> /\ status' \in Statuses /\ cancelling' \in 0..MaxRuns /\ accepted' \subseteq Pos
  BY <1>0, <1>2 DEF SlotTypes
<1>3. ASSUME NEW m \in Message, FollowUpStarts(m)
      PROVE  SlotTypes'
  <2>1. {<<m, 1>>} \in Texts /\ 0 \in 0..MaxPos
    BY DEF Texts
  <2>2. Launch({<<m, 1>>}, 0) /\ UNCHANGED <<cancelling, accepted>>
    BY <1>3 DEF FollowUpStarts
  <2> QED
    BY <1>0, <2>1, <2>2, LaunchedSlot DEF SlotTypes, Statuses
<1>4. ASSUME NEW list, DrainDispatches(list)
      PROVE  SlotTypes'
  <2>1. Head(list).pos \in Pos /\ Saved(Head(list)) \in Texts
    BY <1>0, <1>4, RowTyped DEF DrainDispatches, Dispatchable, Pending, Marked, Saved, RowTypes
  <2>2. Head(list).pos \in 0..MaxPos
    BY <2>1 DEF Pos
  <2>3. Launch(Saved(Head(list)), Head(list).pos) /\ UNCHANGED <<cancelling, accepted>>
    BY <1>4 DEF DrainDispatches
  <2> QED
    BY <1>0, <2>1, <2>2, <2>3, LaunchedSlot DEF SlotTypes, Statuses
<1>5. CASE Begin
  <2>1. UNCHANGED <<status, run, cancelling>>
    BY <1>5 DEF Begin, rows
  <2>2. accepted' \subseteq Pos
    BY <1>0, <1>5, SlotTyped DEF Begin, SlotTypes, Pos
  <2>3. slot.run \in Run
    BY <1>0, <1>5 DEF SlotTypes, Begin
  <2> QED
    BY <1>0, <1>5, <2>1, <2>2, <2>3, BegunSlot DEF SlotTypes
<1>6. CASE ExitSeen \/ ExitSaves
  <2>1. (Step("closing") \/ Step("saved")) /\ slot.phase # "empty"
    BY <1>6 DEF ExitSeen, ExitSaves
  <2>2. UNCHANGED <<status, run, cancelling, accepted>>
    BY <1>6 DEF ExitSeen, ExitSaves, rows
  <2> QED
    BY <1>0, <2>1, <2>2, SteppedSlot DEF SlotTypes
<1>7. CASE ExitReads \/ ExitWrites \/ ExitRemoves
  <2>1. /\ slot.phase # "empty"
        /\ \/ Step("ended") /\ status' = "completed"
           \/ (Step("writing") \/ slot' = EmptySlot) /\ UNCHANGED status
    BY <1>7 DEF ExitReads, ExitWrites, ExitRemoves, rows
  <2>2. UNCHANGED <<run, cancelling, accepted>>
    BY <1>7 DEF ExitReads, ExitWrites, ExitRemoves, rows
  <2> QED
    BY <1>0, <2>1, <2>2, SteppedSlot, EmptyTyped DEF SlotTypes, Statuses
<1>8. CASE Crash
  <2>1. slot' = EmptySlot /\ run' = run /\ cancelling' = 0 /\ accepted' = {} /\ status' \in Statuses
    BY <1>0, <1>8 DEF Crash, SlotTypes, Statuses
  <2> QED
    BY <1>0, <2>1, EmptyTyped DEF SlotTypes
<1>9. CASE UserStep
  <2>1. CASE CancelStops
    BY <1>0, <1>2, <2>1 DEF CancelStops, rows, SlotTypes, Run
  <2>2. CASE \E m \in Message : FollowUpWaits(m)
    BY <1>0, <1>2, <2>2 DEF FollowUpWaits, host, SlotTypes, Statuses
  <2>3. CASE CancelQueued
    BY <1>0, <1>2, <2>3 DEF CancelQueued, host, SlotTypes, Statuses
  <2>4. CASE Refresh \/ \E p \in Pos : Edit(p) \/ Delete(p)
    BY <1>1, <2>4 DEF Refresh, Edit, Delete, rows, host
  <2>5. CASE \E p, q \in Pos : Move(p, q) \/ Combine(p, q)
    BY <1>1, <2>5 DEF Move, Combine, host
  <2>6. CASE \E s \in Steer : (\E p \in Pos : Claim(s, p)) \/ \E m \in Message : SteerNew(s, m)
    BY <1>1, <2>6 DEF Claim, SteerNew
  <2> QED
    BY <1>3, <1>9, <2>1, <2>2, <2>3, <2>4, <2>5, <2>6 DEF UserStep
<1>10. CASE \E s \in Steer : SteerStep(s)
  BY <1>1, <1>10 DEF SteerStep, Gate, HarnessTakes, HarnessRejects, Release, Accept, AnswerLost, rows
<1>11. CASE HostStep
  <2>1. CASE CancelWrites
    BY <1>0, <1>2, <2>1 DEF CancelWrites, SlotTypes, Statuses
  <2>2. CASE Reconcile \/ Woken \/ \E list \in todo : DrainSkips(list)
    BY <1>1, <2>2 DEF Reconcile, Woken, DrainSkips, rows, host
  <2>3. CASE DrainLists
    BY <1>0, <1>2, <2>3 DEF DrainLists, SlotTypes, Statuses
  <2>4. CASE \E p \in Pos : RemoveAccepted(p)
    BY <1>0, <1>2, <2>4 DEF RemoveAccepted, SlotTypes
  <2> QED
    BY <1>4, <1>5, <1>6, <1>7, <1>11, <2>1, <2>2, <2>3, <2>4 DEF HostStep
<1>12. CASE UNCHANGED vars
  BY <1>1, <1>12 DEF vars, rows, host
<1> QED
  BY <1>8, <1>9, <1>10, <1>11, <1>12 DEF Next

LEMMA SteerTypesKept ==
  ASSUME Inv, [Next]_vars
  PROVE  SteerTypes'
<1>0. RowTypes /\ SlotTypes /\ SteerTypes /\ SteerInv /\ SavedInv
  BY DEF Inv, Types
<1>1. CASE UNCHANGED <<steer, talk, history, native>>
  BY <1>0, <1>1 DEF SteerTypes
<1>2. ASSUME NEW s \in Steer, (\E p \in Pos : Claim(s, p)) \/ \E m \in Message : SteerNew(s, m)
      PROVE  SteerTypes'
  <2>1. PICK p \in 0..MaxPos, fresh \in BOOLEAN :
          steer' = [steer EXCEPT ![s] = [phase |-> "claimed", pos |-> p, run |-> run, fresh |-> fresh]]
    <3>1. CASE \E p \in Pos : Claim(s, p)
      <4>1. PICK p \in Pos : Claim(s, p)
        BY <3>1
      <4>2. p \in 0..MaxPos /\ FALSE \in BOOLEAN
        BY DEF Pos
      <4>3. steer' = [steer EXCEPT ![s] = [phase |-> "claimed", pos |-> p, run |-> run, fresh |-> FALSE]]
        BY <4>1 DEF Claim
      <4> QED
        BY <4>2, <4>3, Zenon
    <3>2. CASE \E m \in Message : SteerNew(s, m)
      <4>1. nextPos \in 0..MaxPos
        BY <1>0, <3>2 DEF SteerNew, NewEntry, RowTypes
      <4> QED
        BY <3>2, <4>1 DEF SteerNew
    <3> QED
      BY <1>2, <3>1, <3>2
  <2>2. [phase |-> "claimed", pos |-> p, run |-> run, fresh |-> fresh] \in Calls
    BY <1>0 DEF Calls, SlotTypes, Run
  <2>3. UNCHANGED <<talk, history, native>>
    BY <1>2 DEF Claim, SteerNew
  <2> QED
    BY <1>0, <2>1, <2>2, <2>3 DEF SteerTypes
<1>3. ASSUME NEW s \in Steer, NEW phase \in {"sent", "taken", "refused"}, StepTo(s, phase)
      PROVE  steer' \in [Steer -> Calls]
  <2>1. steer[s] \in Calls
    BY <1>0 DEF SteerTypes
  <2>2. [steer[s] EXCEPT !.phase = phase] \in Calls
    BY <2>1 DEF Calls
  <2>3. steer' = [steer EXCEPT ![s] = [steer[s] EXCEPT !.phase = phase]]
    BY <1>3 DEF StepTo
  <2> QED
    BY <1>0, <2>2, <2>3 DEF SteerTypes
<1>4. ASSUME NEW s \in Steer, Finish(s)
      PROVE  steer' \in [Steer -> Calls]
  BY <1>0, <1>4, EmptyTyped DEF Finish, SteerTypes
<1>5. ASSUME NEW s \in Steer, SteerStep(s)
      PROVE  SteerTypes'
  <2>1. steer' \in [Steer -> Calls]
    BY <1>3, <1>4, <1>5 DEF SteerStep, Gate, HarnessTakes, HarnessRejects, Release, Accept, AnswerLost
  <2>2. CASE HarnessTakes(s)
    BY <1>0, <2>1, <2>2 DEF HarnessTakes, SteerTypes, rows
  <2>3. CASE Accept(s)
    <3>1. steer[s].run \in Run
      BY <1>0, <2>3 DEF Accept, SteerInv, IsOpen
    <3> QED
      BY <1>0, <2>1, <2>3, <3>1 DEF Accept, SteerTypes
  <2>4. CASE Gate(s) \/ HarnessRejects(s) \/ Release(s) \/ AnswerLost(s)
    BY <1>0, <2>1, <2>4 DEF Gate, HarnessRejects, Release, AnswerLost, SteerTypes, rows
  <2> QED
    BY <1>5, <2>2, <2>3, <2>4 DEF SteerStep
<1>6. CASE Reconcile
  BY <1>0, <1>6 DEF Reconcile, Loaded, host, SteerTypes
<1>7. CASE Begin
  <2>1. slot.run \in Run /\ (slot.prev # 0 => slot.prev \in Run)
    BY <1>0, <1>7, SlotTyped DEF Begin, SlotTypes, Run
  <2>2. (IF slot.prev = 0 THEN history ELSE talk[slot.prev]) \subseteq Steer
    BY <1>0, <2>1 DEF SteerTypes
  <2>3. history' \subseteq Steer
    BY <1>7, <2>2 DEF Begin
  <2>4. PICK messages \in SUBSET Steer : talk' = [talk EXCEPT ![slot.run] = messages]
    BY <1>0, <1>7, <2>2 DEF Begin, Loaded, SteerTypes
  <2>5. UNCHANGED <<steer, native>>
    BY <1>7 DEF Begin
  <2> QED
    BY <1>0, <2>1, <2>3, <2>4, <2>5 DEF SteerTypes
<1>8. CASE ExitSaves
  <2>1. slot.run \in Run
    BY <1>0, <1>8 DEF ExitSaves, SlotTypes
  <2> QED
    BY <1>0, <1>8, <2>1 DEF ExitSaves, SteerTypes
<1>9. CASE Crash
  <2>1. steer' \in [Steer -> Calls] /\ talk' \in [Run -> SUBSET Steer] /\ UNCHANGED <<history, native>>
    BY <1>9, EmptyTyped DEF Crash
  <2> QED
    BY <1>0, <2>1 DEF SteerTypes
<1>10. CASE UserStep
  BY <1>1, <1>2, <1>10 DEF UserStep, Refresh, CancelQueued, CancelStops, FollowUpWaits, FollowUpStarts, Edit,
     Delete, Move, Combine, rows, host
<1>11. CASE HostStep
  <2>1. CASE CancelWrites \/ ExitSeen \/ ExitReads \/ ExitWrites \/ ExitRemoves \/ Woken \/ DrainLists
    BY <1>1, <2>1 DEF CancelWrites, ExitSeen, ExitReads, ExitWrites, ExitRemoves, Woken, DrainLists, rows
  <2>2. CASE (\E list \in todo : DrainSkips(list) \/ DrainDispatches(list)) \/ \E p \in Pos : RemoveAccepted(p)
    BY <1>1, <2>2 DEF DrainSkips, DrainDispatches, RemoveAccepted, rows
  <2> QED
    BY <1>6, <1>7, <1>8, <1>11, <2>1, <2>2 DEF HostStep
<1>12. CASE UNCHANGED vars
  BY <1>1, <1>12 DEF vars, rows, host
<1> QED
  BY <1>5, <1>9, <1>10, <1>11, <1>12 DEF Next

LEMMA CountedTyped ==
  ASSUME NEW count \in [Message -> Nat], NEW texts
  PROVE  /\ Counted(count, texts) \in [Message -> Nat]
         /\ \A m \in Message : Counted(count, texts)[m] = IF m \in Of(texts) THEN count[m] + 1 ELSE count[m]
BY DEF Counted

LEMMA OfTyped ==
  ASSUME NEW texts \in Texts
  PROVE  Of(texts) \subseteq Message
BY DEF Of, Texts

LEMMA FateTypesKept ==
  ASSUME Inv, [Next]_vars
  PROVE  FateTypes'
<1>0. RowTypes /\ SlotTypes /\ FateTypes /\ SteerInv
  BY DEF Inv, Types
<1>1. CASE UNCHANGED <<newest, turned, steered, dropped>> /\ faults' \in Nat /\ crashes' \in Nat
  BY <1>0, <1>1 DEF FateTypes
<1> DEFINE Same == UNCHANGED <<faults, crashes>>
<1>2. ASSUME NEW m \in Message, NewEntry(m, "pending", NoSteer) \/ (\E s \in Steer : NewEntry(m, "held", s)) \/ FollowUpStarts(m),
             UNCHANGED <<turned, steered, dropped>>, Same
      PROVE  FateTypes'
  <2>1. newest' = [newest EXCEPT ![m] = 1]
    BY <1>2 DEF NewEntry, FollowUpStarts
  <2> QED
    BY <1>0, <1>2, <2>1 DEF FateTypes
<1>3. ASSUME NEW p \in Pos, Edit(p)
      PROVE  FateTypes'
  BY <1>0, <1>3, CountedTyped DEF FateTypes, Edit
<1>4. ASSUME NEW S \in SUBSET Pos, dropped' = dropped \cup Of(TextsAt(S)), UNCHANGED <<newest, turned, steered>>, Same
      PROVE  FateTypes'
  <2>1. TextsAt(S) \in Texts
    BY <1>0, RowTyped DEF TextsAt, RowTypes, Texts
  <2> QED
    BY <1>0, <1>4, <2>1, OfTyped DEF FateTypes
<1>5. ASSUME NEW p \in Pos, dropped' = dropped \cup Of(entry[p].texts), UNCHANGED <<newest, turned, steered>>, Same
      PROVE  FateTypes'
  <2>1. entry[p].texts \in Texts
    BY <1>0, RowTyped DEF RowTypes
  <2> QED
    BY <1>0, <1>5, <2>1, OfTyped DEF FateTypes
<1>6. ASSUME NEW s \in Steer, SteerStep(s)
      PROVE  FateTypes'
  <2>1. CASE HarnessTakes(s)
    BY <1>0, <2>1, CountedTyped DEF FateTypes, HarnessTakes
  <2>2. CASE Release(s)
    <3>1. steer[s].pos \in Pos
      BY <1>0, <2>2 DEF Release, SteerInv, IsOpen
    <3>2. UNCHANGED <<newest, turned, steered>> /\ Same
      BY <2>2 DEF Release
    <3> QED
      BY <1>0, <1>1, <1>5, <2>2, <3>1, <3>2 DEF Release, FateTypes
  <2>3. CASE AnswerLost(s)
    BY <1>0, <1>1, <2>3 DEF AnswerLost, FateTypes, fate
  <2>4. CASE Gate(s) \/ HarnessRejects(s) \/ Accept(s)
    BY <1>0, <1>1, <2>4 DEF Gate, HarnessRejects, Accept, FateTypes, fate
  <2> QED
    BY <1>6, <2>1, <2>2, <2>3, <2>4 DEF SteerStep
<1>7. CASE Begin
  BY <1>0, <1>7, CountedTyped DEF FateTypes, Begin
<1>8. CASE Crash
  <2>1. UNCHANGED <<newest, turned, steered>> /\ faults' \in Nat /\ crashes' \in Nat
    BY <1>0, <1>8 DEF Crash, FateTypes
  <2>2. dropped' \subseteq Message
    BY <1>0, <1>8, SlotTyped, OfTyped DEF Crash, FateTypes
  <2> QED
    BY <1>0, <2>1, <2>2 DEF FateTypes
<1>9. CASE UserStep
  <2>1. CASE Refresh \/ CancelStops \/ \E p, q \in Pos : Move(p, q) \/ Combine(p, q)
    BY <1>0, <1>1, <2>1 DEF Refresh, CancelStops, Move, Combine, fate, FateTypes
  <2>2. CASE \E s \in Steer, p \in Pos : Claim(s, p)
    BY <1>0, <1>1, <2>2 DEF Claim, fate, FateTypes
  <2>3. CASE CancelQueued
    BY <1>4, <2>3 DEF CancelQueued, Cancellable, Pending, Marked
  <2>4. CASE \E m \in Message : FollowUpWaits(m) \/ FollowUpStarts(m)
    BY <1>2, <2>4 DEF FollowUpWaits, FollowUpStarts
  <2>5. CASE \E s \in Steer, m \in Message : SteerNew(s, m)
    BY <1>2, <2>5 DEF SteerNew
  <2>6. CASE \E p \in Pos : Delete(p)
    BY <1>5, <2>6 DEF Delete
  <2> QED
    BY <1>3, <1>9, <2>1, <2>2, <2>3, <2>4, <2>5, <2>6 DEF UserStep
<1>10. CASE HostStep
  <2>1. CASE CancelWrites
    <3>1. UNCHANGED <<newest, turned, steered>> /\ Same
      BY <2>1 DEF CancelWrites
    <3> QED
      BY <1>0, <1>1, <1>4, <2>1, <3>1 DEF CancelWrites, Cancellable, Pending, Marked, FateTypes
  <2>2. CASE Reconcile \/ ExitSeen \/ ExitSaves \/ ExitReads \/ ExitWrites \/ ExitRemoves \/ Woken \/ DrainLists
    BY <1>0, <1>1, <2>2 DEF Reconcile, ExitSeen, ExitSaves, ExitReads, ExitWrites, ExitRemoves, Woken, DrainLists, fate, FateTypes
  <2>3. CASE (\E list \in todo : DrainSkips(list) \/ DrainDispatches(list)) \/ \E p \in Pos : RemoveAccepted(p)
    BY <1>0, <1>1, <2>3 DEF DrainSkips, DrainDispatches, RemoveAccepted, fate, FateTypes
  <2> QED
    BY <1>7, <1>10, <2>1, <2>2, <2>3 DEF HostStep
<1>11. CASE UNCHANGED vars
  BY <1>0, <1>1, <1>11 DEF vars, fate, FateTypes
<1> QED
  BY <1>6, <1>8, <1>9, <1>10, <1>11 DEF Next

\* The user's view only changes with a refresh, which shows the rows as they are.
LEMMA ShownTypesKept ==
  ASSUME Inv, [Next]_vars
  PROVE  ShownTypes' /\ ShownInv'
<1>0. RowTypes /\ RowInv /\ ShownTypes /\ ShownInv /\ RowStep
  BY StepOfRows DEF Inv, Types
<1>1. CASE UNCHANGED shown
  BY <1>0, <1>1, ShownKept DEF ShownTypes
<1>2. CASE Refresh
  <2>1. shown' = [p \in Pos |-> [rev |-> entry[p].rev, texts |-> entry[p].texts]] /\ entry' = entry
    BY <1>2 DEF Refresh, rows
  <2>2. \A p \in Pos : shown'[p].rev = entry[p].rev /\ shown'[p].texts = entry[p].texts
                       /\ entry[p].rev \in 0..MaxRevision /\ entry[p].texts \in Texts
    BY <1>0, <2>1, RowTyped DEF RowTypes
  <2>3. ShownTypes'
    BY <2>1, <2>2 DEF ShownTypes
  <2>4. ShownInv'
    BY <1>0, <2>1, <2>2 DEF ShownInv, RowInv
  <2> QED
    BY <2>3, <2>4
<1>3. CASE Next /\ ~Refresh
  <2>1. CASE UserStep
    BY <1>1, <1>3, <2>1 DEF UserStep, CancelQueued, CancelStops, FollowUpWaits, FollowUpStarts, Edit, Delete, Move,
       Combine, Claim, SteerNew
  <2>2. CASE \E s \in Steer : SteerStep(s)
    BY <1>1, <2>2 DEF SteerStep, Gate, HarnessTakes, HarnessRejects, Release, Accept, AnswerLost
  <2>3. CASE HostStep
    BY <1>1, <2>3 DEF HostStep, CancelWrites, Reconcile, host, Begin, ExitSeen, ExitSaves, ExitReads, ExitWrites, ExitRemoves,
       Woken, DrainLists, DrainSkips, DrainDispatches, RemoveAccepted
  <2> QED
    BY <1>1, <1>3, <2>1, <2>2, <2>3 DEF Next, Crash
<1> QED
  BY <1>1, <1>2, <1>3 DEF vars

-----------------------------------------------------------------------------
(* The slot, the dispatched row and the rows whose removal was issued. *)

\* A dispatched row stays as it is until it is deleted, and the row of a launch that
\* has not begun is not deleted.
LEMMA DispatchedKept ==
  ASSUME RowTypes, RowInv, RowStep, UNCHANGED crashes, NEW p \in Pos,
         entry[p].mark \in {"dispatched", "gone"}
  PROVE  entry'[p] = entry[p] \/ (entry'[p].mark = "gone" /\ ~(Starting /\ p = slot.pos))
<1>1. CASE RemovesRows
  BY <1>1, RemovalRows, EmptyTyped DEF RemovesRows
<1>2. CASE MarksRow
  <2>1. PICK q \in Pos, mark \in Alive, by \in Steer \cup {NoSteer} : Marking(q, mark, by) /\ entry[q].mark # "dispatched"
             /\ entry[q].mark \in Alive
    BY <1>2 DEF MarksRow
  <2>2. mark \in Marks /\ q # p
    BY <2>1 DEF Alive, Marks
  <2> QED
    BY <2>1, <2>2, MarkingRows
<1>3. CASE AddsRow
  <2>1. PICK n : n = nextPos
    OBVIOUS
  <2> QED
    BY <1>3, <2>1, AddingRows, EmptyTyped DEF AddsRow
<1>4. ASSUME NEW S \in SUBSET Pos, NEW texts, NEW made, RevisesRows(S, texts, made)
      PROVE  entry'[p] = entry[p]
  BY <1>4, RevisionRows DEF RevisesRows
<1>5. ASSUME NEW k \in Pos, NEW q \in Pos, CombinesRows(k, q)
      PROVE  entry'[p] = entry[p]
  BY <1>5, CombiningRows DEF CombinesRows
<1> QED
  BY <1>1, <1>2, <1>3, <1>4, <1>5 DEF RowStep

\* What HostInv says of the rows, in a step that leaves the launch alone.
LEMMA HostRowsKept ==
  ASSUME RowTypes, RowInv, SlotTypes, HostInv, RowStep, UNCHANGED crashes, accepted' \subseteq accepted,
         Starting' => Starting /\ UNCHANGED slot
  PROVE  /\ \A p \in accepted' : entry'[p].mark \in {"dispatched", "gone"}
         /\ Starting' /\ slot'.pos # 0 => /\ entry'[slot'.pos].mark = "dispatched"
                                          /\ entry'[slot'.pos].texts = slot'.texts
                                          /\ slot'.pos \notin accepted'
<1>1. \A p \in accepted' : entry'[p].mark \in {"dispatched", "gone"}
  BY DispatchedKept DEF HostInv, SlotTypes
<1>2. ASSUME Starting', slot'.pos # 0
      PROVE  /\ entry'[slot'.pos].mark = "dispatched" /\ entry'[slot'.pos].texts = slot'.texts
             /\ slot'.pos \notin accepted'
  <2>1. PICK p \in Pos : p = slot.pos
    BY <1>2, SlotTyped DEF Pos
  <2>2. entry[p].mark = "dispatched" /\ entry[p].texts = slot.texts /\ slot.pos \notin accepted
    BY <1>2, <2>1 DEF HostInv
  <2>3. entry'[p] = entry[p]
    BY <1>2, <2>1, <2>2, DispatchedKept
  <2> QED
    BY <1>2, <2>1, <2>2, <2>3
<1> QED
  BY <1>1, <1>2

LEMMA HostInvKept ==
  ASSUME Inv, [Next]_vars
  PROVE  HostInv'
<1>0. RowTypes /\ RowInv /\ SlotTypes /\ FateTypes /\ HostInv /\ RowStep
  BY StepOfRows DEF Inv, Types
<1>1. ASSUME UNCHANGED crashes, accepted' \subseteq accepted, UNCHANGED <<slot, run>>,
             cancelling' \in {0, cancelling}, Starting => UNCHANGED status,
             status' \in Requeueable => status \in Requeueable
      PROVE  HostInv'
  <2>1. /\ \A p \in accepted' : entry'[p].mark \in {"dispatched", "gone"}
        /\ Starting' /\ slot'.pos # 0 => /\ entry'[slot'.pos].mark = "dispatched"
                                         /\ entry'[slot'.pos].texts = slot'.texts
                                         /\ slot'.pos \notin accepted'
    BY <1>0, <1>1, HostRowsKept DEF Starting
  <2> QED
    BY <1>0, <1>1, <2>1 DEF HostInv, Starting, SlotTypes, Run
<1>2. ASSUME NEW m \in Message, FollowUpStarts(m)
      PROVE  HostInv'
  <2>1. {<<m, 1>>} \in Texts /\ 0 \in 0..MaxPos
    BY DEF Texts
  <2>2. Launch({<<m, 1>>}, 0) /\ UNCHANGED <<entry, cancelling, accepted, crashes>>
    BY <1>2 DEF FollowUpStarts
  <2>3. slot'.phase = "starting" /\ slot'.run = run + 1 /\ slot'.pos = 0 /\ run' = run + 1 /\ status' = "in_progress"
    BY <1>0, <2>1, <2>2, LaunchedSlot
  <2> QED
    BY <1>0, <2>2, <2>3 DEF HostInv, Starting, SlotTypes, Run, Requeueable, Ended
<1>3. ASSUME NEW list, DrainDispatches(list)
      PROVE  HostInv'
  <2> DEFINE p == Head(list).pos
  <2>1. p \in Pos /\ entry[p].mark = "pending" /\ entry[p].texts \in Texts /\ entry[p] \in Rows
    BY <1>0, <1>3, RowTyped DEF DrainDispatches, Dispatchable, Pending, Marked, RowTypes
  <2>2. p \in 0..MaxPos
    BY <2>1 DEF Pos
  <2>3. Launch(entry[p].texts, p) /\ UNCHANGED <<cancelling, accepted, crashes>>
    BY <1>3 DEF DrainDispatches, Saved
  <2>4. /\ slot'.phase = "starting" /\ slot'.run = run + 1 /\ slot'.pos = p /\ slot'.texts = entry[p].texts
        /\ run' = run + 1 /\ status' = "in_progress"
    BY <1>0, <2>1, <2>2, <2>3, LaunchedSlot
  <2>5. entry' = [entry EXCEPT ![p].mark = "dispatched"]
    BY <1>3 DEF DrainDispatches
  <2> HIDE DEF p
  <2>6. entry'[p].mark = "dispatched" /\ entry'[p].texts = entry[p].texts /\ \A k \in Pos \ {p} : entry'[k] = entry[k]
    BY <1>0, <2>1, <2>5 DEF RowTypes, Rows
  <2>7. p \notin accepted
    BY <1>0, <2>1 DEF HostInv
  <2>8. \A k \in accepted' : entry'[k].mark \in {"dispatched", "gone"}
    BY <1>0, <2>3, <2>6 DEF HostInv, SlotTypes
  <2>9. cancelling' < run' /\ cancelling' <= run'
    BY <1>0, <2>3, <2>4 DEF HostInv, SlotTypes, Run
  <2> QED
    BY <2>3, <2>4, <2>6, <2>7, <2>8, <2>9 DEF HostInv, Starting, Requeueable, Ended
<1>4. CASE Begin
  <2>1. slot'.phase = "live" /\ slot'.run = slot.run /\ slot.phase = "starting"
    BY <1>0, <1>4, BegunSlot DEF Begin
  <2>2. UNCHANGED <<entry, run, status, cancelling, crashes>> /\ accepted' = accepted \cup ({slot.pos} \ {0})
    BY <1>4 DEF Begin
  <2> QED
    BY <1>0, <2>1, <2>2 DEF HostInv, Starting, Requeueable, Ended
<1>5. CASE ExitSeen \/ ExitSaves \/ ExitReads \/ ExitWrites \/ ExitRemoves
  <2>1. /\ UNCHANGED <<run, cancelling, accepted, crashes>> /\ ~Starting /\ slot.phase # "empty"
        /\ \/ (Step("closing") \/ Step("saved") \/ Step("writing")) /\ UNCHANGED status /\ slot.phase \notin {"ended", "empty"}
           \/ Step("ended")
           \/ slot' = EmptySlot
    BY <1>5 DEF ExitSeen, ExitSaves, ExitReads, ExitWrites, ExitRemoves, rows, Starting
  <2>2. /\ slot'.phase # "starting" /\ (slot'.phase # "empty" => slot'.run = run) /\ (slot'.phase = "empty" => slot'.run = 0)
        /\ (slot'.phase \in {"ended", "empty"}) \/ (UNCHANGED status /\ slot.phase \notin {"ended", "empty"})
    BY <1>0, <2>1, SteppedSlot, EmptyTyped DEF HostInv
  <2>3. \A p \in accepted' : entry'[p].mark \in {"dispatched", "gone"}
    BY <1>0, <2>1, <2>2, HostRowsKept DEF Starting
  <2> QED
    BY <1>0, <2>1, <2>2, <2>3 DEF HostInv, Starting
<1>6. CASE Crash
  <2>1. slot' = EmptySlot /\ cancelling' = 0 /\ accepted' = {} /\ run' = run /\ crashes' # 0
    BY <1>0, <1>6 DEF Crash, FateTypes
  <2> QED
    BY <1>0, <2>1, EmptyTyped DEF HostInv, Starting, SlotTypes, Run
<1>7. CASE UserStep
  <2>1. CASE CancelStops
    <3>1. UNCHANGED <<entry, run, slot, status, accepted, crashes>> /\ ~Starting /\ cancelling' = run
      BY <2>1 DEF CancelStops, rows, Starting
    <3> QED
      BY <1>0, <3>1 DEF HostInv, Starting, SlotTypes, Run
  <2>2. CASE \E m \in Message : FollowUpWaits(m)
    BY <1>0, <1>1, <2>2 DEF FollowUpWaits, host, HostInv, Requeueable, Ended
  <2>3. CASE CancelQueued
    BY <1>0, <1>1, <2>3 DEF CancelQueued, host, HostInv, Requeueable, Ended
  <2>4. CASE Refresh \/ \E p \in Pos : Edit(p) \/ Delete(p)
    BY <1>1, <2>4 DEF Refresh, Edit, Delete, rows, host
  <2>5. CASE \E p, q \in Pos : Move(p, q) \/ Combine(p, q)
    BY <1>1, <2>5 DEF Move, Combine, host
  <2>6. CASE \E s \in Steer : (\E p \in Pos : Claim(s, p)) \/ \E m \in Message : SteerNew(s, m)
    BY <1>1, <2>6 DEF Claim, SteerNew
  <2> QED
    BY <1>2, <1>7, <2>1, <2>2, <2>3, <2>4, <2>5, <2>6 DEF UserStep
<1>8. CASE \E s \in Steer : SteerStep(s)
  BY <1>1, <1>8 DEF SteerStep, Gate, HarnessTakes, HarnessRejects, Release, Accept, AnswerLost, rows
<1>9. CASE HostStep
  <2>1. CASE CancelWrites
    <3>1. run = cancelling => ~Starting
      BY <1>0 DEF HostInv, SlotTypes, Run
    <3> QED
      BY <1>1, <2>1, <3>1 DEF CancelWrites, Requeueable, Ended
  <2>2. CASE Reconcile \/ Woken \/ \E list \in todo : DrainSkips(list)
    BY <1>1, <2>2 DEF Reconcile, Woken, DrainSkips, rows, host
  <2>3. CASE DrainLists
    BY <1>0, <1>1, <2>3 DEF DrainLists, HostInv, Requeueable, Ended
  <2>4. CASE \E p \in Pos : RemoveAccepted(p)
    <3>1. accepted' \subseteq accepted /\ UNCHANGED <<slot, run, status, cancelling, crashes>>
      BY <2>4 DEF RemoveAccepted
    <3> QED
      BY <1>1, <3>1
  <2> QED
    BY <1>3, <1>4, <1>5, <1>9, <2>1, <2>2, <2>3, <2>4 DEF HostStep
<1>10. CASE UNCHANGED vars
  BY <1>1, <1>10 DEF vars, rows, host
<1> QED
  BY <1>6, <1>7, <1>8, <1>9, <1>10 DEF Next

\* A cancel stops the owner before it writes, and only the next owner is not stopped.
LEMMA StopInvKept ==
  ASSUME Inv, [Next]_vars
  PROVE  StopInv'
<1>0. SlotTypes /\ HostInv /\ StopInv
  BY DEF Inv, Types
<1>1. CASE UNCHANGED <<slot, status, run, cancelling, stopping>>
  BY <1>0, <1>1 DEF StopInv
<1>2. ASSUME slot'.phase \in {"starting", "ended", "empty"}
      PROVE  StopInv'
  BY <1>2 DEF StopInv
<1>3. CASE CancelStops
  BY <1>3 DEF CancelStops, StopInv
<1>4. CASE CancelWrites
  <2>1. run # 0 /\ UNCHANGED <<slot, run, stopping>> /\ cancelling' = 0
    BY <1>0, <1>4 DEF CancelWrites, SlotTypes, Run
  <2>2. status' = status \/ cancelling = run
    BY <1>4 DEF CancelWrites
  <2> QED
    BY <1>0, <2>1, <2>2 DEF StopInv
<1>5. CASE CancelQueued \/ (\E m \in Message : FollowUpWaits(m)) \/ DrainLists
  <2>1. UNCHANGED <<slot, run, stopping, cancelling>> /\ (status' = status \/ status # "in_progress")
    BY <1>5 DEF CancelQueued, FollowUpWaits, DrainLists, host, Requeueable, Ended
  <2> QED
    BY <1>0, <2>1 DEF StopInv
<1>6. ASSUME NEW texts, NEW p, Launch(texts, p)
      PROVE  StopInv'
  BY <1>2, <1>6 DEF Launch
<1>7. CASE Begin
  <2>1. status' = "in_progress" /\ cancelling' # run'
    BY <1>0, <1>7 DEF Begin, HostInv, Starting, SlotTypes, Run
  <2> QED
    BY <2>1 DEF StopInv
<1>8. CASE ExitSeen \/ ExitSaves \/ ExitReads
  <2>1. slot'.phase = "empty" \/ (UNCHANGED <<status, run, cancelling, stopping>>
                                  /\ slot.phase \in {"live", "closing", "saved", "writing"})
    BY <1>8, EmptyTyped DEF ExitSeen, ExitSaves, ExitReads, rows
  <2> QED
    BY <1>0, <1>2, <2>1 DEF StopInv
<1>9. CASE ExitWrites \/ ExitRemoves \/ Crash
  BY <1>0, <1>2, <1>9, SteppedSlot, EmptyTyped DEF ExitWrites, ExitRemoves, Crash
<1>10. CASE UserStep
  BY <1>1, <1>3, <1>5, <1>6, <1>10 DEF UserStep, Refresh, FollowUpStarts, Edit, Delete, Move, Combine, Claim, SteerNew,
     rows, host
<1>11. CASE HostStep
  BY <1>1, <1>4, <1>5, <1>6, <1>7, <1>8, <1>9, <1>11 DEF HostStep, Reconcile, Woken, DrainSkips, DrainDispatches,
     RemoveAccepted, rows, host
<1>12. ASSUME NEW s \in Steer, SteerStep(s)
       PROVE  StopInv'
  BY <1>1, <1>12 DEF SteerStep, Gate, HarnessTakes, HarnessRejects, Release, Accept, AnswerLost, rows
<1> QED
  BY <1>1, <1>9, <1>10, <1>11, <1>12 DEF Next, vars, rows, host

-----------------------------------------------------------------------------
(* The rows that steering calls hold. *)

\* The steps that leave every row to its holder.
HolderQuiet ==
  \/ CancelQueued \/ CancelWrites \/ ExitWrites \/ Crash \/ UNCHANGED entry
  \/ \E m \in Message : FollowUpWaits(m)
  \/ \E p \in Pos : Edit(p) \/ Delete(p) \/ RemoveAccepted(p)
  \/ \E p, q \in Pos : Move(p, q) \/ Combine(p, q)
  \/ \E list \in todo : DrainDispatches(list)

\* A call that has been finished no longer holds its row.
LEMMA HeldBy ==
  ASSUME RowTypes, RowInv, NEW p \in Pos
  PROVE  entry[p].mark \in {"pending", "dispatched", "gone", "unused"} => entry[p].by = NoSteer
BY DEF RowInv

LEMMA HoldersKept ==
  ASSUME RowTypes, RowInv, SlotTypes, HostInv, HolderQuiet, NEW p \in Pos
  PROVE  entry'[p].by = entry[p].by
<1>1. ASSUME NEW S \in SUBSET Pos, Removal(S), \A k \in S : entry[k].by = NoSteer
      PROVE  entry'[p].by = entry[p].by
  BY <1>1, RemovalRows, EmptyTyped
<1>2. CASE CancelQueued \/ CancelWrites \/ ExitWrites
  <2>1. Removal(Cancellable) \/ UNCHANGED entry
    BY <1>2 DEF CancelQueued, CancelWrites, ExitWrites, Cleared, Removal
  <2>2. Cancellable \in SUBSET Pos /\ \A k \in Cancellable : entry[k].by = NoSteer
    BY HeldBy DEF Cancellable, Pending, Marked
  <2> QED
    BY <1>1, <2>1, <2>2
<1>3. CASE Crash
  <2>1. ASSUME NEW k \in Marked("dispatched"), entry' = [entry EXCEPT ![k].mark = "pending"]
        PROVE  entry'[p].by = entry[p].by
    BY <2>1 DEF Marked, RowTypes, Rows
  <2> QED
    BY <1>3, <2>1 DEF Crash
<1>4. ASSUME NEW m \in Message, FollowUpWaits(m)
      PROVE  entry'[p].by = entry[p].by
  <2>1. PICK n : n = nextPos
    OBVIOUS
  <2>2. entry[n] = NoEntry /\ entry'[n] = NewRow(m, "pending", NoSteer) /\ \A k \in Pos \ {n} : entry'[k] = entry[k]
    BY <1>4, <2>1, AddingRows DEF FollowUpWaits
  <2> QED
    BY <2>2, EmptyTyped DEF NewRow
<1>5. ASSUME NEW k \in Pos, Delete(k) \/ RemoveAccepted(k)
      PROVE  entry'[p].by = entry[p].by
  <2>1. Removal({k}) /\ entry[k].by = NoSteer
    BY <1>5, HeldBy DEF Delete, RemoveAccepted, HostInv, Pending, Marked, Removal, RowTypes
  <2> QED
    BY <1>1, <2>1
<1>6. ASSUME NEW k \in Pos, Edit(k)
      PROVE  entry'[p].by = entry[p].by
  BY <1>6 DEF Edit, Revised, RowTypes, Rows
<1>7. ASSUME NEW k \in Pos, NEW q \in Pos, Move(k, q)
      PROVE  entry'[p].by = entry[p].by
  <2>1. entry'[p] = entry[p] \/ entry'[p] = [Revised(p, entry[SourceOf(k, q)[p]].texts) EXCEPT !.made = entry[SourceOf(k, q)[p]].made]
    BY <1>7 DEF Move, Reordered, SourceOf, NextIn, PreviousIn
  <2> QED
    BY <2>1 DEF Revised, RowTypes, Rows
<1>8. ASSUME NEW k \in Pos, NEW q \in Pos, Combine(k, q)
      PROVE  entry'[p].by = entry[p].by
  <2>1. CombinesRows(k, q) /\ entry[k].by = NoSteer
    BY <1>8, HeldBy DEF Combine, CombinesRows, Pending, Marked
  <2> QED
    BY <2>1, CombiningRows, EmptyTyped
<1>9. ASSUME NEW list, DrainDispatches(list)
      PROVE  entry'[p].by = entry[p].by
  BY <1>9 DEF DrainDispatches, RowTypes, Rows
<1> QED
  BY <1>2, <1>3, <1>4, <1>5, <1>6, <1>7, <1>8, <1>9 DEF HolderQuiet

\* What a step of a call does to the row it holds.
LEMMA ClaimedRows ==
  ASSUME Inv, NEW s \in Steer, (\E p \in Pos : Claim(s, p)) \/ \E m \in Message : SteerNew(s, m)
  PROVE  \E p \in Pos, fresh \in BOOLEAN :
           /\ entry[p].by = NoSteer /\ entry'[p].by = s /\ entry'[p].mark = "held"
           /\ \A k \in Pos \ {p} : entry'[k] = entry[k]
           /\ steer' = [steer EXCEPT ![s] = [phase |-> "claimed", pos |-> p, run |-> run, fresh |-> fresh]]
<1>0. RowTypes /\ RowInv
  BY DEF Inv, Types
<1>1. ASSUME NEW p \in Pos, Claim(s, p)
      PROVE  /\ entry[p].by = NoSteer /\ entry'[p].by = s /\ entry'[p].mark = "held"
             /\ \A k \in Pos \ {p} : entry'[k] = entry[k]
             /\ steer' = [steer EXCEPT ![s] = [phase |-> "claimed", pos |-> p, run |-> run, fresh |-> FALSE]]
  <2>1. entry[p].by = NoSteer /\ entry' = [entry EXCEPT ![p].mark = "held", ![p].by = s]
    BY <1>0, <1>1, HeldBy DEF Claim, Pending, Marked
  <2> QED
    BY <1>0, <1>1, <2>1 DEF Claim, RowTypes, Rows
<1>2. ASSUME NEW m \in Message, SteerNew(s, m), NEW n, n = nextPos
      PROVE  /\ n \in Pos /\ entry[n].by = NoSteer /\ entry'[n].by = s /\ entry'[n].mark = "held"
             /\ \A k \in Pos \ {n} : entry'[k] = entry[k]
             /\ steer' = [steer EXCEPT ![s] = [phase |-> "claimed", pos |-> n, run |-> run, fresh |-> TRUE]]
  <2>1. /\ n \in Pos /\ entry[n] = NoEntry /\ entry'[n] = NewRow(m, "held", s)
        /\ \A k \in Pos \ {n} : entry'[k] = entry[k]
    BY <1>0, <1>2, AddingRows DEF SteerNew
  <2> QED
    BY <1>2, <2>1, EmptyTyped DEF SteerNew, NewRow
<1> QED
  BY <1>1, <1>2, Zenon

LEMMA ReleasedRows ==
  ASSUME Inv, NEW s \in Steer, Release(s) \/ Accept(s)
  PROVE  \E p \in Pos : /\ p = steer[s].pos /\ entry[p].by = s /\ entry[p].mark = "held"
                        /\ entry'[p].by = NoSteer /\ \A k \in Pos \ {p} : entry'[k] = entry[k]
<1>0. RowTypes /\ RowInv /\ SteerInv
  BY DEF Inv, Types
<1>1. PICK p \in Pos : p = steer[s].pos /\ entry[p].by = s /\ entry[p].mark = "held"
  BY <1>0 DEF Release, Accept, SteerInv, IsOpen, RowInv
<1>2. entry' = [entry EXCEPT ![p] = Deleted] \/ entry' = [entry EXCEPT ![p].mark = "pending", ![p].by = NoSteer]
  BY <1>1 DEF Release, Accept, AcceptedRows
<1>3. entry'[p].by = NoSteer /\ \A k \in Pos \ {p} : entry'[k] = entry[k]
  BY <1>0, <1>2, EmptyTyped DEF RowTypes, Rows
<1> QED
  BY <1>1, <1>3

\* A step either leaves the holders alone or is one of a few.
LEMMA StepOfHolders ==
  ASSUME [Next]_vars
  PROVE  \/ HolderQuiet
         \/ \E s \in Steer : \/ (\E p \in Pos : Claim(s, p)) \/ (\E m \in Message : SteerNew(s, m))
                             \/ Release(s) \/ Accept(s)
         \/ Reconcile
<1>1. CASE UserStep
  BY <1>1 DEF UserStep, HolderQuiet, Refresh, CancelStops, FollowUpStarts, rows
<1>2. CASE \E s \in Steer : SteerStep(s)
  BY <1>2 DEF SteerStep, HolderQuiet, Gate, HarnessTakes, HarnessRejects, AnswerLost, rows
<1>3. CASE HostStep
  BY <1>3 DEF HostStep, HolderQuiet, Begin, ExitSeen, ExitSaves, ExitReads, ExitWrites, ExitRemoves, Woken, DrainLists, DrainSkips, rows
<1> QED
  BY <1>1, <1>2, <1>3 DEF Next, HolderQuiet, vars, rows

\* The owner of the run that call s steers is still there.
OwnerThere(s) ==
  \/ slot.phase \in {"live", "closing"} /\ steer[s].run = slot.run
  \/ Starting /\ steer[s].run = slot.prev

\* A launch that replaces an owner remembers it.
LEMMA LaunchKeepsOwner ==
  ASSUME Inv, NEW texts \in Texts, NEW p \in 0..MaxPos, Launch(texts, p), status # "in_progress",
         UNCHANGED steer, NEW s \in Steer, OwnerThere(s)
  PROVE  OwnerThere(s)'
<1>1. SlotTypes /\ ~Starting
  BY DEF Inv, Types, HostInv
<1>2. slot'.phase = "starting" /\ slot'.prev = slot.run
  BY <1>1, LaunchedSlot
<1> QED
  BY <1>1, <1>2 DEF OwnerThere, Starting

\* The exit handler and the next launch wait for the open calls of an owner.
LEMMA OwnersKept ==
  ASSUME Inv, [Next]_vars, UNCHANGED steer, NEW s \in Steer, IsOpen(s)
  PROVE  OwnerThere(s)'
<1>0. RowTypes /\ SlotTypes /\ OwnerThere(s)
  BY DEF Inv, Types, SteerInv, OwnerThere
<1>1. CASE UNCHANGED slot
  BY <1>0, <1>1 DEF OwnerThere, Starting
<1>2. ASSUME NEW m \in Message, FollowUpStarts(m)
      PROVE  OwnerThere(s)'
  <2>1. {<<m, 1>>} \in Texts /\ 0 \in 0..MaxPos
    BY DEF Texts
  <2>2. Launch({<<m, 1>>}, 0) /\ status # "in_progress"
    BY <1>2 DEF FollowUpStarts, Ended
  <2> QED
    BY <1>0, <2>1, <2>2, LaunchKeepsOwner
<1>3. ASSUME NEW list, DrainDispatches(list)
      PROVE  OwnerThere(s)'
  <2>1. Head(list).pos \in Pos /\ Saved(Head(list)) \in Texts /\ Launch(Saved(Head(list)), Head(list).pos)
    BY <1>0, <1>3, RowTyped DEF DrainDispatches, Dispatchable, Pending, Marked, Saved, RowTypes
  <2>2. Head(list).pos \in 0..MaxPos /\ status # "in_progress"
    BY <1>3, <2>1 DEF DrainDispatches, Dispatchable, Pos
  <2> QED
    BY <1>0, <2>1, <2>2, LaunchKeepsOwner
<1>4. CASE Begin
  BY <1>0, <1>4 DEF Begin, Controls, OwnerThere, IsOpen, Starting
<1>5. CASE ExitSaves
  BY <1>0, <1>5 DEF ExitSaves, OpenControls, Controls, OwnerThere, IsOpen, Starting
<1>6. CASE ExitSeen
  BY <1>0, <1>6, SteppedSlot DEF ExitSeen, OwnerThere, Starting
<1>7. CASE ExitReads \/ ExitWrites \/ ExitRemoves
  BY <1>0, <1>7 DEF ExitReads, ExitWrites, ExitRemoves, OwnerThere, Starting
<1>8. CASE Crash
  BY <1>8, EmptyTyped DEF Crash, IsOpen, SteerTypes, Inv, Types
<1>9. CASE UserStep
  BY <1>1, <1>2, <1>9 DEF UserStep, Refresh, CancelQueued, CancelStops, FollowUpWaits, Edit,
     Delete, Move, Combine, Claim, SteerNew, host
<1>10. CASE \E k \in Steer : SteerStep(k)
  BY <1>1, <1>10 DEF SteerStep, Gate, HarnessTakes, HarnessRejects, Release, Accept, AnswerLost
<1>11. CASE HostStep
  BY <1>1, <1>3, <1>4, <1>5, <1>6, <1>7, <1>11 DEF HostStep, CancelWrites, Reconcile, Woken, DrainLists, DrainSkips,
     RemoveAccepted, host
<1> QED
  BY <1>1, <1>8, <1>9, <1>10, <1>11 DEF Next, vars, host

LEMMA SteerInvKept ==
  ASSUME Inv, [Next]_vars
  PROVE  SteerInv'
<1>0. RowTypes /\ RowInv /\ SlotTypes /\ SteerTypes /\ HostInv /\ SteerInv /\ SteerTypes'
  BY SteerTypesKept DEF Inv, Types
<1> USE DEF OwnerThere, Starting
<1>1. ASSUME UNCHANGED <<steer, native>>, \A p \in Pos : entry'[p].by = entry[p].by
      PROVE  SteerInv'
  <2>1. ASSUME NEW s \in Steer, IsOpen(s)
        PROVE  OwnerThere(s)'
    <3> HIDE DEF OwnerThere
    <3> QED
      BY <1>1, <2>1, OwnersKept
  <2> QED
    BY <1>0, <1>1, <2>1 DEF SteerInv, IsOpen
<1>2. ASSUME NEW s \in Steer, (\E p \in Pos : Claim(s, p)) \/ \E m \in Message : SteerNew(s, m)
      PROVE  SteerInv'
  <2>1. PICK p \in Pos, fresh \in BOOLEAN :
           /\ entry[p].by = NoSteer /\ entry'[p].by = s
           /\ \A k \in Pos \ {p} : entry'[k] = entry[k]
           /\ steer' = [steer EXCEPT ![s] = [phase |-> "claimed", pos |-> p, run |-> run, fresh |-> fresh]]
    BY <1>2, ClaimedRows
  <2>2. steer[s].phase = "idle" /\ slot.phase = "live" /\ slot.run = run /\ UNCHANGED <<slot, native>>
    BY <1>2 DEF Claim, SteerNew, Steerable
  <2>3. s \notin native /\ \A k \in Pos : entry[k].by # s
    BY <1>0, <2>2 DEF SteerInv
  <2>4. /\ steer'[s].phase = "claimed" /\ steer'[s].pos = p /\ steer'[s].run = run
        /\ \A t \in Steer \ {s} : steer'[t] = steer[t]
    BY <1>0, <2>1 DEF SteerTypes
  <2>5. ASSUME NEW t \in Steer \ {s}
        PROVE  /\ IsOpen(t)' => /\ steer'[t].pos \in Pos /\ entry'[steer'[t].pos].by = t
                                /\ steer'[t].run \in Run /\ OwnerThere(t)'
               /\ steer'[t].phase \in {"idle", "claimed", "sent", "refused"} => t \notin native'
               /\ steer'[t].phase = "idle" => \A k \in Pos : entry'[k].by # t
    <3>1. IsOpen(t) => steer[t].pos # p
      BY <1>0, <2>1 DEF SteerInv
    <3> QED
      BY <1>0, <2>1, <2>2, <2>4, <3>1 DEF SteerInv, IsOpen
  <2>6. /\ steer'[s].pos \in Pos /\ entry'[steer'[s].pos].by = s
        /\ steer'[s].run \in Run /\ OwnerThere(s)' /\ s \notin native' /\ steer'[s].phase # "idle"
    BY <1>0, <2>1, <2>2, <2>3, <2>4 DEF SlotTypes
  <2>7. \A j, k \in Pos : entry'[j].by = entry'[k].by /\ entry'[j].by # NoSteer => j = k
    BY <1>0, <2>1, <2>3 DEF SteerInv
  <2> QED
    BY <2>5, <2>6, <2>7 DEF SteerInv, IsOpen
<1>3. ASSUME NEW s \in Steer, NEW phase \in {"sent", "taken", "refused"}, StepTo(s, phase),
             phase = "refused" => s \notin native, phase = "sent" => s \notin native,
             UNCHANGED <<entry, slot>>, native' = IF phase = "taken" THEN native \cup {s} ELSE native, IsOpen(s)
      PROVE  SteerInv'
  <2>1. /\ steer'[s].phase = phase /\ steer'[s].pos = steer[s].pos /\ steer'[s].run = steer[s].run
        /\ \A t \in Steer \ {s} : steer'[t] = steer[t]
    BY <1>0, <1>3 DEF SteerTypes, StepTo, Calls
  <2> QED
    BY <1>0, <1>3, <2>1 DEF SteerInv, IsOpen
<1>4. ASSUME NEW s \in Steer, Gate(s) \/ HarnessTakes(s) \/ HarnessRejects(s)
      PROVE  SteerInv'
  <2>1. IsOpen(s) /\ s \notin native
    BY <1>0, <1>4 DEF Gate, HarnessTakes, HarnessRejects, SteerInv, IsOpen
  <2>2. CASE HarnessTakes(s)
    BY <1>3, <2>1, <2>2 DEF HarnessTakes, rows
  <2>3. CASE Gate(s) \/ HarnessRejects(s)
    BY <1>3, <1>4, <2>1, <2>3 DEF Gate, HarnessRejects, rows
  <2> QED
    BY <1>4, <2>2, <2>3
<1>5. ASSUME NEW s \in Steer, Finish(s), UNCHANGED <<slot, native>>,
             \A p \in Pos : entry'[p].by = entry[p].by \/ (entry[p].by = s /\ entry'[p].by = NoSteer)
      PROVE  SteerInv'
  <2>1. steer'[s].phase = "done" /\ \A t \in Steer \ {s} : steer'[t] = steer[t]
    BY <1>0, <1>5, EmptyTyped DEF SteerTypes, Finish
  <2>2. ASSUME NEW t \in Steer \ {s}
        PROVE  /\ IsOpen(t)' => /\ steer'[t].pos \in Pos /\ entry'[steer'[t].pos].by = t
                                /\ steer'[t].run \in Run /\ OwnerThere(t)'
               /\ steer'[t].phase \in {"idle", "claimed", "sent", "refused"} => t \notin native'
               /\ steer'[t].phase = "idle" => \A k \in Pos : entry'[k].by # t
    BY <1>0, <1>5, <2>1 DEF SteerInv, IsOpen
  <2>3. \A j, k \in Pos : entry'[j].by = entry'[k].by /\ entry'[j].by # NoSteer => j = k
    BY <1>0, <1>5 DEF SteerInv
  <2> QED
    BY <2>1, <2>2, <2>3 DEF SteerInv, IsOpen
<1>6. ASSUME NEW s \in Steer, AnswerLost(s)
      PROVE  SteerInv'
  BY <1>5, <1>6 DEF AnswerLost, rows
<1>7. ASSUME NEW s \in Steer, Release(s) \/ Accept(s)
      PROVE  SteerInv'
  <2>1. PICK p \in Pos : entry[p].by = s /\ entry'[p].by = NoSteer /\ \A k \in Pos \ {p} : entry'[k] = entry[k]
    BY <1>7, ReleasedRows
  <2> QED
    BY <1>5, <1>7, <2>1 DEF Release, Accept
<1>8. CASE Reconcile
  <2>1. slot.phase = "empty" /\ UNCHANGED <<slot, steer, native>>
    BY <1>8 DEF Reconcile, host
  <2>2. \A p \in Pos : entry'[p].by = entry[p].by \/ entry'[p].by = NoSteer
    BY <1>8, EmptyTyped DEF Reconcile
  <2>3. \A s \in Steer : ~IsOpen(s) /\ ~IsOpen(s)'
    BY <1>0, <2>1 DEF SteerInv, IsOpen
  <2>4. ASSUME NEW s \in Steer, steer[s].phase = "idle"
        PROVE  \A k \in Pos : entry'[k].by # s
    BY <1>0, <2>2, <2>4 DEF SteerInv
  <2>5. \A j, k \in Pos : entry'[j].by = entry'[k].by /\ entry'[j].by # NoSteer => j = k
    BY <1>0, <2>2 DEF SteerInv
  <2> QED
    BY <1>0, <2>1, <2>3, <2>4, <2>5 DEF SteerInv
<1>9. CASE Crash
  <2>1. \A p \in Pos : entry'[p].by = entry[p].by
    BY <1>0, <1>9, HoldersKept DEF HolderQuiet
  <2>2. \A s \in Steer : steer'[s].phase \in {"idle", "done"} /\ (steer'[s].phase = "idle" => steer[s].phase = "idle")
    BY <1>9, EmptyTyped DEF Crash
  <2>3. native' = native
    BY <1>9 DEF Crash
  <2> QED
    BY <1>0, <2>1, <2>2, <2>3 DEF SteerInv, IsOpen
<1>10. CASE HolderQuiet /\ ~Crash
  <2>1. \A p \in Pos : entry'[p].by = entry[p].by
    BY <1>0, <1>10, HoldersKept
  <2>2. CASE UNCHANGED <<steer, native>>
    BY <1>1, <2>1, <2>2
  <2>3. CASE \E s \in Steer : SteerStep(s)
    BY <1>4, <1>6, <1>7, <2>3 DEF SteerStep
  <2>4. CASE \E s \in Steer : (\E p \in Pos : Claim(s, p)) \/ \E m \in Message : SteerNew(s, m)
    BY <1>2, <2>4
  <2>5. CASE UserStep /\ \A s \in Steer : (\A p \in Pos : ~Claim(s, p)) /\ \A m \in Message : ~SteerNew(s, m)
    <3>1. UNCHANGED <<steer, native>>
      BY <2>5 DEF UserStep, Refresh, CancelQueued, CancelStops, FollowUpWaits, FollowUpStarts, Edit, Delete, Move, Combine, host
    <3> QED
      BY <2>2, <3>1
  <2>6. CASE HostStep
    <3>1. UNCHANGED <<steer, native>>
      BY <2>6 DEF HostStep, CancelWrites, Reconcile, host, Begin, ExitSeen, ExitSaves, ExitReads, ExitWrites, ExitRemoves,
       Woken, DrainLists, DrainSkips, DrainDispatches, RemoveAccepted
    <3> QED
      BY <2>2, <3>1
  <2> QED
    BY <1>10, <2>2, <2>3, <2>4, <2>5, <2>6 DEF Next, vars, host
<1> QED
  BY <1>2, <1>7, <1>8, <1>9, <1>10, StepOfHolders

-----------------------------------------------------------------------------
(* The saved conversation. *)

\* An open call has put its message in a conversation that contains what is saved.
LEMMA OpenConversation ==
  ASSUME Inv, NEW s \in Steer, IsOpen(s)
  PROVE  /\ steer[s].run \in Run /\ history \subseteq talk[steer[s].run]
         /\ slot.phase \in {"live", "closing", "saved", "writing", "ended"} => steer[s].run = slot.run
         /\ Starting => steer[s].run = slot.prev
         /\ talk[steer[s].run] \subseteq native
         /\ slot.phase \in {"live", "closing"} \/ Starting
<1>1. SteerInv /\ SavedInv
  BY DEF Inv
<1>2. /\ steer[s].run \in Run
      /\ \/ slot.phase \in {"live", "closing"} /\ steer[s].run = slot.run
         \/ Starting /\ steer[s].run = slot.prev
  BY <1>1 DEF SteerInv
<1>3. steer[s].run # 0
  BY <1>2 DEF Run
<1> QED
  BY <1>1, <1>2, <1>3 DEF SavedInv, Starting

\* A checkpoint loses nothing.
LEMMA SavesOnlyAdd ==
  ASSUME Inv, [Next]_vars
  PROVE  history \subseteq history'
<1>0. SavedInv
  BY DEF Inv
<1>1. ASSUME NEW s \in Steer, Accept(s)
      PROVE  history \subseteq history'
  BY <1>1, OpenConversation DEF Accept, IsOpen
<1>2. CASE Reconcile
  BY <1>2 DEF Reconcile, Loaded
<1>3. CASE Begin \/ ExitSaves
  BY <1>0, <1>3 DEF Begin, ExitSaves, SavedInv, Starting
<1>4. CASE UserStep
  BY <1>4 DEF UserStep, Refresh, CancelQueued, CancelStops, FollowUpWaits, FollowUpStarts, Edit, Delete, Move,
     Combine, Claim, SteerNew, rows
<1>5. CASE HostStep
  BY <1>2, <1>3, <1>5 DEF HostStep, CancelWrites, ExitSeen, ExitReads, ExitWrites, ExitRemoves,
     Woken, DrainLists, DrainSkips, DrainDispatches, RemoveAccepted, rows
<1>6. ASSUME NEW s \in Steer, SteerStep(s)
      PROVE  history \subseteq history'
  BY <1>1, <1>6 DEF SteerStep, Gate, HarnessTakes, HarnessRejects, Release, AnswerLost, rows
<1> QED
  BY <1>4, <1>5, <1>6 DEF Next, Crash, vars, rows

LEMMA SavedInvKept ==
  ASSUME Inv, [Next]_vars
  PROVE  SavedInv'
<1>0. RowTypes /\ SlotTypes /\ SteerTypes /\ HostInv /\ SavedInv
  BY DEF Inv, Types
<1>1. CASE UNCHANGED <<history, native, talk, slot>>
  BY <1>0, <1>1 DEF SavedInv, Starting
<1>2. ASSUME NEW s \in Steer, HarnessTakes(s)
      PROVE  SavedInv'
  <2>1. \A r \in Run : talk'[r] = talk[r] \/ talk'[r] = talk[r] \cup {s}
    BY <1>0, <1>2 DEF HarnessTakes, SteerTypes
  <2>2. native' = native \cup {s} /\ UNCHANGED <<history, slot>> /\ slot.phase = "live" /\ slot.run \in Run
    BY <1>0, <1>2 DEF HarnessTakes, rows, SlotTypes
  <2> QED
    BY <1>0, <2>1, <2>2 DEF SavedInv, Starting
<1>3. ASSUME NEW s \in Steer, Accept(s)
      PROVE  SavedInv'
  <2>1. IsOpen(s)
    BY <1>3 DEF Accept, IsOpen
  <2> QED
    BY <1>0, <1>3, <2>1, OpenConversation DEF Accept, SavedInv, Starting
<1>4. CASE Reconcile
  BY <1>0, <1>4 DEF Reconcile, Loaded, SavedInv, Starting, host
<1>5. ASSUME NEW texts \in Texts, NEW p \in 0..MaxPos, Launch(texts, p), status # "in_progress",
             UNCHANGED <<history, native, talk>>
      PROVE  SavedInv'
  <2>1. ~Starting
    BY <1>0, <1>5 DEF HostInv
  <2>2. slot'.phase = "starting" /\ slot'.prev = slot.run
    BY <1>0, <1>5, LaunchedSlot
  <2>3. slot.run # 0 => history \subseteq talk[slot.run]
    BY <1>0, <2>1 DEF SavedInv, HostInv, SlotTypes, Slots, Starting
  <2> QED
    BY <1>0, <1>5, <2>2, <2>3 DEF SavedInv, Starting
<1>6. ASSUME NEW m \in Message, FollowUpStarts(m)
      PROVE  SavedInv'
  <2>1. {<<m, 1>>} \in Texts /\ 0 \in 0..MaxPos
    BY DEF Texts
  <2>2. Launch({<<m, 1>>}, 0) /\ status # "in_progress" /\ UNCHANGED <<history, native, talk>>
    BY <1>6 DEF FollowUpStarts, Ended
  <2> QED
    BY <1>5, <2>1, <2>2
<1>7. ASSUME NEW list, DrainDispatches(list)
      PROVE  SavedInv'
  <2>1. Head(list).pos \in Pos /\ Saved(Head(list)) \in Texts /\ Launch(Saved(Head(list)), Head(list).pos)
    BY <1>0, <1>7, RowTyped DEF DrainDispatches, Dispatchable, Pending, Marked, Saved, RowTypes
  <2>2. Head(list).pos \in 0..MaxPos /\ status # "in_progress" /\ UNCHANGED <<history, native, talk>>
    BY <1>7, <2>1 DEF DrainDispatches, Dispatchable, Pos
  <2> QED
    BY <1>5, <2>1, <2>2
<1>8. CASE Begin
  <2> DEFINE known == IF slot.prev = 0 THEN history ELSE talk[slot.prev]
  <2>1. slot.run \in Run /\ (slot.prev # 0 => slot.prev \in Run)
    BY <1>0, <1>8, SlotTyped DEF Begin, SlotTypes, Run
  <2>2. known \subseteq native /\ history' = known /\ native' = native
    BY <1>0, <1>8, <2>1 DEF Begin, SavedInv
  <2>3. PICK messages \in {known, known \cup native} : talk' = [talk EXCEPT ![slot.run] = messages]
    BY <1>8 DEF Begin, Loaded
  <2>4. known \subseteq messages /\ messages \subseteq native
    BY <2>2, <2>3
  <2> HIDE DEF known
  <2>5. talk'[slot.run] = messages /\ \A r \in Run : talk'[r] = talk[r] \/ talk'[r] = messages
    BY <1>0, <2>1, <2>3 DEF SteerTypes
  <2>6. slot'.phase = "live" /\ slot'.run = slot.run
    BY <1>0, <1>8, BegunSlot
  <2> QED
    BY <1>0, <2>2, <2>4, <2>5, <2>6 DEF SavedInv, Starting
<1>9. CASE ExitSeen \/ ExitSaves
  <2>1. slot'.phase \in {"closing", "saved"} /\ slot'.run = slot.run /\ slot.run \in Run /\ slot.phase \in {"live", "closing"}
    BY <1>0, <1>9, SteppedSlot DEF ExitSeen, ExitSaves, SlotTypes
  <2>2. UNCHANGED <<native, talk>> /\ (history' = history \/ history' = talk[slot.run])
    BY <1>9 DEF ExitSeen, ExitSaves, rows
  <2> QED
    BY <1>0, <2>1, <2>2 DEF SavedInv, Starting
<1>10. CASE ExitReads \/ ExitWrites \/ ExitRemoves
  <2>1. (slot'.phase \in {"writing", "ended"} /\ slot'.run = slot.run) \/ slot'.phase = "empty"
    BY <1>0, <1>10, SteppedSlot, EmptyTyped DEF ExitReads, ExitWrites, ExitRemoves
  <2>2. UNCHANGED <<history, native, talk>> /\ slot.phase \in {"saved", "writing", "ended"}
    BY <1>10 DEF ExitReads, ExitWrites, ExitRemoves, rows
  <2> QED
    BY <1>0, <2>1, <2>2 DEF SavedInv, Starting
<1>11. CASE Crash
  <2>1. slot'.phase = "empty" /\ talk' = [r \in Run |-> {}] /\ UNCHANGED <<history, native>>
    BY <1>11, EmptyTyped DEF Crash
  <2> QED
    BY <1>0, <2>1 DEF SavedInv, Starting
<1>12. CASE UserStep
  BY <1>1, <1>6, <1>12 DEF UserStep, Refresh, CancelQueued, CancelStops, FollowUpWaits, Edit, Delete, Move,
     Combine, Claim, SteerNew, rows, host
<1>13. CASE HostStep
  BY <1>1, <1>4, <1>7, <1>8, <1>9, <1>10, <1>13 DEF HostStep, CancelWrites, Woken, DrainLists, DrainSkips, RemoveAccepted, rows
<1>14. ASSUME NEW s \in Steer, SteerStep(s)
       PROVE  SavedInv'
  BY <1>1, <1>2, <1>3, <1>14 DEF SteerStep, Gate, HarnessRejects, Release, AnswerLost, rows
<1> QED
  BY <1>1, <1>11, <1>12, <1>13, <1>14 DEF Next, vars, rows, host

\* The row of a message the harness took goes after the message is saved.
LEMMA AcceptedIsSavedKept ==
  ASSUME Inv, [Next]_vars
  PROVE  AcceptedIsSaved'
<1>0. RowTypes /\ RowInv /\ SlotTypes /\ HostInv /\ SteerInv /\ AcceptedIsSaved
  BY DEF Inv, Types
<1>1. history \subseteq history'
  BY SavesOnlyAdd
<1>2. ASSUME UNCHANGED native, \A p \in Pos : entry'[p].by = entry[p].by \/ (entry[p].by = NoSteer) \/ entry[p].by \notin native
                                                \/ entry[p].by \in history'
      PROVE  AcceptedIsSaved'
  BY <1>0, <1>1, <1>2 DEF AcceptedIsSaved, SteerTypes, Inv, Types
<1>3. ASSUME NEW s \in Steer, (\E p \in Pos : Claim(s, p)) \/ \E m \in Message : SteerNew(s, m)
      PROVE  AcceptedIsSaved'
  BY <1>2, <1>3, ClaimedRows DEF Claim, SteerNew
<1>4. ASSUME NEW s \in Steer, Release(s) \/ Accept(s)
      PROVE  AcceptedIsSaved'
  <2>1. PICK p \in Pos : entry[p].by = s /\ \A k \in Pos \ {p} : entry'[k] = entry[k]
    BY <1>4, ReleasedRows
  <2>2. s \notin native \/ s \in history'
    BY <1>0, <1>4 DEF Release, Accept, SteerInv
  <2> QED
    BY <1>2, <1>4, <2>1, <2>2 DEF Release, Accept
<1>5. CASE Reconcile
  <2>1. \A p \in Pos : entry'[p] = entry[p] \/ entry[p].by \in history'
    BY <1>5 DEF Reconcile
  <2> QED
    BY <1>2, <1>5, <2>1 DEF Reconcile
<1>6. CASE HolderQuiet
  <2>1. \A p \in Pos : entry'[p].by = entry[p].by
    BY <1>0, <1>6, HoldersKept
  <2>2. ASSUME NEW s \in Steer, HarnessTakes(s)
        PROVE  AcceptedIsSaved'
    <3>1. native' = native \cup {s} /\ steer[s].pos \in Pos /\ entry[steer[s].pos].by = s
      BY <1>0, <2>2 DEF HarnessTakes, SteerInv, IsOpen
    <3> QED
      BY <1>0, <1>1, <2>1, <3>1 DEF AcceptedIsSaved
  <2>3. CASE UNCHANGED native
    BY <1>2, <2>1, <2>3
  <2>4. UNCHANGED native \/ \E s \in Steer : HarnessTakes(s)
    <3>1. CASE UserStep
      BY <3>1 DEF UserStep, Refresh, CancelQueued, CancelStops, FollowUpWaits, FollowUpStarts, Edit, Delete, Move,
         Combine, Claim, SteerNew
    <3>2. CASE HostStep
      BY <3>2 DEF HostStep, CancelWrites, Reconcile, Begin, ExitSeen, ExitSaves, ExitReads, ExitWrites, ExitRemoves,
         Woken, DrainLists, DrainSkips, DrainDispatches, RemoveAccepted
    <3>3. CASE \E s \in Steer : SteerStep(s)
      BY <3>3 DEF SteerStep, Gate, HarnessRejects, Release, Accept, AnswerLost
    <3> QED
      BY <3>1, <3>2, <3>3 DEF Next, Crash, vars
  <2> QED
    BY <2>2, <2>3, <2>4
<1> QED
  BY <1>3, <1>4, <1>5, <1>6, StepOfHolders

-----------------------------------------------------------------------------
(* Requests of an ended session. *)

\* A request starts to wait with a follow-up, a release or a crash only.
LEMMA PendingShrinks ==
  ASSUME Inv, [Next]_vars
  PROVE  \/ Pending' \subseteq Pending
         \/ \E m \in Message : FollowUpWaits(m)
         \/ \E s \in Steer : Release(s)
         \/ Crash
<1>0. RowTypes /\ RowInv
  BY DEF Inv, Types
<1>1. ASSUME \A p \in Pos : entry'[p].mark = "pending" => entry[p].mark = "pending"
      PROVE  Pending' \subseteq Pending
  BY <1>1 DEF Pending, Marked
<1>2. ASSUME NEW S \in SUBSET Pos, Removal(S)
      PROVE  Pending' \subseteq Pending
  BY <1>0, <1>1, <1>2, RemovalRows, EmptyTyped
<1>3. CASE CancelQueued \/ CancelWrites \/ ExitWrites
  <2>1. Removal(Cancellable) \/ UNCHANGED entry
    BY <1>3 DEF CancelQueued, CancelWrites, ExitWrites, Cleared, Removal
  <2>2. Cancellable \in SUBSET Pos
    BY DEF Cancellable, Pending, Marked
  <2> QED
    BY <1>1, <1>2, <2>1, <2>2
<1>4. ASSUME NEW p \in Pos, Delete(p) \/ RemoveAccepted(p)
      PROVE  Pending' \subseteq Pending
  <2>1. Removal({p})
    BY <1>0, <1>4 DEF Delete, RemoveAccepted, Removal, RowTypes
  <2> QED
    BY <1>2, <2>1
<1>5. ASSUME NEW p \in Pos, Edit(p)
      PROVE  Pending' \subseteq Pending
  BY <1>0, <1>1, <1>5 DEF Edit, Pending, Marked
<1>6. ASSUME NEW p \in Pos, NEW q \in Pos, Move(p, q)
      PROVE  Pending' \subseteq Pending
  <2>1. ASSUME NEW k \in Pos, entry'[k].mark = "pending"
        PROVE  entry[k].mark = "pending"
    <3>1. entry'[k] = entry[k] \/ k \in Span(p, q)
      BY <1>6 DEF Move, Reordered
    <3> QED
      BY <2>1, <3>1 DEF Span, Movable, Pending, Marked
  <2> QED
    BY <1>1, <2>1
<1>7. ASSUME NEW p \in Pos, NEW q \in Pos, Combine(p, q)
      PROVE  Pending' \subseteq Pending
  BY <1>0, <1>1, <1>7, EmptyTyped DEF Combine, RowTypes, Pending, Marked
<1>8. ASSUME NEW s \in Steer, (\E p \in Pos : Claim(s, p)) \/ \E m \in Message : SteerNew(s, m)
      PROVE  Pending' \subseteq Pending
  BY <1>1, <1>8, ClaimedRows
<1>9. ASSUME NEW s \in Steer, Accept(s)
      PROVE  Pending' \subseteq Pending
  BY <1>0, <1>1, <1>9, EmptyTyped DEF Accept, AcceptedRows, RowTypes
<1>10. ASSUME NEW list, DrainDispatches(list)
       PROVE  Pending' \subseteq Pending
  BY <1>0, <1>1, <1>10 DEF DrainDispatches, RowTypes, Rows
<1>11. CASE Reconcile
  BY <1>1, <1>11, EmptyTyped DEF Reconcile
<1>12. CASE UNCHANGED entry
  BY <1>1, <1>12
<1>13. CASE HolderQuiet
  BY <1>3, <1>4, <1>5, <1>6, <1>7, <1>10, <1>12, <1>13 DEF HolderQuiet
<1> QED
  BY <1>8, <1>9, <1>11, <1>13, StepOfHolders

LEMMA StrandedKept ==
  ASSUME Inv, [Next]_vars
  PROVE  NoRequestStranded'
<1>0. RowTypes /\ SlotTypes /\ FateTypes /\ HostInv /\ NoRequestStranded
  BY DEF Inv, Types
<1>1. ASSUME Pending' \subseteq Pending, UNCHANGED <<status, owed, crashes>>
      PROVE  NoRequestStranded'
  BY <1>0, <1>1 DEF NoRequestStranded
<1>2. CASE Crash
  <2>1. crashes' # 0
    BY <1>0, <1>2 DEF Crash, FateTypes
  <2> QED
    BY <2>1 DEF NoRequestStranded
<1>3. ASSUME NEW m \in Message, FollowUpWaits(m)
      PROVE  NoRequestStranded'
  BY <1>3 DEF FollowUpWaits, NoRequestStranded, Requeueable, Ended
<1>4. ASSUME NEW s \in Steer, Release(s)
      PROVE  NoRequestStranded'
  <2>1. slot.phase \in {"live", "closing"} \/ Starting
    BY <1>4, OpenConversation DEF Release, IsOpen
  <2> QED
    BY <1>0, <1>4, <2>1 DEF Release, HostInv, NoRequestStranded, Starting
<1>5. CASE Pending' \subseteq Pending /\ ~Crash
  <2>1. ASSUME status' \notin Requeueable \/ owed' = "release"
        PROVE  NoRequestStranded'
    BY <2>1 DEF NoRequestStranded
  <2>2. CASE \E list \in todo : DrainDispatches(list)
    BY <2>1, <2>2 DEF DrainDispatches, Launch, Requeueable, Ended
  <2>3. CASE CancelWrites
    BY <1>1, <1>5, <2>1, <2>3 DEF CancelWrites
  <2>4. CASE ExitWrites
    BY <2>1, <2>4 DEF ExitWrites
  <2>5. CASE DrainLists
    <3>1. CASE Pending' = {}
      BY <3>1 DEF NoRequestStranded
    <3>2. CASE Pending' # {} /\ owed = "release" /\ status \in Requeueable
      BY <1>5, <2>1, <2>5, <3>2 DEF DrainLists, Requeueable, Ended
    <3>3. CASE Pending' # {} /\ ~(owed = "release" /\ status \in Requeueable)
      <4>1. status' = status /\ crashes' = crashes /\ Pending # {}
        BY <1>5, <2>5, <3>3 DEF DrainLists
      <4> QED
        BY <1>0, <3>3, <4>1 DEF NoRequestStranded
    <3> QED
      BY <3>1, <3>2, <3>3
  <2>6. CASE UserStep
    <3>1. CASE \E m \in Message : FollowUpStarts(m)
      BY <2>1, <3>1 DEF FollowUpStarts, Launch, Requeueable, Ended
    <3>2. CASE CancelQueued
      BY <2>1, <3>2 DEF CancelQueued, Requeueable, Ended
    <3> QED
      BY <1>1, <1>3, <1>5, <2>6, <3>1, <3>2 DEF UserStep, Refresh, CancelStops, Edit, Delete, Move, Combine, Claim,
         SteerNew, rows, host
  <2>7. CASE Woken
    BY <2>1, <2>7 DEF Woken, Requeueable, Ended, rows
  <2>8. CASE HostStep
    BY <1>1, <1>5, <2>2, <2>3, <2>4, <2>5, <2>7, <2>8 DEF HostStep, Reconcile, Begin, ExitSeen, ExitSaves, ExitReads, ExitRemoves,
       DrainSkips, RemoveAccepted, rows, host
  <2>9. ASSUME NEW s \in Steer, SteerStep(s)
        PROVE  NoRequestStranded'
    BY <1>1, <1>5, <2>9 DEF SteerStep, Gate, HarnessTakes, HarnessRejects, Release, Accept, AnswerLost, rows
  <2> QED
    BY <1>1, <1>5, <2>6, <2>8, <2>9 DEF Next, vars, rows, host
<1> QED
  BY <1>2, <1>3, <1>4, <1>5, PendingShrinks

-----------------------------------------------------------------------------
(* The messages in the rows. *)

LEMMA MsgsTyped ==
  ASSUME RowTypes, NEW p \in Pos
  PROVE  /\ Msgs(p) \subseteq Message
         /\ entry[p].mark \in Alive => Msgs(p) = Of(entry[p].texts)
         /\ entry[p].mark \notin Alive => Msgs(p) = {}
BY RowTyped, OfTyped DEF RowTypes, Msgs

\* What a launch carries is in its row, or in no row at all.
LEMMA LaunchedMessages ==
  ASSUME Inv, Starting
  PROVE  /\ slot.pos = 0 => \A m \in Of(slot.texts) : \A p \in Pos : m \notin Msgs(p)
         /\ slot.pos # 0 => slot.pos \in Pos /\ Msgs(slot.pos) = Of(slot.texts) /\ slot.pos \notin accepted
                            /\ entry[slot.pos].mark = "dispatched"
         /\ \A m \in Of(slot.texts) : newest[m] > 0 /\ m \notin dropped /\ m \in Message
<1>0. RowTypes /\ SlotTypes /\ HostInv /\ SentInv /\ MemoryInv
  BY DEF Inv, Types, TextInv
<1>1. slot.pos = 0 => \A m \in Of(slot.texts) : newest[m] > 0 /\ m \notin dropped /\ \A p \in Pos : m \notin Msgs(p)
  BY <1>0 DEF MemoryInv
<1>2. slot.pos # 0 => slot.pos \in Pos /\ Msgs(slot.pos) = Of(slot.texts) /\ slot.pos \notin accepted
                      /\ entry[slot.pos].mark = "dispatched"
  BY <1>0, SlotTyped DEF HostInv, Msgs, Alive, Pos
<1>3. Of(slot.texts) \subseteq Message
  BY <1>0, SlotTyped, OfTyped
<1> QED
  BY <1>0, <1>1, <1>2, <1>3 DEF SentInv

\* Nothing that the text depends on changes.
TextStill ==
  /\ UNCHANGED <<entry, newest, turned, steered, dropped, swept, native, crashes, accepted>>
  /\ UNCHANGED slot \/ (~Starting /\ ~Starting')

LEMMA StillText ==
  ASSUME Inv, TextStill
  PROVE  TextInv'
<1>0. TextInv /\ UNCHANGED <<entry, newest, turned, steered, dropped, swept, native, crashes, accepted>>
  BY DEF Inv, TextStill
<1>1. \A p \in Pos : Msgs(p)' = Msgs(p)
  BY <1>0 DEF Msgs, Of
<1>2. PlaceInv' /\ SentInv' /\ SteeredInv' /\ UnsentInv'
  BY <1>0, <1>1 DEF TextInv, PlaceInv, SentInv, SteeredInv, UnsentInv
<1>3. VersionInv' /\ TurnedInv' /\ MemoryInv' /\ KeptInv'
  <2>1. CASE UNCHANGED slot
    BY <1>0, <1>1, <2>1 DEF TextInv, VersionInv, TurnedInv, MemoryInv, KeptInv, InMemory, Starting, Of
  <2>2. CASE ~Starting /\ ~Starting'
    BY <1>0, <1>1, <2>2 DEF TextInv, VersionInv, TurnedInv, MemoryInv, KeptInv, InMemory, Starting, Of
  <2> QED
    BY <2>1, <2>2 DEF TextStill
<1> QED
  BY <1>2, <1>3 DEF TextInv

\* Rows go whose messages are given up, were delivered, or go with the end of a run.
TextRemoved(S) ==
  /\ Removal(S) /\ UNCHANGED <<newest, turned, steered, native, crashes>>
  /\ UNCHANGED slot \/ (~Starting /\ ~Starting')
  /\ accepted' \subseteq accepted /\ ~(Starting /\ slot.pos \in S)
  /\ dropped \subseteq dropped' /\ \A m \in dropped' \ dropped : \E p \in S : m \in Msgs(p)
  /\ swept \subseteq swept'
  /\ \A p \in S : \A m \in Msgs(p) : m \in dropped' \/ m \in swept' \/ turned[m] > 0 \/ steered[m] > 0

LEMMA RemovedText ==
  ASSUME Inv, NEW S \in SUBSET Pos, TextRemoved(S)
  PROVE  TextInv'
<1>0. RowTypes /\ SlotTypes /\ HostInv /\ TextInv /\ UNCHANGED <<newest, turned, steered, native, crashes>>
  BY DEF Inv, Types, TextRemoved
<1>1. /\ \A p \in Pos \ S : entry'[p] = entry[p] /\ Msgs(p)' = Msgs(p)
      /\ \A p \in S : entry'[p] = Deleted /\ Msgs(p)' = {} /\ entry'[p].mark = "gone"
  BY <1>0, RemovalRows, EmptyTyped DEF TextRemoved
<1>2. \A p \in Pos : \A m \in Msgs(p)' : p \notin S /\ m \in Msgs(p) /\ entry'[p] = entry[p]
  BY <1>1
<1>3. \A p \in Pos \ S : \A m \in Msgs(p) : m \notin dropped'
  BY <1>0 DEF TextRemoved, TextInv, PlaceInv, SentInv
<1>4. PlaceInv' /\ SentInv'
  BY <1>0, <1>2, <1>3 DEF TextInv, PlaceInv, SentInv
<1>5. VersionInv'
  BY <1>0, <1>1 DEF TextInv, VersionInv, Starting, Alive, TextRemoved
<1>6. SteeredInv'
  BY <1>0, <1>2 DEF TextInv, SteeredInv
<1>7. TurnedInv'
  BY <1>0, <1>2 DEF TextInv, TurnedInv, Starting, TextRemoved
<1>8. MemoryInv'
  BY <1>0, <1>2 DEF TextInv, MemoryInv, Starting, TextRemoved
<1>9. UnsentInv'
  BY <1>0 DEF TextInv, UnsentInv, SentInv, TextRemoved
<1>10. KeptInv'
  <2>1. ASSUME NEW m \in Message, newest[m] > 0, NEW p \in Pos, m \in Msgs(p)
        PROVE  (\E k \in Pos : m \in Msgs(k)') \/ turned[m] > 0 \/ steered[m] > 0 \/ m \in dropped' \/ m \in swept'
    BY <1>1, <2>1 DEF TextRemoved
  <2>2. \A m : InMemory(m)' <=> InMemory(m)
    BY DEF InMemory, Starting, TextRemoved
  <2> QED
    BY <1>0, <2>1, <2>2 DEF TextInv, KeptInv, TextRemoved
<1> QED
  BY <1>4, <1>5, <1>6, <1>7, <1>8, <1>9, <1>10 DEF TextInv

\* A row changes between waiting and being held.
TextMarked(p, mark, by) ==
  /\ Marking(p, mark, by) /\ {mark, entry[p].mark} \subseteq {"pending", "held"}
  /\ UNCHANGED <<newest, turned, steered, dropped, swept, native, crashes, slot, accepted>>
  /\ by \in native <=> entry[p].by \in native

LEMMA MarkedText ==
  ASSUME Inv, NEW p \in Pos, NEW mark, NEW by \in Steer \cup {NoSteer}, TextMarked(p, mark, by)
  PROVE  TextInv'
<1>0. /\ RowTypes /\ TextInv
      /\ UNCHANGED <<newest, turned, steered, dropped, swept, native, crashes, slot, accepted>>
      /\ mark \in Alive /\ entry[p].mark \in Alive /\ mark \in Marks
      /\ entry[p].mark # "dispatched" /\ mark # "dispatched"
  BY DEF Inv, Types, TextMarked, Alive, Marks
<1>1. /\ \A q \in Pos \ {p} : entry'[q] = entry[q]
      /\ entry'[p].mark = mark /\ entry'[p].by = by /\ entry'[p].texts = entry[p].texts
      /\ \A q \in Pos : Msgs(q)' = Msgs(q)
  BY <1>0, MarkingRows DEF TextMarked
<1>2. PlaceInv' /\ SentInv' /\ UnsentInv' /\ MemoryInv' /\ KeptInv'
  BY <1>0, <1>1 DEF TextInv, PlaceInv, SentInv, UnsentInv, MemoryInv, KeptInv, InMemory, Starting
<1>3. VersionInv'
  BY <1>0, <1>1 DEF TextInv, VersionInv, Starting
<1>4. SteeredInv'
  BY <1>0, <1>1 DEF TextInv, SteeredInv, TextMarked
<1>5. TurnedInv'
  BY <1>0, <1>1 DEF TextInv, TurnedInv, Starting
<1> QED
  BY <1>2, <1>3, <1>4, <1>5 DEF TextInv

\* A new message gets a row of its own.
TextAdded(m, mark, by) ==
  /\ NewEntry(m, mark, by) /\ by \notin native
  /\ UNCHANGED <<turned, steered, dropped, swept, native, crashes, slot, accepted>>

LEMMA AddedText ==
  ASSUME Inv, NEW m \in Message, NEW mark \in {"pending", "held"}, NEW by \in Steer \cup {NoSteer},
         TextAdded(m, mark, by)
  PROVE  TextInv'
<1> PICK n : n = nextPos
  OBVIOUS
<1>0. /\ RowTypes /\ RowInv /\ SlotTypes /\ FateTypes /\ HostInv /\ TextInv
      /\ UNCHANGED <<turned, steered, dropped, swept, native, crashes, slot, accepted>>
  BY DEF Inv, Types, TextAdded
<1>1. /\ n \in Pos /\ entry[n].mark = "unused" /\ entry'[n] = NewRow(m, mark, by)
      /\ Msgs(n) = {} /\ Msgs(n)' = {m}
      /\ \A p \in Pos \ {n} : entry'[p] = entry[p] /\ Msgs(p)' = Msgs(p)
  BY <1>0, AddingRows, EmptyTyped DEF TextAdded
<1>2. entry'[n].mark = mark /\ entry'[n].by = by /\ entry'[n].texts = {<<m, 1>>}
  BY <1>1 DEF NewRow
<1>3. newest[m] = 0 /\ turned[m] = 0 /\ steered[m] = 0 /\ m \notin dropped
      /\ \A p \in Pos : m \notin Msgs(p)
  BY <1>0 DEF TextAdded, NewEntry, TextInv, UnsentInv, SentInv
<1>4. newest'[m] = 1 /\ \A k \in Message \ {m} : newest'[k] = newest[k]
  BY <1>0 DEF TextAdded, NewEntry, FateTypes
<1>5. ASSUME Starting
      PROVE  n # slot.pos /\ m \notin Of(slot.texts)
  <2>1. \A k \in Of(slot.texts) : newest[k] > 0
    BY <1>5, LaunchedMessages
  <2>2. slot.pos # 0 => entry[slot.pos].mark = "dispatched"
    BY <1>5, LaunchedMessages
  <2>3. n # 0
    BY <1>1 DEF Pos
  <2> QED
    BY <1>1, <1>3, <2>1, <2>2, <2>3
<1>6. n \notin accepted
  BY <1>0, <1>1 DEF HostInv
<1>7. \A p \in Pos : Msgs(p) \subseteq Message
  BY <1>0, MsgsTyped
<1>8. PlaceInv'
  BY <1>0, <1>1, <1>3 DEF TextInv, PlaceInv
<1>9. SentInv'
  BY <1>0, <1>1, <1>3, <1>4, <1>7 DEF TextInv, SentInv
<1>10. VersionInv'
  <2>1. ASSUME NEW p \in Pos, entry'[p].mark \in Alive, NEW t \in entry'[p].texts
        PROVE  t[2] = newest'[t[1]]
    <3>1. CASE p = n
      BY <1>2, <1>4, <2>1, <3>1
    <3>2. CASE p # n
      <4>1. t \in entry[p].texts /\ entry[p].mark \in Alive /\ t[2] = newest[t[1]]
        BY <1>0, <1>1, <2>1, <3>2 DEF TextInv, VersionInv
      <4>2. t[1] \in Msgs(p)
        BY <4>1 DEF Msgs, Of
      <4> QED
        BY <1>3, <1>4, <1>7, <4>1, <4>2
    <3> QED
      BY <3>1, <3>2
  <2>2. ASSUME Starting, NEW t \in slot.texts
        PROVE  t[2] = newest'[t[1]]
    <3>1. t[1] \in Of(slot.texts)
      BY DEF Of
    <3> QED
      BY <1>0, <1>4, <1>5, <2>2, <3>1, LaunchedMessages DEF TextInv, VersionInv
  <2> QED
    BY <1>0, <2>1, <2>2 DEF VersionInv, Starting
<1>11. SteeredInv'
  BY <1>0, <1>1, <1>2, <1>3 DEF TextInv, SteeredInv, TextAdded
<1>12. TurnedInv'
  BY <1>0, <1>1, <1>2, <1>3, <1>6 DEF TextInv, TurnedInv, Starting
<1>13. MemoryInv'
  BY <1>0, <1>1, <1>3, <1>4, <1>5, LaunchedMessages DEF TextInv, MemoryInv, Starting, Of
<1>14. UnsentInv'
  BY <1>0, <1>4 DEF TextInv, UnsentInv
<1>15. KeptInv'
  <2>1. \A k : InMemory(k)' <=> InMemory(k)
    BY <1>0 DEF InMemory, Of
  <2> QED
    BY <1>0, <1>1, <1>4, <2>1 DEF TextInv, KeptInv
<1> QED
  BY <1>8, <1>9, <1>10, <1>11, <1>12, <1>13, <1>14, <1>15 DEF TextInv

\* An edit gives the messages of a row a new version.
LEMMA EditedText ==
  ASSUME Inv, NEW p \in Pos, Edit(p)
  PROVE  TextInv'
<1> DEFINE text == {<<m, newest[m] + 1>> : m \in Of(entry[p].texts)}
<1>0. /\ RowTypes /\ SlotTypes /\ FateTypes /\ HostInv /\ TextInv
      /\ UNCHANGED <<turned, steered, dropped, swept, native, crashes, slot, accepted>>
      /\ entry[p].mark = "pending"
  BY DEF Inv, Types, Edit, host, Pending, Marked
<1>1. entry[p] \in Rows /\ entry' = [entry EXCEPT ![p] = [entry[p] EXCEPT !.texts = text, !.rev = @ + 1]]
  BY <1>0 DEF RowTypes, Edit, Revised
<1>2. /\ entry'[p].mark = "pending" /\ entry'[p].by = entry[p].by /\ entry'[p].texts = text
      /\ \A q \in Pos \ {p} : entry'[q] = entry[q]
  BY <1>0, <1>1 DEF RowTypes, Rows
<1>3. Of(text) = Of(entry[p].texts) /\ Msgs(p) = Of(entry[p].texts)
  <2>1. ASSUME NEW m \in Of(entry[p].texts)
        PROVE  m \in Of(text)
    <3>1. <<m, newest[m] + 1>> \in text /\ <<m, newest[m] + 1>>[1] = m
      OBVIOUS
    <3> HIDE DEF text
    <3> QED
      BY <3>1 DEF Of
  <2>2. ASSUME NEW m \in Of(text)
        PROVE  m \in Of(entry[p].texts)
    <3>1. PICK t \in text : m = t[1]
      BY DEF Of
    <3> QED
      BY <3>1
  <2>3. Of(text) = Of(entry[p].texts)
    BY <2>1, <2>2
  <2>4. Msgs(p) = Of(entry[p].texts)
    BY <1>0 DEF Msgs, Alive
  <2> QED
    BY <2>3, <2>4
<1>4. \A q \in Pos : Msgs(q)' = Msgs(q)
  BY <1>0, <1>2, <1>3 DEF Msgs, Of, Alive
<1>5. \A q \in Pos : Msgs(q) \subseteq Message
  BY <1>0, MsgsTyped
<1>6. /\ \A m \in Msgs(p) : newest'[m] = newest[m] + 1
      /\ \A m \in Message \ Msgs(p) : newest'[m] = newest[m]
  BY <1>0, <1>3, <1>5, CountedTyped DEF Edit, FateTypes
<1>7. \A m \in Message : newest[m] \in Nat
  BY <1>0 DEF FateTypes
<1>8. PlaceInv' /\ SteeredInv' /\ TurnedInv'
  BY <1>0, <1>2, <1>4 DEF TextInv, PlaceInv, SteeredInv, TurnedInv, Starting
<1>9. SentInv'
  <2>1. ASSUME NEW q \in Pos, NEW m \in Msgs(q)
        PROVE  newest'[m] > 0 /\ m \notin dropped
    <3>1. newest[m] > 0 /\ m \notin dropped /\ m \in Message
      BY <1>0, <1>5 DEF TextInv, SentInv
    <3>2. newest'[m] = newest[m] + 1 \/ newest'[m] = newest[m]
      BY <3>1, <1>6
    <3> QED
      BY <3>1, <3>2, <1>7
  <2> QED
    BY <1>0, <1>4, <2>1 DEF SentInv
<1>10. ASSUME Starting
       PROVE  \A m \in Of(slot.texts) : m \in Message /\ newest'[m] = newest[m]
  <2>1. \A m \in Of(slot.texts) : m \in Message /\ m \notin Msgs(p)
    <3>1. CASE slot.pos = 0
      BY <1>10, <3>1, LaunchedMessages
    <3>2. CASE slot.pos # 0
      <4>1. slot.pos \in Pos /\ Msgs(slot.pos) = Of(slot.texts) /\ slot.pos # p
        BY <1>0, <1>10, <3>2, LaunchedMessages
      <4> QED
        BY <1>0, <1>5, <4>1 DEF TextInv, PlaceInv
    <3> QED
      BY <3>1, <3>2
  <2> QED
    BY <1>6, <2>1
<1>11. VersionInv'
  <2>1. ASSUME NEW q \in Pos, entry'[q].mark \in Alive, NEW t \in entry'[q].texts
        PROVE  t[2] = newest'[t[1]]
    <3>1. CASE q = p
      BY <1>2, <1>3, <1>6, <2>1, <3>1
    <3>2. CASE q # p
      <4>1. t \in entry[q].texts /\ entry[q].mark \in Alive /\ t[2] = newest[t[1]]
        BY <1>0, <1>2, <2>1, <3>2 DEF TextInv, VersionInv
      <4>2. t[1] \in Msgs(q)
        BY <4>1 DEF Msgs, Of
      <4>3. t[1] \in Message \ Msgs(p)
        BY <1>0, <1>5, <3>2, <4>2 DEF TextInv, PlaceInv
      <4> QED
        BY <1>6, <4>1, <4>3
    <3> QED
      BY <3>1, <3>2
  <2>2. ASSUME Starting, NEW t \in slot.texts
        PROVE  t[2] = newest'[t[1]]
    <3>1. t[1] \in Of(slot.texts)
      BY DEF Of
    <3> QED
      BY <1>0, <1>10, <2>2, <3>1 DEF TextInv, VersionInv
  <2> QED
    BY <1>0, <2>1, <2>2 DEF VersionInv, Starting
<1>12. MemoryInv'
  BY <1>0, <1>4, <1>10 DEF TextInv, MemoryInv, Starting, Of
<1>13. UnsentInv'
  <2>1. \A m \in Message : newest'[m] = 0 => newest[m] = 0
    BY <1>6, <1>7
  <2> QED
    BY <1>0, <2>1 DEF TextInv, UnsentInv
<1>14. KeptInv'
  <2>1. \A k : InMemory(k)' <=> InMemory(k)
    BY <1>0 DEF InMemory, Of
  <2> QED
    BY <1>0, <1>4, <1>6, <2>1 DEF TextInv, KeptInv
<1> QED
  BY <1>8, <1>9, <1>11, <1>12, <1>13, <1>14 DEF TextInv

\* A move permutes the messages of waiting rows.
LEMMA MovedText ==
  ASSUME Inv, NEW p \in Pos, NEW q \in Pos, Move(p, q)
  PROVE  TextInv'
<1> DEFINE S == Span(p, q)
           from == [k \in Pos |-> IF k \in S THEN SourceOf(p, q)[k] ELSE k]
<1>0. /\ RowTypes /\ RowInv /\ SlotTypes /\ HostInv /\ TextInv
      /\ UNCHANGED <<newest, turned, steered, dropped, swept, native, crashes, slot, accepted>>
  BY DEF Inv, Types, Move, host, fate
<1>1. /\ \A k \in S : SourceOf(p, q)[k] \in S
      /\ \A j, k \in S : SourceOf(p, q)[j] = SourceOf(p, q)[k] => j = k
      /\ \A n \in S : \E k \in S : SourceOf(p, q)[k] = n
  BY MovePermutes DEF Move
<1>2. \A k \in S : k \in Pos /\ entry[k].mark = "pending" /\ entry[k].by = NoSteer
  BY <1>0, HeldBy DEF Span, Movable, Pending, Marked
<1>3. /\ \A k \in Pos : from[k] \in Pos /\ (k \in S <=> from[k] \in S) /\ (k \notin S => from[k] = k)
      /\ \A j, k \in Pos : from[j] = from[k] => j = k
      /\ \A n \in Pos : \E k \in Pos : from[k] = n
  BY <1>1, <1>2
<1>4. ASSUME NEW k \in S
      PROVE  entry'[k].mark = "pending" /\ entry'[k].by = NoSteer /\ entry'[k].texts = entry[from[k]].texts
  <2>1. entry[SourceOf(p, q)[k]] \in Rows
    BY <1>0, <1>1, <1>2 DEF RowTypes
  <2>2. S \in SUBSET Pos /\ CanRevise(S) /\ Revision(S, MovedTexts(p, q), MovedMade(p, q))
    BY <1>2, MoveIsRevision DEF Move
  <2>3. \A j \in S : MovedTexts(p, q)[j] \in Texts /\ MovedMade(p, q)[j] \in 0..MaxPos
    BY <1>0, <1>1, <1>2, RowTyped DEF MovedTexts, MovedMade, RowTypes
  <2>4. entry'[k].mark = entry[k].mark /\ entry'[k].by = entry[k].by /\ entry'[k].texts = MovedTexts(p, q)[k]
    BY <1>0, <2>2, <2>3, RevisionRows
  <2> QED
    BY <1>2, <2>4 DEF MovedTexts
<1>5. \A k \in Pos \ S : entry'[k] = entry[k]
  <2>1. Revision(S, MovedTexts(p, q), MovedMade(p, q))
    BY MoveIsRevision
  <2> HIDE DEF S
  <2> QED
    BY <2>1 DEF Revision
<1> HIDE DEF S, from
<1>6. \A k \in Pos : /\ entry'[k].mark = entry[from[k]].mark /\ entry'[k].by = entry[from[k]].by
                     /\ entry'[k].texts = entry[from[k]].texts /\ Msgs(k)' = Msgs(from[k])
                     /\ entry[from[k]].mark = "dispatched" => from[k] = k
                     /\ k \in accepted => from[k] = k
  <2> TAKE k \in Pos
  <2>1. CASE k \in S
    <3>1. entry[from[k]].mark = "pending" /\ entry[from[k]].by = NoSteer /\ k \notin accepted
      BY <1>0, <1>2, <1>3, <2>1 DEF HostInv
    <3> QED
      BY <1>4, <2>1, <3>1 DEF Msgs, Of, Alive
  <2>2. CASE k \notin S
    BY <1>3, <1>5, <2>2 DEF Msgs, Of
  <2> QED
    BY <2>1, <2>2
<1>7. PlaceInv' /\ SentInv'
  <2>1. ASSUME NEW j \in Pos, NEW k \in Pos, NEW m, m \in Msgs(j)', m \in Msgs(k)'
        PROVE  j = k
    <3>1. m \in Msgs(from[j]) /\ m \in Msgs(from[k]) /\ from[j] \in Pos /\ from[k] \in Pos
      BY <1>3, <1>6, <2>1
    <3>2. from[j] = from[k]
      BY <1>0, <3>1 DEF TextInv, PlaceInv
    <3> QED
      BY <1>3, <3>2
  <2>2. SentInv'
    BY <1>0, <1>3, <1>6 DEF TextInv, SentInv
  <2> QED
    BY <2>1, <2>2 DEF PlaceInv
<1>8. VersionInv'
  BY <1>0, <1>3, <1>6 DEF TextInv, VersionInv, Starting
<1>9. SteeredInv'
  BY <1>0, <1>3, <1>6 DEF TextInv, SteeredInv
<1>10. TurnedInv'
  <2>1. ASSUME Starting
        PROVE  slot.pos \in Pos => entry[slot.pos].mark = "dispatched" /\ from[slot.pos] = slot.pos
    <3>1. slot.pos \in Pos => entry[slot.pos].mark = "dispatched"
      BY <2>1, LaunchedMessages DEF Pos
    <3> QED
      BY <1>2, <1>3, <3>1
  <2> QED
    BY <1>0, <1>3, <1>6, <2>1 DEF TextInv, TurnedInv, Starting
<1>11. MemoryInv'
  BY <1>0, <1>3, <1>6 DEF TextInv, MemoryInv, Starting
<1>12. UnsentInv'
  BY <1>0 DEF TextInv, UnsentInv
<1>13. KeptInv'
  <2>1. \A k : InMemory(k)' <=> InMemory(k)
    BY <1>0 DEF InMemory, Of
  <2>2. \A m : (\E k \in Pos : m \in Msgs(k)) => \E k \in Pos : m \in Msgs(k)'
    BY <1>3, <1>6
  <2> QED
    BY <1>0, <2>1, <2>2 DEF TextInv, KeptInv
<1> QED
  BY <1>7, <1>8, <1>9, <1>10, <1>11, <1>12, <1>13 DEF TextInv

\* A combination brings the messages of two waiting rows together.
LEMMA CombinedText ==
  ASSUME Inv, NEW p \in Pos, NEW q \in Pos, Combine(p, q)
  PROVE  TextInv'
<1>0. /\ RowTypes /\ RowInv /\ SlotTypes /\ HostInv /\ TextInv
      /\ UNCHANGED <<newest, turned, steered, dropped, swept, native, crashes, slot, accepted>>
  BY DEF Inv, Types, Combine, host, fate
<1>1. CombinesRows(p, q) /\ p # q /\ entry[p].mark = "pending" /\ entry[q].mark = "pending"
  BY DEF Combine, CombinesRows, Pending, Marked
<1>2. /\ entry'[p] = Deleted /\ entry'[p].mark = "gone" /\ Msgs(p)' = {}
      /\ entry'[q].mark = "pending" /\ entry'[q].by = entry[q].by
      /\ entry'[q].texts = entry[p].texts \cup entry[q].texts
      /\ Msgs(q)' = Msgs(p) \cup Msgs(q)
      /\ \A k \in Pos \ {p, q} : entry'[k] = entry[k] /\ Msgs(k)' = Msgs(k)
  BY <1>0, <1>1, CombiningRows, EmptyTyped
<1>3. entry[p].by = NoSteer /\ entry[q].by = NoSteer /\ p \notin accepted /\ q \notin accepted
  BY <1>0, <1>1, HeldBy DEF HostInv
<1>4. \A k \in Pos : \A m \in Msgs(k)' : \/ k \notin {p, q} /\ m \in Msgs(k) /\ entry'[k] = entry[k]
                                         \/ k = q /\ (m \in Msgs(p) \/ m \in Msgs(q))
  BY <1>2
<1>5. PlaceInv' /\ SentInv'
  BY <1>0, <1>4 DEF TextInv, PlaceInv, SentInv
<1>6. VersionInv'
  BY <1>0, <1>1, <1>2 DEF TextInv, VersionInv, Starting, Alive
<1>7. SteeredInv'
  BY <1>0, <1>2, <1>3, <1>4 DEF TextInv, SteeredInv
<1>8. TurnedInv'
  <2>1. Starting => slot.pos \notin {p, q}
    BY <1>1, LaunchedMessages DEF Pos
  <2> QED
    BY <1>0, <1>1, <1>2, <1>3, <1>4, <2>1 DEF TextInv, TurnedInv, Starting
<1>9. MemoryInv' /\ UnsentInv'
  BY <1>0, <1>4 DEF TextInv, MemoryInv, UnsentInv, Starting
<1>10. KeptInv'
  <2>1. \A k : InMemory(k)' <=> InMemory(k)
    BY <1>0 DEF InMemory, Of
  <2>2. \A m : (\E k \in Pos : m \in Msgs(k)) => \E k \in Pos : m \in Msgs(k)'
    BY <1>2
  <2> QED
    BY <1>0, <2>1, <2>2 DEF TextInv, KeptInv
<1> QED
  BY <1>5, <1>6, <1>7, <1>8, <1>9, <1>10 DEF TextInv

\* A follow-up of an ended session is launched straight away.
LEMMA StartedText ==
  ASSUME Inv, NEW m \in Message, FollowUpStarts(m)
  PROVE  TextInv'
<1>0. /\ RowTypes /\ SlotTypes /\ FateTypes /\ HostInv /\ TextInv /\ ~Starting
      /\ UNCHANGED <<entry, turned, steered, dropped, swept, native, crashes, accepted>>
  BY DEF Inv, Types, FollowUpStarts, HostInv, Ended
<1>1. slot'.phase = "starting" /\ slot'.pos = 0 /\ slot'.texts = {<<m, 1>>}
  <2>1. {<<m, 1>>} \in Texts /\ 0 \in 0..MaxPos
    BY DEF Texts
  <2> QED
    BY <1>0, <2>1, LaunchedSlot DEF FollowUpStarts
<1>2. newest[m] = 0 /\ newest'[m] = 1 /\ \A k \in Message \ {m} : newest'[k] = newest[k]
  BY <1>0 DEF FollowUpStarts, FateTypes
<1>3. turned[m] = 0 /\ steered[m] = 0 /\ m \notin dropped /\ \A p \in Pos : m \notin Msgs(p)
  BY <1>0, <1>2 DEF TextInv, UnsentInv, SentInv
<1>4. \A p \in Pos : Msgs(p)' = Msgs(p) /\ Msgs(p) \subseteq Message
  BY <1>0, MsgsTyped DEF Msgs, Of
<1>5. \A k : k \in Of(slot'.texts) <=> k = m
  BY <1>1 DEF Of
<1>6. PlaceInv' /\ SteeredInv'
  BY <1>0, <1>4 DEF TextInv, PlaceInv, SteeredInv
<1>7. SentInv'
  BY <1>0, <1>2, <1>3, <1>4 DEF TextInv, SentInv
<1>8. VersionInv'
  <2>1. ASSUME NEW p \in Pos, entry[p].mark \in Alive, NEW t \in entry[p].texts
        PROVE  t[2] = newest'[t[1]]
    <3>1. t[1] \in Msgs(p) /\ t[2] = newest[t[1]]
      BY <1>0, <2>1 DEF TextInv, VersionInv, Msgs, Of
    <3> QED
      BY <1>2, <1>3, <1>4, <3>1
  <2> QED
    BY <1>0, <1>1, <1>2, <2>1 DEF VersionInv
<1>9. TurnedInv'
  BY <1>0, <1>1, <1>4 DEF TextInv, TurnedInv, Pos
<1>10. MemoryInv'
  <2>1. \A k \in Of(slot'.texts) : /\ turned[k] = 0 /\ steered[k] = 0 /\ newest'[k] > 0 /\ k \notin dropped
                                   /\ \A p \in Pos : k \notin Msgs(p)
    BY <1>2, <1>3, <1>5
  <2> QED
    BY <1>0, <1>4, <2>1 DEF MemoryInv, Of
<1>11. UnsentInv'
  BY <1>0, <1>2 DEF TextInv, UnsentInv
<1>12. KeptInv'
  <2>1. InMemory(m)'
    BY <1>1, <1>5 DEF InMemory, Of
  <2>2. \A k : ~InMemory(k)
    BY <1>0 DEF InMemory, Starting
  <2> QED
    BY <1>0, <1>2, <1>4, <2>1, <2>2 DEF TextInv, KeptInv
<1> QED
  BY <1>6, <1>7, <1>8, <1>9, <1>10, <1>11, <1>12 DEF TextInv

\* A dispatch launches what its row says.
LEMMA DispatchedText ==
  ASSUME Inv, NEW list, DrainDispatches(list)
  PROVE  TextInv'
<1> DEFINE p == Head(list).pos
<1>0. /\ RowTypes /\ RowInv /\ SlotTypes /\ FateTypes /\ HostInv /\ TextInv /\ ~Starting
      /\ UNCHANGED <<newest, turned, steered, dropped, swept, native, crashes, accepted>>
  BY DEF Inv, Types, DrainDispatches, Dispatchable, HostInv, fate
<1>1. p \in Pos /\ entry[p].mark = "pending" /\ entry[p].by = NoSteer /\ entry[p] \in Rows /\ entry[p].texts \in Texts
  BY <1>0, HeldBy, RowTyped DEF DrainDispatches, Dispatchable, Pending, Marked, RowTypes
<1>2. slot'.phase = "starting" /\ slot'.pos = p /\ slot'.texts = entry[p].texts
  <2>1. p \in 0..MaxPos
    BY <1>1 DEF Pos
  <2> QED
    BY <1>0, <1>1, <2>1, LaunchedSlot DEF DrainDispatches, Saved
<1>3. entry' = [entry EXCEPT ![p].mark = "dispatched"]
  BY DEF DrainDispatches
<1> HIDE DEF p
<1>4. /\ entry'[p].mark = "dispatched" /\ entry'[p].by = NoSteer /\ entry'[p].texts = entry[p].texts
      /\ \A q \in Pos \ {p} : entry'[q] = entry[q]
  BY <1>0, <1>1, <1>3 DEF RowTypes, Rows
<1>5. \A q \in Pos : Msgs(q)' = Msgs(q)
  BY <1>1, <1>4 DEF Msgs, Of, Alive
<1>6. p \notin accepted
  BY <1>0, <1>1 DEF HostInv
<1>7. PlaceInv' /\ SentInv' /\ UnsentInv'
  BY <1>0, <1>5 DEF TextInv, PlaceInv, SentInv, UnsentInv
<1>8. VersionInv'
  BY <1>0, <1>1, <1>2, <1>4 DEF TextInv, VersionInv, Alive
<1>9. SteeredInv'
  BY <1>0, <1>1, <1>4, <1>5 DEF TextInv, SteeredInv
<1>10. TurnedInv'
  <2>1. ASSUME NEW q \in Pos, NEW m \in Msgs(q)
        PROVE  /\ entry'[q].mark # "dispatched" \/ q = p => turned[m] = 0 \/ crashes > 0
               /\ q \in accepted => turned[m] > 0
    BY <1>0, <1>1, <1>4, <1>6 DEF TextInv, TurnedInv
  <2> QED
    BY <1>0, <1>2, <1>5, <2>1 DEF TurnedInv, Starting
<1>11. MemoryInv'
  BY <1>1, <1>2 DEF MemoryInv, Pos
<1>12. KeptInv'
  <2>1. \A k : ~InMemory(k)
    BY <1>0 DEF InMemory, Starting
  <2> QED
    BY <1>0, <1>5, <2>1 DEF TextInv, KeptInv
<1> QED
  BY <1>7, <1>8, <1>9, <1>10, <1>11, <1>12 DEF TextInv

\* A run begins with the messages of its launch.
LEMMA BegunText ==
  ASSUME Inv, Begin
  PROVE  TextInv'
<1>0. /\ RowTypes /\ SlotTypes /\ FateTypes /\ HostInv /\ TextInv /\ Starting
      /\ UNCHANGED <<entry, newest, steered, dropped, swept, native, crashes>>
      /\ accepted' = accepted \cup ({slot.pos} \ {0})
  BY DEF Inv, Types, Begin, Starting
<1>1. slot'.phase = "live"
  BY <1>0, BegunSlot
<1>2. \A p \in Pos : Msgs(p)' = Msgs(p) /\ Msgs(p) \subseteq Message
  BY <1>0, MsgsTyped DEF Msgs, Of
<1>3. /\ \A m \in Message : turned[m] \in Nat /\ turned'[m] \in Nat
      /\ \A m \in Of(slot.texts) : m \in Message /\ turned'[m] = turned[m] + 1
      /\ \A m \in Message \ Of(slot.texts) : turned'[m] = turned[m]
  BY <1>0, CountedTyped, LaunchedMessages DEF Begin, FateTypes
<1>4. PlaceInv' /\ SentInv' /\ SteeredInv'
  BY <1>0, <1>2 DEF TextInv, PlaceInv, SentInv, SteeredInv
<1>5. VersionInv' /\ MemoryInv'
  BY <1>0, <1>1 DEF TextInv, VersionInv, MemoryInv, Starting
<1>6. TurnedInv'
  <2>1. ASSUME NEW p \in Pos, NEW m \in Msgs(p), entry[p].mark # "dispatched"
        PROVE  turned'[m] = 0 \/ crashes > 0
    <3>1. m \notin Of(slot.texts)
      <4>1. CASE slot.pos = 0
        BY <1>0, <4>1, LaunchedMessages
      <4>2. CASE slot.pos # 0
        <5>1. slot.pos \in Pos /\ Msgs(slot.pos) = Of(slot.texts) /\ slot.pos # p
          BY <1>0, <2>1, <4>2, LaunchedMessages
        <5> QED
          BY <1>0, <5>1 DEF TextInv, PlaceInv
      <4> QED
        BY <4>1, <4>2
    <3> QED
      BY <1>0, <1>2, <1>3, <2>1, <3>1 DEF TextInv, TurnedInv
  <2>2. ASSUME NEW p \in Pos, NEW m \in Msgs(p), p \in accepted'
        PROVE  turned'[m] > 0
    <3>1. CASE p \in accepted
      <4>1. turned[m] > 0 /\ m \in Message
        BY <1>0, <1>2, <3>1 DEF TextInv, TurnedInv
      <4>2. turned'[m] = turned[m] + 1 \/ turned'[m] = turned[m]
        BY <1>3, <4>1
      <4> QED
        BY <1>3, <4>1, <4>2
    <3>2. CASE p = slot.pos /\ slot.pos # 0
      <4>1. m \in Of(slot.texts)
        BY <1>0, <3>2, LaunchedMessages
      <4> QED
        BY <1>3, <4>1
    <3> QED
      BY <1>0, <2>2, <3>1, <3>2
  <2> QED
    BY <1>0, <1>1, <1>2, <2>1, <2>2 DEF TurnedInv, Starting
<1>7. UnsentInv'
  <2>1. \A m \in Message : newest[m] = 0 => m \notin Of(slot.texts)
    BY <1>0, LaunchedMessages
  <2> QED
    BY <1>0, <1>3, <2>1 DEF TextInv, UnsentInv
<1>8. KeptInv'
  <2>1. \A m \in Message : turned[m] > 0 => turned'[m] > 0
    <3> TAKE m \in Message
    <3>1. turned'[m] = turned[m] + 1 \/ turned'[m] = turned[m]
      BY <1>3
    <3> QED
      BY <1>3, <3>1
  <2>2. \A m \in Message : InMemory(m) => turned'[m] > 0
    BY <1>3 DEF InMemory
  <2> QED
    BY <1>0, <1>2, <2>1, <2>2 DEF TextInv, KeptInv
<1> QED
  BY <1>4, <1>5, <1>6, <1>7, <1>8 DEF TextInv

\* The harness takes the messages of a held row.
LEMMA TakenText ==
  ASSUME Inv, NEW s \in Steer, HarnessTakes(s)
  PROVE  TextInv'
<1>0. /\ RowTypes /\ RowInv /\ SlotTypes /\ FateTypes /\ HostInv /\ SteerInv /\ TextInv /\ IsOpen(s) /\ s \notin native
      /\ UNCHANGED <<entry, newest, turned, dropped, swept, crashes, accepted, slot>> /\ native' = native \cup {s}
      /\ ~Starting
  BY DEF Inv, Types, HarnessTakes, SteerInv, IsOpen, rows, Starting
<1>1. PICK p \in Pos : p = steer[s].pos /\ entry[p].by = s /\ entry[p].mark = "held"
  BY <1>0 DEF SteerInv, RowInv
<1>2. \A q \in Pos : Msgs(q)' = Msgs(q) /\ Msgs(q) \subseteq Message
  BY <1>0, MsgsTyped DEF Msgs, Of
<1>3. Msgs(p) = Of(entry[p].texts)
  BY <1>1 DEF Msgs, Alive
<1>4. /\ \A m \in Message : steered[m] \in Nat
      /\ \A m \in Msgs(p) : steered'[m] = steered[m] + 1
      /\ \A m \in Message \ Msgs(p) : steered'[m] = steered[m]
  BY <1>0, <1>1, <1>2, <1>3, CountedTyped DEF HarnessTakes, FateTypes
<1>5. \A q \in Pos \ {p} : /\ entry[q].by \in native' <=> entry[q].by \in native
                           /\ \A m \in Msgs(q) : m \notin Msgs(p)
  BY <1>0, <1>1 DEF SteerInv, TextInv, PlaceInv
<1>6. PlaceInv' /\ SentInv'
  BY <1>0, <1>2 DEF TextInv, PlaceInv, SentInv
<1>7. VersionInv' /\ MemoryInv'
  BY <1>0 DEF TextInv, VersionInv, MemoryInv, Starting
<1>8. TurnedInv'
  BY <1>0, <1>2 DEF TextInv, TurnedInv, Starting
<1>9. SteeredInv'
  <2>1. ASSUME NEW q \in Pos, NEW m \in Msgs(q)
        PROVE  steered'[m] > 0 <=> entry[q].by \in native'
    <3>1. CASE q = p
      BY <1>0, <1>1, <1>2, <1>4, <3>1
    <3>2. CASE q # p
      BY <1>0, <1>2, <1>4, <1>5, <3>2 DEF TextInv, SteeredInv
    <3> QED
      BY <3>1, <3>2
  <2> QED
    BY <1>0, <1>2, <2>1 DEF SteeredInv
<1>10. UnsentInv'
  <2>1. \A m \in Message : newest[m] = 0 => m \notin Msgs(p)
    BY <1>0 DEF TextInv, SentInv
  <2> QED
    BY <1>0, <1>4, <2>1 DEF TextInv, UnsentInv
<1>11. KeptInv'
  <2>1. \A m \in Message : steered[m] > 0 => steered'[m] > 0
    BY <1>4
  <2>2. \A k : ~InMemory(k)
    BY <1>0 DEF InMemory, Starting
  <2> QED
    BY <1>0, <1>2, <2>1, <2>2 DEF TextInv, KeptInv
<1> QED
  BY <1>6, <1>7, <1>8, <1>9, <1>10, <1>11 DEF TextInv

\* A crash takes what was only in memory; a dispatched row waits again.
LEMMA CrashedText ==
  ASSUME Inv, Crash
  PROVE  TextInv'
<1>0. /\ RowTypes /\ RowInv /\ SlotTypes /\ FateTypes /\ HostInv /\ TextInv
      /\ UNCHANGED <<newest, turned, steered, swept, native>> /\ accepted' = {} /\ crashes' > 0 /\ slot'.phase = "empty"
      /\ dropped' = IF Starting /\ slot.pos = 0 THEN dropped \cup Of(slot.texts) ELSE dropped
  BY EmptyTyped DEF Inv, Types, Crash, FateTypes, Starting
<1>1. \A p \in Pos : entry'[p].by = entry[p].by
  BY <1>0, HoldersKept DEF HolderQuiet
<1>2. \A p \in Pos : /\ entry'[p].texts = entry[p].texts
                     /\ entry'[p].mark = entry[p].mark \/ {entry'[p].mark, entry[p].mark} \subseteq Alive
  <2>1. ASSUME NEW k \in Marked("dispatched"), entry' = [entry EXCEPT ![k].mark = "pending"], NEW p \in Pos
        PROVE  /\ entry'[p].texts = entry[p].texts
               /\ entry'[p].mark = entry[p].mark \/ {entry'[p].mark, entry[p].mark} \subseteq Alive
    BY <1>0, <2>1 DEF Marked, RowTypes, Rows, Alive
  <2> QED
    BY <2>1 DEF Crash
<1>3. \A p \in Pos : Msgs(p)' = Msgs(p) /\ (entry'[p].mark \in Alive <=> entry[p].mark \in Alive)
  BY <1>2 DEF Msgs, Of
<1>4. PlaceInv' /\ SteeredInv'
  BY <1>0, <1>1, <1>3 DEF TextInv, PlaceInv, SteeredInv
<1>5. SentInv'
  BY <1>0, <1>3, LaunchedMessages DEF TextInv, SentInv
<1>6. VersionInv' /\ TurnedInv' /\ MemoryInv'
  BY <1>0, <1>2, <1>3 DEF TextInv, VersionInv, TurnedInv, MemoryInv, Starting
<1>7. UnsentInv'
  BY <1>0, LaunchedMessages DEF TextInv, UnsentInv
<1>8. KeptInv'
  <2>1. \A m : InMemory(m) => m \in dropped'
    BY <1>0 DEF InMemory, Starting
  <2> QED
    BY <1>0, <1>3, <2>1 DEF TextInv, KeptInv
<1> QED
  BY <1>4, <1>5, <1>6, <1>7, <1>8 DEF TextInv

\* The steps that delete rows give their messages up, or follow their delivery.
LEMMA CancelledText ==
  ASSUME Inv, Removal(Cancellable),
         \/ dropped' = dropped \cup Of(TextsAt(Cancellable)) /\ UNCHANGED swept
         \/ swept' = swept \cup Of(TextsAt(Cancellable)) /\ UNCHANGED dropped,
         UNCHANGED <<newest, turned, steered, native, crashes, accepted>>, ~Starting,
         UNCHANGED slot \/ ~Starting'
  PROVE  TextInv'
<1>1. Cancellable \in SUBSET Pos /\ \A p \in Cancellable : entry[p].mark \in Alive
  BY DEF Cancellable, Pending, Marked, Alive
<1>2. \A p \in Cancellable : Msgs(p) = Of(entry[p].texts)
  BY <1>1 DEF Msgs
<1>3. \A m : m \in Of(TextsAt(Cancellable)) <=> \E p \in Cancellable : m \in Of(entry[p].texts)
  BY DEF Of, TextsAt
<1>4. TextRemoved(Cancellable)
  BY <1>2, <1>3 DEF TextRemoved
<1> QED
  BY <1>1, <1>4, RemovedText

LEMMA DeletedText ==
  ASSUME Inv, NEW p \in Pos, Delete(p)
  PROVE  TextInv'
<1>1. RowTypes /\ HostInv /\ entry[p].mark = "pending"
  BY DEF Inv, Types, Delete, Pending, Marked
<1>2. Removal({p}) /\ Msgs(p) = Of(entry[p].texts)
  BY <1>1 DEF Delete, Removal, RowTypes, Msgs, Alive
<1>3. ~(Starting /\ slot.pos \in {p})
  BY <1>1 DEF HostInv, Pos
<1>4. TextRemoved({p})
  BY <1>2, <1>3 DEF TextRemoved, Delete, host
<1> QED
  BY <1>4, RemovedText

LEMMA RemovedAcceptedText ==
  ASSUME Inv, NEW p \in Pos, RemoveAccepted(p)
  PROVE  TextInv'
<1>1. RowTypes /\ HostInv /\ TextInv
  BY DEF Inv, Types
<1>2. Removal({p}) /\ accepted' \subseteq accepted
  BY <1>1 DEF RemoveAccepted, Removal, RowTypes
<1>3. ~(Starting /\ slot.pos \in {p})
  BY <1>1 DEF HostInv, RemoveAccepted, Pos
<1>4. \A m \in Msgs(p) : turned[m] > 0
  BY <1>1 DEF TextInv, TurnedInv, RemoveAccepted
<1>5. TextRemoved({p})
  BY <1>2, <1>3, <1>4 DEF TextRemoved, RemoveAccepted, fate
<1> QED
  BY <1>5, RemovedText

LEMMA AcceptedText ==
  ASSUME Inv, NEW s \in Steer, Accept(s)
  PROVE  TextInv'
<1>1. RowTypes /\ HostInv /\ SavedInv /\ TextInv
  BY DEF Inv, Types
<1>2. PICK p \in Pos : p = steer[s].pos /\ entry[p].by = s /\ entry[p].mark = "held"
  BY ReleasedRows
<1>3. Removal({p})
  BY <1>1, <1>2 DEF Accept, AcceptedRows, Removal, RowTypes
<1>4. ~(Starting /\ slot.pos \in {p})
  BY <1>1, <1>2 DEF HostInv, Pos
<1>5. s \in native
  BY OpenConversation DEF Accept, IsOpen
<1>6. \A m \in Msgs(p) : steered[m] > 0
  BY <1>1, <1>2, <1>5 DEF TextInv, SteeredInv
<1>7. TextRemoved({p})
  BY <1>3, <1>4, <1>6 DEF TextRemoved, Accept, fate
<1> QED
  BY <1>7, RemovedText

LEMMA ReconciledText ==
  ASSUME Inv, Reconcile
  PROVE  TextInv'
<1>1. RowTypes /\ SavedInv /\ TextInv
  BY DEF Inv, Types
<1>2. PICK messages \in Loaded(history) :
        entry' = [p \in Pos |-> IF p \in {k \in Marked("held") : entry[k].by \in messages} THEN Deleted ELSE entry[p]]
  BY DEF Reconcile
<1> DEFINE S == {k \in Marked("held") : entry[k].by \in messages}
<1>3. Removal(S) /\ S \in SUBSET Pos
  BY <1>2 DEF Removal, Marked
<1>4. \A p \in S : p \in Pos /\ entry[p].by \in native
  BY <1>1 DEF SavedInv, Loaded, Marked
<1>5. \A p \in S : \A m \in Msgs(p) : steered[m] > 0
  BY <1>1, <1>4 DEF TextInv, SteeredInv
<1> HIDE DEF S
<1>6. TextRemoved(S)
  BY <1>3, <1>5 DEF TextRemoved, Reconcile, host, fate, Starting
<1> QED
  BY <1>3, <1>6, RemovedText

LEMMA ReleasedText ==
  ASSUME Inv, NEW s \in Steer, Release(s)
  PROVE  TextInv'
<1>1. RowTypes /\ HostInv /\ SteerInv /\ TextInv
  BY DEF Inv, Types
<1>2. PICK p \in Pos : p = steer[s].pos /\ entry[p].by = s /\ entry[p].mark = "held"
  BY ReleasedRows
<1>3. s \notin native /\ NoSteer \notin native
  <2>1. native \subseteq Steer
    BY DEF Inv, Types, SteerTypes
  <2> QED
    BY <1>1, <2>1 DEF Release, SteerInv
<1>4. CASE steer[s].fresh
  <2>1. Removal({p}) /\ Msgs(p) = Of(entry[p].texts)
    BY <1>1, <1>2, <1>4 DEF Release, Removal, RowTypes, Msgs, Alive
  <2>2. ~(Starting /\ slot.pos \in {p})
    BY <1>1, <1>2 DEF HostInv, Pos
  <2>3. TextRemoved({p})
    BY <1>2, <1>4, <2>1, <2>2 DEF TextRemoved, Release
  <2> QED
    BY <2>3, RemovedText
<1>5. CASE ~steer[s].fresh
  <2>1. Marking(p, "pending", NoSteer)
    BY <1>1, <1>2, <1>5 DEF Release, Marking, RowTypes
  <2>2. TextMarked(p, "pending", NoSteer)
    BY <1>2, <1>3, <1>5, <2>1 DEF TextMarked, Release
  <2> QED
    BY <2>2, MarkedText
<1> QED
  BY <1>4, <1>5

LEMMA ClaimedText ==
  ASSUME Inv, NEW s \in Steer, NEW p \in Pos, Claim(s, p)
  PROVE  TextInv'
<1>1. RowTypes /\ RowInv /\ SteerInv /\ entry[p].mark = "pending"
  BY DEF Inv, Types, Claim, Pending, Marked
<1>2. s \notin native /\ NoSteer \notin native /\ entry[p].by = NoSteer
  <2>1. native \subseteq Steer
    BY DEF Inv, Types, SteerTypes
  <2> QED
    BY <1>1, <2>1, HeldBy DEF Claim, SteerInv
<1>3. Marking(p, "held", s)
  BY <1>1 DEF Claim, Marking, RowTypes
<1>4. TextMarked(p, "held", s)
  BY <1>1, <1>2, <1>3 DEF TextMarked, Claim, fate
<1> QED
  BY <1>4, MarkedText

LEMMA TextInvKept ==
  ASSUME Inv, [Next]_vars
  PROVE  TextInv'
<1>0. SlotTypes /\ HostInv /\ SteerInv /\ SteerTypes
  BY DEF Inv, Types
<1>1. CASE UNCHANGED <<entry, fate, native, crashes, accepted, slot>>
  BY <1>1, StillText DEF TextStill, fate
<1>2. CASE CancelQueued
  BY <1>0, <1>2, CancelledText DEF CancelQueued, Cleared, Removal, host, HostInv
<1>3. CASE CancelWrites
  <2>1. run = cancelling => ~Starting
    BY <1>0 DEF HostInv, SlotTypes, Run
  <2>2. CASE run = cancelling /\ slot.run \in {0, cancelling}
    BY <1>3, <2>1, <2>2, CancelledText DEF CancelWrites, Cleared, Removal
  <2>3. CASE ~(run = cancelling /\ slot.run \in {0, cancelling})
    BY <1>1, <1>3, <2>3 DEF CancelWrites, fate
  <2> QED
    BY <2>2, <2>3
<1>4. ASSUME NEW m \in Message, FollowUpWaits(m)
      PROVE  TextInv'
  <2>1. NoSteer \notin native
    BY <1>0 DEF SteerTypes
  <2>2. TextAdded(m, "pending", NoSteer)
    BY <1>4, <2>1 DEF FollowUpWaits, TextAdded, host
  <2> QED
    BY <2>2, AddedText
<1>5. ASSUME NEW s \in Steer, NEW m \in Message, SteerNew(s, m)
      PROVE  TextInv'
  <2>1. TextAdded(m, "held", s)
    BY <1>0, <1>5 DEF SteerNew, TextAdded, SteerInv
  <2> QED
    BY <2>1, AddedText
<1>6. CASE ExitSeen \/ ExitSaves \/ ExitReads \/ (ExitWrites /\ status # "queued") \/ ExitRemoves
  <2>1. UNCHANGED <<entry, newest, turned, steered, dropped, swept, native, crashes, accepted>> /\ ~Starting
    BY <1>6 DEF ExitSeen, ExitSaves, ExitReads, ExitWrites, ExitRemoves, rows, fate, Starting
  <2>2. ~Starting'
    BY <1>0, <1>6, SteppedSlot, EmptyTyped DEF ExitSeen, ExitSaves, ExitReads, ExitWrites, ExitRemoves, Starting
  <2> QED
    BY <2>1, <2>2, StillText DEF TextStill
<1>11. CASE ExitWrites /\ status = "queued"
  <2>1. Removal(Cancellable) /\ swept' = swept \cup Of(TextsAt(Cancellable)) /\ ~Starting
        /\ UNCHANGED <<newest, turned, steered, dropped, native, crashes, accepted>>
    BY <1>11 DEF ExitWrites, Cleared, Removal, Starting
  <2>2. ~Starting'
    BY <1>0, <1>11, SteppedSlot DEF ExitWrites, Starting
  <2> QED
    BY <2>1, <2>2, CancelledText
<1>7. CASE UserStep
  <2>1. CASE Refresh \/ CancelStops
    BY <1>1, <2>1 DEF Refresh, CancelStops, rows, host
  <2> QED
    BY <1>2, <1>4, <1>5, <1>7, <2>1, StartedText, EditedText, DeletedText, MovedText, CombinedText, ClaimedText DEF UserStep
<1>8. ASSUME NEW s \in Steer, SteerStep(s)
      PROVE  TextInv'
  <2>1. CASE Gate(s) \/ HarnessRejects(s) \/ AnswerLost(s)
    BY <1>1, <2>1 DEF Gate, HarnessRejects, AnswerLost, rows
  <2> QED
    BY <1>8, <2>1, TakenText, ReleasedText, AcceptedText DEF SteerStep
<1>9. CASE HostStep
  <2>1. CASE Woken \/ DrainLists \/ \E list \in todo : DrainSkips(list)
    BY <1>1, <2>1 DEF Woken, DrainLists, DrainSkips, rows
  <2> QED
    BY <1>3, <1>6, <1>9, <1>11, <2>1, ReconciledText, BegunText, DispatchedText, RemovedAcceptedText DEF HostStep
<1>10. CASE UNCHANGED vars
  BY <1>1, <1>10 DEF vars, rows, host
<1> QED
  BY <1>7, <1>8, <1>9, <1>10, CrashedText DEF Next

-----------------------------------------------------------------------------
(* The theorems. *)

LEMMA InitInv ==
  ASSUME Init
  PROVE  Inv
<1>1. /\ \A p \in Pos : entry[p] = NoEntry /\ Msgs(p) = {}
      /\ entry \in [Pos -> Rows] /\ ~Starting
  BY EmptyTyped DEF Init, Msgs, Alive, Starting
<1>2. slot.phase = "live" /\ slot.run = 1 /\ slot \in Slots
  <2>1. 1 \in 0..MaxRuns
    OBVIOUS
  <2>2. slot = [EmptySlot EXCEPT !.phase = "live", !.run = 1]
    BY DEF Init
  <2> QED
    BY <2>1, <2>2, EmptyTyped DEF Slots
<1>3. Types
  <2>1. RowTypes
    BY <1>1 DEF Init, RowTypes
  <2>2. SlotTypes
    BY <1>2 DEF Init, SlotTypes, Run, Statuses
  <2>3. SteerTypes /\ FateTypes
    BY EmptyTyped DEF Init, SteerTypes, FateTypes
  <2>4. [rev |-> 0, texts |-> {}] \in [rev: 0..MaxRevision, texts: Texts]
    BY DEF Texts
  <2>5. ShownTypes
    BY <2>4 DEF Init, ShownTypes
  <2> QED
    BY <2>1, <2>2, <2>3, <2>5 DEF Types
<1>4. RowInv /\ ShownInv
  BY <1>1, EmptyTyped DEF Init, RowInv, ShownInv, Alive
<1>5. HostInv
  BY <1>1, <1>2 DEF Init, HostInv, Requeueable, Ended
<1>6. SteerInv
  BY <1>1, EmptyTyped DEF Init, SteerInv, IsOpen
<1>7. SavedInv /\ AcceptedIsSaved
  BY <1>1 DEF Init, SavedInv, AcceptedIsSaved
<1>8. TextInv
  BY <1>1, EmptyTyped DEF Init, TextInv, PlaceInv, SentInv, VersionInv, SteeredInv, TurnedInv, MemoryInv, UnsentInv,
     KeptInv, Alive
<1>9. NoRequestStranded
  BY DEF Init, NoRequestStranded, Requeueable, Ended
<1>10. StopInv
  BY DEF Init, StopInv
<1> QED
  BY <1>3, <1>4, <1>5, <1>6, <1>7, <1>8, <1>9, <1>10 DEF Inv

LEMMA InvKept ==
  ASSUME Inv, [Next]_vars
  PROVE  Inv'
<1>1. RowTypes' /\ RowInv'
  BY StepOfRows, RowsKept DEF Inv, Types
<1> QED
  BY <1>1, SlotTypesKept, SteerTypesKept, FateTypesKept, ShownTypesKept, HostInvKept, StopInvKept, SteerInvKept, SavedInvKept,
     TextInvKept, AcceptedIsSavedKept, StrandedKept DEF Inv, Types

LEMMA InvAlways == Spec => []Inv
<1>1. Inv /\ [Next]_vars => Inv'
  BY InvKept
<1> QED
  BY InitInv, <1>1, PTL DEF Spec

\* A message entrusted to the queue waits in exactly one row until it was delivered or
\* given up (createPending, updateQueuedRequest, movePending, combinePending,
\* deliverSteering, dispatchQueuedEntry).
THEOREM MessagesKept == Spec => []NothingForgotten
<1>1. ASSUME Inv
      PROVE  NothingForgotten
  <2>1. RowTypes /\ TextInv
    BY <1>1 DEF Inv, Types
  <2>2. \A m : Homes(m) = {p \in Pos : m \in Msgs(p)}
    BY DEF Homes, Msgs, Alive
  <2>3. ASSUME NEW m \in Message
        PROVE  Cardinality(Homes(m)) <= 1
    <3>1. CASE Homes(m) = {}
      BY <3>1, FS_EmptySet
    <3>2. ASSUME NEW p \in Homes(m)
          PROVE  Cardinality(Homes(m)) <= 1
      <4>1. Homes(m) = {p}
        BY <2>1, <2>2 DEF TextInv, PlaceInv
      <4> QED
        BY <4>1, FS_Singleton
    <3> QED
      BY <3>1, <3>2
  <2>4. ASSUME NEW m \in Message, newest[m] > 0
        PROVE  Waits(m) \/ Deliveries(m) > 0 \/ m \in dropped \/ m \in swept
    <3>1. turned[m] \in Nat /\ steered[m] \in Nat
      BY <1>1 DEF Inv, Types, FateTypes
    <3>2. \/ (\E p \in Pos : m \in Msgs(p)) \/ InMemory(m) \/ turned[m] > 0 \/ steered[m] > 0
          \/ m \in dropped \/ m \in swept
      BY <2>1, <2>4 DEF TextInv, KeptInv
    <3> QED
      BY <2>2, <3>1, <3>2 DEF Deliveries, Waits
  <2>5. slot.phase = "writing" /\ status = "queued" => stopping
    BY <1>1 DEF Inv, StopInv
  <2> QED
    BY <2>3, <2>4, <2>5 DEF NothingForgotten, Sent
<1> QED
  BY <1>1, InvAlways, PTL

\* A position and a revision name one text, whatever is edited, moved or combined.
THEOREM SeenIsMeant == Spec => []RevisionNamesText
<1>1. Inv => RevisionNamesText
  BY DEF Inv, ShownInv, RevisionNamesText, Expected, Alive
<1> QED
  BY <1>1, InvAlways, PTL

\* The row of a steering message that the harness took goes after the conversation
\* with the message was saved.
THEOREM AcceptedStaysSaved == Spec => []AcceptedIsSaved
<1>1. Inv => AcceptedIsSaved
  BY DEF Inv
<1> QED
  BY <1>1, InvAlways, PTL

\* A host that does not crash does not leave requests waiting in an ended session.
THEOREM NoneStranded == Spec => []NoRequestStranded
<1>1. Inv => NoRequestStranded
  BY DEF Inv
<1> QED
  BY <1>1, InvAlways, PTL

\* What a beginning run carries was neither given to a run before, nor, but for a
\* crash, sent as a turn.
LEMMA LaunchedUnsent ==
  ASSUME Inv, Starting, NEW m \in Of(slot.texts)
  PROVE  steered[m] = 0 /\ (turned[m] = 0 \/ crashes > 0)
<1>0. RowTypes /\ RowInv /\ SteerTypes /\ FateTypes /\ TextInv
  BY DEF Inv, Types
<1>1. CASE slot.pos = 0
  BY <1>0, <1>1 DEF TextInv, MemoryInv
<1>2. CASE slot.pos # 0
  <2>1. PICK p \in Pos : p = slot.pos /\ m \in Msgs(p) /\ entry[p].mark = "dispatched" /\ m \in Message
    BY <1>2, LaunchedMessages
  <2>2. entry[p].by = NoSteer /\ NoSteer \notin native
    BY <1>0, <2>1, HeldBy DEF SteerTypes
  <2>3. steered[m] \in Nat
    BY <1>0, <2>1 DEF FateTypes
  <2> QED
    BY <1>0, <2>1, <2>2, <2>3 DEF TextInv, SteeredInv, TurnedInv
<1> QED
  BY <1>1, <1>2

\* A steering call that the harness takes is the first delivery of its messages.
LEMMA TakenUnsent ==
  ASSUME Inv, NEW s \in Steer, HarnessTakes(s), NEW m \in Of(entry[steer[s].pos].texts)
  PROVE  /\ m \in Message /\ steered[m] = 0 /\ (turned[m] = 0 \/ crashes > 0) /\ m \notin dropped
         /\ \A t \in entry[steer[s].pos].texts : t[2] = newest[t[1]]
<1>0. RowTypes /\ RowInv /\ SteerInv /\ FateTypes /\ TextInv
  BY DEF Inv, Types
<1>1. s \notin native
  BY <1>0 DEF HarnessTakes, SteerInv
<1>2. PICK p \in Pos : p = steer[s].pos /\ entry[p].by = s /\ entry[p].mark = "held"
  BY <1>0 DEF HarnessTakes, SteerInv, IsOpen, RowInv
<1>3. m \in Msgs(p) /\ m \in Message /\ entry[p].mark \in Alive
  BY <1>0, <1>2, MsgsTyped DEF Alive
<1>4. steered[m] \in Nat
  BY <1>0, <1>3 DEF FateTypes
<1>5. steered[m] = 0
  BY <1>0, <1>1, <1>2, <1>3, <1>4 DEF TextInv, SteeredInv
<1>6. (turned[m] = 0 \/ crashes > 0) /\ m \notin dropped
  BY <1>0, <1>2, <1>3 DEF TextInv, TurnedInv, SentInv
<1>7. \A t \in entry[p].texts : t[2] = newest[t[1]]
  BY <1>0, <1>3 DEF TextInv, VersionInv
<1> QED
  BY <1>2, <1>3, <1>5, <1>6, <1>7

\* Only a beginning run and the harness's acceptance deliver.
LEMMA Delivering ==
  ASSUME [Next]_vars
  PROVE  \/ UNCHANGED <<turned, steered, got>>
         \/ Begin
         \/ \E s \in Steer : HarnessTakes(s)
<1>1. CASE UserStep
  BY <1>1 DEF UserStep, Refresh, CancelQueued, CancelStops, FollowUpWaits, FollowUpStarts, Edit, Delete, Move,
     Combine, Claim, SteerNew, fate
<1>2. CASE HostStep
  BY <1>2 DEF HostStep, CancelWrites, Reconcile, ExitSeen, ExitSaves, ExitReads, ExitWrites, ExitRemoves,
     Woken, DrainLists, DrainSkips, DrainDispatches, RemoveAccepted, fate
<1>3. CASE \E s \in Steer : SteerStep(s)
  BY <1>3 DEF SteerStep, Gate, HarnessRejects, Release, Accept, AnswerLost, fate
<1> QED
  BY <1>1, <1>2, <1>3 DEF Next, Crash, vars, fate

\* A message given to a live run is never sent again, and one sent as a turn only
\* after a crash.
THEOREM NoneReplayed == Spec => NeverReplayed
<1>1. ASSUME Inv, [Next]_vars
      PROVE  \A m \in Message : Deliveries(m)' > Deliveries(m)
               => steered[m] = 0 /\ (turned[m] = 0 \/ crashes > 0)
  <2> TAKE m \in Message
  <2>0. turned \in [Message -> Nat] /\ steered \in [Message -> Nat]
    BY <1>1 DEF Inv, Types, FateTypes
  <2>1. CASE UNCHANGED <<turned, steered, got>>
    BY <2>0, <2>1 DEF Deliveries
  <2>2. CASE Begin
    <3>1. m \in Of(slot.texts) => steered[m] = 0 /\ (turned[m] = 0 \/ crashes > 0)
      BY <1>1, <2>2, LaunchedUnsent DEF Begin, Starting
    <3>2. m \notin Of(slot.texts) => turned'[m] = turned[m] /\ steered'[m] = steered[m]
      BY <2>0, <2>2, CountedTyped DEF Begin
    <3> QED
      BY <2>0, <3>1, <3>2 DEF Deliveries
  <2>3. ASSUME NEW s \in Steer, HarnessTakes(s)
        PROVE  Deliveries(m)' > Deliveries(m) => steered[m] = 0 /\ (turned[m] = 0 \/ crashes > 0)
    <3>1. m \in Of(entry[steer[s].pos].texts) => steered[m] = 0 /\ (turned[m] = 0 \/ crashes > 0)
      BY <1>1, <2>3, TakenUnsent
    <3>2. m \notin Of(entry[steer[s].pos].texts) => turned'[m] = turned[m] /\ steered'[m] = steered[m]
      BY <2>0, <2>3, CountedTyped DEF HarnessTakes
    <3> QED
      BY <2>0, <3>1, <3>2 DEF Deliveries
  <2> QED
    BY <1>1, <2>1, <2>2, <2>3, Delivering
<1>2. Inv /\ [Next]_vars => [\A m \in Message : Deliveries(m)' > Deliveries(m)
        => /\ steered[m] = 0
           /\ turned[m] = 0 \/ crashes > 0]_vars
  BY <1>1
<1> QED
  BY <1>2, InvAlways, PTL DEF Spec, NeverReplayed

\* What reaches the harness is the version that was saved last, of a message that was
\* not given up.
THEOREM SavedIsDelivered == Spec => DeliversWhatIsSaved
<1>1. ASSUME Inv, [Next]_vars
      PROVE  \A t \in got' \ got : t[2] = newest[t[1]] /\ t[1] \notin dropped
  <2>0. VersionInv
    BY <1>1 DEF Inv, TextInv
  <2>1. CASE UNCHANGED <<turned, steered, got>>
    BY <2>1
  <2>2. CASE Begin
    <3>1. Starting /\ got' = got \cup slot.texts
      BY <2>2 DEF Begin, Given, Starting
    <3>2. \A t \in slot.texts : t[2] = newest[t[1]] /\ t[1] \in Of(slot.texts)
      BY <2>0, <3>1 DEF VersionInv, Of
    <3> QED
      BY <1>1, <3>1, <3>2, LaunchedMessages
  <2>3. ASSUME NEW s \in Steer, HarnessTakes(s)
        PROVE  \A t \in got' \ got : t[2] = newest[t[1]] /\ t[1] \notin dropped
    <3>1. got' = got \cup entry[steer[s].pos].texts
      BY <2>3 DEF HarnessTakes, Given
    <3>2. \A t \in entry[steer[s].pos].texts : t[1] \in Of(entry[steer[s].pos].texts)
      BY DEF Of
    <3> QED
      BY <1>1, <2>3, <3>1, <3>2, TakenUnsent
  <2> QED
    BY <1>1, <2>1, <2>2, <2>3, Delivering
<1>2. Inv /\ [Next]_vars => [\A t \in got' \ got : t[2] = newest[t[1]] /\ t[1] \notin dropped]_vars
  BY <1>1
<1> QED
  BY <1>2, InvAlways, PTL DEF Spec, DeliversWhatIsSaved

=============================================================================
