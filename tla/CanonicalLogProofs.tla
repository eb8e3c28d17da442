------------------------- MODULE CanonicalLogProofs -------------------------
(***************************************************************************)
(* Proofs about the history: whatever the brackets, values and names are,  *)
(* no command ever loses a snapshot that a Named Revision keeps, and every *)
(* snapshot a command displaces is kept by one.                            *)
(*                                                                         *)
(* A stored project implements its parametric history: whatever geometry,  *)
(* log positions, feature commands, losses and loads are added to the      *)
(* commands, the history they leave is one that History allows.  What is   *)
(* proved of the history thereby holds of the project.                     *)
(*                                                                         *)
(* And the stored project always opens: log, graph, geometry and positions *)
(* agree after every command, loss and load, and a restore brings back the *)
(* features of the state it names.                                         *)
(***************************************************************************)
EXTENDS CanonicalLog, FiniteSetTheorems, WellFoundedInduction, TLAPS

-----------------------------------------------------------------------------
(* The history *)

Displacing == {"edit", "restore", "undo", "redo"}

\* The event log is a sequence that ends at the active snapshot, as
\* cursor_target demands.
LogEndsAtActive ==
    /\ \E S : events \in Seq(S)
    /\ active = ActiveBefore(Len(events) + 1)

HistoryInv == LogEndsAtActive /\ DisplacedStaysNamed

\* All that the history knows a revision id of.
Snapshots ==
    {Genesis, active} \cup {named[n] : n \in DOMAIN named}
        \cup {events[i].active : i \in DOMAIN events}

\* What an applied event does to the Named Revisions.
Keeps(event, revisions) ==
    /\ \A n \in DOMAIN named : n \in DOMAIN revisions /\ revisions[n] = named[n]
    /\ \A n \in DOMAIN revisions : revisions[n] \in Snapshots
    /\ event.kind \in Displacing => \E n \in DOMAIN revisions : revisions[n] = active

\* Recomputed from the active snapshot, under the next revision id.
Recomputed(s) ==
    /\ s.revision = Len(events) + 1
    /\ \/ \E b \in Bracket, d \in Dims : s.features = Dimensioned(active.features, b, d)
       \/ \E f \in DOMAIN active.features, v \in Value :
             s.features = Edited(active.features, f, v)

\* An event makes a known snapshot active, or one that was recomputed.
Activates(event) ==
    event.kind \in Kind /\ (event.active \in Snapshots \/ Recomputed(event.active))

\* A cursor move starts at the cursor and ends at another snapshot; a redo
\* passes none on the way.
Moved(event) ==
    event.kind \in {"undo", "redo"} =>
        \E cursor \in Positions, target \in Differing :
            /\ IsCursor(cursor)
            /\ event.active = SnapshotAt(target)
            /\ event.kind = "redo" =>
                 target > cursor /\ \A p \in Differing : p > cursor => p >= target

Kept ==
    \E event, revisions :
        Apply(event, revisions) /\ Keeps(event, revisions) /\ Activates(event) /\ Moved(event)

\* Preserving the active snapshot under a free name changes no other name.
LEMMA PreservingExtends ==
    ASSUME NEW n, Free(n)
    PROVE  /\ \A m \in DOMAIN named :
                 m \in DOMAIN Preserving(n) /\ Preserving(n)[m] = named[m]
           /\ \A m \in DOMAIN Preserving(n) : Preserving(n)[m] \in Snapshots
           /\ \E m \in DOMAIN Preserving(n) : Preserving(n)[m] = active
BY DEF Free, Preserving, Snapshots

\* An event applied with the active snapshot preserved keeps every name.
LEMMA ApplyPreserving ==
    ASSUME NEW n, Free(n), NEW event, Apply(event, Preserving(n)), Activates(event), Moved(event)
    PROVE  Kept
<1>1. Keeps(event, Preserving(n))
  BY PreservingExtends DEF Keeps
<1> QED BY <1>1 DEF Kept

\* The snapshot of a position is a known one.
LEMMA SnapshotKnown ==
    ASSUME NEW p \in Positions
    PROVE  SnapshotAt(p) \in Snapshots
BY DEF Positions, SnapshotAt, Snapshots

\* Every command of the history keeps the Named Revisions, and those that
\* displace the active snapshot name it.
LEMMA EveryStepKeeps == Next => Kept
<1> SUFFICES ASSUME Next PROVE Kept
  OBVIOUS
<1>1. ASSUME NEW b \in Bracket, NEW d \in Dims, Initialize(b, d) PROVE Kept
  <2> DEFINE e == [kind |-> "initialize", subject |-> b, name |-> None,
                   preserved |-> None,
                   active |-> NextRevision(Dimensioned(active.features, b, d))]
  <2>1. Apply(e, named)
    BY <1>1 DEF Initialize
  <2>2. e.kind \notin Displacing /\ Moved(e)
    BY DEF Displacing, Moved
  <2>3. Activates(e)
    BY DEF Activates, Recomputed, Kind, NextRevision, Ordinal
  <2> HIDE DEF e
  <2>4. Keeps(e, named)
    BY <2>2 DEF Keeps, Snapshots
  <2> QED BY <2>1, <2>2, <2>3, <2>4 DEF Kept
<1>2. ASSUME NEW b \in Bracket, NEW d \in Dims, EditBracket(b, d) PROVE Kept
  <2> DEFINE kept == AutoName("edit", Ordinal + 1)
             e == [kind |-> "edit", subject |-> <<<<b, "base">>, d.length>>, name |-> None,
                   preserved |-> kept,
                   active |-> NextRevision(Dimensioned(active.features, b, d))]
  <2>1. Free(kept) /\ Apply(e, Preserving(kept))
    BY <1>2 DEF EditBracket
  <2>2. Moved(e) /\ Activates(e)
    BY <2>1 DEF Moved, Activates, Recomputed, Kind, NextRevision, Ordinal
  <2> HIDE DEF kept, e
  <2> QED BY <2>1, <2>2, ApplyPreserving
<1>3. ASSUME NEW f \in DOMAIN active.features, NEW v \in Value, Edit(f, v) PROVE Kept
  <2> DEFINE kept == AutoName("edit", Ordinal + 1)
             e == [kind |-> "edit", subject |-> <<f, v>>, name |-> None, preserved |-> kept,
                   active |-> NextRevision(Edited(active.features, f, v))]
  <2>1. Free(kept) /\ Apply(e, Preserving(kept))
    BY <1>3 DEF Edit
  <2>2. Moved(e) /\ Activates(e)
    BY <2>1 DEF Moved, Activates, Recomputed, Kind, NextRevision, Ordinal
  <2> HIDE DEF kept, e
  <2> QED BY <2>1, <2>2, ApplyPreserving
<1>4. ASSUME NEW n, CreateNamed(n) PROVE Kept
  <2> DEFINE e == [kind |-> "create", subject |-> None, name |-> n, preserved |-> n,
                   active |-> active]
  <2>1. Free(n) /\ Apply(e, Preserving(n))
    BY <1>4 DEF CreateNamed
  <2>2. Moved(e) /\ Activates(e)
    BY DEF Moved, Activates, Kind, Snapshots
  <2> HIDE DEF e
  <2> QED BY <2>1, <2>2, ApplyPreserving
<1>5. ASSUME NEW n, Restore(n) PROVE Kept
  <2> DEFINE displaced == AutoName("restore", Ordinal + 1)
             e == [kind |-> "restore", subject |-> None, name |-> n, preserved |-> displaced,
                   active |-> named[n]]
  <2>1. n \in DOMAIN named /\ Free(displaced) /\ Apply(e, Preserving(displaced))
    BY <1>5 DEF Restore
  <2>2. Moved(e) /\ Activates(e)
    BY <2>1 DEF Moved, Activates, Kind, Snapshots
  <2> HIDE DEF displaced, e
  <2> QED BY <2>1, <2>2, ApplyPreserving
<1>6. ASSUME NEW kind \in {"undo", "redo"}, NEW cursor \in Positions, NEW target \in Differing,
             IsCursor(cursor), Move(kind, target),
             kind = "redo" => target > cursor /\ \A p \in Differing : p > cursor => p >= target
      PROVE  Kept
  <2> DEFINE kept == AutoName(kind, Ordinal + 1)
             e == [kind |-> kind, subject |-> target, name |-> None, preserved |-> kept,
                   active |-> SnapshotAt(target)]
  <2>1. Free(kept) /\ Apply(e, Preserving(kept))
    BY <1>6 DEF Move
  <2>2. e.kind = kind /\ e.active = SnapshotAt(target)
    OBVIOUS
  <2> HIDE DEF kept, e
  <2>3. Moved(e)
    BY <1>6, <2>2 DEF Moved
  <2>4. Activates(e)
    BY <1>6, <2>2, SnapshotKnown DEF Activates, Kind, Differing
  <2> QED BY <2>1, <2>3, <2>4, ApplyPreserving
<1>7. CASE Undo
  BY <1>6, <1>7 DEF Undo
<1>8. CASE Redo
  BY <1>6, <1>8 DEF Redo
<1> QED BY <1>1, <1>2, <1>3, <1>4, <1>5, <1>7, <1>8 DEF Next

\* No command changes or drops a Named Revision.
THEOREM NamedRevisionsAreKept == Spec => NamedImmutable
<1>1. [Next]_vars =>
        [ \A n \in DOMAIN named : n \in DOMAIN named' /\ named'[n] = named[n] ]_vars
  BY EveryStepKeeps DEF Kept, Keeps, Apply
<1> QED BY <1>1, PTL DEF Spec, NamedImmutable

LEMMA InitHolds == Init => HistoryInv
<1> SUFFICES ASSUME Init PROVE HistoryInv
  OBVIOUS
<1>1. events = <<>> /\ active = Genesis
  BY DEF Init
<1>2. events \in Seq({}) /\ Len(events) = 0 /\ DOMAIN events = {}
  BY <1>1
<1>3. LogEndsAtActive
  BY <1>1, <1>2 DEF LogEndsAtActive, ActiveBefore
<1>4. DisplacedStaysNamed
  BY <1>2 DEF DisplacedStaysNamed
<1> QED BY <1>3, <1>4 DEF HistoryInv

\* Appending an event keeps the log a sequence, leaves the snapshots before
\* the earlier events alone, and puts the old active one before the new event.
LEMMA AppendedLog ==
    ASSUME LogEndsAtActive, NEW event, NEW revisions, Apply(event, revisions)
    PROVE  /\ LogEndsAtActive'
           /\ Len(events') = Len(events) + 1
           /\ DOMAIN events' = DOMAIN events \cup {Len(events) + 1}
           /\ \A i \in DOMAIN events :
                 events'[i] = events[i] /\ ActiveBefore(i)' = ActiveBefore(i)
           /\ events'[Len(events) + 1] = event
           /\ \A i : i = Len(events) + 1 => ActiveBefore(i)' = active
<1>1. PICK S : events \in Seq(S)
  BY DEF LogEndsAtActive
<1> DEFINE T == S \cup {event}
<1>2. events \in Seq(T) /\ event \in T
  BY <1>1
<1>3. events' = Append(events, event) /\ active' = event.active
  BY DEF Apply
<1> HIDE DEF T
<1>4. /\ events' \in Seq(T)
      /\ Len(events) \in Nat
      /\ Len(events') = Len(events) + 1
      /\ DOMAIN events = 1 .. Len(events)
      /\ DOMAIN events' = 1 .. Len(events) + 1
      /\ events'[Len(events) + 1] = event
      /\ \A i \in 1 .. Len(events) : events'[i] = events[i]
  BY <1>2, <1>3
<1>5. \A i \in DOMAIN events : ActiveBefore(i)' = ActiveBefore(i)
  BY <1>4 DEF ActiveBefore
<1>6. ASSUME NEW i, i = Len(events) + 1 PROVE ActiveBefore(i)' = active
  <2>1. active = IF i = 1 THEN Genesis ELSE events[i - 1].active
    BY <1>6 DEF LogEndsAtActive, ActiveBefore
  <2>2. i # 1 => i - 1 \in 1 .. Len(events)
    BY <1>4, <1>6
  <2> QED BY <1>4, <2>1, <2>2 DEF ActiveBefore
<1>7. LogEndsAtActive'
  <2>1. \E R : events' \in Seq(R)
    BY <1>4
  <2>2. /\ Len(events') + 1 # 1
        /\ Len(events') + 1 - 1 = Len(events) + 1
    BY <1>4
  <2>3. active' = ActiveBefore(Len(events) + 1)'
    BY <1>3, <1>4, <2>2 DEF ActiveBefore
  <2> QED BY <2>1, <2>3 DEF LogEndsAtActive
<1>8. DOMAIN events' = DOMAIN events \cup {Len(events) + 1}
  BY <1>4
<1> QED BY <1>4, <1>5, <1>6, <1>7, <1>8

LEMMA StepKeepsInvariant == HistoryInv /\ [Next]_vars => HistoryInv'
<1> SUFFICES ASSUME HistoryInv, [Next]_vars PROVE HistoryInv'
  OBVIOUS
<1>1. CASE Next
  <2>1. PICK event, revisions : Apply(event, revisions) /\ Keeps(event, revisions)
    BY <1>1, EveryStepKeeps DEF Kept
  <2>2. /\ LogEndsAtActive'
        /\ DOMAIN events' = DOMAIN events \cup {Len(events) + 1}
        /\ \A i \in DOMAIN events :
              events'[i] = events[i] /\ ActiveBefore(i)' = ActiveBefore(i)
        /\ events'[Len(events) + 1] = event
        /\ \A i : i = Len(events) + 1 => ActiveBefore(i)' = active
    BY <2>1, AppendedLog DEF HistoryInv
  <2>3. named' = revisions
    BY <2>1 DEF Apply
  <2>4. ASSUME NEW i \in DOMAIN events', events'[i].kind \in Displacing
        PROVE  \E n \in DOMAIN named' : named'[n] = ActiveBefore(i)'
    <3>1. CASE i \in DOMAIN events
      <4>1. PICK n \in DOMAIN named : named[n] = ActiveBefore(i)
        BY <2>2, <2>4, <3>1 DEF HistoryInv, DisplacedStaysNamed, Displacing
      <4> QED BY <2>1, <2>2, <2>3, <3>1, <4>1 DEF Keeps
    <3>2. CASE i = Len(events) + 1
      <4>1. event.kind \in Displacing
        BY <2>2, <2>4, <3>2
      <4>2. PICK n \in DOMAIN revisions : revisions[n] = active
        BY <2>1, <4>1 DEF Keeps
      <4> QED BY <2>2, <2>3, <3>2, <4>2
    <3> QED BY <2>2, <3>1, <3>2
  <2>5. DisplacedStaysNamed'
    BY <2>4 DEF DisplacedStaysNamed, Displacing
  <2> QED BY <2>2, <2>5 DEF HistoryInv
<1>2. CASE UNCHANGED vars
  BY <1>2 DEF HistoryInv, LogEndsAtActive, DisplacedStaysNamed, ActiveBefore, vars
<1> QED BY <1>1, <1>2

\* Whatever an edit, a restore, an undo or a redo displaced stays addressable
\* as a Named Revision forever.
THEOREM DisplacedWorkIsKept == Spec => []DisplacedStaysNamed
<1>1. HistoryInv => DisplacedStaysNamed
  BY DEF HistoryInv
<1> QED BY <1>1, InitHolds, StepKeepsInvariant, PTL DEF Spec

-----------------------------------------------------------------------------
(* The timeline *)

\* Revision ids do not outrun the log, and each has one snapshot.
RevisionsFit ==
    /\ \A s \in Snapshots : s.revision \in 0 .. Len(events)
    /\ \A s, t \in Snapshots : s.revision = t.revision => s = t

\* After an undo the snapshot it displaced is the next one from the cursor.
UndoneIsNext ==
    \A i \in DOMAIN events : i = Len(events) /\ events[i].kind = "undo" =>
        \A p \in Positions : IsCursor(p) =>
            \E q \in Beyond(p) :
                /\ SnapshotAt(q) = ActiveBefore(i)
                /\ SnapshotAt(q) # active
                /\ \A r \in Beyond(p) : q <= r

TimelineInv == LogEndsAtActive /\ RevisionsFit /\ UndoneIsNext /\ RedoUndoesUndo

LEMMA PositionsAreFinite ==
    ASSUME LogEndsAtActive
    PROVE  /\ DOMAIN events = 1 .. Len(events) /\ Len(events) \in Nat
           /\ Positions \subseteq 0 .. Len(events)
           /\ \A p : IsFiniteSet(Beyond(p))
           /\ \A kind : IsFiniteSet(TrailingMoves(kind))
           /\ Depth \in Int
<1>1. PICK S : events \in Seq(S)
  BY DEF LogEndsAtActive
<1>2. DOMAIN events = 1 .. Len(events) /\ Len(events) \in Nat
  BY <1>1
<1>3. Positions \subseteq 0 .. Len(events)
  BY <1>2 DEF Positions
<1>4. IsFiniteSet(0 .. Len(events))
  BY <1>2, FS_Interval
<1>5. ASSUME NEW p PROVE IsFiniteSet(Beyond(p))
  <2>1. Beyond(p) \in SUBSET (0 .. Len(events))
    BY <1>3 DEF Beyond
  <2> QED BY <1>4, <2>1, FS_Subset
<1>6. ASSUME NEW kind PROVE IsFiniteSet(TrailingMoves(kind))
  <2>1. TrailingMoves(kind) \in SUBSET (0 .. Len(events))
    BY <1>2 DEF TrailingMoves
  <2> QED BY <1>4, <2>1, FS_Subset
<1>7. Depth \in Int
  BY <1>6, FS_CardinalityType DEF Depth
<1> QED BY <1>2, <1>3, <1>5, <1>6, <1>7

\* An undo adds no position, and puts the cursor one more behind the latest.
LEMMA UndoKeepsPositions ==
    ASSUME LogEndsAtActive, NEW event, event.kind = "undo",
           NEW revisions, Apply(event, revisions)
    PROVE  /\ Positions' = Positions
           /\ \A p \in Positions : SnapshotAt(p)' = SnapshotAt(p)
           /\ \A p : Beyond(p)' = Beyond(p)
           /\ Depth' = Depth + 1
<1>1. /\ DOMAIN events = 1 .. Len(events) /\ Len(events) \in Nat
      /\ DOMAIN events' = 1 .. Len(events) + 1 /\ Len(events') = Len(events) + 1
      /\ \A i \in DOMAIN events : events'[i] = events[i]
      /\ events'[Len(events) + 1] = event
  BY AppendedLog, PositionsAreFinite
<1>2. IsMove(event)
  BY DEF IsMove
<1>3. Positions' = Positions
  BY <1>1, <1>2 DEF Positions, IsMove
<1>4. ASSUME NEW p \in Positions PROVE SnapshotAt(p)' = SnapshotAt(p)
  BY <1>1 DEF SnapshotAt, Positions
<1>5. ASSUME NEW p PROVE Beyond(p)' = Beyond(p)
  BY <1>3 DEF Beyond
<1>6. TrailingMoves("undo")' = TrailingMoves("undo") \cup {Len(events) + 1}
  BY <1>1, <1>2 DEF TrailingMoves, IsMove
<1>7. TrailingMoves("redo")' = TrailingMoves("redo")
  BY <1>1, <1>2 DEF TrailingMoves, IsMove
<1>8. Len(events) + 1 \notin TrailingMoves("undo")
  BY <1>1 DEF TrailingMoves
<1>9. /\ Cardinality(TrailingMoves("undo")') = Cardinality(TrailingMoves("undo")) + 1
      /\ Cardinality(TrailingMoves("undo")) \in Nat /\ Cardinality(TrailingMoves("redo")) \in Nat
  BY <1>6, <1>8, PositionsAreFinite, FS_AddElement, FS_CardinalityType
<1>10. Depth' = Depth + 1
  BY <1>7, <1>9 DEF Depth
<1> QED BY <1>3, <1>4, <1>5, <1>10

\* So the cursor goes to the position right before the one it was at.
LEMMA CursorAfterUndo ==
    ASSUME LogEndsAtActive, NEW event, event.kind = "undo",
           NEW revisions, Apply(event, revisions),
           NEW cursor \in Positions, IsCursor(cursor),
           NEW p \in Positions, Cardinality(Beyond(p)) = Depth + 1
    PROVE  Beyond(p) = Beyond(cursor) \cup {cursor} /\ p < cursor
<1>1. /\ Positions \subseteq 0 .. Len(events) /\ Len(events) \in Nat
      /\ IsFiniteSet(Beyond(p)) /\ IsFiniteSet(Beyond(cursor)) /\ Depth \in Int
  BY PositionsAreFinite
<1>2. Cardinality(Beyond(cursor)) = Depth
  BY DEF IsCursor
<1>3. p < cursor
  <2> SUFFICES ASSUME p >= cursor PROVE FALSE
    BY <1>1
  <2>1. \A q \in Positions : q > p => q > cursor
    BY <1>1
  <2>2. Beyond(p) \in SUBSET Beyond(cursor)
    BY <2>1 DEF Beyond
  <2>3. Cardinality(Beyond(p)) <= Cardinality(Beyond(cursor))
    BY <1>1, <2>2, FS_Subset
  <2> QED BY <1>1, <1>2, <2>3
<1>4. Beyond(cursor) \cup {cursor} \in SUBSET Beyond(p)
  <2>1. \A q \in Positions : q > cursor => q > p
    BY <1>1, <1>3
  <2>2. Beyond(cursor) \in SUBSET Beyond(p)
    BY <2>1 DEF Beyond
  <2>3. cursor \in Beyond(p)
    BY <1>1, <1>3 DEF Beyond
  <2> QED BY <2>2, <2>3
<1>5. cursor \notin Beyond(cursor)
  BY <1>1 DEF Beyond
<1>6. Cardinality(Beyond(cursor) \cup {cursor}) = Depth + 1
  BY <1>1, <1>2, <1>5, FS_AddElement
<1>7. Beyond(p) = Beyond(cursor) \cup {cursor}
  BY <1>1, <1>4, <1>6, FS_Subset
<1> QED BY <1>3, <1>7

\* What a step knows of revisions is what was known, and the event's own.
LEMMA RevisionsStayFit ==
    ASSUME LogEndsAtActive, RevisionsFit, NEW event, NEW revisions,
           Apply(event, revisions), Keeps(event, revisions), Activates(event)
    PROVE  RevisionsFit'
<1>1. DOMAIN events = 1 .. Len(events) /\ Len(events) \in Nat
  BY PositionsAreFinite
<1>2. /\ active' = event.active /\ named' = revisions
      /\ DOMAIN events' = DOMAIN events \cup {Len(events) + 1}
      /\ \A i \in DOMAIN events : events'[i] = events[i]
      /\ events'[Len(events) + 1] = event
  BY AppendedLog DEF Apply
<1>3. Len(events') = Len(events) + 1
  BY AppendedLog
<1>4. Snapshots' \subseteq Snapshots \cup {event.active}
  BY <1>2 DEF Snapshots, Keeps
<1>5. ASSUME NEW s \in Snapshots' PROVE s.revision \in 0 .. Len(events')
  BY <1>1, <1>3, <1>4 DEF RevisionsFit, Activates, Recomputed
<1>6. ASSUME NEW s \in Snapshots', NEW t \in Snapshots', s.revision = t.revision
      PROVE  s = t
  BY <1>1, <1>4, <1>6 DEF RevisionsFit, Activates, Recomputed
<1> QED BY <1>5, <1>6 DEF RevisionsFit

LEMMA TimelineStarts == Init => TimelineInv
<1> SUFFICES ASSUME Init PROVE TimelineInv
  OBVIOUS
<1>1. LogEndsAtActive
  BY InitHolds DEF HistoryInv
<1>2. events = <<>> /\ active = Genesis /\ named = <<>>
  BY DEF Init
<1>3. Len(events) = 0 /\ DOMAIN events = {} /\ DOMAIN named = {}
  BY <1>2
<1>4. Snapshots = {Genesis}
  BY <1>2, <1>3 DEF Snapshots
<1>5. RevisionsFit
  BY <1>3, <1>4 DEF RevisionsFit, Genesis
<1>6. UndoneIsNext /\ RedoUndoesUndo
  BY <1>3 DEF UndoneIsNext, RedoUndoesUndo
<1> QED BY <1>1, <1>5, <1>6 DEF TimelineInv

LEMMA TimelineKept == TimelineInv /\ [Next]_vars => TimelineInv'
<1> SUFFICES ASSUME TimelineInv, [Next]_vars PROVE TimelineInv'
  OBVIOUS
<1>1. CASE Next
  <2>1. PICK event, revisions : /\ Apply(event, revisions) /\ Keeps(event, revisions)
                                /\ Activates(event) /\ Moved(event)
    BY <1>1, EveryStepKeeps DEF Kept
  <2>2. LogEndsAtActive /\ RevisionsFit /\ UndoneIsNext /\ RedoUndoesUndo
    BY DEF TimelineInv
  <2>3. /\ LogEndsAtActive'
        /\ DOMAIN events' = DOMAIN events \cup {Len(events) + 1}
        /\ \A i \in DOMAIN events :
              events'[i] = events[i] /\ ActiveBefore(i)' = ActiveBefore(i)
        /\ events'[Len(events) + 1] = event
        /\ \A i : i = Len(events) + 1 => ActiveBefore(i)' = active
    BY <2>1, <2>2, AppendedLog
  <2>4. DOMAIN events = 1 .. Len(events) /\ Len(events) \in Nat
    BY <2>2, PositionsAreFinite
  <2>5. Len(events') = Len(events) + 1
    BY <2>1, <2>2, AppendedLog
  <2>6. active' = event.active
    BY <2>1 DEF Apply
  <2>7. RevisionsFit'
    BY <2>1, <2>2, RevisionsStayFit
  <2>8. UndoneIsNext'
    <3> SUFFICES ASSUME NEW i \in DOMAIN events', i = Len(events) + 1, event.kind = "undo",
                        NEW p \in Positions', IsCursor(p)'
                 PROVE  \E q \in Beyond(p)' :
                          /\ SnapshotAt(q)' = ActiveBefore(i)'
                          /\ SnapshotAt(q)' # active'
                          /\ \A r \in Beyond(p)' : q <= r
      BY <2>3, <2>5 DEF UndoneIsNext
    <3>1. PICK cursor \in Positions, target \in Differing :
            IsCursor(cursor) /\ event.active = SnapshotAt(target)
      BY <2>1 DEF Moved
    <3>2. /\ Positions' = Positions /\ Beyond(p)' = Beyond(p) /\ Depth' = Depth + 1
          /\ SnapshotAt(cursor)' = SnapshotAt(cursor)
      BY <2>1, <2>2, UndoKeepsPositions
    <3>3. p \in Positions /\ Cardinality(Beyond(p)) = Depth + 1
      BY <3>2 DEF IsCursor
    <3>4. Beyond(p) = Beyond(cursor) \cup {cursor} /\ p < cursor
      BY <2>1, <2>2, <3>1, <3>3, CursorAfterUndo
    <3>5. SnapshotAt(cursor) = active /\ SnapshotAt(target) # active
      BY <3>1 DEF IsCursor, Differing
    <3>6. \A r \in Beyond(p) : cursor <= r
      BY <2>2, <3>4, PositionsAreFinite DEF Beyond
    <3> QED BY <2>3, <2>6, <3>1, <3>2, <3>4, <3>5, <3>6
  <2>9. RedoUndoesUndo'
    <3> SUFFICES ASSUME NEW i \in 2 .. Len(events) + 1, events'[i].kind = "redo",
                        events'[i - 1].kind = "undo"
                 PROVE  events'[i].active = ActiveBefore(i - 1)'
      BY <2>5 DEF RedoUndoesUndo
    <3>1. i - 1 \in DOMAIN events /\ events'[i - 1] = events[i - 1]
          /\ ActiveBefore(i - 1)' = ActiveBefore(i - 1)
      BY <2>3, <2>4
    <3>2. CASE i \in DOMAIN events
      BY <2>2, <2>3, <2>4, <3>1, <3>2 DEF RedoUndoesUndo
    <3>3. CASE i = Len(events) + 1
      <4>1. event.kind = "redo" /\ events[Len(events)].kind = "undo"
            /\ i - 1 = Len(events) /\ events'[i] = event
        BY <2>3, <2>4, <3>1, <3>3
      <4>2. PICK cursor \in Positions, target \in Differing :
              /\ IsCursor(cursor) /\ event.active = SnapshotAt(target)
              /\ target > cursor /\ \A p \in Differing : p > cursor => p >= target
        BY <2>1, <4>1 DEF Moved
      <4>3. PICK q \in Beyond(cursor) :
              /\ SnapshotAt(q) = ActiveBefore(Len(events))
              /\ SnapshotAt(q) # active
              /\ \A r \in Beyond(cursor) : q <= r
        BY <2>2, <3>1, <4>1, <4>2 DEF UndoneIsNext
      <4>4. q \in Differing /\ q > cursor /\ target \in Beyond(cursor)
        BY <4>2, <4>3 DEF Beyond, Differing
      <4>5. q = target
        BY <2>2, <4>2, <4>3, <4>4, PositionsAreFinite DEF Beyond
      <4> QED BY <3>1, <4>1, <4>2, <4>3, <4>5
    <3> QED BY <2>4, <3>2, <3>3
  <2> QED BY <2>3, <2>7, <2>8, <2>9 DEF TimelineInv
<1>2. CASE UNCHANGED vars
  <2>1. /\ active' = active /\ events' = events /\ named' = named
        /\ Positions' = Positions /\ Depth' = Depth /\ Snapshots' = Snapshots
        /\ \A p : /\ Beyond(p)' = Beyond(p) /\ SnapshotAt(p)' = SnapshotAt(p)
                 /\ ActiveBefore(p)' = ActiveBefore(p)
    BY <1>2 DEF Positions, Beyond, SnapshotAt, Depth, TrailingMoves, Snapshots,
                ActiveBefore, vars
  <2>2. LogEndsAtActive' /\ RevisionsFit' /\ RedoUndoesUndo'
    BY <2>1 DEF TimelineInv, LogEndsAtActive, RevisionsFit, RedoUndoesUndo
  <2>3. UndoneIsNext'
    BY <2>1 DEF TimelineInv, UndoneIsNext, IsCursor
  <2> QED BY <2>2, <2>3 DEF TimelineInv
<1> QED BY <1>1, <1>2

\* The timeline is sound: a revision id has one snapshot, and a redo right
\* after an undo brings back what the undo displaced (cursor_target).
THEOREM TheTimelineIsSound == Spec => []TimelineIsSound
<1>1. TimelineInv => RevisionNamesOneSnapshot
  <2> SUFFICES ASSUME TimelineInv PROVE RevisionNamesOneSnapshot
    OBVIOUS
  <2>1. \A i \in DOMAIN events : events[i].active \in Snapshots
    BY DEF Snapshots
  <2> QED BY <2>1 DEF TimelineInv, RevisionsFit, RevisionNamesOneSnapshot
<1>2. TimelineInv => TimelineIsSound
  BY <1>1 DEF TimelineInv, TimelineIsSound
<1> QED BY <1>2, TimelineStarts, TimelineKept, PTL DEF Spec

-----------------------------------------------------------------------------
(* The evaluation of features *)

\* A feature map has features for values, and no status but the three.
IsFeature(r) ==
    /\ r = [value |-> r.value, shape |-> r.shape, stale |-> r.stale, status |-> r.status]
    /\ r.value \in Nat
    /\ r.status \in Status

IsFeatureMap(F) ==
    /\ F = [f \in DOMAIN F |-> F[f]]
    /\ DOMAIN F \subseteq Feature
    /\ \A f \in DOMAIN F : IsFeature(F[f])

\* What EvaluationIsSound says of one feature and those it rests on.
Settled(F, f) ==
    /\ Deps(f) \subseteq DOMAIN F
    /\ F[f].status = "current" =>
         /\ F[f].shape = Fingerprint(F, f)
         /\ \A g \in Deps(f) : F[g].status = "current"
    /\ F[f].status = "blocked" =>
         \E part \in Ancestors[f[2]] :
            <<f[1], part>> \in DOMAIN F /\ F[<<f[1], part>>].status = "broken"

AllSettled(F) == IsFeatureMap(F) /\ \A f \in DOMAIN F : Settled(F, f)

\* What an evaluation remembers of a feature that it does not leave current.
Recalls(F, G, f) ==
    \/ G[f] = F[f]
    \/ G[f].status = "current"
    \/ G[f].status = "broken" /\ G[f].stale = F[f].shape
    \/ /\ G[f].status = "blocked"
       /\ G[f].stale = IF F[f].stale = None THEN F[f].shape ELSE F[f].stale

LEMMA PartsAreOrdered ==
    /\ Ancestors = [part \in Part |->
         IF part = "bend" THEN {"base"} ELSE IF part = "finish" THEN {"bend", "base"}
         ELSE IF part = "ifinish" THEN {"ibase"} ELSE {}]
    /\ \A part \in Part :
         /\ Upstream[part] \subseteq Ancestors[part]
         /\ Ancestors[part] \subseteq Part
         /\ part \notin Ancestors[part]
         /\ \A up \in Ancestors[part] : Ancestors[up] \subseteq Ancestors[part]
         /\ \A p, q \in Part :
              part \in Ancestors[p] \cup {p} /\ part \in Ancestors[q] \cup {q} =>
                p = q \/ p \in Ancestors[q] \/ q \in Ancestors[p]
<1>1. \A part \in Part : Upstream[part] =
         IF part = "bend" THEN {"base"} ELSE IF part = "finish" THEN {"bend"}
         ELSE IF part = "ifinish" THEN {"ibase"} ELSE {}
  BY DEF Part, Upstream
<1>2. Ancestors = [part \in Part |->
         IF part = "bend" THEN {"base"} ELSE IF part = "finish" THEN {"bend", "base"}
         ELSE IF part = "ifinish" THEN {"ibase"} ELSE {}]
  <2>1. ASSUME NEW part \in Part
        PROVE  Upstream[part] \cup UNION {Upstream[up] : up \in Upstream[part]} =
         IF part = "bend" THEN {"base"} ELSE IF part = "finish" THEN {"bend", "base"}
         ELSE IF part = "ifinish" THEN {"ibase"} ELSE {}
    <3>1. CASE part = "bend"
      BY <1>1, <3>1 DEF Part
    <3>2. CASE part = "finish"
      BY <1>1, <3>2 DEF Part
    <3>3. CASE part = "ifinish"
      BY <1>1, <3>3 DEF Part
    <3>4. CASE part \in {"base", "ibase"}
      BY <1>1, <3>4 DEF Part
    <3> QED BY <3>1, <3>2, <3>3, <3>4 DEF Part
  <2> QED BY <2>1 DEF Ancestors
<1> QED BY <1>1, <1>2 DEF Part

\* An evaluation gives three fields of one feature a value.
With(F, f, x, y, z) == [F EXCEPT ![f].shape = x, ![f].stale = y, ![f].status = z]

LEMMA ThreeFields ==
    ASSUME NEW F, F = [g \in DOMAIN F |-> F[g]], NEW f \in DOMAIN F, IsFeature(F[f]),
           NEW x, NEW y, NEW z
    PROVE  With(F, f, x, y, z) =
             [g \in DOMAIN F |-> IF g = f
                THEN [value |-> F[f].value, shape |-> x, stale |-> y, status |-> z]
                ELSE F[g]]
<1> DEFINE G == [F EXCEPT ![f].shape = x, ![f].stale = y, ![f].status = z]
<1>1. F[f] = [value |-> F[f].value, shape |-> F[f].shape, stale |-> F[f].stale,
              status |-> F[f].status]
  BY DEF IsFeature
<1>2. G[f] = [value |-> F[f].value, shape |-> x, stale |-> y, status |-> z]
  BY <1>1
<1>3. DOMAIN G = DOMAIN F /\ \A g \in DOMAIN F : g # f => G[g] = F[g]
  OBVIOUS
<1>4. G = [g \in DOMAIN G |-> G[g]]
  OBVIOUS
<1> HIDE DEF G
<1>5. G = [g \in DOMAIN F |-> IF g = f
             THEN [value |-> F[f].value, shape |-> x, stale |-> y, status |-> z]
             ELSE F[g]]
  BY <1>2, <1>3, <1>4
<1> QED BY <1>5 DEF G, With

\* The results of an evaluation of one feature.
LEMMA EvaluatedFeature ==
    ASSUME NEW F, IsFeatureMap(F), NEW f \in DOMAIN F
    PROVE  /\ Current(F, f) = [g \in DOMAIN F |-> IF g = f
                THEN [value |-> F[f].value, shape |-> Fingerprint(F, f), stale |-> None,
                      status |-> "current"]
                ELSE F[g]]
           /\ Broken(F, f) = [g \in DOMAIN F |-> IF g = f
                THEN [value |-> F[f].value, shape |-> None, stale |-> F[f].shape,
                      status |-> "broken"]
                ELSE F[g]]
           /\ Blocked(F, f) = [g \in DOMAIN F |-> IF g = f
                THEN [value |-> F[f].value, shape |-> None,
                      stale |-> IF F[f].stale = None THEN F[f].shape ELSE F[f].stale,
                      status |-> "blocked"]
                ELSE F[g]]
           /\ \A v : [F EXCEPT ![f].value = v] = [g \in DOMAIN F |-> IF g = f
                THEN [value |-> v, shape |-> F[f].shape, stale |-> F[f].stale,
                      status |-> F[f].status]
                ELSE F[g]]
<1>1. F = [g \in DOMAIN F |-> F[g]] /\ IsFeature(F[f])
  BY DEF IsFeatureMap
<1>2. F[f] = [value |-> F[f].value, shape |-> F[f].shape, stale |-> F[f].stale,
              status |-> F[f].status]
  BY <1>1 DEF IsFeature
<1>3. \A v : [F EXCEPT ![f].value = v] = [g \in DOMAIN F |-> IF g = f
                THEN [value |-> v, shape |-> F[f].shape, stale |-> F[f].stale,
                      status |-> F[f].status]
                ELSE F[g]]
  BY <1>1, <1>2
<1> DEFINE kept == IF F[f].stale = None THEN F[f].shape ELSE F[f].stale
<1>4. /\ Blocked(F, f) = With(F, f, None, kept, "blocked")
      /\ Current(F, f) = With(F, f, Fingerprint(F, f), None, "current")
      /\ Broken(F, f) = With(F, f, None, F[f].shape, "broken")
  BY <1>1, <1>2 DEF Blocked, Current, Broken, With
<1>5. \A x, y, z : With(F, f, x, y, z) =
             [g \in DOMAIN F |-> IF g = f
                THEN [value |-> F[f].value, shape |-> x, stale |-> y, status |-> z]
                ELSE F[g]]
  BY <1>1, ThreeFields
<1>6. Current(F, f) = [g \in DOMAIN F |-> IF g = f
                THEN [value |-> F[f].value, shape |-> Fingerprint(F, f), stale |-> None,
                      status |-> "current"]
                ELSE F[g]]
  BY <1>4, <1>5
<1>7. Broken(F, f) = [g \in DOMAIN F |-> IF g = f
                THEN [value |-> F[f].value, shape |-> None, stale |-> F[f].shape,
                      status |-> "broken"]
                ELSE F[g]]
  BY <1>4, <1>5
<1>8. Blocked(F, f) = [g \in DOMAIN F |-> IF g = f
                THEN [value |-> F[f].value, shape |-> None, stale |-> kept,
                      status |-> "blocked"]
                ELSE F[g]]
  BY <1>4, <1>5
<1> QED BY <1>3, <1>6, <1>7, <1>8

\* A feature stays settled while it and all it rests on stay the same.
LEMMA SettledFrame ==
    ASSUME NEW F, NEW G, NEW f \in Feature, Settled(F, f),
           DOMAIN F \subseteq DOMAIN G, f \in DOMAIN F, G[f] = F[f],
           \A part \in Ancestors[f[2]] :
              <<f[1], part>> \in DOMAIN F => G[<<f[1], part>>] = F[<<f[1], part>>]
    PROVE  Settled(G, f)
<1>1. \A g \in Deps(f) : g \in DOMAIN F /\ G[g] = F[g]
  BY PartsAreOrdered DEF Deps, Settled, Feature
<1>2. Fingerprint(G, f) = Fingerprint(F, f)
  BY <1>1 DEF Fingerprint
<1> QED BY <1>1, <1>2 DEF Settled


\* What is dirty after an edit: with a feature all that rest on it, and of two
\* one always rests on the other.
LEMMA DirtyBranch ==
    ASSUME NEW F, DOMAIN F \subseteq Feature, NEW target \in DOMAIN F
    PROVE  /\ Dirty(F, target) \subseteq DOMAIN F
           /\ \A g \in Dirty(F, target) : g[1] = target[1] /\ g = <<target[1], g[2]>>
           /\ \A g \in DOMAIN F : \A part \in Ancestors[g[2]] :
                <<g[1], part>> \in Dirty(F, target) => g \in Dirty(F, target)
           /\ \A p, q \in Part :
                <<target[1], p>> \in Dirty(F, target) /\ <<target[1], q>> \in Dirty(F, target) =>
                  p = q \/ p \in Ancestors[q] \/ q \in Ancestors[p]
<1>1. target[1] \in Bracket /\ target[2] \in Part
  BY DEF Feature
<1>2. \A g \in DOMAIN F : g = <<g[1], g[2]>> /\ g[2] \in Part
  BY DEF Feature
<1>3. ASSUME NEW g \in DOMAIN F, NEW part \in Ancestors[g[2]],
             <<g[1], part>> \in Dirty(F, target)
      PROVE  g \in Dirty(F, target)
  <2>1. g[1] = target[1] /\ target[2] \in Ancestors[part] \cup {part}
    BY <1>3 DEF Dirty
  <2>2. Ancestors[part] \subseteq Ancestors[g[2]]
    BY <1>2, PartsAreOrdered
  <2> QED BY <2>1, <2>2 DEF Dirty
<1>4. ASSUME NEW p \in Part, NEW q \in Part,
             <<target[1], p>> \in Dirty(F, target), <<target[1], q>> \in Dirty(F, target)
      PROVE  p = q \/ p \in Ancestors[q] \/ q \in Ancestors[p]
  <2>1. target[2] \in Ancestors[p] \cup {p} /\ target[2] \in Ancestors[q] \cup {q}
    BY <1>4 DEF Dirty
  <2> QED BY <1>1, <2>1, PartsAreOrdered
<1>5. \A g \in Dirty(F, target) : g[1] = target[1] /\ g = <<target[1], g[2]>>
  BY <1>2 DEF Dirty
<1>6. Dirty(F, target) \subseteq DOMAIN F
  BY DEF Dirty
<1> QED BY <1>3, <1>4, <1>5, <1>6

\* The loop of an edit after the parts in done: what it has not visited is as
\* before, what it has is settled, and if it failed then at a broken feature.
Progress(F, target, acc, done) ==
    /\ acc = [features |-> acc.features, failed |-> acc.failed]
    /\ acc.failed \in BOOLEAN
    /\ IsFeatureMap(acc.features)
    /\ DOMAIN acc.features = DOMAIN F
    /\ \A f \in DOMAIN F :
         /\ f \notin Dirty(F, target) \/ f[2] \notin done => acc.features[f] = F[f]
         /\ f \notin Dirty(F, target) \/ f[2] \in done => Settled(acc.features, f)
         /\ Recalls(F, acc.features, f)
    /\ acc.failed =>
         \E p \in done : /\ <<target[1], p>> \in Dirty(F, target)
                         /\ acc.features[<<target[1], p>>].status = "broken"

\* Parts in dependency order.
Before(part, done) ==
    /\ done \subseteq Part /\ part \in Part \ done
    /\ Ancestors[part] \subseteq done
    /\ \A p \in done : Ancestors[p] \subseteq done

\* A feature of the dirty branch that gives what is evaluated a settled value.
LEMMA VisitSettles ==
    ASSUME NEW F, AllSettled(F), NEW target \in DOMAIN F, NEW done, NEW part,
           Before(part, done), NEW acc, Progress(F, target, acc, done),
           NEW f, f = <<target[1], part>>, f \in Dirty(F, target),
           NEW G, IsFeatureMap(G), DOMAIN G = DOMAIN F,
           \A g \in DOMAIN F \ {f} : G[g] = acc.features[g],
           Settled(G, f), Recalls(F, G, f),
           NEW failed \in BOOLEAN,
           failed => acc.failed \/ G[f].status = "broken"
    PROVE  Progress(F, target, [features |-> G, failed |-> failed], done \cup {part})
<1> DEFINE dirty == Dirty(F, target)
           next == [features |-> G, failed |-> failed]
<1>1. /\ DOMAIN F \subseteq Feature /\ f \in DOMAIN F /\ f[1] = target[1] /\ f[2] = part
      /\ part \in Part /\ done \subseteq Part
  BY DirtyBranch DEF AllSettled, IsFeatureMap, Before
<1>2. ASSUME NEW g \in DOMAIN F, g \notin dirty \/ g[2] \notin done \cup {part}
      PROVE  G[g] = F[g]
  BY <1>1, <1>2 DEF Progress
<1>3. ASSUME NEW g \in DOMAIN F, g \notin dirty \/ g[2] \in done \cup {part}
      PROVE  Settled(G, g)
  <2>1. CASE g = f
    BY <2>1
  <2>2. CASE g # f
    <3>1. g \in Feature /\ g[2] \in Part /\ g = <<g[1], g[2]>>
      BY <1>1 DEF Feature
    <3>2. g \notin dirty \/ g[2] \in done
      BY <1>1, <1>3, <2>2, DirtyBranch
    <3>3. Settled(acc.features, g)
      BY <3>2 DEF Progress
    <3>4. ASSUME NEW p \in Ancestors[g[2]] PROVE <<g[1], p>> # f
      <4> SUFFICES ASSUME <<g[1], p>> = f PROVE FALSE
        OBVIOUS
      <4>1. g \in dirty
        BY DirtyBranch, <1>1
      <4>2. p \in done
        BY <3>2, <4>1 DEF Before
      <4>3. p = part
        BY <1>1
      <4> QED BY <4>2, <4>3 DEF Before
    <3>5. \A p \in Ancestors[g[2]] : <<g[1], p>> \in DOMAIN F =>
             G[<<g[1], p>>] = acc.features[<<g[1], p>>]
      BY <3>4
    <3> QED BY <2>2, <3>1, <3>3, <3>5, SettledFrame DEF Progress
  <2> QED BY <2>1, <2>2
<1>4. ASSUME NEW g \in DOMAIN F PROVE Recalls(F, G, g)
  BY DEF Progress, Recalls
<1>5. ASSUME failed
      PROVE  \E p \in done \cup {part} : <<target[1], p>> \in dirty
                                         /\ G[<<target[1], p>>].status = "broken"
  <2>1. CASE G[f].status = "broken"
    BY <2>1
  <2>2. CASE acc.failed
    <3>1. PICK p \in done : /\ <<target[1], p>> \in dirty
                            /\ acc.features[<<target[1], p>>].status = "broken"
      BY <2>2 DEF Progress
    <3>2. <<target[1], p>> # f
      BY <1>1 DEF Before
    <3>3. G[<<target[1], p>>] = acc.features[<<target[1], p>>]
      BY <3>1, <3>2, DirtyBranch, <1>1
    <3> QED BY <3>1, <3>3
  <2> QED BY <1>5, <2>1, <2>2
<1>6. next.features = G /\ next.failed = failed
  OBVIOUS
<1> HIDE DEF next, dirty
<1>7. Progress(F, target, next, done \cup {part})
  <2> USE DEF dirty
  <2> QED BY <1>2, <1>3, <1>4, <1>5, <1>6 DEF Progress, next
<1> QED BY <1>7 DEF next

LEMMA VisitProgresses ==
    ASSUME NEW F, AllSettled(F), NEW target \in DOMAIN F, NEW v \in Nat, NEW done, NEW part,
           Before(part, done), NEW acc, Progress(F, target, acc, done)
    PROVE  Progress(F, target, EvaluatePart(acc, part, Dirty(F, target), target, v),
                    done \cup {part})
<1> DEFINE dirty == Dirty(F, target)
           f == <<target[1], part>>
           A == acc.features
<1>1. CASE f \notin dirty
  <2>1. EvaluatePart(acc, part, dirty, target, v) = acc
    BY <1>1 DEF EvaluatePart
  <2>2. \A g \in DOMAIN F : g \in dirty => g[2] # part
    BY <1>1, DirtyBranch DEF AllSettled, IsFeatureMap
  <2> QED BY <2>1, <2>2 DEF Progress
<1>2. CASE f \in dirty
  <2>1. EvaluatePart(acc, part, dirty, target, v) = Evaluate(acc, f, target, v)
    BY <1>2 DEF EvaluatePart
  <2>2. /\ DOMAIN F \subseteq Feature /\ f \in DOMAIN F /\ f[1] = target[1] /\ f[2] = part
        /\ f \in Feature /\ part \in Part /\ IsFeatureMap(A) /\ DOMAIN A = DOMAIN F
        /\ A[f] = F[f] /\ Recalls(F, A, f) /\ IsFeature(A[f])
        /\ acc = [features |-> A, failed |-> acc.failed] /\ acc.failed \in BOOLEAN
    BY <1>2, DirtyBranch DEF AllSettled, IsFeatureMap, Before, Progress
  <2>3. Settled(F, f) /\ Deps(f) \subseteq DOMAIN F
    BY <2>2 DEF AllSettled, Settled
  <2>4. \A g \in Deps(f) : /\ g[1] = target[1] /\ g[2] \in Upstream[part] /\ g = <<g[1], g[2]>>
                           /\ g[2] \in Ancestors[part] /\ g # f
                           /\ Settled(A, g)
    BY <2>2, <2>3, PartsAreOrdered DEF Deps, Before, Progress
  <2> DEFINE W == IF f = target THEN [A EXCEPT ![f].value = v] ELSE A
  <2>5. /\ IsFeatureMap(W) /\ DOMAIN W = DOMAIN F
        /\ \A g \in DOMAIN F \ {f} : W[g] = A[g]
        /\ W[f].shape = F[f].shape /\ W[f].stale = F[f].stale
    BY <2>2, EvaluatedFeature DEF IsFeatureMap, IsFeature
  <2> HIDE DEF W
  <2>6. CASE acc.failed \/ \E g \in Deps(f) : A[g].status # "current"
    <3> DEFINE G == Blocked(A, f)
    <3>1. /\ G = [g \in DOMAIN F |-> IF g = f
                THEN [value |-> A[f].value, shape |-> None,
                      stale |-> IF A[f].stale = None THEN A[f].shape ELSE A[f].stale,
                      status |-> "blocked"]
                ELSE A[g]]
      <4> HIDE DEF A, f
      <4> QED BY <2>2, EvaluatedFeature
    <3>2. Evaluate(acc, f, target, v) = [features |-> G, failed |-> acc.failed]
      BY <2>2, <2>6 DEF Evaluate
    <3>3. \E p \in Ancestors[part] : /\ <<target[1], p>> \in DOMAIN F
                                     /\ A[<<target[1], p>>].status = "broken"
      <4>1. CASE acc.failed
        <5>1. PICK p \in done : <<target[1], p>> \in dirty /\ A[<<target[1], p>>].status = "broken"
          BY <4>1 DEF Progress
        <5>2. p \in Part /\ p # part /\ part \notin Ancestors[p]
          BY DEF Before
        <5>3. p \in Ancestors[part]
          BY <1>2, <2>2, <5>1, <5>2, DirtyBranch
        <5> QED BY <2>2, <5>1, <5>3, DirtyBranch
      <4>2. CASE \E g \in Deps(f) : A[g].status # "current"
        <5>1. PICK g \in Deps(f) : A[g].status # "current"
          BY <4>2
        <5>2. A[g].status \in {"broken", "blocked"} /\ g \in DOMAIN F
          BY <2>2, <2>3, <5>1 DEF IsFeatureMap, IsFeature, Status
        <5>3. CASE A[g].status = "broken"
          BY <2>4, <5>2, <5>3
        <5>4. CASE A[g].status = "blocked"
          <6>1. PICK p \in Ancestors[g[2]] : /\ <<g[1], p>> \in DOMAIN A
                                            /\ A[<<g[1], p>>].status = "broken"
            BY <2>4, <5>4 DEF Settled
          <6>2. p \in Ancestors[part]
            BY <2>2, <2>4, PartsAreOrdered
          <6> QED BY <2>2, <2>4, <6>1, <6>2
        <5> QED BY <5>2, <5>3, <5>4
      <4> QED BY <2>6, <4>1, <4>2
    <3>4. /\ DOMAIN G = DOMAIN F /\ \A g \in DOMAIN F \ {f} : G[g] = A[g]
          /\ G[f] = [value |-> A[f].value, shape |-> None,
                     stale |-> IF A[f].stale = None THEN A[f].shape ELSE A[f].stale,
                     status |-> "blocked"]
      BY <2>2, <3>1
    <3>5. IsFeatureMap(G)
      BY <2>2, <3>1, <3>4 DEF IsFeatureMap, IsFeature, Status
    <3> HIDE DEF G
    <3>6. Settled(G, f)
      <4>1. PICK p \in Ancestors[part] : /\ <<target[1], p>> \in DOMAIN F
                                         /\ A[<<target[1], p>>].status = "broken"
        BY <3>3
      <4>2. <<target[1], p>> # f
        BY <2>2, PartsAreOrdered
      <4> QED BY <2>2, <2>3, <3>4, <4>1, <4>2 DEF Settled
    <3>7. Recalls(F, G, f)
      BY <2>2, <3>4 DEF Recalls
    <3> QED BY <1>2, <2>1, <2>2, <3>2, <3>4, <3>5, <3>6, <3>7, VisitSettles
  <2>7. CASE ~(acc.failed \/ \E g \in Deps(f) : A[g].status # "current") /\ W[f].value = 0
    <3> DEFINE G == Broken(W, f)
    <3>1. /\ G = [g \in DOMAIN F |-> IF g = f
                THEN [value |-> W[f].value, shape |-> None, stale |-> W[f].shape,
                      status |-> "broken"]
                ELSE W[g]]
      <4> HIDE DEF A, f
      <4> QED BY <2>2, <2>5, EvaluatedFeature
    <3>2. Evaluate(acc, f, target, v) = [features |-> G, failed |-> TRUE]
      BY <2>7 DEF Evaluate, W
    <3>4. /\ DOMAIN G = DOMAIN F /\ \A g \in DOMAIN F \ {f} : G[g] = A[g]
          /\ G[f] = [value |-> W[f].value, shape |-> None, stale |-> F[f].shape,
                     status |-> "broken"]
      BY <2>2, <2>5, <3>1
    <3>5. IsFeatureMap(G)
      <4>1. W[f].value \in Nat
        BY <2>2, <2>5 DEF IsFeatureMap, IsFeature
      <4>2. IsFeature(G[f])
        BY <3>4, <4>1 DEF IsFeature, Status
      <4> QED BY <2>2, <2>5, <3>1, <3>4, <4>2 DEF IsFeatureMap
    <3> HIDE DEF G
    <3>6. Settled(G, f)
      BY <2>3, <3>4 DEF Settled
    <3>7. Recalls(F, G, f)
      BY <3>4 DEF Recalls
    <3>8. PICK failed \in BOOLEAN : failed = TRUE
      OBVIOUS
    <3>9. Progress(F, target, [features |-> G, failed |-> failed], done \cup {part})
      BY <1>2, <2>2, <3>4, <3>5, <3>6, <3>7, VisitSettles
    <3> QED BY <2>1, <3>2, <3>8, <3>9
  <2>8. CASE ~(acc.failed \/ \E g \in Deps(f) : A[g].status # "current") /\ W[f].value # 0
    <3> DEFINE G == Current(W, f)
    <3>1. /\ G = [g \in DOMAIN F |-> IF g = f
                THEN [value |-> W[f].value, shape |-> Fingerprint(W, f), stale |-> None,
                      status |-> "current"]
                ELSE W[g]]
      <4> HIDE DEF A, f
      <4> QED BY <2>2, <2>5, EvaluatedFeature
    <3>2. Evaluate(acc, f, target, v) = [features |-> G, failed |-> acc.failed]
      BY <2>2, <2>8 DEF Evaluate, W
    <3>4. /\ DOMAIN G = DOMAIN F /\ \A g \in DOMAIN F \ {f} : G[g] = A[g]
          /\ G[f] = [value |-> W[f].value, shape |-> Fingerprint(W, f), stale |-> None,
                     status |-> "current"]
      BY <2>2, <2>5, <3>1
    <3>5. IsFeatureMap(G)
      <4>1. W[f].value \in Nat
        BY <2>2, <2>5 DEF IsFeatureMap, IsFeature
      <4>2. IsFeature(G[f])
        BY <3>4, <4>1 DEF IsFeature, Status
      <4> QED BY <2>2, <2>5, <3>1, <3>4, <4>2 DEF IsFeatureMap
    <3> HIDE DEF G
    <3>6. \A g \in Deps(f) : G[g] = A[g] /\ W[g] = A[g] /\ A[g].status = "current"
      BY <2>3, <2>4, <2>5, <2>8, <3>4
    <3>7. Fingerprint(G, f) = Fingerprint(W, f)
      BY <3>4, <3>6 DEF Fingerprint
    <3>8. Settled(G, f)
      BY <2>3, <3>4, <3>6, <3>7 DEF Settled
    <3>9. Recalls(F, G, f)
      BY <3>4 DEF Recalls
    <3> QED BY <1>2, <2>1, <2>2, <2>8, <3>2, <3>4, <3>5, <3>8, <3>9, VisitSettles
  <2> QED BY <2>6, <2>7, <2>8
<1> QED BY <1>1, <1>2

\* The parts come in dependency order.
LEMMA PartsInOrder ==
    /\ Before("base", {})
    /\ Before("bend", {"base"})
    /\ Before("finish", {"base", "bend"})
    /\ Before("ibase", {"base", "bend", "finish"})
    /\ Before("ifinish", {"base", "bend", "finish", "ibase"})
<1>1. /\ Ancestors["base"] = {} /\ Ancestors["bend"] = {"base"}
      /\ Ancestors["finish"] = {"bend", "base"}
      /\ Ancestors["ibase"] = {} /\ Ancestors["ifinish"] = {"ibase"}
  BY PartsAreOrdered DEF Part
<1> QED BY <1>1 DEF Before, Part

\* A historical edit of a settled feature map leaves a settled one.
LEMMA EditedSettles ==
    ASSUME NEW F, AllSettled(F), NEW target \in DOMAIN F, NEW v \in Nat
    PROVE  /\ AllSettled(Edited(F, target, v))
           /\ DOMAIN Edited(F, target, v) = DOMAIN F
           /\ \A f \in DOMAIN F : Recalls(F, Edited(F, target, v), f)
<1> DEFINE Visit(acc, part) == EvaluatePart(acc, part, Dirty(F, target), target, v)
           a0 == [features |-> F, failed |-> FALSE]
           a1 == Visit(a0, "base")
           a2 == Visit(a1, "bend")
           a3 == Visit(a2, "finish")
           a4 == Visit(a3, "ibase")
           a5 == Visit(a4, "ifinish")
<1>1. Edited(F, target, v) = a5.features
  BY DEF Edited, ForEachPart
<1>2. Progress(F, target, a0, {})
  BY DEF Progress, AllSettled, Recalls
<1>3. \A acc, done, part :
        Before(part, done) /\ Progress(F, target, acc, done) =>
          Progress(F, target, Visit(acc, part), done \cup {part})
  BY VisitProgresses
<1> HIDE DEF Visit, a0
<1>4. Progress(F, target, a1, {"base"})
  <2>1. {} \cup {"base"} = {"base"}
    OBVIOUS
  <2> QED BY <1>2, <1>3, <2>1, PartsInOrder
<1> HIDE DEF a1
<1>5. Progress(F, target, a2, {"base", "bend"})
  <2>1. {"base"} \cup {"bend"} = {"base", "bend"}
    OBVIOUS
  <2> QED BY <1>3, <1>4, <2>1, PartsInOrder
<1> HIDE DEF a2
<1>6. Progress(F, target, a3, {"base", "bend", "finish"})
  <2>1. {"base", "bend"} \cup {"finish"} = {"base", "bend", "finish"}
    OBVIOUS
  <2> QED BY <1>3, <1>5, <2>1, PartsInOrder
<1> HIDE DEF a3
<1>7. Progress(F, target, a4, {"base", "bend", "finish", "ibase"})
  <2>1. {"base", "bend", "finish"} \cup {"ibase"} = {"base", "bend", "finish", "ibase"}
    OBVIOUS
  <2> QED BY <1>3, <1>6, <2>1, PartsInOrder
<1> HIDE DEF a4
<1>8. Progress(F, target, a5, Part)
  <2>1. {"base", "bend", "finish", "ibase"} \cup {"ifinish"} = Part
    BY DEF Part
  <2> QED BY <1>3, <1>7, <2>1, PartsInOrder
<1> HIDE DEF a5
<1>9. \A f \in DOMAIN F : f[2] \in Part
  BY DEF AllSettled, IsFeatureMap, Feature
<1> QED BY <1>1, <1>8, <1>9 DEF Progress, AllSettled

\* The bracket b after the parts in done: these are current, computed from
\* their inputs, and no other bracket is touched.
Dimensioning(F, b, G, done) ==
    /\ IsFeatureMap(G)
    /\ DOMAIN G = DOMAIN F \cup {<<b, part>> : part \in done}
    /\ \A f \in DOMAIN F : f[1] # b => G[f] = F[f]
    /\ \A part \in done : Settled(G, <<b, part>>) /\ G[<<b, part>>].status = "current"

LEMMA DimensionProgresses ==
    ASSUME NEW F, AllSettled(F), NEW b \in Bracket, NEW d \in Dims, NEW done, NEW part,
           Before(part, done), NEW G, Dimensioning(F, b, G, done)
    PROVE  Dimensioning(F, b, DimensionPart(G, part, b, d), done \cup {part})
<1> DEFINE f == <<b, part>>
           fresh == [value |-> d[InputOf[part]], shape |-> None,
                     stale |-> None, status |-> "current"]
           W == [g \in DOMAIN G \cup {f} |-> IF g = f THEN fresh ELSE G[g]]
           H == Current(W, f)
<1>1. /\ part \in Part /\ done \subseteq Part /\ f \in Feature /\ f[1] = b /\ f[2] = part
      /\ IsFeatureMap(G)
  BY DEF Before, Feature, Dimensioning
<1>2. d[InputOf[part]] \in Nat
  BY <1>1, DimsAssumption DEF Part, InputOf
<1>3. IsFeature(fresh)
  BY <1>2 DEF IsFeature, Status
<1>4. IsFeatureMap(W) /\ DOMAIN W = DOMAIN G \cup {f}
  <2> HIDE DEF fresh, f
  <2> QED BY <1>1, <1>3 DEF IsFeatureMap
<1>5. DimensionPart(G, part, b, d) = H
  BY DEF DimensionPart
<1>6. /\ H = [g \in DOMAIN W |-> IF g = f
                THEN [value |-> W[f].value, shape |-> Fingerprint(W, f), stale |-> None,
                      status |-> "current"]
                ELSE W[g]]
  <2> HIDE DEF W, f
  <2> QED BY <1>4, EvaluatedFeature
<1>7. /\ DOMAIN H = DOMAIN G \cup {f}
      /\ \A g \in DOMAIN G \ {f} : H[g] = G[g] /\ W[g] = G[g]
      /\ H[f] = [value |-> W[f].value, shape |-> Fingerprint(W, f), stale |-> None,
                 status |-> "current"]
      /\ W[f].value \in Nat
  <2> HIDE DEF H
  <2> QED BY <1>2, <1>4, <1>6
<1>8. IsFeatureMap(H)
  <2>1. IsFeature(H[f])
    BY <1>7 DEF IsFeature, Status
  <2> HIDE DEF H, W, f
  <2> QED BY <1>1, <1>4, <1>6, <1>7, <2>1 DEF IsFeatureMap
<1> HIDE DEF H, W
<1>9. DOMAIN H = DOMAIN F \cup {<<b, p>> : p \in done \cup {part}}
  BY <1>7 DEF Dimensioning
<1>10. \A g \in DOMAIN F : g[1] # b => H[g] = F[g]
  BY <1>1, <1>7 DEF Dimensioning
<1>11. \A g \in Deps(f) : /\ g # f /\ g[1] = b /\ g[2] \in done /\ g = <<b, g[2]>>
                          /\ g \in DOMAIN G
  BY <1>1, PartsAreOrdered DEF Deps, Before, Dimensioning
<1>12. Fingerprint(H, f) = Fingerprint(W, f) /\ \A g \in Deps(f) : H[g].status = "current"
  <2>1. \A g \in Deps(f) : H[g] = W[g] /\ H[g] = G[g] /\ G[g].status = "current"
    BY <1>7, <1>11 DEF Dimensioning
  <2> QED BY <1>7, <2>1 DEF Fingerprint
<1>13. Settled(H, f) /\ H[f].status = "current"
  BY <1>7, <1>11, <1>12 DEF Settled
<1>14. ASSUME NEW p \in done PROVE Settled(H, <<b, p>>) /\ H[<<b, p>>].status = "current"
  <2> DEFINE g == <<b, p>>
  <2>1. g \in Feature /\ g \in DOMAIN G /\ g # f /\ g[1] = b /\ g[2] = p
        /\ Settled(G, g) /\ G[g].status = "current"
    BY <1>1 DEF Feature, Dimensioning, Before
  <2>2. \A q \in Ancestors[p] : <<b, q>> # f
    BY DEF Before
  <2>3. Settled(H, g)
    <3> HIDE DEF f
    <3> QED BY <1>7, <2>1, <2>2, SettledFrame
  <2> QED BY <1>7, <2>1, <2>3
<1> QED BY <1>5, <1>8, <1>9, <1>10, <1>13, <1>14 DEF Dimensioning

\* Setting all inputs of a bracket leaves a settled feature map.
LEMMA DimensionedSettles ==
    ASSUME NEW F, AllSettled(F), NEW b \in Bracket, NEW d \in Dims
    PROVE  /\ AllSettled(Dimensioned(F, b, d))
           /\ DOMAIN F \subseteq DOMAIN Dimensioned(F, b, d)
           /\ \A f \in DOMAIN Dimensioned(F, b, d) :
                \/ Dimensioned(F, b, d)[f].status = "current"
                \/ f \in DOMAIN F /\ Recalls(F, Dimensioned(F, b, d), f)
<1> DEFINE Visit(G, part) == DimensionPart(G, part, b, d)
           g1 == Visit(F, "base")
           g2 == Visit(g1, "bend")
           g3 == Visit(g2, "finish")
           g4 == Visit(g3, "ibase")
           g5 == Visit(g4, "ifinish")
<1>1. Dimensioned(F, b, d) = g5
  BY DEF Dimensioned, ForEachPart
<1>2. Dimensioning(F, b, F, {})
  BY DEF Dimensioning, AllSettled
<1>3. \A G, done, part :
        Before(part, done) /\ Dimensioning(F, b, G, done) =>
          Dimensioning(F, b, Visit(G, part), done \cup {part})
  BY DimensionProgresses
<1> HIDE DEF Visit
<1>4. Dimensioning(F, b, g1, {"base"})
  <2>1. {} \cup {"base"} = {"base"}
    OBVIOUS
  <2> QED BY <1>2, <1>3, <2>1, PartsInOrder
<1> HIDE DEF g1
<1>5. Dimensioning(F, b, g2, {"base", "bend"})
  <2>1. {"base"} \cup {"bend"} = {"base", "bend"}
    OBVIOUS
  <2> QED BY <1>3, <1>4, <2>1, PartsInOrder
<1> HIDE DEF g2
<1>6. Dimensioning(F, b, g3, {"base", "bend", "finish"})
  <2>1. {"base", "bend"} \cup {"finish"} = {"base", "bend", "finish"}
    OBVIOUS
  <2> QED BY <1>3, <1>5, <2>1, PartsInOrder
<1> HIDE DEF g3
<1>7. Dimensioning(F, b, g4, {"base", "bend", "finish", "ibase"})
  <2>1. {"base", "bend", "finish"} \cup {"ibase"} = {"base", "bend", "finish", "ibase"}
    OBVIOUS
  <2> QED BY <1>3, <1>6, <2>1, PartsInOrder
<1> HIDE DEF g4
<1>8. Dimensioning(F, b, g5, Part)
  <2>1. {"base", "bend", "finish", "ibase"} \cup {"ifinish"} = Part
    BY DEF Part
  <2> QED BY <1>3, <1>7, <2>1, PartsInOrder
<1> HIDE DEF g5
<1>9. ASSUME NEW f \in DOMAIN g5
      PROVE  /\ Settled(g5, f)
             /\ \/ g5[f].status = "current"
                \/ f \in DOMAIN F /\ Recalls(F, g5, f)
  <2>1. f \in Feature /\ f[2] \in Part /\ f = <<f[1], f[2]>>
    BY <1>8 DEF Dimensioning, IsFeatureMap, Feature
  <2>2. CASE f[1] = b
    <3>1. PICK part \in Part : f = <<b, part>>
      BY <2>1, <2>2
    <3>2. Settled(g5, <<b, part>>) /\ g5[<<b, part>>].status = "current"
      BY <1>8 DEF Dimensioning
    <3>3. Settled(g5, f) /\ g5[f].status = "current"
      BY ONLY <3>1, <3>2, Zenon
    <3> QED BY <3>3
  <2>3. CASE f[1] # b
    <3>1. f \in DOMAIN F /\ g5[f] = F[f] /\ Settled(F, f) /\ DOMAIN F \subseteq DOMAIN g5
      BY <1>8, <2>3 DEF Dimensioning, AllSettled
    <3>2. \A q \in Ancestors[f[2]] : <<f[1], q>> \in DOMAIN F =>
             g5[<<f[1], q>>] = F[<<f[1], q>>]
      BY <1>8, <2>3 DEF Dimensioning
    <3>3. Settled(g5, f)
      BY <2>1, <3>1, <3>2, SettledFrame
    <3> QED BY <3>1, <3>3 DEF Recalls
  <2> QED BY <2>2, <2>3
<1> QED BY <1>1, <1>8, <1>9 DEF AllSettled, Dimensioning

\* Geometry that a feature has had while it was current.
WasCurrent(f, shape) ==
    \E i \in DOMAIN events :
        /\ f \in DOMAIN events[i].active.features
        /\ events[i].active.features[f].status = "current"
        /\ events[i].active.features[f].shape = shape

SoundSnapshot(s) ==
    /\ s.revision \in Nat
    /\ AllSettled(s.features)
    /\ ValidSnapshot(s)
    /\ \A f \in DOMAIN s.features :
         s.features[f].status # "current" => WasCurrent(f, s.features[f].stale)

EvaluationInv ==
    /\ LogEndsAtActive
    /\ \A i \in DOMAIN events : events[i].kind \in Kind
    /\ \A s \in Snapshots : SoundSnapshot(s)

\* The active snapshot is in the log as soon as it has a feature.
LEMMA ActiveIsLogged ==
    ASSUME LogEndsAtActive, DOMAIN active.features # {}
    PROVE  \E i \in DOMAIN events : events[i].active = active
<1>1. DOMAIN events = 1 .. Len(events) /\ Len(events) \in Nat
  BY PositionsAreFinite
<1>2. Len(events) # 0
  <2> SUFFICES ASSUME Len(events) = 0 PROVE FALSE
    OBVIOUS
  <2>1. active = Genesis
    BY DEF LogEndsAtActive, ActiveBefore
  <2> QED BY <2>1 DEF Genesis
<1>3. Len(events) \in DOMAIN events /\ active = events[Len(events)].active
  BY <1>1, <1>2 DEF LogEndsAtActive, ActiveBefore
<1> QED BY <1>3

\* What is remembered instead of current geometry was current once.
LEMMA RecalledWasCurrent ==
    ASSUME EvaluationInv, NEW s, ValidSnapshot(s), IsFeatureMap(s.features),
           NEW f \in DOMAIN active.features, f \in DOMAIN s.features,
           Recalls(active.features, s.features, f),
           s.features[f].status # "current"
    PROVE  WasCurrent(f, s.features[f].stale)
<1> DEFINE old == active.features[f]
           new == s.features[f]
<1>1. SoundSnapshot(active) /\ \A i \in DOMAIN events : SoundSnapshot(events[i].active)
  BY DEF EvaluationInv, Snapshots
<1>2. old.status \in Status /\ new.status \in {"broken", "blocked"}
  BY <1>1 DEF SoundSnapshot, AllSettled, IsFeatureMap, IsFeature, Status
<1>3. /\ old.status = "current" => old.shape # None /\ old.stale = None
      /\ old.status # "current" => old.shape = None
  BY <1>1, <1>2 DEF SoundSnapshot, ValidSnapshot, Status
<1>4. new.status = "broken" => new.stale # None
  BY DEF ValidSnapshot
<1>5. old.status = "current" => WasCurrent(f, old.shape)
  BY ActiveIsLogged DEF WasCurrent, EvaluationInv
<1>6. old.status # "current" => WasCurrent(f, old.stale) /\ old.stale # None
  <2> SUFFICES ASSUME old.status # "current"
               PROVE  WasCurrent(f, old.stale) /\ old.stale # None
    OBVIOUS
  <2>1. WasCurrent(f, old.stale)
    BY <1>1 DEF SoundSnapshot
  <2>2. PICK i \in DOMAIN events :
          /\ f \in DOMAIN events[i].active.features
          /\ events[i].active.features[f].status = "current"
          /\ events[i].active.features[f].shape = old.stale
    BY <2>1 DEF WasCurrent
  <2>3. old.stale # None
    BY <1>1, <2>2 DEF SoundSnapshot, ValidSnapshot
  <2> QED BY <2>1, <2>3
<1>7. CASE new = old
  BY <1>6, <1>7
<1>8. CASE new.status = "broken" /\ new.stale = old.shape
  BY <1>3, <1>4, <1>5, <1>8
<1>9. CASE new.status = "blocked" /\ new.stale = IF old.stale = None THEN old.shape ELSE old.stale
  BY <1>3, <1>5, <1>6, <1>9
<1> QED BY <1>7, <1>8, <1>9 DEF Recalls

\* A recomputed snapshot that is accepted is sound.
LEMMA RecomputedIsSound ==
    ASSUME EvaluationInv, NEW s, ValidSnapshot(s), Recomputed(s)
    PROVE  SoundSnapshot(s)
<1>1. SoundSnapshot(active) /\ AllSettled(active.features)
  BY DEF EvaluationInv, Snapshots, SoundSnapshot
<1>2. s.revision \in Nat
  BY PositionsAreFinite DEF Recomputed, EvaluationInv
<1>3. /\ AllSettled(s.features)
      /\ \A f \in DOMAIN s.features :
           \/ s.features[f].status = "current"
           \/ f \in DOMAIN active.features /\ Recalls(active.features, s.features, f)
  <2>1. CASE \E b \in Bracket, d \in Dims : s.features = Dimensioned(active.features, b, d)
    BY <1>1, <2>1, DimensionedSettles
  <2>2. CASE \E f \in DOMAIN active.features, v \in Value :
               s.features = Edited(active.features, f, v)
    BY <1>1, <2>2, EditedSettles, ValueAssumption
  <2> QED BY <2>1, <2>2 DEF Recomputed
<1>4. IsFeatureMap(s.features)
  BY <1>3 DEF AllSettled
<1>5. \A f \in DOMAIN s.features :
        s.features[f].status # "current" => WasCurrent(f, s.features[f].stale)
  BY <1>3, <1>4, RecalledWasCurrent
<1> QED BY <1>2, <1>3, <1>5 DEF SoundSnapshot

LEMMA EvaluationStarts == Init => EvaluationInv
<1> SUFFICES ASSUME Init PROVE EvaluationInv
  OBVIOUS
<1>1. LogEndsAtActive
  BY InitHolds DEF HistoryInv
<1>2. events = <<>> /\ active = Genesis /\ named = <<>>
  BY DEF Init
<1>3. Len(events) = 0 /\ DOMAIN events = {} /\ DOMAIN named = {}
  BY <1>2
<1>4. Snapshots = {Genesis}
  BY <1>2, <1>3 DEF Snapshots
<1>5. DOMAIN Genesis.features = {} /\ Genesis.revision = 0
      /\ Genesis.features = [f \in {} |-> Genesis.features[f]]
  BY DEF Genesis
<1>6. SoundSnapshot(Genesis)
  BY <1>5 DEF SoundSnapshot, AllSettled, IsFeatureMap, ValidSnapshot
<1> QED BY <1>1, <1>3, <1>4, <1>6 DEF EvaluationInv

LEMMA EvaluationKept == EvaluationInv /\ [Next]_vars => EvaluationInv'
<1> SUFFICES ASSUME EvaluationInv, [Next]_vars PROVE EvaluationInv'
  OBVIOUS
<1>1. CASE Next
  <2>1. PICK event, revisions : /\ Apply(event, revisions) /\ Keeps(event, revisions)
                                /\ Activates(event)
    BY <1>1, EveryStepKeeps DEF Kept
  <2>2. /\ LogEndsAtActive'
        /\ DOMAIN events' = DOMAIN events \cup {Len(events) + 1}
        /\ \A i \in DOMAIN events : events'[i] = events[i]
        /\ events'[Len(events) + 1] = event
    BY <2>1, AppendedLog DEF EvaluationInv
  <2>3. active' = event.active /\ named' = revisions /\ ValidSnapshot(event.active)
    BY <2>1 DEF Apply, ValidEvent
  <2>4. Snapshots' \subseteq Snapshots \cup {event.active}
    BY <2>1, <2>2, <2>3 DEF Snapshots, Keeps
  <2>5. SoundSnapshot(event.active)
    BY <2>1, <2>3, RecomputedIsSound DEF Activates, EvaluationInv
  <2>6. \A f, shape : WasCurrent(f, shape) => WasCurrent(f, shape)'
    BY <2>2 DEF WasCurrent
  <2>7. \A s : SoundSnapshot(s) => SoundSnapshot(s)'
    BY <2>6 DEF SoundSnapshot
  <2>8. \A s \in Snapshots' : SoundSnapshot(s)'
    BY <2>4, <2>5, <2>7 DEF EvaluationInv
  <2>9. \A i \in DOMAIN events' : events'[i].kind \in Kind
    BY <2>1, <2>2 DEF EvaluationInv, Activates
  <2> QED BY <2>2, <2>8, <2>9 DEF EvaluationInv
<1>2. CASE UNCHANGED vars
  <2>1. /\ LogEndsAtActive' /\ Snapshots' = Snapshots /\ events' = events
        /\ \A s : SoundSnapshot(s)' = SoundSnapshot(s)
    BY <1>2 DEF EvaluationInv, LogEndsAtActive, ActiveBefore, Snapshots, SoundSnapshot,
                WasCurrent, vars
  <2> QED BY <2>1 DEF EvaluationInv
<1> QED BY <1>1, <1>2

LEMMA SoundIsSnapshot ==
    ASSUME NEW s, SoundSnapshot(s)
    PROVE  IsSnapshot(s)
BY DEF SoundSnapshot, AllSettled, Settled, IsFeatureMap, IsFeature, IsSnapshot

\* The incremental evaluation of the dirty branch leaves what a full one would
\* and keeps what recovery needs (historical_edit).
THEOREM TheEvaluationIsSound == Spec => []EvaluationIsSound
<1>1. EvaluationInv => EvaluationIsSound
  <2> SUFFICES ASSUME EvaluationInv PROVE EvaluationIsSound
    OBVIOUS
  <2>1. /\ SoundSnapshot(active)
        /\ \A n \in DOMAIN named : SoundSnapshot(named[n])
        /\ \A i \in DOMAIN events : SoundSnapshot(events[i].active)
    BY DEF EvaluationInv, Snapshots
  <2>2. TypeOK
    BY <2>1, SoundIsSnapshot DEF TypeOK, EvaluationInv
  <2>3. CurrentIsFresh /\ BlockedByAncestor
    BY <2>1 DEF SoundSnapshot, AllSettled, Settled, CurrentIsFresh, BlockedByAncestor
  <2>4. StaleIsLastValid
    BY <2>1 DEF SoundSnapshot, WasCurrent, StaleIsLastValid
  <2> QED BY <2>2, <2>3, <2>4 DEF EvaluationIsSound
<1> QED BY <1>1, EvaluationStarts, EvaluationKept, PTL DEF Spec

-----------------------------------------------------------------------------
(* The stored project *)

\* A command that appends to the history is a step of History.
LEMMA HistoryCommands ==
    ASSUME EditPartAssumption,
           \/ \E b \in Bracket, d \in Dims :
                 CreateBracket(b, d) \/ SaveBracket(b, d) \/ CommitDraft(b, d)
           \/ \E b \in Bracket, part \in EditPart, v \in Value : HistoricalEdit(<<b, part>>, v)
           \/ \E n \in UserName : NameRevision(n)
           \/ \E n \in DOMAIN named : RestoreRevision(n)
           \/ UndoCommand
           \/ RedoCommand
    PROVE  Next
<1>1. ASSUME NEW b \in Bracket, NEW d \in Dims,
             CreateBracket(b, d) \/ SaveBracket(b, d) \/ CommitDraft(b, d)
      PROVE  Next
  <2>1. Initialize(b, d) \/ EditBracket(b, d)
    BY <1>1 DEF CreateBracket, SaveBracket, CommitDraft
  <2> QED BY <2>1 DEF Next
<1>2. ASSUME NEW b \in Bracket, NEW part \in EditPart, NEW v \in Value,
             HistoricalEdit(<<b, part>>, v)
      PROVE  Next
  <2>1. Edit(<<b, part>>, v)
    BY <1>2 DEF HistoricalEdit
  <2>2. <<b, part>> \in DOMAIN active.features
    BY <2>1 DEF Edit
  <2> QED BY <2>1, <2>2 DEF Next
<1>3. ASSUME NEW n \in UserName, NameRevision(n) PROVE Next
  BY <1>3 DEF NameRevision, Next
<1>4. ASSUME NEW n \in DOMAIN named, RestoreRevision(n) PROVE Next
  BY <1>4 DEF RestoreRevision, Next
<1>5. CASE UndoCommand
  BY <1>5 DEF UndoCommand, Next
<1>6. CASE RedoCommand
  BY <1>6 DEF RedoCommand, Next
<1> QED BY <1>1, <1>2, <1>3, <1>4, <1>5, <1>6

\* Commands on the feature graph, a loss of geometry and a load leave the
\* history alone.
LEMMA OtherSteps ==
    ASSUME \/ \E id \in Loose, k \in LooseKind :
                 SaveFeature(id, k) \/ ApplyAdd(id, k) \/ ApplySet(id, k)
           \/ \E id \in Loose : ApplyRemove(id)
           \/ \E b \in DOMAIN brep : LoseGeometry(b)
           \/ Load
    PROVE  UNCHANGED vars
<1>1. ASSUME NEW entry, ChangeGraph(entry) PROVE UNCHANGED vars
  BY <1>1 DEF ChangeGraph
<1>2. ASSUME NEW id \in Loose, NEW k \in LooseKind,
             SaveFeature(id, k) \/ ApplyAdd(id, k) \/ ApplySet(id, k)
      PROVE  UNCHANGED vars
  BY <1>1, <1>2 DEF SaveFeature, ApplyAdd, ApplySet
<1>3. ASSUME NEW id \in Loose, ApplyRemove(id) PROVE UNCHANGED vars
  BY <1>1, <1>3 DEF ApplyRemove
<1>4. ASSUME NEW b \in DOMAIN brep, LoseGeometry(b) PROVE UNCHANGED vars
  BY <1>4 DEF LoseGeometry
<1>5. CASE Load
  BY <1>5 DEF Load
<1> QED BY <1>2, <1>3, <1>4, <1>5

LEMMA ProjectSteps == [ProjectNext]_projectVars => [Next]_vars
<1>1. CASE ProjectNext
  BY <1>1, HistoryCommands, OtherSteps, EditPartAssumption DEF ProjectNext
<1>2. CASE UNCHANGED projectVars
  BY <1>2 DEF projectVars
<1> QED BY <1>1, <1>2

\* A stored project implements the parametric history.
THEOREM ProjectImplementsHistory == ProjectSpec => Spec
<1>1. ProjectInit => Init
  BY DEF ProjectInit
<1> QED BY <1>1, ProjectSteps, PTL DEF ProjectSpec, Spec

\* In a stored project too whatever was displaced stays addressable.
THEOREM ProjectKeepsDisplaced == ProjectSpec => []DisplacedStaysNamed
BY ProjectImplementsHistory, DisplacedWorkIsKept, PTL

\* In a stored project too no command changes a Named Revision.
THEOREM ProjectKeepsNamed == ProjectSpec => NamedImmutable
BY ProjectImplementsHistory, NamedRevisionsAreKept, PTL

\* In a stored project too the timeline is sound.
THEOREM ProjectKeepsTimeline == ProjectSpec => []TimelineIsSound
BY ProjectImplementsHistory, TheTimelineIsSound, PTL

\* In a stored project too the evaluation is sound.
THEOREM ProjectEvaluatesSoundly == ProjectSpec => []EvaluationIsSound
BY ProjectImplementsHistory, TheEvaluationIsSound, PTL

-----------------------------------------------------------------------------
(* Folds, replays and provenance *)

\* A set of naturals without a smallest element is empty.
LEMMA Smallest ==
    ASSUME NEW T \in SUBSET Nat, T # {}
    PROVE  \E m \in T : \A k \in T : m <= k
<1>1. PICK m \in T : \A k \in T : ~ (<<k, m>> \in OpToRel(<, Nat))
  BY NatLessThanWellFounded, WFMin
<1>2. \A k \in T : ~ (k < m)
  BY <1>1 DEF OpToRel
<1> QED BY <1>2

\* Max of the community modules is the greatest element, where there is one.
LEMMA GreatestOf ==
    ASSUME NEW t \in SUBSET Int, NEW k \in t, \A x \in t : x <= k
    PROVE  Max(t) = k
<1>1. \E x \in t : \A y \in t : x >= y
  OBVIOUS
<1>2. Max(t) \in t /\ \A y \in t : Max(t) >= y
  BY <1>1 DEF Max
<1>3. Max(t) \in Int /\ k \in Int /\ Max(t) <= k /\ Max(t) >= k
  BY <1>2
<1> QED BY <1>3

\* FoldLeft is defined by a recursion over sets of positions.  Along the
\* sequence it goes one entry after the other; a lemma cannot take the folded
\* operator as a parameter, so there is one for each.
EnteredAll(base, s) == FoldLeft(Entered, base, s)

LEMMA EnteredFolds ==
    ASSUME NEW base, NEW n \in Nat, NEW s, DOMAIN s = 1 .. n
    PROVE  \E f : /\ f[0] = base
                  /\ \A i \in 1 .. n : f[i] = Entered(f[i - 1], s[i])
                  /\ f[n] = EnteredAll(base, s)
<1> DEFINE Body(it, t) == IF t = {} THEN base ELSE Entered(it[t \ {Max(t)}], s[Max(t)])
           Iter(it, k) == it = [t \in SUBSET (1 .. k) |-> Body(it, t)]
<1>1. EnteredAll(base, s) = (CHOOSE it : Iter(it, n))[1 .. n]
  BY DEF EnteredAll, FoldLeft, MapThenFoldSet
<1>2. \E it : Iter(it, 0)
  <2>1. PICK it : it = [t \in SUBSET (1 .. 0) |-> base]
    OBVIOUS
  <2>2. \A t \in SUBSET (1 .. 0) : Body(it, t) = base
    OBVIOUS
  <2> HIDE DEF Body
  <2>3. it = [t \in SUBSET (1 .. 0) |-> Body(it, t)]
    BY <2>1, <2>2
  <2> QED BY <2>3
<1>3. ASSUME NEW k \in Nat, \E it : Iter(it, k)
      PROVE  \E it : Iter(it, k + 1)
  <2>1. PICK small : Iter(small, k)
    BY <1>3
  <2> DEFINE Up(t) == IF k + 1 \in t THEN Entered(small[t \ {k + 1}], s[k + 1]) ELSE small[t]
  <2>2. PICK it : it = [t \in SUBSET (1 .. k + 1) |-> Up(t)]
    OBVIOUS
  <2>3. ASSUME NEW t \in SUBSET (1 .. k) PROVE it[t] = small[t]
    <3>1. t \in SUBSET (1 .. k + 1) /\ k + 1 \notin t
      OBVIOUS
    <3> QED BY <3>1, <2>2
  <2>4. ASSUME NEW t \in SUBSET (1 .. k + 1) PROVE Up(t) = Body(it, t)
    <3>1. CASE k + 1 \in t
      <4>1. Max(t) = k + 1 /\ t # {}
        <5>1. t \in SUBSET Int /\ \A x \in t : x <= k + 1
          OBVIOUS
        <5> QED BY <5>1, <3>1, GreatestOf
      <4>2. t \ {k + 1} \in SUBSET (1 .. k)
        OBVIOUS
      <4>3. it[t \ {k + 1}] = small[t \ {k + 1}]
        BY <4>2, <2>3
      <4> QED BY <3>1, <4>1, <4>3
    <3>2. CASE k + 1 \notin t
      <4>1. t \in SUBSET (1 .. k) /\ t \ {Max(t)} \in SUBSET (1 .. k)
        <5>1. \A x \in t : x \in 1 .. k
          <6> TAKE x \in t
          <6>1. x \in 1 .. k + 1 /\ x # k + 1
            BY <3>2
          <6> QED BY <6>1
        <5> QED BY <5>1
      <4>2. small[t] = Body(small, t)
        BY <2>1, <4>1
      <4>3. it[t \ {Max(t)}] = small[t \ {Max(t)}]
        BY <4>1, <2>3
      <4> QED BY <3>2, <4>2, <4>3
    <3> QED BY <3>1, <3>2
  <2> HIDE DEF Body, Up
  <2>5. it = [t \in SUBSET (1 .. k + 1) |-> Body(it, t)]
    BY <2>2, <2>4
  <2> QED BY <2>5
<1> HIDE DEF Iter
<1>4. \E it : Iter(it, n)
  <2> DEFINE T == {k \in Nat : ~\E it : Iter(it, k)}
  <2> SUFFICES ASSUME T # {} PROVE FALSE
    OBVIOUS
  <2>1. PICK m \in T : \A k \in T : m <= k
    BY Smallest
  <2>2. m # 0
    BY <1>2
  <2>3. m - 1 \in Nat /\ m - 1 \notin T /\ m - 1 + 1 = m
    BY <2>1, <2>2
  <2>4. \E it : Iter(it, m - 1)
    BY <2>3
  <2> QED BY <2>3, <2>4, <1>3
<1>5. PICK it : Iter(it, n) /\ it = CHOOSE g : Iter(g, n)
  BY <1>4
<1>6. PICK f : f = [i \in 0 .. n |-> it[1 .. i]]
  OBVIOUS
<1>7. f[0] = base
  <2>1. 1 .. 0 = {} /\ 0 \in 0 .. n /\ {} \in SUBSET (1 .. n)
    OBVIOUS
  <2> QED BY <2>1, <1>5, <1>6 DEF Iter
<1>8. ASSUME NEW i \in 1 .. n PROVE f[i] = Entered(f[i - 1], s[i])
  <2>1. 1 .. i \in SUBSET (1 .. n) /\ 1 .. i # {} /\ (1 .. i) \ {i} = 1 .. i - 1
    <3>1. i \in 1 .. i /\ \A x \in 1 .. i : x \in 1 .. n
      OBVIOUS
    <3>2. \A x \in 1 .. i : x # i => x \in 1 .. i - 1
      OBVIOUS
    <3>3. \A x \in 1 .. i - 1 : x \in 1 .. i /\ x # i
      OBVIOUS
    <3>4. (1 .. i) \ {i} = 1 .. i - 1
      BY <3>2, <3>3
    <3> QED BY <3>1, <3>4
  <2>2. Max(1 .. i) = i
    <3>1. 1 .. i \in SUBSET Int /\ i \in 1 .. i /\ \A x \in 1 .. i : x <= i
      OBVIOUS
    <3> HIDE DEF Body, Iter
    <3> QED BY <3>1, GreatestOf
  <2>3. i \in 0 .. n /\ i - 1 \in 0 .. n
    OBVIOUS
  <2>4. it[1 .. i] = Body(it, 1 .. i)
    BY <2>1, <1>5 DEF Iter
  <2> QED BY <2>1, <2>2, <2>3, <2>4, <1>6
<1>9. f[n] = EnteredAll(base, s)
  <2>1. n \in 0 .. n
    OBVIOUS
  <2> QED BY <2>1, <1>1, <1>5, <1>6
<1> QED BY <1>7, <1>8, <1>9
NoEntry == [graph |-> <<>>, ok |-> TRUE]

LEMMA ReplayedFolds ==
    ASSUME NEW n \in Nat, NEW s, DOMAIN s = 1 .. n
    PROVE  \E f : /\ f[0] = NoEntry
                  /\ \A i \in 1 .. n : f[i] = Replayed(f[i - 1], s[i])
                  /\ f[n] = Replay(s)
<1> DEFINE Body(it, t) == IF t = {} THEN NoEntry ELSE Replayed(it[t \ {Max(t)}], s[Max(t)])
           Iter(it, k) == it = [t \in SUBSET (1 .. k) |-> Body(it, t)]
<1>1. Replay(s) = (CHOOSE it : Iter(it, n))[1 .. n]
  BY DEF Replay, NoEntry, FoldLeft, MapThenFoldSet
<1>2. \E it : Iter(it, 0)
  <2>1. PICK it : it = [t \in SUBSET (1 .. 0) |-> NoEntry]
    OBVIOUS
  <2>2. \A t \in SUBSET (1 .. 0) : Body(it, t) = NoEntry
    OBVIOUS
  <2> HIDE DEF Body
  <2>3. it = [t \in SUBSET (1 .. 0) |-> Body(it, t)]
    BY <2>1, <2>2
  <2> QED BY <2>3
<1>3. ASSUME NEW k \in Nat, \E it : Iter(it, k)
      PROVE  \E it : Iter(it, k + 1)
  <2>1. PICK small : Iter(small, k)
    BY <1>3
  <2> DEFINE Up(t) == IF k + 1 \in t THEN Replayed(small[t \ {k + 1}], s[k + 1]) ELSE small[t]
  <2>2. PICK it : it = [t \in SUBSET (1 .. k + 1) |-> Up(t)]
    OBVIOUS
  <2>3. ASSUME NEW t \in SUBSET (1 .. k) PROVE it[t] = small[t]
    <3>1. t \in SUBSET (1 .. k + 1) /\ k + 1 \notin t
      OBVIOUS
    <3> QED BY <3>1, <2>2
  <2>4. ASSUME NEW t \in SUBSET (1 .. k + 1) PROVE Up(t) = Body(it, t)
    <3>1. CASE k + 1 \in t
      <4>1. Max(t) = k + 1 /\ t # {}
        <5>1. t \in SUBSET Int /\ \A x \in t : x <= k + 1
          OBVIOUS
        <5> QED BY <5>1, <3>1, GreatestOf
      <4>2. t \ {k + 1} \in SUBSET (1 .. k)
        OBVIOUS
      <4>3. it[t \ {k + 1}] = small[t \ {k + 1}]
        BY <4>2, <2>3
      <4> QED BY <3>1, <4>1, <4>3
    <3>2. CASE k + 1 \notin t
      <4>1. t \in SUBSET (1 .. k) /\ t \ {Max(t)} \in SUBSET (1 .. k)
        <5>1. \A x \in t : x \in 1 .. k
          <6> TAKE x \in t
          <6>1. x \in 1 .. k + 1 /\ x # k + 1
            BY <3>2
          <6> QED BY <6>1
        <5> QED BY <5>1
      <4>2. small[t] = Body(small, t)
        BY <2>1, <4>1
      <4>3. it[t \ {Max(t)}] = small[t \ {Max(t)}]
        BY <4>1, <2>3
      <4> QED BY <3>2, <4>2, <4>3
    <3> QED BY <3>1, <3>2
  <2> HIDE DEF Body, Up
  <2>5. it = [t \in SUBSET (1 .. k + 1) |-> Body(it, t)]
    BY <2>2, <2>4
  <2> QED BY <2>5
<1> HIDE DEF Iter
<1>4. \E it : Iter(it, n)
  <2> DEFINE T == {k \in Nat : ~\E it : Iter(it, k)}
  <2> SUFFICES ASSUME T # {} PROVE FALSE
    OBVIOUS
  <2>1. PICK m \in T : \A k \in T : m <= k
    BY Smallest
  <2>2. m # 0
    BY <1>2
  <2>3. m - 1 \in Nat /\ m - 1 \notin T /\ m - 1 + 1 = m
    BY <2>1, <2>2
  <2>4. \E it : Iter(it, m - 1)
    BY <2>3
  <2> QED BY <2>3, <2>4, <1>3
<1>5. PICK it : Iter(it, n) /\ it = CHOOSE g : Iter(g, n)
  BY <1>4
<1>6. PICK f : f = [i \in 0 .. n |-> it[1 .. i]]
  OBVIOUS
<1>7. f[0] = NoEntry
  <2>1. 1 .. 0 = {} /\ 0 \in 0 .. n /\ {} \in SUBSET (1 .. n)
    OBVIOUS
  <2> QED BY <2>1, <1>5, <1>6 DEF Iter
<1>8. ASSUME NEW i \in 1 .. n PROVE f[i] = Replayed(f[i - 1], s[i])
  <2>1. 1 .. i \in SUBSET (1 .. n) /\ 1 .. i # {} /\ (1 .. i) \ {i} = 1 .. i - 1
    <3>1. i \in 1 .. i /\ \A x \in 1 .. i : x \in 1 .. n
      OBVIOUS
    <3>2. \A x \in 1 .. i : x # i => x \in 1 .. i - 1
      OBVIOUS
    <3>3. \A x \in 1 .. i - 1 : x \in 1 .. i /\ x # i
      OBVIOUS
    <3>4. (1 .. i) \ {i} = 1 .. i - 1
      BY <3>2, <3>3
    <3> QED BY <3>1, <3>4
  <2>2. Max(1 .. i) = i
    <3>1. 1 .. i \in SUBSET Int /\ i \in 1 .. i /\ \A x \in 1 .. i : x <= i
      OBVIOUS
    <3> HIDE DEF Body, Iter
    <3> QED BY <3>1, GreatestOf
  <2>3. i \in 0 .. n /\ i - 1 \in 0 .. n
    OBVIOUS
  <2>4. it[1 .. i] = Body(it, 1 .. i)
    BY <2>1, <1>5 DEF Iter
  <2> QED BY <2>1, <2>2, <2>3, <2>4, <1>6
<1>9. f[n] = Replay(s)
  <2>1. n \in 0 .. n
    OBVIOUS
  <2> QED BY <2>1, <1>1, <1>5, <1>6
<1> QED BY <1>7, <1>8, <1>9

\* What one entry of a replay does to the features.
LEMMA ReplayedOnce ==
    ASSUME NEW g, NEW valid, NEW e
    PROVE  \E h, v :
              /\ Replayed([graph |-> g, ok |-> valid], e) = [graph |-> h, ok |-> v]
              /\ \/ DOMAIN h = DOMAIN g
                 \/ DOMAIN h = DOMAIN g \ {e.id}
                 \/ DOMAIN h = DOMAIN g \cup {e.id}
<1>1. PICK acc : acc = [graph |-> g, ok |-> valid]
  OBVIOUS
<1>2. acc.graph = g /\ acc.ok = valid
  BY <1>1
<1>3. CASE e.op = "history"
  BY <1>1, <1>3 DEF Replayed
<1>4. CASE e.op = "remove"
  <2>1. PICK h, v : h = Without(g, {e.id}) /\ v = (valid /\ e.id \in DOMAIN g)
    OBVIOUS
  <2>2. Replayed(acc, e) = [graph |-> h, ok |-> v]
    BY <1>2, <1>4, <2>1 DEF Replayed
  <2>3. DOMAIN h = DOMAIN g \ {e.id}
    BY <2>1 DEF Without
  <2> QED BY <1>1, <2>2, <2>3
<1>5. PICK more : more = Over(Only(e.id, e.kind), g)
  OBVIOUS
<1>6. DOMAIN more = DOMAIN g \cup {e.id}
  BY <1>5 DEF Over, Only
<1>7. CASE e.op = "set"
  <2>1. PICK v : v = (valid /\ e.id \in DOMAIN g)
    OBVIOUS
  <2>2. Replayed(acc, e) = [graph |-> more, ok |-> v]
    BY <1>2, <1>5, <1>7, <2>1 DEF Replayed
  <2> QED BY <1>1, <1>6, <2>2
<1>8. CASE e.op \notin {"history", "remove", "set"}
  <2>1. Replayed(acc, e) = [acc EXCEPT !.graph = more]
    BY <1>2, <1>5, <1>8 DEF Replayed
  <2>2. Replayed(acc, e) = [graph |-> more, ok |-> valid]
    BY <2>1, <1>1
  <2> QED BY <1>1, <1>6, <2>2
<1> QED BY <1>3, <1>4, <1>7, <1>8

\* A longer log replays as the shorter one and then the new entry.
LEMMA ReplayAppends ==
    ASSUME NEW S, NEW s \in Seq(S), NEW e
    PROVE  Replay(Append(s, e)) = Replayed(Replay(s), e)
<1> DEFINE n == Len(s)
<1>1. PICK t : t = Append(s, e)
  OBVIOUS
<1>2. /\ n \in Nat /\ DOMAIN s = 1 .. n
      /\ DOMAIN t = 1 .. n + 1 /\ n + 1 \in Nat
      /\ t[n + 1] = e
      /\ \A i \in 1 .. n : t[i] = s[i]
  <2>1. s \in Seq(S \cup {e}) /\ e \in S \cup {e}
    OBVIOUS
  <2> QED BY <1>1, <2>1
<1> HIDE DEF n
<1>3. PICK f : /\ f[0] = NoEntry
               /\ \A i \in 1 .. n : f[i] = Replayed(f[i - 1], s[i])
               /\ f[n] = Replay(s)
  BY <1>2, ReplayedFolds
<1>4. PICK g : /\ g[0] = NoEntry
               /\ \A i \in 1 .. n + 1 : g[i] = Replayed(g[i - 1], t[i])
               /\ g[n + 1] = Replay(t)
  BY <1>2, ReplayedFolds
<1>5. f[n] = g[n]
  <2> DEFINE T == {i \in 0 .. n : f[i] # g[i]}
  <2> SUFFICES ASSUME T # {} PROVE FALSE
    BY <1>2
  <2>1. T \in SUBSET Nat
    OBVIOUS
  <2>2. PICK m \in T : \A k \in T : m <= k
    BY <2>1, Smallest
  <2>3. m # 0
    BY <1>3, <1>4
  <2>4. m \in 1 .. n /\ m \in 1 .. n + 1 /\ m - 1 \in 0 .. n /\ ~(m <= m - 1)
    BY <2>3, <1>2
  <2>5. f[m - 1] = g[m - 1]
    BY <2>2, <2>4
  <2> QED BY <2>4, <2>5, <1>2, <1>3, <1>4
<1>6. n + 1 \in 1 .. n + 1 /\ n + 1 - 1 = n
  BY <1>2
<1>7. g[n + 1] = Replayed(g[n], e)
  <2>1. PICK k : k = n + 1
    OBVIOUS
  <2>2. \A i \in 1 .. k : g[i] = Replayed(g[i - 1], t[i])
    BY <2>1, <1>4
  <2>3. k \in 1 .. k /\ k - 1 = n
    BY <2>1, <1>6, <1>2
  <2>4. g[k] = Replayed(g[k - 1], t[k])
    BY <2>2, <2>3
  <2> QED BY <2>1, <2>3, <2>4, <1>2
<1> QED BY <1>7, <1>5, <1>3, <1>4, <1>1

\* What one entry adds to the log and to the features.
LEMMA EnteredOnce ==
    ASSUME NEW acc, NEW e
    PROVE  /\ Entered(acc, e).log = acc.log \/ Entered(acc, e).log = Append(acc.log, e)
           /\ DOMAIN Entered(acc, e).graph =
                  IF e.op = "remove" THEN DOMAIN acc.graph \ {e.id}
                                     ELSE DOMAIN acc.graph \cup {e.id}
<1>1. CASE e.op = "remove"
  BY <1>1 DEF Entered, Without
<1>2. CASE e.op = "set"
  BY <1>2 DEF Entered, Over, Only
<1>3. CASE e.op \notin {"remove", "set"}
  BY <1>3 DEF Entered, Over, Only
<1> QED BY <1>1, <1>2, <1>3

\* The log new continues the log old with entries of s.
Continues(old, new, s, n) ==
    /\ Len(old) <= Len(new)
    /\ \A j \in 1 .. Len(old) : new[j] = old[j]
    /\ \A j \in Len(old) + 1 .. Len(new) : \E k \in 1 .. n : new[j] = s[k]

\* A command appends entries of its own to the log, and nothing else.
LEMMA AppendExtends ==
    ASSUME NEW S, NEW base \in Seq(S), NEW n \in Nat, NEW s, DOMAIN s = 1 .. n,
           Append1(base, s)
    PROVE  \E R : /\ log' \in Seq(R) /\ base \in Seq(R)
                  /\ Continues(base, log', s, n)
<1>0. PICK start : start = [log |-> base, graph |-> graph]
  OBVIOUS
<1> DEFINE R == S \cup {s[k] : k \in 1 .. n}
           Good(x, i) == x \in Seq(R) /\ Continues(base, x, s, i)
<1>1. PICK f : /\ f[0] = start
               /\ \A i \in 1 .. n : f[i] = Entered(f[i - 1], s[i])
               /\ f[n] = EnteredAll(start, s)
  BY ONLY n \in Nat, DOMAIN s = 1 .. n, EnteredFolds
<1>2. base \in Seq(R)
  OBVIOUS
<1>3. Good(f[0].log, 0)
  BY <1>0, <1>1, <1>2 DEF Continues
<1>4. ASSUME NEW i \in 1 .. n, Good(f[i - 1].log, i - 1)
      PROVE  Good(f[i].log, i)
  <2>1. PICK x : x = f[i - 1].log
    OBVIOUS
  <2>2. x \in Seq(R) /\ Continues(base, x, s, i - 1)
    BY <1>4, <2>1
  <2>3. s[i] \in R
    OBVIOUS
  <2>4. f[i].log = x \/ f[i].log = Append(x, s[i])
    <3>1. f[i] = Entered(f[i - 1], s[i])
      BY <1>1
    <3>2. PICK y : y = f[i - 1]
      OBVIOUS
    <3> QED BY <3>1, <3>2, <2>1, EnteredOnce
  <2> HIDE DEF R
  <2>5. Continues(base, x, s, i)
    BY <2>2 DEF Continues
  <2>6. Append(x, s[i]) \in Seq(R) /\ Continues(base, Append(x, s[i]), s, i)
    <3>1. PICK y : y = Append(x, s[i])
      OBVIOUS
    <3>2. /\ y \in Seq(R) /\ Len(y) = Len(x) + 1 /\ Len(x) \in Nat /\ Len(base) \in Nat
          /\ y[Len(x) + 1] = s[i]
          /\ \A j \in 1 .. Len(x) : y[j] = x[j]
      BY <3>1, <2>2, <2>3
    <3>3. Len(base) <= Len(x)
      BY <2>2 DEF Continues
    <3>4. ASSUME NEW j \in 1 .. Len(base) PROVE y[j] = base[j]
      <4>1. j \in 1 .. Len(x)
        BY <3>2, <3>3
      <4> QED BY <4>1, <3>2, <2>2 DEF Continues
    <3>5. ASSUME NEW j \in Len(base) + 1 .. Len(y) PROVE \E k \in 1 .. i : y[j] = s[k]
      <4>1. CASE j = Len(x) + 1
        <5>1. i \in 1 .. i
          OBVIOUS
        <5> QED BY <5>1, <4>1, <3>2
      <4>2. CASE j # Len(x) + 1
        <5>1. j \in Len(base) + 1 .. Len(x) /\ j \in 1 .. Len(x)
          BY <4>2, <3>2
        <5>2. PICK k \in 1 .. i - 1 : x[j] = s[k]
          BY <5>1, <2>2 DEF Continues
        <5>3. k \in 1 .. i
          OBVIOUS
        <5> QED BY <5>1, <5>2, <5>3, <3>2
      <4> QED BY <4>1, <4>2
    <3>6. Len(base) <= Len(y)
      BY <3>2, <3>3
    <3> QED BY <3>1, <3>2, <3>4, <3>5, <3>6 DEF Continues
  <2> QED BY <2>2, <2>4, <2>5, <2>6
<1>5. Good(f[n].log, n)
  <2> DEFINE T == {i \in 0 .. n : ~Good(f[i].log, i)}
  <2> HIDE DEF Good
  <2> SUFFICES ASSUME T # {} PROVE FALSE
    OBVIOUS
  <2>1. T \in SUBSET Nat
    OBVIOUS
  <2>2. PICK m \in T : \A k \in T : m <= k
    BY <2>1, Smallest
  <2>3. m # 0
    BY <1>3
  <2>4. m \in 1 .. n /\ m - 1 \in 0 .. n /\ ~(m <= m - 1)
    BY <2>3
  <2>5. Good(f[m - 1].log, m - 1)
    BY <2>2, <2>4
  <2> QED BY <2>4, <2>5, <1>4
<1>6. log' = f[n].log
  BY <1>0, <1>1 DEF Append1, EnteredAll
<1> QED BY <1>2, <1>5, <1>6

\* The features after the entries are those of the target D, if a remove names
\* a feature outside of it, every other entry one in it, and whatever differs
\* has an entry.
LEMMA AppendReaches ==
    ASSUME NEW base, NEW n \in Nat, NEW s, DOMAIN s = 1 .. n, NEW D,
           \A k \in 1 .. n : s[k].op = "remove" <=> s[k].id \notin D,
           Append1(base, s)
    PROVE  \A id : id \in DOMAIN graph' <=>
                       IF \E k \in 1 .. n : s[k].id = id THEN id \in D ELSE id \in DOMAIN graph
<1>0. PICK start : start = [log |-> base, graph |-> graph]
  OBVIOUS
<1> DEFINE Good(dom, i) ==
              \A id : id \in dom <=>
                       IF \E k \in 1 .. i : s[k].id = id THEN id \in D ELSE id \in DOMAIN graph
<1>1. PICK f : /\ f[0] = start
               /\ \A i \in 1 .. n : f[i] = Entered(f[i - 1], s[i])
               /\ f[n] = EnteredAll(start, s)
  BY ONLY n \in Nat, DOMAIN s = 1 .. n, EnteredFolds
<1>3. Good(DOMAIN f[0].graph, 0)
  BY <1>0, <1>1
<1>4. ASSUME NEW i \in 1 .. n, Good(DOMAIN f[i - 1].graph, i - 1)
      PROVE  Good(DOMAIN f[i].graph, i)
  <2>1. DOMAIN f[i].graph = IF s[i].op = "remove" THEN DOMAIN f[i - 1].graph \ {s[i].id}
                                                  ELSE DOMAIN f[i - 1].graph \cup {s[i].id}
    <3>1. f[i] = Entered(f[i - 1], s[i])
      BY <1>1
    <3>2. PICK acc, e : acc = f[i - 1] /\ e = s[i]
      OBVIOUS
    <3>3. DOMAIN Entered(acc, e).graph = IF e.op = "remove" THEN DOMAIN acc.graph \ {e.id}
                                         ELSE DOMAIN acc.graph \cup {e.id}
      BY ONLY EnteredOnce
    <3> QED BY <3>1, <3>2, <3>3
  <2>2. s[i].op = "remove" <=> s[i].id \notin D
    OBVIOUS
  <2>3. \A id : (\E k \in 1 .. i : s[k].id = id) <=>
                   (s[i].id = id \/ \E k \in 1 .. i - 1 : s[k].id = id)
    <3>1. i \in 1 .. i /\ \A k \in 1 .. i : k # i => k \in 1 .. i - 1
      OBVIOUS
    <3>2. \A k \in 1 .. i - 1 : k \in 1 .. i
      OBVIOUS
    <3> QED BY <3>1, <3>2
  <2> QED BY <1>4, <2>1, <2>2, <2>3
<1>5. Good(DOMAIN f[n].graph, n)
  <2> DEFINE T == {i \in 0 .. n : ~Good(DOMAIN f[i].graph, i)}
  <2> HIDE DEF Good
  <2> SUFFICES ASSUME T # {} PROVE FALSE
    OBVIOUS
  <2>1. T \in SUBSET Nat
    OBVIOUS
  <2>2. PICK m \in T : \A k \in T : m <= k
    BY <2>1, Smallest
  <2>3. m # 0
    BY <1>3
  <2>4. m \in 1 .. n /\ m - 1 \in 0 .. n /\ ~(m <= m - 1)
    BY <2>3
  <2>5. Good(DOMAIN f[m - 1].graph, m - 1)
    BY <2>2, <2>4
  <2> QED BY <2>4, <2>5, <1>4
<1>6. graph' = f[n].graph
  BY <1>0, <1>1 DEF Append1, EnteredAll
<1> QED BY <1>5, <1>6

\* A nonempty set of positions has a greatest element.
LEMMA GreatestThere ==
    ASSUME NEW n \in Nat, NEW t \in SUBSET (1 .. n), t # {}
    PROVE  Max(t) \in t
<1> DEFINE T == {n - x : x \in t}
<1>1. T \in SUBSET Nat /\ T # {}
  <2>1. \A x \in t : n - x \in Nat
    OBVIOUS
  <2> QED BY <2>1
<1>2. PICK m \in T : \A k \in T : m <= k
  BY <1>1, Smallest
<1>3. PICK x \in t : m = n - x
  OBVIOUS
<1>4. \A y \in t : y <= x
  <2> TAKE y \in t
  <2>1. n - y \in T
    OBVIOUS
  <2>2. n - x <= n - y /\ x \in Int /\ y \in Int
    BY <2>1, <1>2, <1>3
  <2> QED BY <2>2
<1>5. t \in SUBSET Int
  OBVIOUS
<1> HIDE DEF T
<1>6. Max(t) = x
  BY <1>4, <1>5, GreatestOf
<1> QED BY <1>6

\* What is appended without geometry of a feature leaves its provenance alone.
LEMMA LatestStays ==
    ASSUME NEW R, NEW old \in Seq(R), NEW new \in Seq(R), NEW id,
           Len(old) <= Len(new),
           \A j \in 1 .. Len(old) : new[j] = old[j],
           \A j \in Len(old) + 1 .. Len(new) : new[j].id = id => new[j].brep = None
    PROVE  Latest(new, id) = Latest(old, id)
<1> DEFINE before == {i \in DOMAIN old : old[i].id = id /\ old[i].brep # None}
           after == {i \in DOMAIN new : new[i].id = id /\ new[i].brep # None}
<1>1. /\ Len(old) \in Nat /\ Len(new) \in Nat
      /\ DOMAIN old = 1 .. Len(old) /\ DOMAIN new = 1 .. Len(new)
  OBVIOUS
<1>2. before = after
  <2>1. ASSUME NEW i \in before PROVE i \in after
    <3>1. i \in 1 .. Len(old) /\ i \in 1 .. Len(new)
      BY <1>1
    <3> QED BY <3>1, <1>1
  <2>2. ASSUME NEW i \in after PROVE i \in before
    <3>1. i \in 1 .. Len(old) \/ i \in Len(old) + 1 .. Len(new)
      BY <1>1
    <3> QED BY <3>1, <1>1
  <2> QED BY <2>1, <2>2
<1>3. before \in SUBSET (1 .. Len(old))
  BY <1>1
<1>4. Latest(old, id) = IF before = {} THEN None ELSE old[Max(before)].brep
  BY DEF Latest
<1>5. Latest(new, id) = IF after = {} THEN None ELSE new[Max(after)].brep
  BY DEF Latest
<1> HIDE DEF before, after
<1>6. CASE before = {}
  BY <1>2, <1>4, <1>5, <1>6
<1>7. CASE before # {}
  <2>1. Max(before) \in before
    BY <1>1, <1>3, <1>7, GreatestThere
  <2>2. new[Max(before)] = old[Max(before)]
    BY <2>1, <1>3
  <2> QED BY <2>2, <1>2, <1>4, <1>5, <1>7
<1> QED BY <1>6, <1>7

\* A finite set as a sequence: all of its elements and no others.
LEMMA Listed ==
    ASSUME NEW S, IsFiniteSet(S)
    PROVE  /\ Cardinality(S) \in Nat
           /\ DOMAIN SetToSeq(S) = 1 .. Cardinality(S)
           /\ \A i \in 1 .. Cardinality(S) : SetToSeq(S)[i] \in S
           /\ \A x \in S : \E i \in 1 .. Cardinality(S) : SetToSeq(S)[i] = x
<1> DEFINE n == Cardinality(S)
<1>1. n \in Nat /\ ExistsBijection(1 .. n, S)
  BY FS_CardinalityType
<1>2. \E f \in [1 .. n -> S] : IsInjective(f)
  BY <1>1 DEF ExistsBijection, Bijection, Injection
<1>3. PICK f : f = SetToSeq(S)
  OBVIOUS
<1>4. f \in [1 .. n -> S] /\ IsInjective(f)
  BY <1>2, <1>3 DEF SetToSeq
<1>5. f \in Injection(1 .. n, S)
  BY <1>4 DEF Injection
<1>6. IsFiniteSet(1 .. n) /\ Cardinality(1 .. n) = n
  BY <1>1, FS_Interval
<1>7. f \in Surjection(1 .. n, S)
  BY <1>5, <1>6, FS_Injection
<1> QED BY <1>1, <1>3, <1>4, <1>7 DEF Surjection

\* Every replay is a record of finitely many features.
LEMMA ReplayFinite ==
    ASSUME NEW n \in Nat, NEW s, DOMAIN s = 1 .. n
    PROVE  IsFiniteSet(DOMAIN Replay(s).graph)
<1>1. PICK f : /\ f[0] = NoEntry
               /\ \A i \in 1 .. n : f[i] = Replayed(f[i - 1], s[i])
               /\ f[n] = Replay(s)
  BY ReplayedFolds
<1> DEFINE Good(i) == \E g, v : f[i] = [graph |-> g, ok |-> v] /\ IsFiniteSet(DOMAIN g)
<1>2. Good(0)
  <2>1. DOMAIN <<>> = {}
    OBVIOUS
  <2> QED BY <1>1, <2>1, FS_EmptySet DEF NoEntry
<1>3. ASSUME NEW i \in 1 .. n, Good(i - 1) PROVE Good(i)
  <2>1. f[i] = Replayed(f[i - 1], s[i])
    BY <1>1
  <2>2. PICK g, v : f[i - 1] = [graph |-> g, ok |-> v] /\ IsFiniteSet(DOMAIN g)
    BY <1>3
  <2>3. PICK h, w :
              /\ f[i] = [graph |-> h, ok |-> w]
              /\ \/ DOMAIN h = DOMAIN g
                 \/ DOMAIN h = DOMAIN g \ {s[i].id}
                 \/ DOMAIN h = DOMAIN g \cup {s[i].id}
    <3>1. f[i] = Replayed([graph |-> g, ok |-> v], s[i])
      BY <2>1, <2>2
    <3>2. PICK e : e = s[i]
      OBVIOUS
    <3>3. PICK h, w :
              /\ Replayed([graph |-> g, ok |-> v], e) = [graph |-> h, ok |-> w]
              /\ \/ DOMAIN h = DOMAIN g
                 \/ DOMAIN h = DOMAIN g \ {e.id}
                 \/ DOMAIN h = DOMAIN g \cup {e.id}
      BY ReplayedOnce
    <3>4. f[i] = [graph |-> h, ok |-> w]
      BY <3>1, <3>2, <3>3
    <3> QED BY <3>2, <3>3, <3>4
  <2>4. IsFiniteSet(DOMAIN h)
    BY <2>2, <2>3, FS_RemoveElement, FS_AddElement
  <2> QED BY <2>3, <2>4
<1> HIDE DEF Good
<1>4. Good(n)
  <2> DEFINE T == {i \in 0 .. n : ~Good(i)}
  <2> SUFFICES ASSUME T # {} PROVE FALSE
    OBVIOUS
  <2>1. T \in SUBSET Nat
    OBVIOUS
  <2>2. PICK m \in T : \A k \in T : m <= k
    BY <2>1, Smallest
  <2>3. m # 0
    BY <1>2
  <2>4. m \in 1 .. n /\ m - 1 \in 0 .. n /\ ~(m <= m - 1)
    BY <2>3
  <2>5. Good(m - 1)
    BY <2>2, <2>4
  <2> QED BY <2>4, <2>5, <1>3
<1> QED BY <1>1, <1>4 DEF Good

-----------------------------------------------------------------------------
(* History entries *)

\* How an event gives a name, if it gives one: to the active snapshot.
Recorded(event, revisions) ==
    \/ event.preserved = None /\ revisions = named
    \/ event.preserved # None /\ Free(event.preserved) /\ revisions = Preserving(event.preserved)

RecordsOther ==
    \E event, revisions :
        Apply(event, revisions) /\ Recorded(event, revisions) /\ event.kind # "restore"

RecordsRestore(n) ==
    \E event, revisions :
        /\ Apply(event, revisions) /\ Recorded(event, revisions)
        /\ event.kind = "restore" /\ event.name = n

\* A name the recorder derives is a name.
LEMMA Named ==
    ASSUME NEW kind \in Kind, Ordinal < MaxOrdinal, \E S : events \in Seq(S)
    PROVE  AutoName(kind, Ordinal + 1) # None
<1>1. Ordinal + 1 \in 1 .. MaxOrdinal
  BY MaxOrdinalAssumption DEF Ordinal
<1> QED BY <1>1, NoneAssumption

\* Only a restore is recorded as one; every command records how it names.
LEMMA CommandsRecord ==
    ASSUME \E S : events \in Seq(S)
    PROVE  /\ \A b, d : Initialize(b, d) \/ EditBracket(b, d) => RecordsOther
           /\ \A f, v : Edit(f, v) => RecordsOther
           /\ \A n \in UserName : CreateNamed(n) => RecordsOther
           /\ Undo \/ Redo => RecordsOther
           /\ \A n : Restore(n) => RecordsRestore(n)
<1>1. ASSUME NEW b, NEW d, Initialize(b, d) PROVE RecordsOther
  <2>1. PICK s : s = NextRevision(Dimensioned(active.features, b, d))
    OBVIOUS
  <2>2. PICK e : e = [kind |-> "initialize", subject |-> b, name |-> None,
                      preserved |-> None, active |-> s]
    OBVIOUS
  <2>3. Apply(e, named) /\ e.preserved = None /\ e.kind = "initialize"
    BY <1>1, <2>1, <2>2 DEF Initialize
  <2> QED BY <2>3 DEF RecordsOther, Recorded
<1>2. ASSUME NEW b, NEW d, EditBracket(b, d) PROVE RecordsOther
  <2>1. PICK s : s = NextRevision(Dimensioned(active.features, b, d))
    OBVIOUS
  <2>2. PICK kept : kept = AutoName("edit", Ordinal + 1)
    OBVIOUS
  <2>3. PICK e : e = [kind |-> "edit", subject |-> <<<<b, "base">>, d.length>>, name |-> None,
                      preserved |-> kept, active |-> s]
    OBVIOUS
  <2>4. /\ Apply(e, Preserving(kept)) /\ e.preserved = kept /\ e.kind = "edit" /\ Free(kept)
    BY <1>2, <2>1, <2>2, <2>3 DEF EditBracket
  <2>5. kept # None
    BY <2>2, <2>4, Named DEF Apply, Kind
  <2> QED BY <2>4, <2>5 DEF RecordsOther, Recorded
<1>3. ASSUME NEW f, NEW v, Edit(f, v) PROVE RecordsOther
  <2>1. PICK s : s = NextRevision(Edited(active.features, f, v))
    OBVIOUS
  <2>2. PICK kept : kept = AutoName("edit", Ordinal + 1)
    OBVIOUS
  <2>3. PICK e : e = [kind |-> "edit", subject |-> <<f, v>>, name |-> None,
                      preserved |-> kept, active |-> s]
    OBVIOUS
  <2>4. /\ Apply(e, Preserving(kept)) /\ e.preserved = kept /\ e.kind = "edit" /\ Free(kept)
    BY <1>3, <2>1, <2>2, <2>3 DEF Edit
  <2>5. kept # None
    BY <2>2, <2>4, Named DEF Apply, Kind
  <2> QED BY <2>4, <2>5 DEF RecordsOther, Recorded
<1>4. ASSUME NEW n \in UserName, CreateNamed(n) PROVE RecordsOther
  <2>1. PICK e : e = [kind |-> "create", subject |-> None, name |-> n, preserved |-> n,
                      active |-> active]
    OBVIOUS
  <2>2. Apply(e, Preserving(n)) /\ e.preserved = n /\ e.kind = "create" /\ Free(n)
    BY <1>4, <2>1 DEF CreateNamed
  <2> QED BY <2>2, NoneAssumption DEF RecordsOther, Recorded
<1>5. ASSUME NEW kind \in {"undo", "redo"}, NEW target, Move(kind, target)
      PROVE  RecordsOther
  <2>1. PICK s : s = SnapshotAt(target)
    OBVIOUS
  <2>2. PICK kept : kept = AutoName(kind, Ordinal + 1)
    OBVIOUS
  <2>3. PICK e : e = [kind |-> kind, subject |-> target, name |-> None, preserved |-> kept,
                      active |-> s]
    OBVIOUS
  <2>4. /\ Apply(e, Preserving(kept)) /\ e.preserved = kept /\ e.kind = kind /\ Free(kept)
    BY <1>5, <2>1, <2>2, <2>3 DEF Move
  <2>5. kept # None
    BY <2>2, <2>4, Named DEF Apply, Kind
  <2> QED BY <2>4, <2>5 DEF RecordsOther, Recorded
<1>6. Undo \/ Redo => RecordsOther
  BY <1>5 DEF Undo, Redo
<1>7. ASSUME NEW n, Restore(n) PROVE RecordsRestore(n)
  <2>1. PICK kept : kept = AutoName("restore", Ordinal + 1)
    OBVIOUS
  <2>2. PICK e : e = [kind |-> "restore", subject |-> None, name |-> n, preserved |-> kept,
                      active |-> named[n]]
    OBVIOUS
  <2>3. /\ Apply(e, Preserving(kept)) /\ e.preserved = kept /\ e.kind = "restore"
        /\ e.name = n /\ Free(kept)
    BY <1>7, <2>1, <2>2 DEF Restore
  <2>4. kept # None
    BY <2>1, <2>3, Named DEF Apply, Kind
  <2> QED BY <2>3, <2>4 DEF RecordsRestore, Recorded
<1> QED BY <1>1, <1>2, <1>3, <1>4, <1>6, <1>7

\* Every Named Revision was introduced by an event, no event introduces "no
\* name", and every revision has a position or the mark that it has none.
NamesInv ==
    /\ \A n \in DOMAIN named : n # None /\ \E i \in DOMAIN events : events[i].preserved = n
    /\ \A i \in DOMAIN events :
          events[i].preserved # None => events[i].preserved \in DOMAIN named

\* The names move with the events, and the event that introduced a Named
\* Revision stays the first one that preserved it.
LEMMA NamesAreIntroduced ==
    ASSUME \E S : events \in Seq(S), NamesInv,
           NEW event, NEW revisions, Apply(event, revisions), Recorded(event, revisions)
    PROVE  /\ NamesInv'
           /\ \A n \in DOMAIN named : n \in DOMAIN named' /\ Introduced(n)' = Introduced(n)
           /\ \A n \in DOMAIN named' \ DOMAIN named : Introduced(n)' = Len(events')
           /\ Len(events') = Len(events) + 1 /\ Len(events) \in Nat
           /\ DOMAIN events = 1 .. Len(events) /\ DOMAIN events' = 1 .. Len(events')
<1>1. PICK S : events \in Seq(S)
  OBVIOUS
<1>2. events' = Append(events, event) /\ named' = revisions
  BY DEF Apply
<1>3. PICK now : now = events'
  OBVIOUS
<1>4. /\ Len(now) = Len(events) + 1 /\ Len(events) \in Nat
      /\ DOMAIN events = 1 .. Len(events) /\ DOMAIN now = 1 .. Len(now)
      /\ now[Len(now)] = event
      /\ \A i \in DOMAIN events : i \in DOMAIN now /\ now[i] = events[i] /\ i # Len(now)
      /\ \A i \in DOMAIN now : i \in DOMAIN events \/ i = Len(now)
  <2>1. events \in Seq(S \cup {event}) /\ event \in S \cup {event}
    BY <1>1
  <2>2. now = Append(events, event)
    BY <1>2, <1>3
  <2>3. /\ Len(now) = Len(events) + 1 /\ Len(events) \in Nat
        /\ DOMAIN events = 1 .. Len(events) /\ DOMAIN now = 1 .. Len(now)
        /\ now[Len(events) + 1] = event
        /\ \A i \in 1 .. Len(events) : now[i] = events[i]
    BY <2>1, <2>2
  <2>4. \A i \in 1 .. Len(events) : i \in 1 .. Len(now) /\ i # Len(now)
    BY <2>3
  <2>5. \A i \in 1 .. Len(now) : i \in 1 .. Len(events) \/ i = Len(now)
    BY <2>3
  <2> QED BY <2>3, <2>4, <2>5
<1>5. DOMAIN named' = IF event.preserved = None THEN DOMAIN named
                      ELSE DOMAIN named \cup {event.preserved}
  BY <1>2 DEF Recorded, Preserving
<1>6. event.preserved # None => event.preserved \notin DOMAIN named
  BY DEF Recorded, Free
<1> DEFINE before(n) == {i \in DOMAIN events : events[i].preserved = n}
           after(n) == {i \in DOMAIN now : now[i].preserved = n}
<1>7. ASSUME NEW n \in DOMAIN named PROVE after(n) = before(n)
  <2>1. event.preserved # n
    BY <1>6 DEF NamesInv
  <2> QED BY <2>1, <1>4
<1>8. ASSUME NEW n \in DOMAIN named' \ DOMAIN named
      PROVE  event.preserved = n /\ n # None /\ after(n) = {Len(now)}
  <2>1. event.preserved = n /\ n # None
    BY <1>5
  <2>2. \A i \in DOMAIN events : events[i].preserved # n
    BY <2>1 DEF NamesInv
  <2>3. Len(now) \in DOMAIN now
    BY <1>4
  <2> QED BY <2>1, <2>2, <2>3, <1>4
<1>9. \A n : Introduced(n) = Min(before(n)) /\ Introduced(n)' = Min(after(n))
  BY <1>3 DEF Introduced
<1>10. NamesInv'
  <2>1. ASSUME NEW n \in DOMAIN named'
        PROVE  n # None /\ \E i \in DOMAIN now : now[i].preserved = n
    <3>1. CASE n \in DOMAIN named
      BY <3>1, <1>4 DEF NamesInv
    <3>2. CASE n \notin DOMAIN named
      <4>1. Len(now) \in after(n) /\ n # None
        BY <3>2, <1>8
      <4> QED BY <4>1
    <3> QED BY <3>1, <3>2
  <2>2. ASSUME NEW i \in DOMAIN now, now[i].preserved # None
        PROVE  now[i].preserved \in DOMAIN named'
    <3>1. CASE i \in DOMAIN events
      BY <3>1, <2>2, <1>4, <1>5 DEF NamesInv
    <3>2. CASE i = Len(now)
      BY <3>2, <2>2, <1>4, <1>5
    <3> QED BY <3>1, <3>2, <1>4
  <2> QED BY <2>1, <2>2, <1>3 DEF NamesInv
<1>11. \A n \in DOMAIN named : n \in DOMAIN named' /\ Introduced(n)' = Introduced(n)
  BY <1>5, <1>7, <1>9
<1>12. ASSUME NEW n \in DOMAIN named' \ DOMAIN named PROVE Introduced(n)' = Len(now)
  <2>1. Introduced(n)' = Min({Len(now)})
    BY <1>8, <1>9
  <2>2. Len(now) \in Int
    BY <1>4
  <2>3. Min({Len(now)}) = Len(now)
    BY <2>2 DEF Min
  <2> QED BY <2>1, <2>3
<1> QED BY <1>3, <1>4, <1>10, <1>11, <1>12

\* The log is a sequence in which every event has its entry, once.
EntriesInv ==
    /\ \E S : log \in Seq(S)
    /\ \A i \in DOMAIN events : \E j \in DOMAIN log : log[j] = HistoryEntry(i)
    /\ \A j \in DOMAIN log :
          log[j].op = "history" => \E i \in DOMAIN events : log[j] = HistoryEntry(i)
    /\ \A j, k \in DOMAIN log : log[j].op = "history" /\ log[j] = log[k] => j = k

\* A recorded position points at the state before the event that introduced
\* the Named Revision.
PositionInv ==
    /\ DOMAIN position = DOMAIN named
    /\ \A n \in DOMAIN position :
          position[n] # None =>
              /\ position[n] \in Nat
              /\ position[n] + 1 \in DOMAIN log
              /\ log[position[n] + 1] = HistoryEntry(Introduced(n))

\* How a command of the history extends the log: by its event, and by
\* the entries s of features.
Extended(s, n) ==
    \E R :
        /\ log \in Seq(R) /\ log' \in Seq(R)
        /\ Len(log) < Len(log')
        /\ \A j \in 1 .. Len(log) : log'[j] = log[j]
        /\ log'[Len(log) + 1] = HistoryEntry(Len(events'))
        /\ \A j \in Len(log) + 2 .. Len(log') : \E k \in 1 .. n : log'[j] = s[k]

\* Such an extension is what Append1 does after the event.
LEMMA CommandExtends ==
    ASSUME EntriesInv, NEW n \in Nat, NEW s, DOMAIN s = 1 .. n,
           Append1(Append(log, HistoryEntry(Len(events'))), s)
    PROVE  Extended(s, n)
<1>1. PICK S : log \in Seq(S)
  BY DEF EntriesInv
<1>2. PICK h : h = HistoryEntry(Len(events'))
  OBVIOUS
<1>3. PICK base : base = Append(log, h)
  OBVIOUS
<1>4. /\ base \in Seq(S \cup {h}) /\ Len(base) = Len(log) + 1 /\ Len(log) \in Nat
      /\ base[Len(log) + 1] = h
      /\ \A j \in 1 .. Len(log) : base[j] = log[j]
  <2>1. log \in Seq(S \cup {h}) /\ h \in S \cup {h}
    BY <1>1
  <2> QED BY <2>1, <1>3
<1>5. Append1(base, s)
  BY <1>2, <1>3
<1>6. PICK R : log' \in Seq(R) /\ base \in Seq(R) /\ Continues(base, log', s, n)
  BY <1>4, <1>5, AppendExtends
<1>7. log \in Seq(R \cup S) /\ log' \in Seq(R \cup S)
  BY <1>1, <1>6
<1>8. Len(base) <= Len(log') /\ \A j \in 1 .. Len(base) : log'[j] = base[j]
  BY <1>6 DEF Continues
<1>9. Len(log') \in Nat
  BY <1>7
<1>10. Len(log) < Len(log')
  BY <1>4, <1>8, <1>9
<1>11. \A j \in 1 .. Len(log) : log'[j] = log[j]
  <2> TAKE j \in 1 .. Len(log)
  <2>1. j \in 1 .. Len(base)
    BY <1>4
  <2> QED BY <2>1, <1>4, <1>8
<1>12. log'[Len(log) + 1] = h
  <2>1. Len(log) + 1 \in 1 .. Len(base)
    BY <1>4
  <2> QED BY <2>1, <1>4, <1>8
<1>13. \A j \in Len(log) + 2 .. Len(log') : \E k \in 1 .. n : log'[j] = s[k]
  <2>1. Len(log) + 2 = Len(base) + 1
    BY <1>4
  <2> QED BY <2>1, <1>6 DEF Continues
<1> QED BY <1>2, <1>7, <1>10, <1>11, <1>12, <1>13 DEF Extended

\* The entry of an event tells its ordinal and carries no geometry.
LEMMA HistoryEntries ==
    /\ \A i : HistoryEntry(i).op = "history" /\ HistoryEntry(i).brep = None
    /\ \A i, j : HistoryEntry(i) = HistoryEntry(j) => i = j
<1>1. ASSUME NEW i
      PROVE  /\ HistoryEntry(i).op = "history" /\ HistoryEntry(i).brep = None
             /\ HistoryEntry(i).id = <<"event", i>>
  BY DEF HistoryEntry, Entry
<1>2. ASSUME NEW i, NEW j, HistoryEntry(i) = HistoryEntry(j) PROVE i = j
  <2>1. <<"event", i>> = <<"event", j>>
    BY <1>1, <1>2
  <2> QED BY <2>1
<1> QED BY <1>1, <1>2

\* A command of the history: its event first, then the entries of features
\* that go with it, and the position of what it names is where it began.
Committed ==
    \E n, s, p :
        /\ n \in Nat /\ DOMAIN s = 1 .. n
        /\ \A k \in 1 .. n : s[k].op # "history"
        /\ Append1(Append(log, HistoryEntry(Len(events'))), s)
        /\ p \in {None, Len(log)}
        /\ position' = [m \in DOMAIN named' |-> IF m \in DOMAIN named THEN position[m] ELSE p]

\* A command keeps events and entries together, and the positions right.
LEMMA CommittedKeeps ==
    ASSUME \E S : events \in Seq(S), NamesInv, EntriesInv, PositionInv,
           NEW event, NEW revisions, Apply(event, revisions), Recorded(event, revisions),
           Committed
    PROVE  EntriesInv' /\ PositionInv'
<1>1. PICK n, s, p :
        /\ n \in Nat /\ DOMAIN s = 1 .. n
        /\ \A k \in 1 .. n : s[k].op # "history"
        /\ Append1(Append(log, HistoryEntry(Len(events'))), s)
        /\ p \in {None, Len(log)}
        /\ position' = [m \in DOMAIN named' |-> IF m \in DOMAIN named THEN position[m] ELSE p]
  BY DEF Committed
<1>2. Extended(s, n)
  BY <1>1, CommandExtends
<1>3. PICK R :
        /\ log \in Seq(R) /\ log' \in Seq(R)
        /\ Len(log) < Len(log')
        /\ \A j \in 1 .. Len(log) : log'[j] = log[j]
        /\ log'[Len(log) + 1] = HistoryEntry(Len(events'))
        /\ \A j \in Len(log) + 2 .. Len(log') : \E k \in 1 .. n : log'[j] = s[k]
  BY <1>2 DEF Extended
<1>4. PICK new : new = log'
  OBVIOUS
<1>5. PICK last : last = Len(events')
  OBVIOUS
<1>6. /\ \A m \in DOMAIN named : m \in DOMAIN named' /\ Introduced(m)' = Introduced(m)
      /\ \A m \in DOMAIN named' \ DOMAIN named : Introduced(m)' = last
      /\ last = Len(events) + 1 /\ Len(events) \in Nat
      /\ DOMAIN events = 1 .. Len(events) /\ DOMAIN events' = 1 .. last
  BY NamesAreIntroduced, <1>5
<1>7. /\ Len(log) \in Nat /\ Len(new) \in Nat /\ Len(log) < Len(new)
      /\ DOMAIN log = 1 .. Len(log) /\ DOMAIN new = 1 .. Len(new)
  BY <1>3, <1>4
<1>8. /\ \A j \in DOMAIN log : j \in DOMAIN new /\ j # Len(log) + 1
      /\ Len(log) + 1 \in DOMAIN new
      /\ \A j \in DOMAIN new :
            j \in DOMAIN log \/ j = Len(log) + 1 \/ j \in Len(log) + 2 .. Len(new)
  BY <1>7
<1>9. /\ \A j \in DOMAIN log : new[j] = log[j]
      /\ new[Len(log) + 1] = HistoryEntry(last)
      /\ \A j \in Len(log) + 2 .. Len(new) : new[j].op # "history"
  BY <1>1, <1>3, <1>4, <1>5, <1>7
<1>10. /\ \A i \in DOMAIN events : i \in DOMAIN events' /\ i # last
       /\ last \in DOMAIN events'
       /\ \A i \in DOMAIN events' : i \in DOMAIN events \/ i = last
  BY <1>6
<1>11. ASSUME NEW j \in DOMAIN log PROVE log[j] # HistoryEntry(last)
  <2> SUFFICES ASSUME log[j] = HistoryEntry(last) PROVE FALSE
    OBVIOUS
  <2>1. log[j].op = "history"
    BY HistoryEntries
  <2>2. PICK i \in DOMAIN events : log[j] = HistoryEntry(i)
    BY <2>1 DEF EntriesInv
  <2> QED BY <2>2, <1>10, HistoryEntries
<1>12. EntriesInv'
  <2>1. \E S : log' \in Seq(S)
    BY <1>3
  <2>2. ASSUME NEW i \in DOMAIN events' PROVE \E j \in DOMAIN new : new[j] = HistoryEntry(i)
    <3>1. CASE i \in DOMAIN events
      <4>1. PICK j \in DOMAIN log : log[j] = HistoryEntry(i)
        BY <3>1 DEF EntriesInv
      <4> QED BY <4>1, <1>8, <1>9
    <3>2. CASE i = last
      BY <3>2, <1>8, <1>9
    <3> QED BY <3>1, <3>2, <1>10
  <2>3. ASSUME NEW j \in DOMAIN new, new[j].op = "history"
        PROVE  \E i \in DOMAIN events' : new[j] = HistoryEntry(i)
    <3>1. CASE j \in DOMAIN log
      <4>1. log[j].op = "history"
        BY <3>1, <2>3, <1>9
      <4>2. PICK i \in DOMAIN events : log[j] = HistoryEntry(i)
        BY <3>1, <4>1 DEF EntriesInv
      <4> QED BY <3>1, <4>2, <1>9, <1>10
    <3>2. CASE j = Len(log) + 1
      BY <3>2, <1>9, <1>10
    <3> QED BY <3>1, <3>2, <2>3, <1>8, <1>9
  <2>4. ASSUME NEW j \in DOMAIN new, NEW k \in DOMAIN new, new[j].op = "history",
               new[j] = new[k]
        PROVE  j = k
    <3>1. new[k].op = "history"
      BY <2>4
    <3>2. /\ j \in DOMAIN log \/ j = Len(log) + 1
          /\ k \in DOMAIN log \/ k = Len(log) + 1
      BY <2>4, <3>1, <1>8, <1>9
    <3>3. CASE j \in DOMAIN log /\ k \in DOMAIN log
      <4>1. log[j].op = "history" /\ log[j] = log[k]
        BY <3>3, <2>4, <1>9
      <4> QED BY <4>1, <3>3 DEF EntriesInv
    <3>4. CASE j \in DOMAIN log /\ k = Len(log) + 1
      BY <3>4, <2>4, <1>9, <1>11
    <3>5. CASE j = Len(log) + 1 /\ k \in DOMAIN log
      BY <3>5, <2>4, <1>9, <1>11
    <3> QED BY <3>2, <3>3, <3>4, <3>5
  <2> QED BY <2>1, <2>2, <2>3, <2>4, <1>4 DEF EntriesInv
<1>13. ASSUME NEW m \in DOMAIN named', position'[m] # None
       PROVE  /\ position'[m] \in Nat
              /\ position'[m] + 1 \in DOMAIN new
              /\ new[position'[m] + 1] = HistoryEntry(Introduced(m)')
  <2>1. CASE m \in DOMAIN named
    <3>1. position'[m] = position[m] /\ m \in DOMAIN position
      BY <2>1, <1>1 DEF PositionInv
    <3>2. /\ position[m] \in Nat
          /\ position[m] + 1 \in DOMAIN log
          /\ log[position[m] + 1] = HistoryEntry(Introduced(m))
      BY <3>1, <1>13 DEF PositionInv
    <3>3. Introduced(m)' = Introduced(m)
      BY <2>1, <1>6
    <3> QED BY <3>1, <3>2, <3>3, <1>8, <1>9
  <2>2. CASE m \notin DOMAIN named
    <3>1. position'[m] = Len(log)
      BY <2>2, <1>1, <1>13
    <3>2. Introduced(m)' = last
      BY <2>2, <1>6
    <3> QED BY <3>1, <3>2, <1>7, <1>8, <1>9
  <2> QED BY <2>1, <2>2
<1>14. PositionInv'
  <2>1. DOMAIN position' = DOMAIN named'
    BY <1>1
  <2> QED BY <2>1, <1>4, <1>13 DEF PositionInv
<1> QED BY <1>12, <1>14

-----------------------------------------------------------------------------
(* Commands on the feature graph *)

\* Geometry on disk is authentic whether or not the graph has the feature now.
GeometryInv == \A id \in DOMAIN brep : brep[id] = Provenance(id)

LogInv == EntriesInv /\ PositionInv /\ AlwaysOpens /\ GeometryInv

\* What a command on the feature graph alone may append.
Applicable(e) ==
    /\ e.op \in {"plain", "add", "set", "remove"}
    /\ e.brep = None
    /\ e.op \in {"set", "remove"} => e.id \in DOMAIN graph

\* A single entry is entered once.
LEMMA OneEntry ==
    ASSUME NEW e, Append1(log, <<e>>)
    PROVE  \E acc : /\ acc = Entered([log |-> log, graph |-> graph], e)
                    /\ log' = acc.log /\ graph' = acc.graph
<1>0. PICK n : n = 1
  OBVIOUS
<1>1. PICK s : s = <<e>>
  OBVIOUS
<1>2. n \in Nat /\ DOMAIN s = 1 .. n /\ s[n] = e
  BY <1>0, <1>1
<1>3. PICK start : start = [log |-> log, graph |-> graph]
  OBVIOUS
<1>4. PICK f : /\ f[0] = start
               /\ \A i \in 1 .. n : f[i] = Entered(f[i - 1], s[i])
               /\ f[n] = EnteredAll(start, s)
  BY <1>2, EnteredFolds
<1>5. n \in 1 .. n /\ n - 1 = 0
  BY <1>0
<1>6. f[n] = Entered(start, e)
  <2>1. f[n] = Entered(f[n - 1], s[n])
    BY <1>4, <1>5
  <2> QED BY <2>1, <1>2, <1>4, <1>5
<1>7. log' = EnteredAll(start, s).log /\ graph' = EnteredAll(start, s).graph
  BY <1>1, <1>3 DEF Append1, EnteredAll
<1> QED BY <1>3, <1>4, <1>6, <1>7

\* The entry of a command on the graph is replayed as it was entered.
LEMMA GraphFollows ==
    ASSUME EntriesInv, AlwaysOpens, NEW e, Applicable(e), Append1(log, <<e>>)
    PROVE  /\ Replay(log') = [graph |-> graph', ok |-> TRUE]
           /\ log' = log \/ log' = Append(log, e)
<1>1. PICK acc : /\ acc = Entered([log |-> log, graph |-> graph], e)
                 /\ log' = acc.log /\ graph' = acc.graph
  BY OneEntry
<1>2. PICK S : log \in Seq(S)
  BY DEF EntriesInv
<1>3. Replay(log) = [graph |-> graph, ok |-> TRUE]
  BY DEF AlwaysOpens, Opens
<1>4. PICK start : start = [graph |-> graph, ok |-> TRUE]
  OBVIOUS
<1>5. start.graph = graph /\ start.ok = TRUE /\ Replay(log) = start
  BY <1>3, <1>4
<1>6. PICK begun : begun = [log |-> log, graph |-> graph]
  OBVIOUS
<1>7. begun.log = log /\ begun.graph = graph /\ acc = Entered(begun, e)
  BY <1>1, <1>6
<1>8. Replay(Append(log, e)) = Replayed(start, e)
  BY <1>2, <1>5, ReplayAppends
<1>9. PICK more : more = Over(Only(e.id, e.kind), graph)
  OBVIOUS
<1>10. CASE e.op = "remove"
  <2>1. acc = [log |-> Append(log, e), graph |-> Without(graph, {e.id})]
    BY <1>7, <1>10 DEF Entered
  <2>2. e.id \in DOMAIN graph
    BY <1>10 DEF Applicable
  <2>3. Replayed(start, e) = [graph |-> Without(graph, {e.id}), ok |-> TRUE]
    BY <2>2, <1>5, <1>10 DEF Replayed
  <2>4. log' = Append(log, e) /\ graph' = Without(graph, {e.id})
    BY <2>1, <1>1
  <2> QED BY <2>3, <2>4, <1>8
<1>11. CASE e.op = "set"
  <2>1. acc = [log |-> Append(log, e), graph |-> more]
    BY <1>7, <1>9, <1>11 DEF Entered
  <2>2. e.id \in DOMAIN graph
    BY <1>11 DEF Applicable
  <2>3. Replayed(start, e) = [graph |-> more, ok |-> TRUE]
    BY <2>2, <1>5, <1>9, <1>11 DEF Replayed
  <2>4. log' = Append(log, e) /\ graph' = more
    BY <2>1, <1>1
  <2> QED BY <2>3, <2>4, <1>8
<1>12. CASE e.op \in {"plain", "add"}
  <2>1. CASE e.id \in DOMAIN graph /\ graph[e.id] = e.kind
    <3>1. acc = begun
      BY <2>1, <1>7, <1>12 DEF Entered
    <3> QED BY <3>1, <1>1, <1>3, <1>7
  <2>2. CASE ~(e.id \in DOMAIN graph /\ graph[e.id] = e.kind)
    <3>1. acc = [log |-> Append(log, e), graph |-> more]
      BY <2>2, <1>7, <1>9, <1>12 DEF Entered
    <3>2. Replayed(start, e) = [start EXCEPT !.graph = more]
      BY <1>5, <1>9, <1>12 DEF Replayed
    <3>3. [start EXCEPT !.graph = more] = [graph |-> more, ok |-> TRUE]
      <4>1. PICK yes : yes = TRUE
        OBVIOUS
      <4>2. start = [graph |-> graph, ok |-> yes]
        BY <1>4, <4>1
      <4>3. [start EXCEPT !.graph = more] = [graph |-> more, ok |-> yes]
        BY <4>2
      <4> QED BY <4>1, <4>3
    <3>4. log' = Append(log, e) /\ graph' = more
      BY <3>1, <1>1
    <3> QED BY <3>2, <3>3, <3>4, <1>8
  <2> QED BY <2>1, <2>2
<1> QED BY <1>10, <1>11, <1>12 DEF Applicable

\* A command on the graph leaves history, positions and provenance alone.
LEMMA GraphCommandKeeps ==
    ASSUME LogInv, NEW e, Applicable(e), ChangeGraph(e)
    PROVE  LogInv'
<1>1. Append1(log, <<e>>) /\ UNCHANGED <<vars, brep, position>>
  BY DEF ChangeGraph
<1>2. active' = active /\ named' = named /\ events' = events /\ brep' = brep
        /\ position' = position
  BY <1>1 DEF vars
<1>3. /\ Replay(log') = [graph |-> graph', ok |-> TRUE]
      /\ log' = log \/ log' = Append(log, e)
  BY <1>1, GraphFollows DEF LogInv
<1>4. PICK S : log \in Seq(S)
  BY DEF LogInv, EntriesInv
<1>5. PICK new : new = log'
  OBVIOUS
<1>6. /\ log \in Seq(S \cup {e}) /\ new \in Seq(S \cup {e})
      /\ Len(log) \in Nat /\ Len(new) \in Nat /\ Len(log) <= Len(new)
      /\ DOMAIN log = 1 .. Len(log) /\ DOMAIN new = 1 .. Len(new)
      /\ \A j \in 1 .. Len(log) : new[j] = log[j]
      /\ \A j \in Len(log) + 1 .. Len(new) : new[j] = e
  <2>1. log \in Seq(S \cup {e}) /\ e \in S \cup {e}
    BY <1>4
  <2>2. CASE log' = log
    BY <2>1, <2>2, <1>5
  <2>3. CASE log' = Append(log, e)
    BY <2>1, <2>3, <1>5
  <2> QED BY <2>2, <2>3, <1>3
<1>7. /\ \A j \in DOMAIN log : j \in DOMAIN new /\ new[j] = log[j]
      /\ \A j \in DOMAIN new : j \in DOMAIN log \/ j \in Len(log) + 1 .. Len(new)
  BY <1>6
<1>8. \A j \in DOMAIN new : j \in DOMAIN log \/ new[j].op # "history"
  BY <1>6, <1>7 DEF Applicable
<1>9. EntriesInv'
  <2>1. \A i \in DOMAIN events : \E j \in DOMAIN new : new[j] = HistoryEntry(i)
    BY <1>7 DEF LogInv, EntriesInv
  <2>2. \A j \in DOMAIN new :
           new[j].op = "history" => \E i \in DOMAIN events : new[j] = HistoryEntry(i)
    BY <1>7, <1>8 DEF LogInv, EntriesInv
  <2>3. \A j, k \in DOMAIN new : new[j].op = "history" /\ new[j] = new[k] => j = k
    BY <1>7, <1>8 DEF LogInv, EntriesInv
  <2>4. \E R : new \in Seq(R)
    BY <1>6
  <2> QED BY <2>1, <2>2, <2>3, <2>4, <1>2, <1>5 DEF EntriesInv
<1>10. PositionInv'
  <2>1. ASSUME NEW n PROVE Introduced(n)' = Introduced(n)
    BY <1>2 DEF Introduced
  <2> QED BY <2>1, <1>2, <1>5, <1>7 DEF LogInv, PositionInv
<1>11. ASSUME NEW id PROVE Latest(new, id) = Latest(log, id)
  <2>1. \A j \in Len(log) + 1 .. Len(new) : new[j].id = id => new[j].brep = None
    BY <1>6 DEF Applicable
  <2> QED BY <2>1, <1>6, LatestStays
<1>12. GeometryInv'
  BY <1>2, <1>5, <1>11 DEF LogInv, GeometryInv, Provenance
<1>13. AlwaysOpens'
  <2>1. Verified(log', graph', brep')
    BY <1>12 DEF GeometryInv, Provenance, Verified
  <2> QED BY <2>1, <1>3 DEF AlwaysOpens, Opens
<1> QED BY <1>9, <1>10, <1>12, <1>13 DEF LogInv

LEMMA GraphCommands ==
    ASSUME LogInv,
           \/ \E id \in Loose, k \in LooseKind :
                 SaveFeature(id, k) \/ ApplyAdd(id, k) \/ ApplySet(id, k)
           \/ \E id \in Loose : ApplyRemove(id)
    PROVE  LogInv'
<1>1. ASSUME NEW op, NEW id, NEW kind
      PROVE  /\ Entry(op, id, kind).op = op /\ Entry(op, id, kind).id = id
             /\ Entry(op, id, kind).brep = None
  BY DEF Entry
<1>2. ASSUME NEW id, NEW k, SaveFeature(id, k) PROVE LogInv'
  <2>1. PICK e : e = Entry("plain", id, PlainKind(k))
    OBVIOUS
  <2>2. ChangeGraph(e)
    BY <1>2, <2>1 DEF SaveFeature
  <2>3. Applicable(e)
    BY <1>1, <2>1 DEF Applicable
  <2> QED BY <2>2, <2>3, GraphCommandKeeps
<1>3. ASSUME NEW id, NEW k, ApplyAdd(id, k) PROVE LogInv'
  <2>1. PICK e : e = Entry("add", id, PlainKind(k))
    OBVIOUS
  <2>2. ChangeGraph(e)
    BY <1>3, <2>1 DEF ApplyAdd
  <2>3. Applicable(e)
    BY <1>1, <2>1 DEF Applicable
  <2> QED BY <2>2, <2>3, GraphCommandKeeps
<1>4. ASSUME NEW id, NEW k, ApplySet(id, k) PROVE LogInv'
  <2>1. PICK e : e = Entry("set", id, PlainKind(k))
    OBVIOUS
  <2>2. ChangeGraph(e) /\ id \in DOMAIN graph
    BY <1>4, <2>1 DEF ApplySet
  <2>3. Applicable(e)
    BY <1>1, <2>1, <2>2 DEF Applicable
  <2> QED BY <2>2, <2>3, GraphCommandKeeps
<1>5. ASSUME NEW id, ApplyRemove(id) PROVE LogInv'
  <2>1. PICK e : e = Entry("remove", id, None)
    OBVIOUS
  <2>2. ChangeGraph(e) /\ id \in DOMAIN graph
    BY <1>5, <2>1 DEF ApplyRemove
  <2>3. Applicable(e)
    BY <1>1, <2>1, <2>2 DEF Applicable
  <2> QED BY <2>2, <2>3, GraphCommandKeeps
<1> QED BY <1>2, <1>3, <1>4, <1>5

-----------------------------------------------------------------------------
(* Geometry *)

\* A loss takes files away, and a load adds only files that the log
\* authenticates.
LEMMA GeometryCommands ==
    ASSUME LogInv, (\E b \in DOMAIN brep : LoseGeometry(b)) \/ Load
    PROVE  LogInv'
<1>1. UNCHANGED <<vars, log, graph, position>>
  BY DEF LoseGeometry, Load
<1>2. /\ active' = active /\ named' = named /\ events' = events
      /\ log' = log /\ graph' = graph /\ position' = position
  BY <1>1 DEF vars
<1>3. EntriesInv'
  BY <1>2 DEF LogInv, EntriesInv
<1>4. PositionInv'
  <2>1. ASSUME NEW n PROVE Introduced(n)' = Introduced(n)
    BY <1>2 DEF Introduced
  <2> QED BY <2>1, <1>2 DEF LogInv, PositionInv
<1>5. \A id \in DOMAIN brep : brep[id] = Provenance(id)
  BY DEF LogInv, GeometryInv
<1>6. ASSUME NEW b, LoseGeometry(b)
      PROVE  \A id \in DOMAIN brep' : brep'[id] = Provenance(id)
  BY <1>5, <1>6 DEF LoseGeometry, Without
<1>7. ASSUME Load PROVE \A id \in DOMAIN brep' : brep'[id] = Provenance(id)
  <2>1. ASSUME NEW fresh, NEW old, Authentic(fresh),
               \A id \in DOMAIN old : old[id] = Provenance(id)
        PROVE  \A id \in DOMAIN Over(fresh, old) : Over(fresh, old)[id] = Provenance(id)
    BY <2>1 DEF Over, Authentic
  <2>2. CASE ~SnapshotReplays
    <3>1. brep' = brep
      BY <2>2, <1>7 DEF Load, LoadOutcome
    <3> QED BY <3>1, <1>5
  <2>3. CASE SnapshotReplays
    <3>1. PICK known : known = Over(FromSnapshot, brep)
      OBVIOUS
    <3>2. \A id \in DOMAIN known : known[id] = Provenance(id)
      <4>1. PICK fresh : fresh = FromSnapshot
        OBVIOUS
      <4>2. Authentic(fresh)
        BY <2>3, <4>1 DEF SnapshotReplays
      <4> QED BY <4>1, <4>2, <3>1, <2>1, <1>5
    <3>3. CASE ~(IntentsNeeded /\ IntentsReplayable /\ Authentic(FromIntents))
      <4>1. brep' = known
        BY <2>3, <3>1, <3>3, <1>7 DEF Load, LoadOutcome
      <4> QED BY <4>1, <3>2
    <3>4. CASE IntentsNeeded /\ IntentsReplayable /\ Authentic(FromIntents)
      <4>1. PICK fresh : fresh = FromIntents
        OBVIOUS
      <4>2. brep' = Over(fresh, known)
        BY <2>3, <3>1, <3>4, <4>1, <1>7 DEF Load, LoadOutcome
      <4>3. Authentic(fresh)
        BY <3>4, <4>1
      <4> QED BY <4>2, <4>3, <3>2, <2>1
    <3> QED BY <3>3, <3>4
  <2> QED BY <2>2, <2>3
<1>8. \A id \in DOMAIN brep' : brep'[id] = Provenance(id)
  BY <1>6, <1>7
<1>9. GeometryInv'
  BY <1>8, <1>2 DEF GeometryInv, Provenance, Latest
<1>10. AlwaysOpens'
  <2>1. Verified(log', graph', brep')
    BY <1>9 DEF GeometryInv, Provenance, Verified
  <2>2. Replay(log') = [graph |-> graph', ok |-> TRUE]
    BY <1>2 DEF LogInv, AlwaysOpens, Opens
  <2> QED BY <2>1, <2>2 DEF AlwaysOpens, Opens
<1> QED BY <1>3, <1>4, <1>9, <1>10 DEF LogInv

-----------------------------------------------------------------------------
(* Commands of the history *)

\* A feature that gets geometry from no entry of a command keeps its
\* provenance.
LEMMA ProvenanceStays ==
    ASSUME NEW n, NEW s, Extended(s, n), NEW id,
           \A k \in 1 .. n : s[k].id = id => s[k].brep = None
    PROVE  Latest(log', id) = Latest(log, id)
<1>1. PICK R :
        /\ log \in Seq(R) /\ log' \in Seq(R)
        /\ Len(log) < Len(log')
        /\ \A j \in 1 .. Len(log) : log'[j] = log[j]
        /\ log'[Len(log) + 1] = HistoryEntry(Len(events'))
        /\ \A j \in Len(log) + 2 .. Len(log') : \E k \in 1 .. n : log'[j] = s[k]
  BY DEF Extended
<1>2. PICK new : new = log'
  OBVIOUS
<1>3. new \in Seq(R) /\ Len(log) \in Nat /\ Len(new) \in Nat /\ Len(log) <= Len(new)
  BY <1>1, <1>2
<1>4. ASSUME NEW j \in Len(log) + 1 .. Len(new), new[j].id = id PROVE new[j].brep = None
  <2>1. CASE j = Len(log) + 1
    BY <2>1, <1>1, <1>2, HistoryEntries
  <2>2. CASE j # Len(log) + 1
    <3>1. j \in Len(log) + 2 .. Len(new)
      BY <2>2, <1>3
    <3>2. PICK k \in 1 .. n : new[j] = s[k]
      BY <3>1, <1>1, <1>2
    <3> QED BY <3>2, <1>4
  <2> QED BY <2>1, <2>2
<1> QED BY <1>1, <1>2, <1>3, <1>4, LatestStays

\* A transaction that stages geometry only for features it leaves in the
\* graph, and whose other entries carry none, keeps the files authentic.
LEMMA TransactKeeps ==
    ASSUME EntriesInv, GeometryInv, NEW n \in Nat, NEW s, DOMAIN s = 1 .. n, NEW staged,
           NEW p, Transact(p, s, staged),
           \A k \in 1 .. n : s[k].op # "remove",
           \A b \in DOMAIN staged : \E k \in 1 .. n : s[k].id = b,
           \A k \in 1 .. n : s[k].brep # None => s[k].id \in DOMAIN staged
    PROVE  AlwaysOpens' /\ GeometryInv'
<1>1. /\ Append1(Append(log, HistoryEntry(Len(events'))), s)
      /\ brep' = Over(staged, brep)
      /\ Opens(log', graph', brep')
  BY DEF Transact
<1>2. AlwaysOpens'
  BY <1>1 DEF AlwaysOpens
<1>3. Extended(s, n)
  BY <1>1, CommandExtends
<1>4. \A k \in 1 .. n : s[k].id \in DOMAIN graph'
  <2>1. PICK D : D = {s[k].id : k \in 1 .. n}
    OBVIOUS
  <2>2. \A k \in 1 .. n : s[k].op = "remove" <=> s[k].id \notin D
    BY <2>1
  <2>3. PICK base : base = Append(log, HistoryEntry(Len(events')))
    OBVIOUS
  <2>4. \A id : id \in DOMAIN graph' <=>
                   IF \E k \in 1 .. n : s[k].id = id THEN id \in D ELSE id \in DOMAIN graph
    BY <2>2, <2>3, <1>1, AppendReaches
  <2> QED BY <2>1, <2>4
<1>5. ASSUME NEW id \in DOMAIN brep' PROVE brep'[id] = Latest(log', id)
  <2>1. CASE id \in DOMAIN graph'
    BY <2>1, <1>1 DEF Opens, Verified
  <2>2. CASE id \notin DOMAIN graph'
    <3>1. id \notin DOMAIN staged
      BY <2>2, <1>4
    <3>2. id \in DOMAIN brep /\ brep'[id] = brep[id]
      BY <3>1, <1>1 DEF Over
    <3>3. \A k \in 1 .. n : s[k].id = id => s[k].brep = None
      BY <3>1
    <3>4. Latest(log', id) = Latest(log, id)
      BY <3>3, <1>3, ProvenanceStays
    <3> QED BY <3>2, <3>4 DEF GeometryInv, Provenance
  <2> QED BY <2>1, <2>2
<1>6. GeometryInv'
  BY <1>5 DEF GeometryInv, Provenance
<1> QED BY <1>2, <1>6

\* What every command of the history does to the stored project.
Stored == Committed /\ AlwaysOpens' /\ GeometryInv'

\* The transaction of a command that only adds plain entries.
LEMMA TransactStores ==
    ASSUME EntriesInv, GeometryInv, NEW n \in Nat, NEW s, DOMAIN s = 1 .. n, NEW staged,
           NEW p \in {None, Len(log)}, Transact(p, s, staged),
           \A k \in 1 .. n : s[k].op = "plain",
           \A b \in DOMAIN staged : \E k \in 1 .. n : s[k].id = b,
           \A k \in 1 .. n : s[k].brep # None => s[k].id \in DOMAIN staged
    PROVE  Stored
<1>1. AlwaysOpens' /\ GeometryInv'
  <2>1. \A k \in 1 .. n : s[k].op # "remove"
    OBVIOUS
  <2> QED BY <2>1, TransactKeeps
<1>2. Committed
  <2>1. \A k \in 1 .. n : s[k].op # "history"
    OBVIOUS
  <2>2. /\ Append1(Append(log, HistoryEntry(Len(events'))), s)
        /\ position' = [m \in DOMAIN named' |-> IF m \in DOMAIN named THEN position[m] ELSE p]
    BY DEF Transact
  <2>3. /\ n \in Nat /\ DOMAIN s = 1 .. n
        /\ \A k \in 1 .. n : s[k].op # "history"
        /\ Append1(Append(log, HistoryEntry(Len(events'))), s)
        /\ p \in {None, Len(log)}
        /\ position' = [m \in DOMAIN named' |-> IF m \in DOMAIN named THEN position[m] ELSE p]
    BY <2>1, <2>2
  <2> QED BY ONLY <2>3 DEF Committed
<1> QED BY <1>1, <1>2 DEF Stored

LEMMA EmptyStores ==
    ASSUME EntriesInv, GeometryInv, NEW p \in {None, Len(log)}, Transact(p, <<>>, <<>>)
    PROVE  Stored
<1>1. PICK n \in Nat : n = 0
  OBVIOUS
<1>2. PICK none : none = <<>>
  OBVIOUS
<1>3. DOMAIN none = {} /\ DOMAIN none = 1 .. n /\ 1 .. n = {}
  BY <1>1, <1>2
<1>4. Transact(p, none, none)
  BY <1>2
<1> QED BY <1>3, <1>4, TransactStores

LEMMA OneStores ==
    ASSUME EntriesInv, GeometryInv, NEW p \in {None, Len(log)}, NEW e, NEW staged,
           Transact(p, <<e>>, staged), e.op = "plain",
           \/ e.brep = None /\ DOMAIN staged = {}
           \/ DOMAIN staged = {e.id}
    PROVE  Stored
<1>1. PICK n \in Nat : n = 1
  OBVIOUS
<1>2. PICK s : s = <<e>>
  OBVIOUS
<1>3. DOMAIN s = 1 .. n /\ 1 \in 1 .. n /\ \A k \in 1 .. n : s[k] = e
  BY <1>1, <1>2
<1>4. Transact(p, s, staged)
  BY <1>2
<1> QED BY <1>3, <1>4, TransactStores

LEMMA TwoStores ==
    ASSUME EntriesInv, GeometryInv, NEW p \in {None, Len(log)}, NEW e, NEW f, NEW staged,
           Transact(p, <<e, f>>, staged), e.op = "plain", f.op = "plain",
           f.brep = None, DOMAIN staged = {e.id}
    PROVE  Stored
<1>1. PICK n \in Nat : n = 2
  OBVIOUS
<1>2. PICK s : s = <<e, f>>
  OBVIOUS
<1>3. /\ DOMAIN s = 1 .. n /\ 1 \in 1 .. n /\ s[1] = e
      /\ \A k \in 1 .. n : s[k] = e \/ s[k] = f
  BY <1>1, <1>2
<1>4. Transact(p, s, staged)
  BY <1>2
<1> QED BY <1>3, <1>4, TransactStores

LEMMA RootStores ==
    ASSUME EntriesInv, GeometryInv, ReplaceRoot(Len(log))
    PROVE  Stored
<1>1. PICK e : e = RootEntry
  OBVIOUS
<1>2. PICK root : root = Root
  OBVIOUS
<1>3. PICK dims : dims = Params(active', root)
  OBVIOUS
<1>4. e = [Entry("plain", root, BracketKind(dims))
                EXCEPT !.brep = dims, !.key = <<"history", Len(events')>>]
  BY <1>1, <1>2, <1>3 DEF RootEntry
<1>5. e.op = "plain" /\ e.id = root
  BY <1>4 DEF Entry
<1>6. PICK staged : staged = Only(root, dims)
  OBVIOUS
<1>7. DOMAIN staged = {root}
  BY <1>6 DEF Only
<1>8. PICK p : p = Len(log)
  OBVIOUS
<1>9. Transact(p, <<e>>, staged)
  BY <1>1, <1>2, <1>3, <1>6, <1>8 DEF ReplaceRoot
<1> QED BY <1>5, <1>7, <1>8, <1>9, OneStores

LEMMA CommitStores ==
    ASSUME EntriesInv, GeometryInv, CommitWithGeometry(Len(log))
    PROVE  Stored
<1>1. CASE ReplaceRoot(Len(log))
  BY <1>1, RootStores
<1>2. CASE ReplaceNothing(Len(log))
  BY <1>2, EmptyStores DEF ReplaceNothing
<1> QED BY <1>1, <1>2 DEF CommitWithGeometry

LEMMA BracketStores ==
    ASSUME EntriesInv, GeometryInv, NEW b, NEW d,
           CreateBracket(b, d) \/ SaveBracket(b, d) \/ CommitDraft(b, d)
    PROVE  Stored
<1>1. PICK e : e = [Entry("plain", b, BracketKind(d))
                        EXCEPT !.brep = d, !.key = <<b, d>>, !.intent = TRUE]
  OBVIOUS
<1>2. e.op = "plain" /\ e.id = b
  BY <1>1 DEF Entry
<1>3. PICK staged : staged = Only(b, d)
  OBVIOUS
<1>4. DOMAIN staged = {b}
  BY <1>3 DEF Only
<1>5. CASE CreateBracket(b, d)
  <2>1. PICK f : f = [Entry("plain", Plates(b), PlateKind) EXCEPT !.key = <<b, d>>]
    OBVIOUS
  <2>2. f.op = "plain" /\ f.brep = None
    BY <2>1 DEF Entry
  <2>3. Transact(None, <<e, f>>, staged)
    BY <1>1, <1>3, <1>5, <2>1 DEF CreateBracket
  <2> QED BY <1>2, <1>4, <2>2, <2>3, TwoStores
<1>6. CASE SaveBracket(b, d)
  <2>1. PICK f : f = Entry("plain", Plates(b), PlateKind)
    OBVIOUS
  <2>2. f.op = "plain" /\ f.brep = None
    BY <2>1 DEF Entry
  <2>3. Transact(None, <<f>>, <<>>)
    BY <1>6, <2>1 DEF SaveBracket
  <2>4. DOMAIN <<>> = {}
    OBVIOUS
  <2> QED BY <2>2, <2>3, <2>4, OneStores
<1>7. CASE CommitDraft(b, d)
  <2>1. Transact(None, <<e>>, staged)
    BY <1>1, <1>3, <1>7 DEF CommitDraft
  <2> QED BY <1>2, <1>4, <2>1, OneStores
<1> QED BY <1>5, <1>6, <1>7

-----------------------------------------------------------------------------
(* Restoring a Named Revision *)

LEMMA LeastThere ==
    ASSUME NEW t \in SUBSET Nat, t # {}
    PROVE  Min(t) \in t
<1>1. \E m \in t : \A k \in t : m <= k
  BY Smallest
<1> QED BY <1>1 DEF Min

\* The target of a restore is the graph of a state the project was in.
LEMMA TargetIsFinite ==
    ASSUME \E S : events \in Seq(S), NamesInv, EntriesInv, PositionInv, NEW n \in DOMAIN named
    PROVE  IsFiniteSet(DOMAIN TargetGraph(n))
<1>1. PICK S : log \in Seq(S)
  BY DEF EntriesInv
<1>2. ASSUME NEW p \in Int, p <= Len(log) PROVE IsFiniteSet(DOMAIN GraphAt(p))
  <2>1. PICK s : s = SubSeq(log, 1, p)
    OBVIOUS
  <2>2. s \in Seq(S)
    BY <1>1, <1>2, <2>1
  <2>3. Len(s) \in Nat /\ DOMAIN s = 1 .. Len(s)
    BY <2>2
  <2> QED BY <2>1, <2>3, ReplayFinite DEF GraphAt
<1>3. DOMAIN log = 1 .. Len(log) /\ Len(log) \in Nat
  BY <1>1
<1>4. CASE position[n] # None
  <2>1. position[n] \in Nat /\ position[n] + 1 \in DOMAIN log
    BY <1>4 DEF PositionInv
  <2>2. position[n] \in Int /\ position[n] <= Len(log)
    BY <2>1, <1>3
  <2> QED BY <2>2, <1>2, <1>4 DEF TargetGraph
<1>5. CASE position[n] = None
  <2>1. PICK t : t = {i \in DOMAIN events : events[i].preserved = n}
    OBVIOUS
  <2>2. t # {} /\ t \in SUBSET (1 .. Len(events)) /\ DOMAIN events = 1 .. Len(events)
        /\ Len(events) \in Nat
    BY <2>1 DEF NamesInv
  <2>3. Introduced(n) \in 1 .. Len(events)
    <3>1. t \in SUBSET Nat
      BY <2>2
    <3>2. Min(t) \in t
      BY <3>1, <2>2, LeastThere
    <3> QED BY <3>2, <2>1, <2>2 DEF Introduced
  <2>4. LegacyPosition(n) \in Int /\ LegacyPosition(n) <= Len(log)
    <3>1. CASE Introduced(n) = 1
      <4>1. LegacyPosition(n) = 0
        BY <3>1 DEF LegacyPosition
      <4> QED BY <4>1, <1>3
    <3>2. CASE Introduced(n) # 1
      <4>1. PICK i : i = Introduced(n) - 1
        OBVIOUS
      <4>2. i \in DOMAIN events
        BY <4>1, <3>2, <2>2, <2>3
      <4>3. EventEntry(i) \in DOMAIN log
        BY <4>2 DEF EventEntry, EntriesInv
      <4>4. LegacyPosition(n) = EventEntry(i)
        BY <3>2, <4>1 DEF LegacyPosition
      <4> QED BY <4>3, <4>4, <1>3
    <3> QED BY <3>1, <3>2
  <2> QED BY <2>4, <1>2, <1>5 DEF TargetGraph
<1> QED BY <1>4, <1>5

\* What a compensation says of one feature.
Compensating(target, id) ==
    IF id \notin DOMAIN target THEN Entry("remove", id, None)
    ELSE IF id \notin DOMAIN graph THEN Entry("add", id, target[id])
    ELSE Entry("set", id, target[id])

LEMMA CompensationSays ==
    ASSUME NEW target
    PROVE  /\ \A e \in Compensation(target) :
                 /\ e = Compensating(target, e.id)
                 /\ e.op \in {"remove", "add", "set"} /\ e.brep = None
                 /\ e.op = "remove" <=> e.id \notin DOMAIN target
                 /\ e.op = "set" => e.id \in DOMAIN graph
                 /\ e.id \in DOMAIN graph \cup DOMAIN target
           /\ \A id \in (DOMAIN graph \ DOMAIN target) \cup (DOMAIN target \ DOMAIN graph) :
                 \E e \in Compensation(target) : e.id = id
<1>1. ASSUME NEW op, NEW id, NEW kind
      PROVE  /\ Entry(op, id, kind).op = op /\ Entry(op, id, kind).id = id
             /\ Entry(op, id, kind).brep = None
  BY DEF Entry
<1>2. ASSUME NEW e \in Compensation(target)
      PROVE  \/ \E id \in DOMAIN graph \ DOMAIN target : e = Entry("remove", id, None)
             \/ \E id \in DOMAIN target \ DOMAIN graph : e = Entry("add", id, target[id])
             \/ \E id \in DOMAIN target \cap DOMAIN graph : e = Entry("set", id, target[id])
  BY DEF Compensation
<1>3. ASSUME NEW e \in Compensation(target)
      PROVE  /\ e = Compensating(target, e.id)
             /\ e.op \in {"remove", "add", "set"} /\ e.brep = None
             /\ e.op = "remove" <=> e.id \notin DOMAIN target
             /\ e.op = "set" => e.id \in DOMAIN graph
             /\ e.id \in DOMAIN graph \cup DOMAIN target
  <2>1. ASSUME NEW id \in DOMAIN graph \ DOMAIN target, e = Entry("remove", id, None)
        PROVE  /\ e.id = id /\ e.op = "remove" /\ e.brep = None
               /\ e = Compensating(target, id)
    BY <2>1, <1>1 DEF Compensating
  <2>2. ASSUME NEW id \in DOMAIN target \ DOMAIN graph, e = Entry("add", id, target[id])
        PROVE  /\ e.id = id /\ e.op = "add" /\ e.brep = None
               /\ e = Compensating(target, id)
    BY <2>2, <1>1 DEF Compensating
  <2>3. ASSUME NEW id \in DOMAIN target \cap DOMAIN graph, e = Entry("set", id, target[id])
        PROVE  /\ e.id = id /\ e.op = "set" /\ e.brep = None
               /\ e = Compensating(target, id)
    BY <2>3, <1>1 DEF Compensating
  <2> QED BY <2>1, <2>2, <2>3, <1>2
<1>4. ASSUME NEW id \in DOMAIN graph \ DOMAIN target
      PROVE  \E e \in Compensation(target) : e.id = id
  <2>1. Entry("remove", id, None) \in Compensation(target)
    BY DEF Compensation
  <2> QED BY <2>1, <1>1
<1>5. ASSUME NEW id \in DOMAIN target \ DOMAIN graph
      PROVE  \E e \in Compensation(target) : e.id = id
  <2>1. Entry("add", id, target[id]) \in Compensation(target)
    BY DEF Compensation
  <2> QED BY <2>1, <1>1
<1> QED BY <1>3, <1>4, <1>5

\* The entries of a restore, in an order of no consequence.
RestoreEntries(target) ==
    LET entries == Compensation(target)
        rebuilt == Rebuilt(target)
        setOnly == {b \in rebuilt : \A e \in entries : e.id # b}
        with(e) == IF e.id \in rebuilt
                   THEN [e EXCEPT !.brep = Params(active', e.id)]
                   ELSE e
        setEntry(b) == [Entry("set", b, BracketKind(Params(active', b)))
                            EXCEPT !.brep = Params(active', b)]
    IN  {with(e) : e \in entries} \cup {setEntry(b) : b \in setOnly}

\* A restore has at most one entry per feature, of the feature's target, and
\* gives geometry only to brackets it rebuilds.
LEMMA RestoreSays ==
    ASSUME NEW target, IsFiniteSet(DOMAIN target), IsFiniteSet(DOMAIN graph)
    PROVE  /\ IsFiniteSet(RestoreEntries(target))
           /\ \A e \in RestoreEntries(target) :
                 /\ e.op \in {"remove", "add", "set"}
                 /\ e.op = "remove" <=> e.id \notin DOMAIN target
                 /\ e.brep # None => e.id \in Rebuilt(target)
           /\ \A id \in (DOMAIN graph \ DOMAIN target) \cup (DOMAIN target \ DOMAIN graph) :
                 \E e \in RestoreEntries(target) : e.id = id
<1>1. PICK entries : entries = Compensation(target)
  OBVIOUS
<1>2. PICK rebuilt : rebuilt = Rebuilt(target)
  OBVIOUS
<1>3. PICK dims : dims = [b \in rebuilt |-> Params(active', b)]
  OBVIOUS
<1>4. PICK setOnly : setOnly = {b \in rebuilt : \A e \in entries : e.id # b}
  OBVIOUS
<1> DEFINE with(e) == IF e.id \in rebuilt THEN [e EXCEPT !.brep = dims[e.id]] ELSE e
           setEntry(b) == [Entry("set", b, BracketKind(dims[b])) EXCEPT !.brep = dims[b]]
<1>5. PICK all : all = RestoreEntries(target)
  OBVIOUS
<1>6. all = {with(e) : e \in entries} \cup {setEntry(b) : b \in setOnly}
  BY <1>1, <1>2, <1>3, <1>4, <1>5 DEF RestoreEntries
<1>7. rebuilt \subseteq DOMAIN target
  BY <1>2 DEF Rebuilt
<1>8. /\ \A e \in entries :
            /\ e = Compensating(target, e.id)
            /\ e.op \in {"remove", "add", "set"} /\ e.brep = None
            /\ e.op = "remove" <=> e.id \notin DOMAIN target
            /\ e.id \in DOMAIN graph \cup DOMAIN target
      /\ \A id \in (DOMAIN graph \ DOMAIN target) \cup (DOMAIN target \ DOMAIN graph) :
            \E e \in entries : e.id = id
  BY <1>1, CompensationSays
<1>9. ASSUME NEW e \in entries
      PROVE  /\ with(e).id = e.id /\ with(e).op = e.op
             /\ with(e).brep # None => e.id \in rebuilt
  <2>1. e = Compensating(target, e.id)
    BY <1>8
  <2>2. \E o, i, k : e = Entry(o, i, k)
    BY <2>1 DEF Compensating
  <2>3. PICK o, i, k : e = [op |-> o, id |-> i, kind |-> k, brep |-> None, key |-> None,
                            intent |-> FALSE]
    BY <2>2 DEF Entry
  <2>4. CASE e.id \in rebuilt
    BY <2>3, <2>4
  <2>5. CASE e.id \notin rebuilt
    BY <2>5, <1>8
  <2> QED BY <2>4, <2>5
<1>10. ASSUME NEW b \in setOnly
       PROVE  /\ setEntry(b).id = b /\ setEntry(b).op = "set" /\ b \in rebuilt
  BY <1>4 DEF Entry
<1> HIDE DEF with, setEntry
<1>11. ASSUME NEW e \in all
       PROVE  /\ e.op \in {"remove", "add", "set"}
              /\ e.op = "remove" <=> e.id \notin DOMAIN target
              /\ e.brep # None => e.id \in rebuilt
              /\ e.id \in DOMAIN graph \cup DOMAIN target
              /\ \/ e.id \in setOnly /\ e = setEntry(e.id)
                 \/ e.id \notin setOnly /\ e = with(Compensating(target, e.id))
  <2>1. CASE \E x \in entries : e = with(x)
    <3>1. PICK x \in entries : e = with(x)
      BY <2>1
    <3>2. e.id = x.id /\ e.op = x.op /\ (e.brep # None => e.id \in rebuilt)
      BY <3>1, <1>9
    <3>3. e.id \notin setOnly
      BY <3>2, <1>4
    <3> QED BY <3>1, <3>2, <3>3, <1>8
  <2>2. CASE \E b \in setOnly : e = setEntry(b)
    <3>1. PICK b \in setOnly : e = setEntry(b)
      BY <2>2
    <3>2. e.id = b /\ e.op = "set" /\ b \in rebuilt
      BY <3>1, <1>10
    <3> QED BY <3>1, <3>2, <1>7
  <2> QED BY <2>1, <2>2, <1>6
<1>12. \A id \in (DOMAIN graph \ DOMAIN target) \cup (DOMAIN target \ DOMAIN graph) :
            \E e \in all : e.id = id
  <2> TAKE id \in (DOMAIN graph \ DOMAIN target) \cup (DOMAIN target \ DOMAIN graph)
  <2>1. PICK e \in entries : e.id = id
    BY <1>8
  <2>2. with(e) \in all /\ with(e).id = id
    BY <2>1, <1>6, <1>9
  <2> QED BY <2>2
<1>13. IsFiniteSet(all)
  <2>1. PICK ids : ids = DOMAIN graph \cup DOMAIN target
    OBVIOUS
  <2>2. IsFiniteSet(ids)
    BY <2>1, FS_Union
  <2>3. PICK f : f = [e \in all |-> e.id]
    OBVIOUS
  <2>4. f \in [all -> ids]
    BY <2>1, <2>3, <1>11
  <2>5. IsInjective(f)
    <3>1. ASSUME NEW e \in all, NEW g \in all, e.id = g.id PROVE e = g
      BY <3>1, <1>11
    <3> QED BY <3>1, <2>3 DEF IsInjective
  <2>6. f \in Injection(all, ids)
    BY <2>4, <2>5 DEF Injection
  <2> QED BY <2>2, <2>6, FS_Injection
<1> QED BY <1>2, <1>5, <1>11, <1>12, <1>13

\* A restore of several features arrives at the target, with the geometry it
\* rebuilt authenticated and the files of dropped features gone.
LEMMA FamiliesRestore ==
    ASSUME \E S : events \in Seq(S), NamesInv, LogInv, NEW n \in DOMAIN named,
           RestoreFamilies(n)
    PROVE  Stored /\ DOMAIN graph' = DOMAIN TargetGraph(n)
<1>1. PICK target : target = TargetGraph(n)
  OBVIOUS
<1>2. IsFiniteSet(DOMAIN target)
  BY <1>1, TargetIsFinite DEF LogInv
<1>3. IsFiniteSet(DOMAIN graph)
  <2>1. PICK S : log \in Seq(S)
    BY DEF LogInv, EntriesInv
  <2>2. Len(log) \in Nat /\ DOMAIN log = 1 .. Len(log)
    BY <2>1
  <2>3. IsFiniteSet(DOMAIN Replay(log).graph)
    BY <2>2, ReplayFinite
  <2>4. Replay(log).graph = graph
    BY DEF LogInv, AlwaysOpens, Opens
  <2> QED BY <2>3, <2>4
<1>4. PICK all : all = RestoreEntries(target)
  OBVIOUS
<1>5. PICK rebuilt : rebuilt = Rebuilt(target)
  OBVIOUS
<1>6. PICK geometry : geometry = [b \in rebuilt |-> Params(active', b)]
  OBVIOUS
<1>7. /\ IsFiniteSet(all)
      /\ \A e \in all :
            /\ e.op \in {"remove", "add", "set"}
            /\ e.op = "remove" <=> e.id \notin DOMAIN target
            /\ e.brep # None => e.id \in rebuilt
      /\ \A id \in (DOMAIN graph \ DOMAIN target) \cup (DOMAIN target \ DOMAIN graph) :
            \E e \in all : e.id = id
  BY <1>2, <1>3, <1>4, <1>5, RestoreSays
<1>8. PICK s : s = SetToSeq(all)
  OBVIOUS
<1>9. PICK k : k = Cardinality(all)
  OBVIOUS
<1>10. /\ k \in Nat /\ DOMAIN s = 1 .. k
       /\ \A i \in 1 .. k : s[i] \in all
       /\ \A e \in all : \E i \in 1 .. k : s[i] = e
  BY <1>7, <1>8, <1>9, Listed
<1>11. /\ Append1(Append(log, HistoryEntry(Len(events'))), s)
       /\ position' =
            [m \in DOMAIN named' |-> IF m \in DOMAIN named THEN position[m] ELSE Len(log)]
       /\ Opens(log', graph', Over(geometry, brep))
       /\ brep' = Without(Over(geometry, brep), Dropped(target))
  BY <1>1, <1>4, <1>5, <1>6, <1>8 DEF RestoreFamilies, RestoreEntries
<1>12. \A i \in 1 .. k :
          /\ s[i].op \in {"remove", "add", "set"}
          /\ s[i].op = "remove" <=> s[i].id \notin DOMAIN target
          /\ s[i].brep # None => s[i].id \in rebuilt
  BY <1>7, <1>10
<1>13. DOMAIN graph' = DOMAIN target
  <2>1. PICK base : base = Append(log, HistoryEntry(Len(events')))
    OBVIOUS
  <2>2. PICK D : D = DOMAIN target
    OBVIOUS
  <2>3. Append1(base, s) /\ \A i \in 1 .. k : s[i].op = "remove" <=> s[i].id \notin D
    BY <2>1, <2>2, <1>11, <1>12
  <2>4. \A id : id \in DOMAIN graph' <=>
                   IF \E i \in 1 .. k : s[i].id = id THEN id \in D ELSE id \in DOMAIN graph
    <3>1. k \in Nat /\ DOMAIN s = 1 .. k
      BY <1>10
    <3> QED BY ONLY <2>3, <3>1, AppendReaches
  <2>5. ASSUME NEW id, ~\E i \in 1 .. k : s[i].id = id
        PROVE  id \in DOMAIN graph <=> id \in D
    BY <2>2, <2>5, <1>7, <1>10
  <2> QED BY <2>2, <2>4, <2>5
<1>14. Extended(s, k)
  BY <1>10, <1>11, CommandExtends DEF LogInv
<1>15. PICK over : over = Over(geometry, brep)
  OBVIOUS
<1>16. DOMAIN geometry = rebuilt /\ rebuilt \subseteq DOMAIN target
  BY <1>5, <1>6 DEF Rebuilt
<1>17. /\ DOMAIN over = rebuilt \cup DOMAIN brep
       /\ \A id \in DOMAIN brep \ rebuilt : over[id] = brep[id]
  BY <1>15, <1>16 DEF Over
<1>18. \A id \in DOMAIN brep' : id \in DOMAIN over /\ brep'[id] = over[id]
  BY <1>11, <1>15 DEF Without
<1>19. ASSUME NEW id \in DOMAIN brep' PROVE brep'[id] = Latest(log', id)
  <2>1. CASE id \in DOMAIN graph'
    BY <2>1, <1>11, <1>15, <1>18 DEF Opens, Verified
  <2>2. CASE id \notin DOMAIN graph'
    <3>1. id \notin rebuilt
      BY <2>2, <1>13, <1>16
    <3>2. id \in DOMAIN brep /\ brep'[id] = brep[id]
      BY <3>1, <1>17, <1>18
    <3>3. \A i \in 1 .. k : s[i].id = id => s[i].brep = None
      BY <3>1, <1>12
    <3>4. Latest(log', id) = Latest(log, id)
      BY <3>3, <1>14, ProvenanceStays
    <3> QED BY <3>2, <3>4 DEF LogInv, GeometryInv, Provenance
  <2> QED BY <2>1, <2>2
<1>20. GeometryInv'
  BY <1>19 DEF GeometryInv, Provenance
<1>21. AlwaysOpens'
  <2>1. Verified(log', graph', brep')
    BY <1>19 DEF Verified
  <2>2. Replay(log') = [graph |-> graph', ok |-> TRUE]
    BY <1>11 DEF Opens
  <2> QED BY <2>1, <2>2 DEF AlwaysOpens, Opens
<1>22. Committed
  <2>1. PICK p : p = Len(log)
    OBVIOUS
  <2>2. /\ k \in Nat /\ DOMAIN s = 1 .. k
        /\ \A i \in 1 .. k : s[i].op # "history"
        /\ Append1(Append(log, HistoryEntry(Len(events'))), s)
        /\ p \in {None, Len(log)}
        /\ position' = [m \in DOMAIN named' |-> IF m \in DOMAIN named THEN position[m] ELSE p]
    BY <2>1, <1>10, <1>11, <1>12
  <2> QED BY ONLY <2>2 DEF Committed
<1> QED BY <1>1, <1>13, <1>20, <1>21, <1>22 DEF Stored

\* A change of the one bracket alone leaves the features as they are, which
\* are the target's.
LEMMA RootRestore ==
    ASSUME LogInv, NEW n, RestoreRoot(n)
    PROVE  Stored /\ DOMAIN graph' = DOMAIN TargetGraph(n)
<1>1. Stored
  BY RootStores DEF RestoreRoot, LogInv
<1>2. PICK target : target = TargetGraph(n)
  OBVIOUS
<1>3. \A e \in Compensation(target) : e.op = "set"
  BY <1>2 DEF RestoreRoot, OnlyRoot
<1>4. DOMAIN graph = DOMAIN target
  <2>1. ASSUME NEW id \in (DOMAIN graph \ DOMAIN target) \cup (DOMAIN target \ DOMAIN graph)
        PROVE  FALSE
    <3>1. PICK e \in Compensation(target) : e.id = id
      BY CompensationSays
    <3>2. e.op = "set" /\ id \in DOMAIN graph /\ id \in DOMAIN target
      BY <3>1, <1>3, CompensationSays
    <3> QED BY <3>2
  <2> QED BY <2>1
<1>5. PICK e : e = RootEntry
  OBVIOUS
<1>6. PICK root : root = Root
  OBVIOUS
<1>7. PICK dims : dims = Params(active', root)
  OBVIOUS
<1>8. e = [Entry("plain", root, BracketKind(dims))
                EXCEPT !.brep = dims, !.key = <<"history", Len(events')>>]
  BY <1>5, <1>6, <1>7 DEF RootEntry
<1>9. e.op = "plain" /\ e.id = root
  BY <1>8 DEF Entry
<1>10. PICK base : base = Append(log, HistoryEntry(Len(events')))
  OBVIOUS
<1>11. root \in DOMAIN graph /\ Append1(base, <<e>>)
  BY <1>5, <1>6, <1>10 DEF RestoreRoot, ReplaceRoot, IsBracketFeature, Transact
<1>12. DOMAIN graph' = DOMAIN graph
  <2>1. PICK k \in Nat : k = 1
    OBVIOUS
  <2>2. PICK s : s = <<e>>
    OBVIOUS
  <2>3. DOMAIN s = 1 .. k /\ \A i \in 1 .. k : s[i] = e
    BY <2>1, <2>2
  <2>4. PICK D : D = DOMAIN graph
    OBVIOUS
  <2>5. \A i \in 1 .. k : s[i].op = "remove" <=> s[i].id \notin D
    BY <2>3, <2>4, <1>9, <1>11
  <2>6. Append1(base, s)
    BY <2>2, <1>11
  <2>7. \A id : id \in DOMAIN graph' <=>
                   IF \E i \in 1 .. k : s[i].id = id THEN id \in D ELSE id \in DOMAIN graph
    BY <2>3, <2>5, <2>6, AppendReaches
  <2> QED BY <2>4, <2>7
<1> QED BY <1>1, <1>2, <1>4, <1>12

-----------------------------------------------------------------------------
(* The stored project *)

ProjectInv == HistoryInv /\ NamesInv /\ LogInv

\* What each command of the history does, to the history and to the project.
LEMMA CommandsStore ==
    ASSUME ProjectInv,
           \/ \E b \in Bracket, d \in Dims :
                 CreateBracket(b, d) \/ SaveBracket(b, d) \/ CommitDraft(b, d)
           \/ \E b \in Bracket, part \in EditPart, v \in Value : HistoricalEdit(<<b, part>>, v)
           \/ \E n \in UserName : NameRevision(n)
           \/ UndoCommand
           \/ RedoCommand
    PROVE  Stored /\ RecordsOther
<1>1. \E S : events \in Seq(S)
  BY DEF ProjectInv, HistoryInv, LogEndsAtActive
<1>2. EntriesInv /\ GeometryInv
  BY DEF ProjectInv, LogInv
<1>3. ASSUME NEW b, NEW d, CreateBracket(b, d) \/ SaveBracket(b, d) \/ CommitDraft(b, d)
      PROVE  Stored /\ RecordsOther
  <2>1. Initialize(b, d) \/ EditBracket(b, d)
    BY <1>3 DEF CreateBracket, SaveBracket, CommitDraft
  <2> QED BY <2>1, <1>1, <1>2, <1>3, CommandsRecord, BracketStores
<1>4. ASSUME NEW f, NEW v, HistoricalEdit(f, v) PROVE Stored /\ RecordsOther
  BY <1>1, <1>2, <1>4, CommandsRecord, CommitStores DEF HistoricalEdit
<1>5. ASSUME NEW n \in UserName, NameRevision(n) PROVE Stored /\ RecordsOther
  <2>1. CreateNamed(n) /\ Transact(Len(log), <<>>, <<>>)
    BY <1>5 DEF NameRevision
  <2> QED BY <2>1, <1>1, <1>2, CommandsRecord, EmptyStores
<1>6. ASSUME UndoCommand \/ RedoCommand PROVE Stored /\ RecordsOther
  BY <1>1, <1>2, <1>6, CommandsRecord, CommitStores DEF UndoCommand, RedoCommand
<1> QED BY <1>3, <1>4, <1>5, <1>6

\* A restore is stored like any command and arrives at its target.
LEMMA RestoreStores ==
    ASSUME ProjectInv, NEW n \in DOMAIN named, RestoreRevision(n)
    PROVE  Stored /\ RecordsRestore(n) /\ DOMAIN graph' = DOMAIN TargetGraph(n)
<1>1. \E S : events \in Seq(S)
  BY DEF ProjectInv, HistoryInv, LogEndsAtActive
<1>2. RecordsRestore(n)
  BY <1>1, CommandsRecord DEF RestoreRevision
<1>3. Stored /\ DOMAIN graph' = DOMAIN TargetGraph(n)
  BY <1>1, FamiliesRestore, RootRestore DEF RestoreRevision, ProjectInv
<1> QED BY <1>2, <1>3

LEMMA ProjectStarts == ProjectInit => ProjectInv
<1> SUFFICES ASSUME ProjectInit PROVE ProjectInv
  OBVIOUS
<1>1. HistoryInv
  BY InitHolds DEF ProjectInit
<1>2. /\ active = Genesis /\ named = <<>> /\ events = <<>>
      /\ log = <<>> /\ graph = <<>> /\ brep = <<>> /\ position = <<>>
  BY DEF ProjectInit, Init
<1>3. DOMAIN <<>> = {}
  OBVIOUS
<1>4. NamesInv
  BY <1>2, <1>3 DEF NamesInv
<1>5. EntriesInv
  <2>1. log \in Seq({})
    BY <1>2
  <2> QED BY <2>1, <1>2, <1>3 DEF EntriesInv
<1>6. PositionInv
  BY <1>2, <1>3 DEF PositionInv
<1>7. GeometryInv
  BY <1>2, <1>3 DEF GeometryInv
<1>8. AlwaysOpens
  <2>1. PICK n \in Nat : n = 0
    OBVIOUS
  <2>2. PICK s : s = <<>>
    OBVIOUS
  <2>3. DOMAIN s = 1 .. n
    BY <2>1, <2>2
  <2>4. Replay(s) = NoEntry
    <3>1. PICK f : f[0] = NoEntry /\ f[n] = Replay(s)
      BY <2>3, ReplayedFolds
    <3> QED BY <3>1, <2>1
  <2>5. Replay(log) = [graph |-> graph, ok |-> TRUE]
    BY <2>2, <2>4, <1>2 DEF NoEntry
  <2>6. Verified(log, graph, brep)
    BY <1>2, <1>3 DEF Verified
  <2> QED BY <2>5, <2>6 DEF AlwaysOpens, Opens
<1> QED BY <1>1, <1>4, <1>5, <1>6, <1>7, <1>8 DEF ProjectInv, LogInv

\* Every command, loss and load keeps all of it.
LEMMA ProjectKept == ProjectInv /\ [ProjectNext]_projectVars => ProjectInv'
<1> SUFFICES ASSUME ProjectInv, [ProjectNext]_projectVars PROVE ProjectInv'
  OBVIOUS
<1>1. HistoryInv'
  BY ProjectSteps, StepKeepsInvariant DEF ProjectInv
<1>2. \E S : events \in Seq(S)
  BY DEF ProjectInv, HistoryInv, LogEndsAtActive
<1>3. ASSUME Stored, RecordsOther \/ \E n : RecordsRestore(n) PROVE NamesInv' /\ LogInv'
  <2>1. PICK event, revisions : Apply(event, revisions) /\ Recorded(event, revisions)
    BY <1>3 DEF RecordsOther, RecordsRestore
  <2>2. NamesInv'
    BY <2>1, <1>2, NamesAreIntroduced DEF ProjectInv
  <2>3. EntriesInv' /\ PositionInv'
    BY <2>1, <1>2, <1>3, CommittedKeeps DEF ProjectInv, LogInv, Stored
  <2> QED BY <2>2, <2>3, <1>3 DEF LogInv, Stored
<1>4. ASSUME UNCHANGED vars PROVE NamesInv'
  <2>1. named' = named /\ events' = events
    BY <1>4 DEF vars
  <2> QED BY <2>1 DEF ProjectInv, NamesInv
<1>5. CASE \/ \E b \in Bracket, d \in Dims :
                 CreateBracket(b, d) \/ SaveBracket(b, d) \/ CommitDraft(b, d)
           \/ \E b \in Bracket, part \in EditPart, v \in Value : HistoricalEdit(<<b, part>>, v)
           \/ \E n \in UserName : NameRevision(n)
           \/ UndoCommand
           \/ RedoCommand
  BY <1>1, <1>3, <1>5, CommandsStore DEF ProjectInv
<1>6. CASE \E n \in DOMAIN named : RestoreRevision(n)
  BY <1>1, <1>3, <1>6, RestoreStores DEF ProjectInv
<1>7. CASE \/ \E id \in Loose, k \in LooseKind :
                 SaveFeature(id, k) \/ ApplyAdd(id, k) \/ ApplySet(id, k)
           \/ \E id \in Loose : ApplyRemove(id)
  <2>1. UNCHANGED vars
    BY <1>7, OtherSteps
  <2>2. LogInv'
    BY <1>7, GraphCommands DEF ProjectInv
  <2> QED BY <2>1, <2>2, <1>1, <1>4 DEF ProjectInv
<1>8. CASE (\E b \in DOMAIN brep : LoseGeometry(b)) \/ Load
  <2>1. UNCHANGED vars
    BY <1>8, OtherSteps
  <2>2. LogInv'
    BY <1>8, GeometryCommands DEF ProjectInv
  <2> QED BY <2>1, <2>2, <1>1, <1>4 DEF ProjectInv
<1>9. CASE UNCHANGED projectVars
  <2>1. /\ UNCHANGED vars
        /\ log' = log /\ graph' = graph /\ brep' = brep /\ position' = position
    BY <1>9 DEF projectVars
  <2>2. events' = events /\ named' = named
    BY <2>1 DEF vars
  <2>3. EntriesInv'
    BY <2>1, <2>2 DEF ProjectInv, LogInv, EntriesInv
  <2>4. PositionInv'
    <3>1. ASSUME NEW n PROVE Introduced(n)' = Introduced(n)
      BY <2>2 DEF Introduced
    <3> QED BY <3>1, <2>1, <2>2 DEF ProjectInv, LogInv, PositionInv
  <2>5. GeometryInv'
    BY <2>1 DEF ProjectInv, LogInv, GeometryInv, Provenance
  <2>6. AlwaysOpens'
    BY <2>1 DEF ProjectInv, LogInv, AlwaysOpens
  <2> QED BY <2>1, <2>3, <2>4, <2>5, <2>6, <1>1, <1>4 DEF ProjectInv, LogInv
<1> QED BY <1>5, <1>6, <1>7, <1>8, <1>9 DEF ProjectNext

\* Whatever commands, losses of geometry and loads came before, the sealed log
\* replays without a broken link to the graph, and the geometry on disk is
\* what the log authenticates: the next open_sealed succeeds.
THEOREM TheProjectAlwaysOpens == ProjectSpec => []AlwaysOpens
<1>1. ProjectInv => AlwaysOpens
  BY DEF ProjectInv, LogInv
<1> QED BY <1>1, ProjectStarts, ProjectKept, PTL DEF ProjectSpec

\* A recorded position leads to the state before the event that introduced the
\* Named Revision.
LEMMA RecordedPosition ==
    ASSUME ProjectInv, NEW n \in DOMAIN named, position[n] # None
    PROVE  TargetGraph(n) = WhenNamed(n)
<1>1. /\ position[n] \in Nat
      /\ position[n] + 1 \in DOMAIN log
      /\ log[position[n] + 1] = HistoryEntry(Introduced(n))
  BY DEF ProjectInv, LogInv, PositionInv
<1>2. PICK j : j = EventEntry(Introduced(n))
  OBVIOUS
<1>3. j \in DOMAIN log /\ log[j] = HistoryEntry(Introduced(n))
  BY <1>1, <1>2 DEF EventEntry
<1>4. log[j].op = "history"
  BY <1>3, HistoryEntries
<1>5. j = position[n] + 1
  BY <1>1, <1>3, <1>4 DEF ProjectInv, LogInv, EntriesInv
<1>6. j - 1 = position[n]
  BY <1>1, <1>5
<1> QED BY <1>2, <1>6 DEF TargetGraph, WhenNamed

\* A restore of a Named Revision that was given a position brings back exactly
\* the features the project had when it was taken, whatever was added,
\* removed or restored since.
THEOREM RestoresBringBack == ProjectSpec => RestoreBringsBackFeatures
<1>1. ASSUME ProjectInv, [ProjectNext]_projectVars
      PROVE  [\A n \in DOMAIN named : position[n] # None => RestoresGraphOf(n)]_projectVars
  <2>1. \E S : events \in Seq(S)
    BY <1>1 DEF ProjectInv, HistoryInv, LogEndsAtActive
  <2>2. ASSUME NEW event, NEW revisions, Apply(event, revisions)
        PROVE  Last(events') = event
    <3>1. PICK S : events \in Seq(S)
      BY <2>1
    <3>2. PICK now : now = Append(events, event)
      OBVIOUS
    <3>3. now[Len(now)] = event
      <4>1. events \in Seq(S \cup {event}) /\ event \in S \cup {event}
        BY <3>1
      <4> QED BY <4>1, <3>2
    <3> QED BY <2>2, <3>2, <3>3 DEF Apply, Last
  <2>3. ASSUME RecordsOther, NEW n PROVE RestoresGraphOf(n)
    <3>1. PICK event, revisions : Apply(event, revisions) /\ event.kind # "restore"
      BY <2>3 DEF RecordsOther
    <3> QED BY <3>1, <2>2 DEF RestoresGraphOf
  <2>4. ASSUME NEW m \in DOMAIN named, RestoreRevision(m),
               NEW n \in DOMAIN named, position[n] # None
        PROVE  RestoresGraphOf(n)
    <3>1. RecordsRestore(m) /\ DOMAIN graph' = DOMAIN TargetGraph(m)
      BY <1>1, <2>4, RestoreStores
    <3>2. PICK event, revisions : Apply(event, revisions) /\ event.name = m
      BY <3>1 DEF RecordsRestore
    <3>3. Last(events').name = m
      BY <3>2, <2>2
    <3>4. TargetGraph(n) = WhenNamed(n)
      BY <1>1, <2>4, RecordedPosition
    <3> QED BY <3>1, <3>3, <3>4 DEF RestoresGraphOf
  <2>5. ASSUME UNCHANGED vars, NEW n PROVE RestoresGraphOf(n)
    <3>1. events' = events
      BY <2>5 DEF vars
    <3> QED BY <3>1 DEF RestoresGraphOf
  <2>6. CASE \/ \E b \in Bracket, d \in Dims :
                   CreateBracket(b, d) \/ SaveBracket(b, d) \/ CommitDraft(b, d)
             \/ \E b \in Bracket, part \in EditPart, v \in Value :
                   HistoricalEdit(<<b, part>>, v)
             \/ \E n \in UserName : NameRevision(n)
             \/ UndoCommand
             \/ RedoCommand
    BY <1>1, <2>3, <2>6, CommandsStore
  <2>7. CASE \E m \in DOMAIN named : RestoreRevision(m)
    BY <2>4, <2>7
  <2>8. CASE \/ \E id \in Loose, k \in LooseKind :
                   SaveFeature(id, k) \/ ApplyAdd(id, k) \/ ApplySet(id, k)
             \/ \E id \in Loose : ApplyRemove(id)
             \/ \E b \in DOMAIN brep : LoseGeometry(b)
             \/ Load
    BY <2>5, <2>8, OtherSteps
  <2> QED BY <1>1, <2>6, <2>7, <2>8 DEF ProjectNext
<1> QED BY <1>1, ProjectStarts, ProjectKept, PTL DEF ProjectSpec, RestoreBringsBackFeatures

=============================================================================
