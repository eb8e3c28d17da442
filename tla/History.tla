------------------------------ MODULE History -------------------------------
(***************************************************************************)
(* Parametric history of a project (crates/domain/src/history.rs).         *)
(*                                                                         *)
(* The history is an append-only log of events; each event carries the     *)
(* Revision Snapshot it makes active and the Named Revisions.  A command   *)
(* builds an event from the state it opened, and the event is applied only *)
(* if it validates; a refused command changes nothing.                     *)
(*                                                                         *)
(* A bracket is five features: base <- bend <- finish, and an independent  *)
(* branch ibase <- ifinish.  A geometry fingerprint is the digest of a     *)
(* feature's value and of the fingerprints it depends on, so it is modelled*)
(* as that very tuple.                                                     *)
(***************************************************************************)
EXTENDS Integers, Sequences, SequencesExt, FiniteSetsExt

CONSTANTS
    Bracket,    \* identities of brackets
    Dims,       \* [length, width, height, thickness] a command can carry
    Value,      \* values a historical edit can carry, 0 is "not positive"
    UserName,   \* names a user can give a Named Revision
    None,       \* no fingerprint
    MaxOrdinal  \* bound: no command once the log is this long

ASSUME DimsAssumption ==
    Dims \subseteq [length : Nat, width : Nat, height : Nat, thickness : Nat]
ASSUME ValueAssumption == Value \subseteq Nat
ASSUME MaxOrdinalAssumption == MaxOrdinal \in Nat

VARIABLES
    active,     \* the active Revision Snapshot
    named,      \* Named Revisions: name -> snapshot
    events      \* the history events of the transaction log

vars == <<active, named, events>>

Part == {"base", "bend", "finish", "ibase", "ifinish"}
Upstream ==
    [base |-> {}, bend |-> {"base"}, finish |-> {"bend"},
     ibase |-> {}, ifinish |-> {"ibase"}]
InputOf ==
    [base |-> "length", bend |-> "width", finish |-> "height",
     ibase |-> "thickness", ifinish |-> "height"]

Deps(f) == {<<f[1], part>> : part \in Upstream[f[2]]}

Feature == Bracket \X Part
Status == {"current", "broken", "blocked"}

Genesis == [revision |-> 0, features |-> <<>>]

\* Names the recorder derives from the ordinal of the event it builds.
AutoName(kind, ordinal) == <<kind, ordinal>>

Ordinal == Len(events)

Kind == {"initialize", "edit", "create", "restore", "undo", "redo"}

\* "No name" is none of the names a Named Revision can have.
ASSUME NoneAssumption ==
    /\ None \notin UserName
    /\ \A kind \in Kind, i \in 1 .. MaxOrdinal : AutoName(kind, i) # None

IsSnapshot(s) ==
    /\ s.revision \in Nat
    /\ DOMAIN s.features \subseteq Feature
    /\ \A f \in DOMAIN s.features :
          /\ s.features[f].value \in Nat
          /\ s.features[f].status \in Status
          /\ Deps(f) \subseteq DOMAIN s.features

TypeOK ==
    /\ IsSnapshot(active)
    /\ \A n \in DOMAIN named : IsSnapshot(named[n])
    /\ \A i \in DOMAIN events :
          events[i].kind \in Kind /\ IsSnapshot(events[i].active)

Init ==
    /\ active = Genesis
    /\ named = <<>>
    /\ events = <<>>

-----------------------------------------------------------------------------
(* Evaluation of features.                                                 *)

Fingerprint(features, f) ==
    <<f, features[f].value, {features[g].shape : g \in Deps(f)}>>

Current(features, f) ==
    [features EXCEPT ![f].shape = Fingerprint(features, f),
                     ![f].stale = None,
                     ![f].status = "current"]

Broken(features, f) ==
    [features EXCEPT ![f].stale = features[f].shape,
                     ![f].shape = None,
                     ![f].status = "broken"]

\* The first last-valid fingerprint is kept while the feature is not current.
Blocked(features, f) ==
    [features EXCEPT ![f].stale = IF @ = None THEN features[f].shape ELSE @,
                     ![f].shape = None,
                     ![f].status = "blocked"]

\* No part of a bracket is more than two steps away from its base.
Ancestors ==
    [part \in Part |-> Upstream[part] \cup UNION {Upstream[up] : up \in Upstream[part]}]

\* Mutant of Dirty: only the direct dependents are recomputed.
DirtyDirect(features, f) == {g \in DOMAIN features : g = f \/ f \in Deps(g)}

\* The edited feature and everything that depends on it.
Dirty(features, f) ==
    {g \in DOMAIN features : g[1] = f[1] /\ f[2] \in Ancestors[g[2]] \cup {g[2]}}

\* A bracket's parts one after the other: in dependency order, ties by name.
ForEachPart(Step(_, _), start) ==
    Step(Step(Step(Step(Step(start, "base"), "bend"), "finish"), "ibase"), "ifinish")

\* One feature of a historical edit that gives target the value v.
Evaluate(acc, f, target, v) ==
    LET valued == IF f = target
                  THEN [acc.features EXCEPT ![f].value = v]
                  ELSE acc.features
    IN  IF acc.failed \/ \E g \in Deps(f) : acc.features[g].status # "current"
        THEN [acc EXCEPT !.features = Blocked(acc.features, f)]
        ELSE IF valued[f].value = 0
             THEN [features |-> Broken(valued, f), failed |-> TRUE]
             ELSE [acc EXCEPT !.features = Current(valued, f)]

\* The loop of an edit visits the dirty features only.
EvaluatePart(acc, part, dirty, target, v) ==
    LET f == <<target[1], part>>
    IN  IF f \in dirty THEN Evaluate(acc, f, target, v) ELSE acc

Edited(features, target, v) ==
    LET dirty == Dirty(features, target)
        step(acc, part) == EvaluatePart(acc, part, dirty, target, v)
    IN  ForEachPart(step, [features |-> features, failed |-> FALSE]).features

\* Mutant of NextRevision: the revision id is not advanced.
SameRevision(features) == [revision |-> active.revision, features |-> features]

\* A recomputation makes a revision of its own, numbered like its event.
NextRevision(features) == [revision |-> Ordinal + 1, features |-> features]

\* A part of a bracket with its input set, computed from the ones before it.
DimensionPart(features, part, b, d) ==
    LET f == <<b, part>>
        fresh == [value |-> d[InputOf[part]], shape |-> None,
                  stale |-> None, status |-> "current"]
        with == [g \in DOMAIN features \cup {f} |-> IF g = f THEN fresh ELSE features[g]]
    IN  Current(with, f)

\* The five features of a bracket with all its inputs set, all recomputed.
Dimensioned(features, b, d) ==
    LET step(acc, part) == DimensionPart(acc, part, b, d)
    IN  ForEachPart(step, features)

-----------------------------------------------------------------------------
(* Validation and application of an event.                                 *)

ValidSnapshot(s) ==
    \A f \in DOMAIN s.features :
        LET feature == s.features[f]
        IN  /\ Deps(f) \subseteq DOMAIN s.features
            /\ feature.status = "current" => feature.shape # None /\ feature.stale = None
            /\ feature.status = "broken" => feature.shape = None /\ feature.stale # None
            /\ feature.status = "blocked" => feature.shape = None

\* "broken" always comes with the diagnostic that names it, and an event
\* names the Named Revision it creates, restores or preserves.
ValidEvent(event, revisions) ==
    /\ ValidSnapshot(event.active)
    /\ \A n \in DOMAIN revisions : ValidSnapshot(revisions[n])
    /\ event.kind \in {"create", "restore"} =>
          event.name \in DOMAIN revisions /\ revisions[event.name] = event.active
    /\ event.kind \in {"edit", "undo", "redo"} => event.preserved \in DOMAIN revisions

Apply(event, revisions) ==
    /\ Ordinal < MaxOrdinal
    /\ ValidEvent(event, revisions)
    /\ active' = event.active
    /\ named' = revisions
    /\ events' = Append(events, event)

\* Mutant of Free: a name is not looked up before it is given.
FreeAssumed(n) == n # None

Free(n) == n \notin DOMAIN named

\* Mutant of Preserving: the displaced snapshot is forgotten.
Forgetting(n) == [m \in DOMAIN named \cup {n} |-> IF m = n THEN Genesis ELSE named[m]]

\* The Named Revisions with the active snapshot kept under a new name.
Preserving(n) ==
    [m \in DOMAIN named \cup {n} |-> IF m = n THEN active ELSE named[m]]

-----------------------------------------------------------------------------
(* Commands that move the timeline.                                        *)

Positive(d) == \A input \in DOMAIN d : d[input] > 0

\* A bracket is initialized once per log: its canonical feature identities
\* stay historical, also after an undo.
Initialize(b, d) ==
    /\ Positive(d)
    /\ \A i \in DOMAIN events : events[i].kind = "initialize" => events[i].subject # b
    /\ Apply([kind |-> "initialize", subject |-> b, name |-> None, preserved |-> None,
              active |-> NextRevision(Dimensioned(active.features, b, d))], named)

Edit(f, v) ==
    LET kept == AutoName("edit", Ordinal + 1)
    IN  /\ f \in DOMAIN active.features
        /\ Free(kept)
        /\ Apply([kind |-> "edit", subject |-> <<f, v>>, name |-> None, preserved |-> kept,
                  active |-> NextRevision(Edited(active.features, f, v))], Preserving(kept))

EditBracket(b, d) ==
    LET kept == AutoName("edit", Ordinal + 1)
    IN  /\ Positive(d)
        /\ d.thickness < d.length /\ d.thickness < d.width
        /\ \A part \in Part : <<b, part>> \in DOMAIN active.features
        /\ Free(kept)
        /\ Apply([kind |-> "edit", subject |-> <<<<b, "base">>, d.length>>, name |-> None,
                  preserved |-> kept,
                  active |-> NextRevision(Dimensioned(active.features, b, d))],
                 Preserving(kept))

CreateNamed(n) ==
    /\ Free(n)
    /\ Apply([kind |-> "create", subject |-> None, name |-> n, preserved |-> n,
              active |-> active], Preserving(n))

\* Restored for one feature, which the Named Revision must contain.
Restore(n) ==
    LET displaced == AutoName("restore", Ordinal + 1)
    IN  /\ n \in DOMAIN named
        /\ DOMAIN named[n].features # {}
        /\ Free(displaced)
        /\ Apply([kind |-> "restore", subject |-> None, name |-> n, preserved |-> displaced,
                  active |-> named[n]], Preserving(displaced))

-----------------------------------------------------------------------------
(* The undo cursor.  A position of the timeline is the ordinal of an event *)
(* that is not a cursor move, and 0 for the start of the project; the      *)
(* trailing undo and redo events place the cursor among the positions.     *)

IsMove(event) == event.kind \in {"undo", "redo"}

Positions == {0} \cup {i \in DOMAIN events : ~IsMove(events[i])}

SnapshotAt(p) == IF p = 0 THEN Genesis ELSE events[p].active

Beyond(p) == {q \in Positions : q > p}

TrailingMoves(kind) ==
    {i \in DOMAIN events :
        events[i].kind = kind /\ \A j \in i .. Len(events) : IsMove(events[j])}

\* How many positions the cursor is behind the latest one.
Depth == Cardinality(TrailingMoves("undo")) - Cardinality(TrailingMoves("redo"))

\* The cursor is in the timeline, and the timeline reproduces the active snapshot.
IsCursor(p) == p \in Positions /\ Cardinality(Beyond(p)) = Depth /\ SnapshotAt(p) = active

Differing == {p \in Positions : SnapshotAt(p) # active}

Move(kind, target) ==
    LET kept == AutoName(kind, Ordinal + 1)
    IN  /\ Free(kept)
        /\ Apply([kind |-> kind, subject |-> target, name |-> None, preserved |-> kept,
                  active |-> SnapshotAt(target)], Preserving(kept))

\* To the nearest earlier snapshot that is another one than the active one.
Undo ==
    \E cursor \in Positions, target \in Differing :
        /\ IsCursor(cursor)
        /\ target < cursor
        /\ \A p \in Differing : p < cursor => p <= target
        /\ Move("undo", target)

\* Mutant of Redo: jumps to the end of the timeline.
RedoAll ==
    \E cursor \in Positions, target \in Differing :
        /\ IsCursor(cursor)
        /\ target > cursor
        /\ \A p \in Differing : p > cursor => p <= target
        /\ Move("redo", target)

\* To the nearest later one.
Redo ==
    \E cursor \in Positions, target \in Differing :
        /\ IsCursor(cursor)
        /\ target > cursor
        /\ \A p \in Differing : p > cursor => p >= target
        /\ Move("redo", target)

Next ==
    \/ \E b \in Bracket, d \in Dims : Initialize(b, d) \/ EditBracket(b, d)
    \/ \E f \in DOMAIN active.features, v \in Value : Edit(f, v)
    \/ \E n \in UserName : CreateNamed(n)
    \/ \E n \in DOMAIN named : Restore(n)
    \/ Undo
    \/ Redo

Spec == Init /\ [][Next]_vars

-----------------------------------------------------------------------------
(* Properties.                                                             *)

\* What is shown as current was computed from its present inputs: along any
\* sequence of edits, failures, restores and cursor moves no current feature
\* rests on a stale, broken or differently valued one (historical_edit).
CurrentIsFresh ==
    \A f \in DOMAIN active.features :
        active.features[f].status = "current" =>
            /\ active.features[f].shape = Fingerprint(active.features, f)
            /\ \A g \in Deps(f) : active.features[g].status = "current"

\* Only work downstream of a failure is blocked, and it is unblocked with
\* the correction: "Unaffected work remains available".
BlockedByAncestor ==
    \A f \in DOMAIN active.features :
        active.features[f].status = "blocked" =>
            \E part \in Ancestors[f[2]] :
                active.features[<<f[1], part>>].status = "broken"

\* Stale Last-Valid Geometry is always there for a feature that is not
\* current, and it is geometry the feature really had once.
StaleIsLastValid ==
    \A f \in DOMAIN active.features :
        LET feature == active.features[f]
        IN  feature.status # "current" =>
                \E i \in DOMAIN events :
                    /\ f \in DOMAIN events[i].active.features
                    /\ events[i].active.features[f].status = "current"
                    /\ events[i].active.features[f].shape = feature.stale

\* The incremental evaluation of the dirty branch leaves what a full one would
\* and keeps what recovery needs, whatever edits, failures, corrections,
\* restores and cursor moves came before.
EvaluationIsSound == TypeOK /\ CurrentIsFresh /\ BlockedByAncestor /\ StaleIsLastValid

ActiveBefore(i) == IF i = 1 THEN Genesis ELSE events[i - 1].active

\* A snapshot displaced by an edit, a restore or a cursor move stays
\* addressable for good: new divergent work never silently drops the undone
\* future.
DisplacedStaysNamed ==
    \A i \in DOMAIN events :
        events[i].kind \in {"edit", "restore", "undo", "redo"} =>
            \E n \in DOMAIN named : named[n] = ActiveBefore(i)

\* A revision id is never given to two different snapshots, although undo
\* and restore make an old snapshot active with its original id.
RevisionNamesOneSnapshot ==
    \A i, j \in DOMAIN events :
        events[i].active.revision = events[j].active.revision =>
            events[i].active = events[j].active

\* A redo right after an undo brings back exactly what the undo displaced.
RedoUndoesUndo ==
    \A i \in 2 .. Len(events) :
        events[i].kind = "redo" /\ events[i - 1].kind = "undo" =>
            events[i].active = ActiveBefore(i - 1)

\* The cursor and the revision ids, both worked out from the events, lead to
\* the snapshots they stand for.
TimelineIsSound == RevisionNamesOneSnapshot /\ RedoUndoesUndo

\* A Named Revision keeps its snapshot, also when a user has taken a name
\* that the recorder derives for itself.
NamedImmutable ==
    [][ \A n \in DOMAIN named : n \in DOMAIN named' /\ named'[n] = named[n] ]_vars

=============================================================================
