---------------------------- MODULE CanonicalLog ----------------------------
(***************************************************************************)
(* A project as it is stored: the Canonical Transaction Log, the feature   *)
(* graph it replays to, the committed geometry (BREP files) and the        *)
(* parametric history that the log carries (crates/persistence, crates/    *)
(* host).  Every command of History becomes one sealed transaction here: a *)
(* history entry followed by the feature entries and the geometry that move*)
(* with it.  The publication of one transaction is atomic in this module;  *)
(* BundlePublication shows that it is.                                     *)
(*                                                                         *)
(* The geometry of a bracket is a function of its four dimensions, so it is*)
(* modelled as these dimensions, and the kind of a bracket feature, which  *)
(* spells them out, carries the same record.                               *)
(***************************************************************************)
EXTENDS History

CONSTANTS
    Loose,      \* features without geometry that commands add, set and remove
    LooseKind,  \* kinds they can have
    EditPart,   \* bound: the parts of a bracket that historical edits target
    MaxLog      \* bound: no apply command once the log is this long

ASSUME EditPartAssumption == EditPart \subseteq Part
ASSUME MaxLogAssumption == MaxLog \in Nat

VARIABLES
    log,        \* the Canonical Transaction Log
    graph,      \* the feature graph: feature -> kind
    brep,       \* committed geometry on disk: bracket -> dimensions
    position    \* canonical_log_position of each Named Revision, or None

projectVars == <<vars, log, graph, brep, position>>

Plates(b) == <<b, "plates">>

BracketKind(d) == [of |-> "bracket", dims |-> d]
PlateKind == [of |-> "plate", dims |-> None]
PlainKind(k) == [of |-> k, dims |-> None]

\* An entry without geometry, idempotency key or canonical intent.
Entry(op, id, kind) ==
    [op |-> op, id |-> id, kind |-> kind, brep |-> None, key |-> None, intent |-> FALSE]

HistoryEntry(ordinal) == Entry("history", <<"event", ordinal>>, None)

Over(new, old) ==
    [x \in DOMAIN new \cup DOMAIN old |-> IF x \in DOMAIN new THEN new[x] ELSE old[x]]

\* The function x :> d of module TLC, spelled out for the provers.
Only(x, d) == [y \in {x} |-> d]

Without(f, gone) == [x \in DOMAIN f \ gone |-> f[x]]

ProjectInit ==
    /\ Init
    /\ log = <<>>
    /\ graph = <<>>
    /\ brep = <<>>
    /\ position = <<>>

-----------------------------------------------------------------------------
(* Reading the log.                                                        *)

Historical(id) == \E i \in DOMAIN log : log[i].id = id

KeyBound(key) == \E i \in DOMAIN log : log[i].key = key

\* One entry of a replay; a remove or a set of a missing feature is a broken link.
Replayed(acc, entry) ==
    CASE entry.op = "history" -> acc
      [] entry.op = "remove" ->
            [graph |-> Without(acc.graph, {entry.id}),
             ok |-> acc.ok /\ entry.id \in DOMAIN acc.graph]
      [] entry.op = "set" ->
            [graph |-> Over(Only(entry.id, entry.kind), acc.graph),
             ok |-> acc.ok /\ entry.id \in DOMAIN acc.graph]
      [] OTHER -> [acc EXCEPT !.graph = Over(Only(entry.id, entry.kind), @)]

Replay(entries) == FoldLeft(Replayed, [graph |-> <<>>, ok |-> TRUE], entries)

GraphAt(p) == Replay(SubSeq(log, 1, p)).graph

\* The geometry the last entry of the feature that carries any authenticates.
Latest(entries, id) ==
    LET carrying == {i \in DOMAIN entries : entries[i].id = id /\ entries[i].brep # None}
    IN  IF carrying = {} THEN None ELSE entries[Max(carrying)].brep

Provenance(id) == Latest(log, id)

\* The files there are for features of the graph are what the log authenticates.
Verified(entries, features, geometry) ==
    \A id \in DOMAIN features \cap DOMAIN geometry : geometry[id] = Latest(entries, id)

\* A generation opens if its log replays without a broken link to the sealed
\* graph and the geometry of the features in it is authentic.
Opens(entries, features, geometry) ==
    /\ Replay(entries) = [graph |-> features, ok |-> TRUE]
    /\ Verified(entries, features, geometry)

EventEntry(i) == CHOOSE j \in DOMAIN log : log[j] = HistoryEntry(i)

\* The event that introduced a Named Revision.
Introduced(n) ==
    Min({i \in DOMAIN events : events[i].preserved = n})

\* Where a revision without a recorded position is taken to lie: right after
\* the history event before the one that introduced it.
LegacyPosition(n) == IF Introduced(n) = 1 THEN 0 ELSE EventEntry(Introduced(n) - 1)

\* Mutant of TargetGraph: the recorded position is not looked at.
TargetOfEvent(n) == GraphAt(LegacyPosition(n))

TargetGraph(n) ==
    GraphAt(IF position[n] # None THEN position[n] ELSE LegacyPosition(n))

-----------------------------------------------------------------------------
(* Writing a transaction.                                                  *)

\* A plain entry is logged only if it changes the graph.
Entered(acc, entry) ==
    CASE entry.op = "remove" ->
            [log |-> Append(acc.log, entry), graph |-> Without(acc.graph, {entry.id})]
      [] entry.op = "set" ->
            [log |-> Append(acc.log, entry), graph |-> Over(Only(entry.id, entry.kind), acc.graph)]
      [] OTHER ->
            IF entry.id \in DOMAIN acc.graph /\ acc.graph[entry.id] = entry.kind
            THEN acc
            ELSE [log |-> Append(acc.log, entry),
                  graph |-> Over(Only(entry.id, entry.kind), acc.graph)]

Append1(base, entries) ==
    LET done == FoldLeft(Entered, [log |-> base, graph |-> graph], entries)
    IN  log' = done.log /\ graph' = done.graph

\* The transaction of the event just built: the event marks the state before
\* the feature entries, and a Named Revision it introduces lies at p.
Transact(p, entries, staged) ==
    /\ Append1(Append(log, HistoryEntry(Len(events'))), entries)
    /\ position' = [n \in DOMAIN named' |-> IF n \in DOMAIN named THEN position[n] ELSE p]
    /\ brep' = Over(staged, brep)
    /\ Opens(log', graph', brep')

-----------------------------------------------------------------------------
(* The geometry of brackets.                                               *)

Known(s, b) == \A part \in Part : <<b, part>> \in DOMAIN s.features

Params(s, b) ==
    [length |-> s.features[<<b, "base">>].value, width |-> s.features[<<b, "bend">>].value,
     height |-> s.features[<<b, "finish">>].value, thickness |-> s.features[<<b, "ibase">>].value]

Buildable(d) == Positive(d) /\ d.thickness < d.length /\ d.thickness < d.width

AllCurrent(s, b) ==
    \A part \in Part :
        <<b, part>> \in DOMAIN s.features => s.features[<<b, part>>].status = "current"

\* Brackets on disk whose dimensions the event changes.
Changed ==
    {b \in DOMAIN brep :
        Known(active, b) /\ Known(active', b) /\ Params(active, b) # Params(active', b)}

\* stage_changed_bracket_root takes the first of them only.
Roots == {b \in Changed : Buildable(Params(active', b))}
Root == CHOOSE b \in Roots : TRUE

\* What stage_changed_bracket_families would stage; its worker refuses
\* dimensions that cannot be built.
Families == {b \in Changed : AllCurrent(active', b)}

RootEntry == [Entry("plain", Root, BracketKind(Params(active', Root)))
                EXCEPT !.brep = Params(active', Root), !.key = <<"history", Len(events')>>]

IsBracketFeature(b) == b \in DOMAIN graph /\ graph[b].of = "bracket"

\* The history event with the geometry of the first bracket it changes.
ReplaceRoot(p) ==
    /\ Roots # {}
    /\ IsBracketFeature(Root)
    /\ Transact(p, <<RootEntry>>, Only(Root, Params(active', Root)))

ReplaceNothing(p) ==
    /\ Roots = {} /\ Families = {}
    /\ Transact(p, <<>>, <<>>)

CommitWithGeometry(p) == ReplaceRoot(p) \/ ReplaceNothing(p)

-----------------------------------------------------------------------------
(* Commands that append to the history.                                    *)

CreateBracket(b, d) ==
    /\ Buildable(d)
    /\ Initialize(b, d)
    /\ ~Historical(b) /\ ~Historical(Plates(b)) /\ ~KeyBound(<<b, d>>)
    /\ Transact(None,
                << [Entry("plain", b, BracketKind(d))
                        EXCEPT !.brep = d, !.key = <<b, d>>, !.intent = TRUE],
                   [Entry("plain", Plates(b), PlateKind) EXCEPT !.key = <<b, d>>] >>,
                Only(b, d))

\* A bracket saved without a worker has plates and history, and no geometry.
SaveBracket(b, d) ==
    /\ Initialize(b, d)
    /\ ~Historical(Plates(b))
    /\ Transact(None, <<Entry("plain", Plates(b), PlateKind)>>, <<>>)

\* A Command Draft opened on this revision.  Its key is spelled from the
\* bracket and the dimensions, and its Named Revision is not given a position.
CommitDraft(b, d) ==
    /\ b \in DOMAIN brep /\ IsBracketFeature(b) /\ Plates(b) \in DOMAIN graph
    /\ ~KeyBound(<<b, d>>)
    /\ EditBracket(b, d)
    /\ Transact(None,
                << [Entry("plain", b, BracketKind(d))
                        EXCEPT !.brep = d, !.key = <<b, d>>, !.intent = TRUE] >>,
                Only(b, d))

HistoricalEdit(f, v) == Edit(f, v) /\ CommitWithGeometry(Len(log))

UndoCommand == Undo /\ CommitWithGeometry(Len(log))

RedoCommand == Redo /\ CommitWithGeometry(Len(log))

NameRevision(n) == CreateNamed(n) /\ Transact(Len(log), <<>>, <<>>)

-----------------------------------------------------------------------------
(* Restoring a Named Revision.                                             *)

\* The entries that turn the graph into the target.
Compensation(target) ==
    LET removed == DOMAIN graph \ DOMAIN target
        added == DOMAIN target \ DOMAIN graph
        changed == {id \in DOMAIN target \cap DOMAIN graph : graph[id] # target[id]}
        remove(id) == Entry("remove", id, None)
        add(id) == Entry("add", id, target[id])
        set(id) == Entry("set", id, target[id])
    IN  {remove(id) : id \in removed} \cup {add(id) : id \in added}
            \cup {set(id) : id \in changed}

\* Features whose geometry file is deleted after the restore.
Dropped(target) == DOMAIN graph \ DOMAIN target

\* Brackets of the target whose geometry is rebuilt.
Rebuilt(target) ==
    {b \in Bracket \cap DOMAIN target : Known(active', b) /\ AllCurrent(active', b)}

\* A change of the one bracket alone goes the way of an edit.
OnlyRoot(entries) ==
    /\ Roots # {}
    /\ \A e \in entries : e.id = Root /\ e.op = "set" /\ e.kind.of = "bracket"

RestoreRoot(n) ==
    /\ OnlyRoot(Compensation(TargetGraph(n)))
    /\ ReplaceRoot(Len(log))

RestoreFamilies(n) ==
    LET target == TargetGraph(n)
        entries == Compensation(target)
        rebuilt == Rebuilt(target)
        setOnly == {b \in rebuilt : \A e \in entries : e.id # b}
        with(e) == IF e.id \in rebuilt
                   THEN [e EXCEPT !.brep = Params(active', e.id)]
                   ELSE e
        setEntry(b) == [Entry("set", b, BracketKind(Params(active', b)))
                            EXCEPT !.brep = Params(active', b)]
        all == {with(e) : e \in entries} \cup {setEntry(b) : b \in setOnly}
        geometry == [b \in rebuilt |-> Params(active', b)]
    IN  /\ ~OnlyRoot(entries)
        /\ \A b \in rebuilt : Buildable(Params(active', b))
        /\ Append1(Append(log, HistoryEntry(Len(events'))), SetToSeq(all))
        /\ position' =
              [m \in DOMAIN named' |-> IF m \in DOMAIN named THEN position[m] ELSE Len(log)]
        /\ Opens(log', graph', Over(geometry, brep))
        /\ brep' = Without(Over(geometry, brep), Dropped(target))

RestoreRevision(n) == Restore(n) /\ (RestoreRoot(n) \/ RestoreFamilies(n))

-----------------------------------------------------------------------------
(* Commands on the feature graph alone.                                    *)

ChangeGraph(entry) ==
    /\ Len(log) < MaxLog
    /\ Append1(log, <<entry>>)
    /\ UNCHANGED <<vars, brep, position>>

SaveFeature(id, k) == ~Historical(id) /\ ChangeGraph(Entry("plain", id, PlainKind(k)))

ApplyAdd(id, k) == id \notin DOMAIN graph /\ ChangeGraph(Entry("add", id, PlainKind(k)))

ApplySet(id, k) == id \in DOMAIN graph /\ ChangeGraph(Entry("set", id, PlainKind(k)))

ApplyRemove(id) == id \in DOMAIN graph /\ ChangeGraph(Entry("remove", id, None))

-----------------------------------------------------------------------------
(* Loading a project whose disposable geometry may be gone.                *)

LoseGeometry(b) ==
    /\ brep' = Without(brep, {b})
    /\ UNCHANGED <<vars, log, graph, position>>

Missing(id) == Provenance(id) # None /\ id \notin DOMAIN brep

\* Active brackets without geometry, rebuilt from the active snapshot.
LostBrackets ==
    {b \in Bracket : Known(active, b) /\ Missing(b) /\ AllCurrent(active, b)}

\* Mutant of Authentic: the rebuilt results are put on disk as they are.
AnyBytes(geometry) == TRUE

\* Every rebuilt result has to match the provenance of the feature.
Authentic(geometry) == \A b \in DOMAIN geometry : geometry[b] = Provenance(b)

FromSnapshot == [b \in LostBrackets |-> Params(active, b)]

SnapshotReplays ==
    (\A b \in LostBrackets : Buildable(Params(active, b))) /\ Authentic(FromSnapshot)

Intents == {i \in DOMAIN log : log[i].intent}

IntentsReplayable ==
    \A i \in Intents :
        log[i].id \in DOMAIN graph \/ <<log[i].id, "base">> \notin DOMAIN active.features

\* The intents in log order: the last one of a bracket is what is put on disk.
FromIntents ==
    LET ids == {log[i].id : i \in Intents} \cap DOMAIN graph
    IN  [b \in ids |-> log[Max({i \in Intents : log[i].id = b})].kind.dims]

IntentsNeeded == \E i \in Intents : Missing(log[i].id)

LoadOutcome ==
    IF ~SnapshotReplays
    THEN [ok |-> FALSE, brep |-> brep]
    ELSE LET snapshotted == Over(FromSnapshot, brep)
         IN  IF ~IntentsNeeded
             THEN [ok |-> TRUE, brep |-> snapshotted]
             ELSE IF IntentsReplayable /\ Authentic(FromIntents)
                  THEN [ok |-> TRUE, brep |-> Over(FromIntents, snapshotted)]
                  ELSE [ok |-> FALSE, brep |-> snapshotted]

\* load_with_geometry_replay: what it rebuilt before it failed stays.
Load ==
    /\ brep' = LoadOutcome.brep
    /\ UNCHANGED <<vars, log, graph, position>>

ProjectNext ==
    \/ \E b \in Bracket, d \in Dims :
          CreateBracket(b, d) \/ SaveBracket(b, d) \/ CommitDraft(b, d)
    \/ \E b \in Bracket, part \in EditPart, v \in Value : HistoricalEdit(<<b, part>>, v)
    \/ \E n \in UserName : NameRevision(n)
    \/ \E n \in DOMAIN named : RestoreRevision(n)
    \/ UndoCommand
    \/ RedoCommand
    \/ \E id \in Loose, k \in LooseKind : SaveFeature(id, k) \/ ApplyAdd(id, k) \/ ApplySet(id, k)
    \/ \E id \in Loose : ApplyRemove(id)
    \/ \E b \in DOMAIN brep : LoseGeometry(b)
    \/ Load

ProjectSpec == ProjectInit /\ [][ProjectNext]_projectVars

-----------------------------------------------------------------------------
(* Properties.                                                             *)

\* What every command publishes and every load puts on disk can be opened
\* again: the log replays without a broken link to exactly the graph that the
\* commands built step by step, and the geometry file of a feature in it is
\* the one its last provenance authenticates (open_sealed,
\* replay_canonical_state, verify_brep_provenance).
AlwaysOpens == Opens(log, graph, brep)

WhenNamed(n) == GraphAt(EventEntry(Introduced(n)) - 1)

RestoresGraphOf(n) ==
    events' # events /\ Last(events').kind = "restore" /\ Last(events').name = n =>
        DOMAIN graph' = DOMAIN WhenNamed(n)

\* A restore brings back the features the project had when the Named Revision
\* was taken, whatever was added, removed or restored since, if the revision
\* was given a position (annotate_named_revision_positions).
RestoreBringsBackFeatures ==
    [][ \A n \in DOMAIN named : position[n] # None => RestoresGraphOf(n) ]_projectVars

\* The same for every Named Revision: "This gives durable Named Revision
\* positions an unambiguous replay boundary" (append_transaction).  Not so for
\* the one that a committed Command Draft leaves behind.
EveryRestoreBringsBackFeatures ==
    [][ \A n \in DOMAIN named : RestoresGraphOf(n) ]_projectVars

\* "The active Revision Snapshot and current geometry cannot drift out of
\* sync" (host): committed geometry of a bracket whose features are all
\* current has the dimensions of the active snapshot.  They do drift when a
\* cursor move changes two brackets, or changes one whose geometry is lost.
GeometryFollowsHistory ==
    \A b \in DOMAIN graph \cap DOMAIN brep :
        Known(active, b) /\ AllCurrent(active, b) => brep[b] = Params(active, b)

=============================================================================
