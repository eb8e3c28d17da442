# ThreeTerm: models, checks and proofs

ThreeTerm is a terminal CAD: a host with three front ends (TUI, CLI, MCP) that
keeps a project as a directory on disk, a *bundle*, and asks geometry workers,
separate processes, for everything that needs a kernel. This directory models
the parts of it that are hard to test: what is on disk between any two steps of
a save, what a long sequence of history commands does to a project, what two
hosts that read first and publish later do to each other, how a request to a
worker can end, how the interactive session and its terminal keep in step, and
how the MCP server's threads share their queues.

Paths below are relative to `src/`.

## The system

| Part | Source | State | Operations | Hard behaviour |
| --- | --- | --- | --- | --- |
| persistence | `crates/persistence/src/lib.rs` | three sibling directories per bundle (current, previous, retired generation), a directory lock, the transaction log and feature graph of each generation | load, open, create, append (some thirty entry points that end in one function), publish, recover, migrate from v0, sealed backup, restore derived BREPs | several processes; crash between renames; failed rename, failed compensation, failed sync; retry with an idempotency key; power loss |
| domain: history | `crates/domain/src/history.rs` | active Revision Snapshot, Named Revisions, history events | initialize a bracket, edit a feature, edit a bracket, create and restore Named Revisions, undo, redo | incremental recomputation over long command sequences; failures and corrections; a cursor reconstructed from the log |
| domain: graph | `crates/domain/src/lib.rs` | features, components, fits, semantic references | append, replay, resolve references | order of entries, tombstones |
| host | `crates/host/src/lib.rs` | the loaded snapshot, drafts, artifact tables | every modelling command, previews, drafts, export, recovery | snapshot in memory against disk; check then act around the lock; results of workers that come after the revision changed |
| protocol: supervision | `crates/protocol/src/{supervisor,worker}.rs` | one worker process, two reader threads, a channel, a stage | request with deadline, cancel, progress, drain, terminate | completion, acknowledgement, exit and cancellation race |
| protocol: data | `frame.rs`, `schema.rs`, `artifact.rs`, `coverage.rs` | none, or files of a stage | encode, validate, admit | data checking |
| viewport | `crates/viewport/src/*.rs` | renderer session (visible, in flight and pending frame), fragment cache | submit, acknowledge, cancel, time out, reset, invalidate | acknowledgements of frames that are gone |
| tui, cli, mcp | `crates/{tui,cli,mcp}` | event loop, palette, request loop | commands to the host | cancellation against a running request |
| lua-bridge, theme | `crates/{lua-bridge,theme}` | last good configuration | poll and reload | file changes under the poll |
| workers | `crates/workers` | none across requests | geometry | numeric |
| gates, rehearsal, scripts | `crates/host/src/*gate*.rs`, `crates/rehearsal`, `.github` | none | checks over finished artifacts | none |

How they interact. A front end calls the host; the host opens a bundle (lock,
reconcile, authenticate, unlock), computes a transaction, and appends it (lock,
open again, compare the expected revision, stage, publish, reopen, unlock). For
geometry it makes a private stage below the bundle root and runs a worker on
it. History commands are computed by the domain from the opened snapshot and
committed as an ordinary append whose payload is the history event. Processes
share nothing but the directory and its lock.

What makes each part correct is the list of properties below; what makes it
hard is the `hazards` list of `PROJECT.json`, each at its line.

## The modules

### BundlePublication: a bundle under its lock

Every load and append of any number of processes, one action per step that
another process, a crash or an I/O error can come between.

| Model | Code |
| --- | --- |
| `dest`, `prev`, `retired` | the root, `previous_generation_path`, `retired_generation_path`: a generation, `Absent`, or `Torn` (a directory that does not authenticate) |
| a generation is its transaction log | the manifest binds the digest of the hash-chained log; revision hash = log |
| `PriorEpoch` | a v0 generation: present, but refused by every authenticated open |
| `holder` | the advisory lock of the containing directory, `with_bundle_write_lock` |
| `pc`, `req`, `fence`, `loaded`, `stage` | where a call is, its transaction and expected revision, what it opened, its staging directory |
| `current`, `reply` | the snapshot the host keeps, the outcome of its last call |
| `acked` | history variable: transactions answered "ok" |

A call goes `wait` (lock), `open` (`ReconcileRotation`, then load, or open for
an append, or `create` the empty generation first), `check` (bound key, fence,
validation), `publish` ... `sync` (`publish_staged`), `reopen`. `publish_staged`
is modelled rename by rename, with the best-effort undo of a failed rename
(`UndoReplace`, `UndoRetire`, each of which can fail silently) and the recursive
removal that can stop half way (`TearRetired`). Staging is one action: the
staging directory has a fresh name nobody else looks at, so nothing can observe
its parts. A failed call of the host that reopens the bundle to refresh its
snapshot is a `Load` request of its own.

### BundleStore: what a bundle promises

One log. A transaction takes effect at one instant between request and answer,
or not at all; which answer may be given when; a retry is answered from the
log. `BundlePublication!ImplementsStore` is the refinement: the log is the
selected generation, the instant is the rename that promotes the stage.

### BundleDurability: power loss

Adds `durable`, the directory states a power loss may expose: every state since
the last sync of the containing directory. Assumed of the file system, and
external to the code: operations on one directory become durable in order.

### RootGap: the host beside publication

Two places where the host acts on the root without the lock: the stage of a
derived request (`Stage::create_fresh` creates missing parents), and the bracket
command, which creates a bundle when it sees no root. They compose with every
step of `BundlePublication`. The history variable `acked` forgets what a bracket
command buries under the empty generation (see *Seen while modelling*).

### Migration: a project of the prior epoch

Adds to `RootGap` the load that finds a v0 generation (`PriorEpoch`): a sealed
`backup` beside the bundle, the migrated generation staged and validated, then
published by the same `publish_staged` as any other. The v0 original thereby gets
into the slots of the rotation, where a v0 generation does not authenticate. Every
step can fail or be the last of its process, and whoever loads next starts over.

### History: edits, Named Revisions, undo and redo

The active snapshot, the Named Revisions and the event log. A geometry
fingerprint is a digest of a value and of the fingerprints upstream, so it is
modelled as that tuple: two features have the same fingerprint exactly if they
were computed from the same inputs. `Edited` is the incremental evaluation of
`historical_edit` over the dirty branch in topological order; `ValidEvent` is
what `apply_event` verifies and is the guard of every command. A value of 0
stands for every input that leaves no positive material.

### CanonicalLog: the stored project

Extends `History` with what its commands leave on disk. Every command is one sealed
transaction: the history event, then feature entries, then geometry. That the
transaction is atomic is what `BundlePublication` shows; whether its parts belong
together is the question here.

| Model | Code |
| --- | --- |
| `log` | the Canonical Transaction Log: entries with operation, kind, BREP provenance, key, intent |
| `graph` | the feature graph; `Replay` is `replay_canonical_state` |
| `brep` | the files of `brep/`: geometry is a function of the four dimensions, so it is modelled as them |
| `position` | `canonical_log_position` of each Named Revision |
| `Opens` | `open_sealed` with `verify_brep_provenance`; it validates every staged generation, so it is the guard of `Transact` |
| `CommitWithGeometry` | `commit_history_event_with_geometry` for edits, undo and redo |
| `Compensation`, `RestoreRoot`, `RestoreFamilies` | the same for restores: the graph is turned into the one replayed to the revision's position |
| `LoseGeometry`, `Load` | BREPs are disposable; `load_with_geometry_replay` rebuilds them from the active snapshot, then from the logged intents |

`ApplyAdd`, `ApplySet`, `ApplyRemove` and `SaveFeature` are the commands on the graph
alone. The two plates of a saved bracket are one feature; features with other
geometry, components, fits and sketches are left out.

### Supervisor: one request to a worker process

The worker is external and not trusted: it writes messages of the set `Wire` in
any order, floods a stream, leaves a descendant that holds its pipes, writes
files to its stage, exits, is killed, or never ends.

| Model | Code |
| --- | --- |
| `leader`, `holder` | the worker process, a descendant that holds its pipes |
| `pipe`, `flooded`, `stdout`, `stderr`, `overflow` | the two streams and their reader threads, the overflow flags |
| `inbound`, `pending`, `carry` | the channel of chunks, `FramedWorkerHost::pending`, the bytes left in `FrameParser::buffer` |
| `phase`, `verdict` | where `request_with_cancel_and_progress` is, and what it is about to report |
| `late` | the deadline of the phase (request, cancellation grace, drain) has passed |
| `cancel`, `asked`, `headers` | the host's flag, whether `Cancel` was sent, `artifact_headers` |
| `stage`, `files` | the private stage: held, emptied, dropped, left behind, released |
| `written` | history variable: everything the worker tree wrote |

A request goes `handshake`, `waiting` (`receive_request_envelope`), perhaps
`cancelling` (`cancel_with_deadline`), then its end: `discard` (the stage, in the
two steps of `Stage::discard`), `kill`, `readers` (the parts of
`finish_terminal` and `terminate`), and for a result still to be accepted `drain`
(`verify_no_trailing_frames`). A completion keeps its stage until it is refused
(`reject`). A chunk is any number of consecutive messages, and a bad line drops
its chunk. A message kind stands for all that are treated alike: "foreign" is any
message of another request, schema or direction. A message longer than one chunk
counts as part of the chunk that ends it.

### HostCommits: read first, publish later

Hosts on one bundle, each in the middle of a command: bracket parameter drafts
(open, update, commit, retry, discard), undo, redo and historical edits, naming a
revision, and the replay of a lost BREP. What `BundleStore` promises is one step
here: a transaction is checked and appended under the lock, or not, or appended
with the answer unknown. Everything before that step is a step of its own,
because it reads without a lock.

| Model | Code |
| --- | --- |
| `log` | the sealed log; a revision hash is the log's length, since a log only grows |
| `brep` | the committed BREP file, or `None` when the user has lost it |
| `drafts` | `bracket_drafts` of each host |
| `call` | the command a host is in the middle of, with what it has read |
| `Verdict` | what `append_features_locked_with_fit` decides: bound key, fence, `validate_event` |
| `CommitDraft` ... `ClassifyError` | `commit_bracket_parameter_draft` with its three reconciliations |
| `OpenHistory`, `StageHistory`, `PublishHistory` | the two opens of a history command and its append |

### DerivedWork: a request's stage

Hosts that ask a worker for geometry, from the load that fixes the source revision
to the commit. The stage is a directory inside the selected generation, so every
publication, of anybody, copies it and leaves the original in the generation it
retires.

| Model | Code |
| --- | --- |
| `root`, `prev` | the selected generation and its predecessor, with what is in each stage |
| `lock` | a publication between its copy and its renames |
| `call[h].own`, `.pin` | the handles of `Stage` (`create_fresh`, `open`, `open_existing`), each into one generation |
| `base` | the revision whose geometry the bytes were computed from; the header says it, the digest holds it |
| `cache`, `retained` | `layer1_results` and `stale_last_valid_geometry` of each host |
| `OpenAccepted` ... `PublishVerified` | `accept_staged_artifact` on the pinned stage |
| `OpenPromoted` ... `RetainOutdated` | `promote_occt_result_with_append`, which reopens the stage by path |

The window in which the root is renamed away is `RootGap`'s; here a rotation is one
step.

### Renderer: one frame in flight

`RenderCoordinator` over `GhosttyRenderer`: frames submitted, answered, cancelled,
timed out, reset, cleaned up. An operation is an operator from the attachment to
the set of `[to, ok]` it may end in, because every write to the terminal can fail;
the module has no variable of its own. The terminal is part of the attachment:
which images it shows, and which answers are under way.

### TuiSession: the interactive state machine

`TuiSession` keeps six axes (lifecycle, capture, selection, interaction mode,
command phase, history) that one handler each moves. An event is an operator from a
session to the set of sessions it may leave; the empty set is the `Err`. `AxesAgree` is
what holds between the axes: a command phase has its command and source revision, a drag
its capture, nothing half done is held while the session is not ready, and the selection
names targets there are. The interaction mode is tied to no command phase and no history:
a capture cancelled while a draft is open leaves phase Draft and mode ModelessReady
(`tui/src/lib.rs:2318-2325`), and `apply_history_cursor`, called while an application is
running, takes the history back to Linear and leaves the mode HistoryApplying (1925).

### Terminal: either part under any caller

`TerminalParts` instantiates `TuiSession` (as `T`) and `Renderer` (as `R`) over the
constants they share. `Terminal` holds one of each, `tui` and `render`, and lets a caller
do to one of them whatever its API allows, in any order; what the terminal answers to an
image arrives, is lost or is repeated. `Interactive` is the caller that the program has.

### Interactive: the event loop

One record for what `run_event_loop` owns: the session, the attachment, the palette,
the draft, the scene, and the bundle's revision as loaded and as on disk. One
action is one input handled to its end, by `Then`-chaining events of `TuiSession`,
operations of `Renderer` and host calls in the order of the code; the first error
ends the session. Another process commits between any two inputs, and inside a commit
between the comparison of the draft's revision and the work that is published
(`WorkedOn`). Commands come in six kinds; extrude is a kind of its own because its commit
alone is fenced on the draft's revision (`extrude_at_revision`).

### McpServer: three threads and two queues

| Model | Code |
| --- | --- |
| `reader` | the reader thread and the message it is about to send |
| `events`, `control` | the two `sync_channel(128)` |
| `queued`, `pending` | `queued_request_ids`, `pending_cancellations` |
| `loop` | the head of the loop (`drain`), `recv_timeout` (`receive`), the inner drain before a completion is answered (`complete`), and how `run` returned |
| `active`, `flag`, `worker` | `ActiveRequest`, its cancel flag, the thread of a boolean pattern with the host's mutex |
| `told`, `cancelled` | history variables: answers written, cancellations taken in time |

## What is checked

Every run explores its instance completely.

| Run | Bounds | Shows |
| --- | --- | --- |
| `publication` | 2 processes, 3 transactions (two share a key, one has none), requests until the log has 2 entries | safety of publication (`AlwaysRecoverable`, `AckedNeverLost`, `PredecessorRetained`, `KeyAppliedOnce`, `SnapshotIsCommitted`, `FencedGrowth`, `RefusedLeavesNoTrace`), refinement of `BundleStore`, `EveryRequestEnds` |
| `durability` | the same, power loss at any step | `SurvivesPowerLoss` |
| `root_gap` | 2 processes, 2 transactions, log 2, a root that is absent or v0 at first, stages and bracket commands by any process | `AckedStillOnDisk`, `RootNeverEmptied`, `OriginalKept` |
| `history` | a stored project with one bracket of two sizes, one failing and one good value for two of its five features, one plain feature, one user name (that collides with a derived one), 5 events | `EvaluationIsSound`, `DisplacedStaysNamed`, `TimelineIsSound`, `NamedImmutable`, `AlwaysOpens`, `RestoreBringsBackFeatures` |
| `host_commits` | 2 hosts that share one draft id, 2 sets of dimensions, historical edits, 3 entries after the bracket's creation | `DraftsAreFaithful`, `EventsFollowTheirBase`, `BrepIsOfTheRevision` |
| `derived_work` | 2 hosts, 2 stages, 2 publications of either host or of somebody else | `ResultsAreOfTheirBase`, `StageIsConsumed` |
| `supervision` | 3 writes of ready, artifact, completed, cancelled or unterminated bytes; a flood of stderr, descendant, files, cancellation | `CompletionIsFaithful`, `AcceptedIsQuiet`, `CancelWins`, `FailureKeepsNothing`, `RequestEnds` |
| `terminal` | the session (2 features, 2 graphs, 2 tools, 1 command, 1 Named Revision, 1 canonical revision) or the renderer (4 frames of 3 generations, 2 answers under way): a behaviour moves one of the two | `AxesAgree`, `LayersAgree`, `NewestWins` |
| `interactive` | 1 feature over 3 revisions, 2 tools, 6 kinds of command, 3 frames, 4 scene generations | `EvidenceIsOfTheScene`, `PreviewIsOfTheDraft`, `SettledBetweenInputs`, `CommitWasPreviewed`, `EveryFrameIsShown` |
| `mcp_server` | 2 requests of any kind, 2 cancellations or bad frames, queues of 2, 1 kept cancellation | `AnswersInOrder`, `CancelIsHonoured`, `EverybodyIsServed` |

Why the bounds are enough. All three slots are first occupied together during
the third publication (empty, first, second), so a log of 2 has a rotation with a
retired generation, its interruption, and a retry after it; more entries only
rename generations, and the proofs are for any bound. Two processes give a writer
and a rival; a third could only wait for the same lock, and the proofs are for
any number. Three transactions give a retry, a conflicting reuse of its key, and
an unrelated one. Five history events allow initialize, fail, correct or restore,
undo and redo in any order, and the fifth can hit the derived name a user took.
The edited features are the head of a chain, so that a failure blocks what follows,
and the thickness, whose larger value leaves the snapshot valid and the bracket
impossible to build. Commands on the graph
alone come before the log has 2 entries (`MaxLog`), which leaves the run few restores of
a revision that something was added after: a plain feature added before or right after
the first history command, and brackets created later. That a restore removes what came
since, and nothing else, is proved for every log (`RestoresBringBack`).
The history run has `CHECK_DEADLOCK FALSE` because the log ends at its bound.

Three entries after a bracket's creation allow a draft to be applied (an event and
a bracket), then an edit of history or a feature of somebody else, before a retry; a second
draft id would be a second independent draft. Of the operations on history the run
has the historical edit, to any dimensions: an undo or redo is one to a restorable
snapshot, under a key of its own. In `derived_work` the first publication puts a
stage in the generation it was made in and in the copy of it, and the second commits
what was promoted from either; what more publications could do is proved. Two stages
give a request and the one it is answered from. The supervised worker floods stderr
only, since either flood raises the one overflow flag; a flood of stdout is in the
proofs, which are for everything a worker can write. Four frame tokens let a frame be
shown, in flight, pending and replaced at once. The session machine has two
features, of which one graph lacks the second, so that what is nominated may be no
target; no axis looks at which canonical revision it is, so there is one;
`MaxGeneration` 2 lets a resize start and then fail. Interactive has a
bundle whose second revision drops the only feature and whose third has it again.
The MCP queues have two places, so that both senders find them full, room for one
kept cancellation, so that a second finds none, and two requests of any kind: one
runs while the other is queued, refused or cancelled.

Fairness. `FairSpec` assumes that a process that is inside a call goes on with
it (`WF` of its steps; it may still crash), and that a waiter for the directory
lock is not passed over for ever (`SF` of `AcquireLock`: the kernel queues
blocked `flock` callers). No request is assumed ever to be made, and no step to
succeed.

`Supervisor!FairSpec` assumes that the supervisor's thread runs and that the clock
reaches a deadline (`WF` of `Supervise` and of `Expire`): every wait in the code is
a poll with a deadline. Nothing is assumed of the worker, its descendants, the
reader threads or the host.

Three writes allow a handshake, a terminal message and one more before, between
or after them; "failed", "foreign" and "malformed" take the same disjuncts as an
unasked "cancelled" and as bytes before a message. The runs of `MCSupervisor` have
`CHECK_DEADLOCK FALSE` because a request ends.

`Interactive!FairSpec` assumes that the terminal answers every image (`WF` of
`ReplyArrives`), as the protocol asks of it; lost and repeated answers are in the
`terminal` run, for safety. `McpServer!Spec` assumes that the three threads are
scheduled, that a command ends (`Supervisor!RequestEnds`), and that a write returns.
The client owes nothing: it sends finitely many cancellations and bad frames,
because an endless stream of them would hold the loop at its head, and it uses an id
once. `HostCommits` has no fairness: a host may stop anywhere.

### Disagreements found

Two runs have the expected outcome *violation*: each states what a comment or a document
of the repository says and shows an execution of the code that does otherwise.
`PROJECT.json` quotes both sides under `findings`.

- `migrated_rotation`: after an upgrade the v0 original is the previous generation;
  an append that is interrupted after retiring it leaves a bundle whose
  reconciliation opens the retired generation as a current one and refuses, although
  the generation at the root is intact.
- `draft_restore`: the Named Revision that a committed bracket draft leaves behind has no
  log position, and the fallback for old logs places it before the updates of the event
  that precedes it: restoring it removes features that were there, and their geometry.

### Seen while modelling, no run

Persistence and host:

- A retry answered from the log after a failed sync does not sync the directory
  (`persistence/src/lib.rs:4266`): a power loss can still take back what it
  acknowledged. `SurvivesPowerLoss` is therefore about publications.
- A publication copies the stages of all other requests, and those of rejected,
  crashed and failed ones, into the new generation. Only `promote_extrude_derived`, which
  the tests call and the application does not, clears `.derived` of the generation it
  publishes (`host/src/lib.rs:12638`); nothing else collects them. The comment at `host/src/lib.rs:12478-12481` is true of the committed request's own
  stage only. Even that stays if the same revision was published again in between
  (a sketch solved again): the stage is then consumed in one copy of the generation.
- After a failed promotion the cache still names a stage that may be gone; later
  requests with the same key are refused for it (`host/src/lib.rs:12997`), until the
  revision changes.
- What a worker computes depends on when it reads its source geometry; retained stale
  geometry and previews labelled with their source revision can be of a newer one.
- A worker stage made while a publisher that then dies has the root renamed away
  leaves a root without manifest (`host/src/lib.rs:10830`); the bundle does not
  open, although its previous generation is intact
  (`docs/mvp-implementation-specification.md:91-92`).
- A bracket command in the same gap creates the empty generation over a project
  whose previous generation is intact (`host/src/lib.rs:11413`).
- An undo that steps over a duplicate position leaves a cursor the next command
  cannot reconstruct (`domain/src/history.rs:643-661`, against 614-617).
- Correcting a failure above another failure is refused (`history.rs:423` and
  1015-1022). An edit of a feature that an earlier failure blocks is recorded and
  its value dropped (`history.rs:378-398`, against
  `docs/mvp-implementation-specification.md:166`).
- A history command takes the log position of the snapshot it preserves from its
  first open and its fence from the second (`host/src/lib.rs:6388`, 6455); a feature
  appended in between is before the event and after the recorded position, which is
  meant as the replay boundary (`persistence/src/lib.rs:4787-4789`).
- When the BREP is lost, an undo or edit moves the history but not the bracket of
  the graph, and `load_with_geometry_replay` then refuses the bundle; so it does, once,
  after a historical edit, whose geometry no logged intent describes (the second load
  finds the file the first one rebuilt before it failed).
- `GeometryFollowsHistory` does not hold (against `host/src/lib.rs:6437-6444`,
  "cannot drift out of sync"). Create two brackets, edit both, restore the revision
  before the edits, undo: only the first changed bracket is recomputed
  (`host/src/lib.rs:6667`); `stage_changed_bracket_families`, which takes all of them,
  runs only when no changed bracket can be built. With one bracket: undo until its
  creation is undone while its geometry is lost, load, redo.
- After a restore of a revision in which the bracket is broken, the graph has the
  dimensions of the revision and the file is that of the displaced one; correcting the
  feature to these dimensions stages bytes without a log entry, so that the staged
  generation fails its own validation and the command is refused.
- A bracket draft's key depends only on the bracket and its dimensions
  (`canonical_bracket_request_id`): going back to earlier dimensions is refused as a
  conflict. After an unknown outcome that was applied, and one more commit, the retry
  is told to use a new key.
- `prune_expired_drafts` and the host's `Drop` leave the preview file of a draft.

Supervision:

- Bytes without a line end after a completion are not noticed when the worker exits
  by itself (`supervisor.rs:1179`, against `worker.rs:236-237`).
- A cancellation is reported as acknowledged whatever the exit code
  (`supervisor.rs:493`, against the comment before it; the model has one kind of
  exit).
- A completed worker that stays alive is killed and its completion refused for that
  signal (`worker.rs:614`, against `supervisor.rs:1096-1098`: signals "are not
  completion gates").
- The stage of a failed request is discarded while the worker still runs, so that
  its directory can be left behind (`supervisor.rs:1276`, against
  `artifact.rs:542-544`).

Terminal:

- A commit can replace a revision its draft was not opened on. Only extrude compares the
  draft's revision with the one its work is done on (`extrude_at_revision`,
  `host/src/lib.rs:13292-13314`). Save compares it with a load and then appends to
  whatever it finds (`host/src/lib.rs:3430-3456`, `save` at 2924); bracket, hole, the
  finishing commands, revolve, mirror and the patterns compare it with a load, and their
  worker then opens the bundle again and is fenced on that revision
  (`host/src/lib.rs:3653`, 4353, 4472, 2981). A commit of another process in between is
  no conflict, against `docs/mvp-implementation-specification.md:125-127` ("Revalidate
  the unchanged `Command Draft` against the current revision", "A stale revision is a
  structured conflict"). `CommitWasPreviewed` says what is left: the input was previewed,
  the draft was current when its commit began, and extrude replaces the draft's revision.
  Without its condition `Fenced(app)` TLC refutes it.
- An export is gated on the revision the session shows, but the host exports the one
  on disk (`tui/src/lib.rs`, `export_gate_failure`; `README.md:192-194`).
- Editing a draft after its preview is ready ends the session: `DraftUpdated` is
  accepted from Draft only (`tui/src/lib.rs:2553`).
- A frame submitted after a cancel is lost with the cancelled one, unrecorded; an
  error while a pick is drawn takes the attachment and leaves the session running.
- An arrow key or a press while a pointer is captured, or with no targets, ends the
  session.

MCP:

- A cancellation of a *queued* request that arrives while another completion is
  being answered is dropped by the inner loop (`server.rs:832-850`), and the request
  runs uncancelled; `CancelIsHonoured` therefore speaks of cancellations taken at the
  head of the loop.
- The ids of refused tool calls and of invalid patterns stay in
  `queued_request_ids`, and a cancellation kept for a command that runs inside the
  loop is never removed: the 128 places can fill with stale ids.
- A malformed frame is answered and the loop goes on; the comment of `run` says that
  it returns (`server.rs:476-480`).

## What is proved

TLAPS checks these for every set of processes and transactions and every bound,
from the assumptions in the modules (the markers `Absent`, `Torn`, `Load`,
`NoProc`, `None` are not what they mark; a bound is a natural number, and `MaxToken` of
the event loop, which starts after a first frame, at least 1).

`BundlePublicationProofs`. None of the properties is inductive alone: that the
bundle opens after a crash depends on what the process inside the lock has in
its hands at each phase. `IInv` adds `LockDiscipline` (exactly the holder is
past `wait`), `SlotDiscipline` (only the retired slot is ever torn, and then the
previous one is filled) and `PhaseDiscipline` (for each phase, how `loaded`,
`stage` and the slots are related). One lemma per action shows that the action
keeps it (`...Keeps`), `NextIInv` collects them, and `InvariantHolds` concludes.
From it follow `TypeCorrect`, `Recoverable` and `Retained`; from it and
`SelectionSteps` (a step keeps the selected generation or appends one
transaction to it) follow `GrowthIsFenced`, `AcknowledgedStays`,
`KeysAreUnique`, `SnapshotsAreCommitted` and `RefusalIsClean`.
`PublicationImplementsStore` shows step by step that publication implements
`BundleStore`.
`PublicationsSurvivePowerLoss`: the slot part of `IInv` holds of every directory state
that a power loss can expose (`SlotsFit`), so that the invariant survives the loss; and
while a publication is reopened the synced state is the only one (`DurInv`).

The second half of the module is about the root between publications (`RootGap`,
`Migration`). There `IInv` does not hold: a
stage can put a directory that does not authenticate at the root, and the selected
generation need not be the committed one. What is left is an order of the slots
(`SlotsHold`): a sealed root holds everything acknowledged; under any other root a sealed
previous generation does, and if there is none the retired one; a v0 original, or no
generation at all, means that nothing was acknowledged. `PhaseHolds` says what a process
inside the lock may rely on although a stage is created at the root meanwhile. From
`GapInv` follow `AcknowledgedStaysOnDisk` and `TheOriginalIsKept`; for the latter
`OriginalLeaves` shows that one rename takes the original away. `NobodyEmptiesTheRoot`
needs no invariant, only that every step that fills the root found it absent.

`CanonicalLogProofs`. Of the history: `NamedRevisionsAreKept` (no command changes a
Named Revision) and `DisplacedWorkIsKept` (every displaced snapshot stays named; the
invariant adds that the log ends at the active snapshot, which is what `cursor_target`
demands). `TheTimelineIsSound`: a revision id has one snapshot, since an event makes a known
snapshot active or takes an id greater than the log is long (`RevisionsFit`); and a redo
right after an undo brings back what was undone. For this `UndoneIsNext` says that after an
undo the displaced snapshot is the next position from the cursor, because an undo adds no
position and one more undo puts exactly one more position beyond the cursor
(`CursorAfterUndo`); a redo takes the nearest position that differs from the active
snapshot, and this one does. Of the stored project: it implements `History`
(`ProjectImplementsHistory`), because each command of it contains one of the history's
and every other step leaves the history alone; `ProjectKeepsDisplaced`, `ProjectKeepsNamed`,
`ProjectKeepsTimeline` and `ProjectEvaluatesSoundly` carry the four results over.

The fourth is `TheEvaluationIsSound`, about the incremental evaluation of an edit.
`Settled` says of one feature what the property says of all: its geometry is that of
its inputs, or a part upstream is broken. The loop visits the parts of a bracket in
dependency order; `Progress` is its invariant (what is visited is settled, what is not
dirty is untouched and everything upstream of it too), `VisitProgresses` one iteration and
`EditedSettles` the end of the loop; `DimensionedSettles` does the same for a recomputation
of the whole bracket. For the geometry that a feature remembers, `Recalls` says what an
evaluation keeps of the snapshot it started from, and `RecalledWasCurrent` that this
geometry was current in an event of the log. It needs what `apply_event` verifies: that a
broken feature remembers some geometry rules out that it was already broken, in which case
the loop would have forgotten it. `EvaluationInv` says this of every snapshot of the
history, since a restore or an undo makes any of them active again.

The second half of the module is about the log, the graph and the files.
`TheProjectAlwaysOpens`: after every command the log replays to the graph and every geometry
file authenticates. `RestoresBringBack`: a restore, even of several brackets at once, brings
back every feature of the graph that the Named Revision was taken from. `ProjectInv` adds to
the history's invariant that every Named Revision was introduced by one event (`NamesInv`)
and `LogInv`: each event has its entry in the log exactly once (`EntriesInv`), the recorded
position of a Named Revision is right before the entry of the event that introduced it
(`PositionInv`), the project opens, and the file of a feature, also of one that is not in
the graph now, is what its last entry with provenance says (`GeometryInv`, without which a
restore could bring back a feature with a stale file). The replay
and the compensation are folds of sequences. `ReplayedFolds` and `EnteredFolds` give the fold
its values on every prefix, as a least counterexample would contradict them;
`ReplayAppends` and `ReplayFinite` are about the replay, and `CompensationSays` and
`RestoreSays` about what a compensation, whose entries come in some order (`Listed`), makes
of the graph. It is assumed
that `None`, which stands for no name, is no name of a user and no derived one.

`SupervisorProofs`. `AcceptedQuietly`: a result is accepted only when nothing of
the worker runs and both streams were read to their end within their limits. The
invariant `QuietInv` says what a finished reader has seen (`ReadersAtEnd`: the end
of the worker, or a flood) and what the supervisor knows in each phase
(`PhaseKnows`: in the drain the readers have settled, in `reject` there is no
result); the worker cannot disturb it because a reader finishes after the worker.
`FailureIsDiscarded`: every failed request has discarded its stage, from the state of
the stage in each phase (`StageInv`). `CompletionsAreFaithful`: an accepted
completion is one that the worker wrote, after a greeting and artifacts only, all of them
counted, and with nothing but unfinished bytes after it; `CancellationWins`: no
completion is accepted after the cancellation was sent (`CompletionNeverCrosses`, from
`AskedInv` alone), and an acknowledgement is the
worker's. Both need to know where in the worker's writing the supervisor is. `ChannelInv`
says that what was written is, in order, what was taken, the complete messages of `pending`,
bytes of an unfinished one (`Parsed`), the chunks of the channel, each between two `Cuts`,
and the pipe (`InOrder`); and that what was taken so far is what the phase and the counted
headers say (`Heard`). It is lost when a reader gives up at its limit, but then nothing is
accepted any more (`overflow`, `QuietInv`). Parsing splits a chunk at its last line end
(`SplitsAt`), which the provers can follow where a filter would need induction.

`DerivedWorkProofs`. `WorkIsOfItsBase`: what is committed was computed from the
revision its commit was fenced on, and what is kept for recovery is past and was not
committed. The argument is a squeeze (`Squeezed`): a request starts from a revision, its
worker reads the same or a later one, and the log only grows, so that the fence, which
finds the first still current, makes the second the current one too. `Ownership` (a
stage belongs to one request or cache, and to nobody once it is committed or kept) and
`StagesHold` carry the base the worker read to the verified copy, whichever generation
the handle is in; `PublicationHolds` carries it through the copy to the rotation.
`CommitsWithoutItsStage` is the second property of the run, from the same invariant.

`McpServerProofs` follows one id. `Addressed`, `QueueIsSound`: until it is handled a
request is with the reader or once in the queue, and nothing else there has its id; a
completion is the last event with its id and comes when its thread is done. `Threads`:
a thread that is not done is the active one, as long as the loop runs. From these
`AnswersComeInOrder`. `WaitingIsKept` (a pattern that waits is queued, and a
cancellation taken of it is pending) gives `CancellationsAreHonoured`.

`HostCommitsProofs`. A host computes from what it read before; the proof is that a log
which only grows makes a late check enough. `LogOK` says of the log alone that each
event displaces its predecessor and that a draft is in it once; `AppendKeepsLog` shows
that an entry which `Fits` keeps it so. `CallOK` says what a host may still rely on
whatever others append (`CallSurvives`): an event whose ordinal is still the next one
was computed from the active snapshot (`Timely`), and a draft that was not in the log
when the host looked is in it only if the log has outgrown the draft's source. The
verdict under the lock compares exactly these two numbers. From `HostInv` follow
`DraftsAreCommittedOnce`, `EventsAreOfTheirBase` and `GeometryIsOfTheRevision`.

`TerminalProofs`, the renderer. An operation goes through several calls, each of which
may fail, and its result is one of a set. `Fits` is what holds in the middle of them too
(the image on the terminal is the active one, image ids do not outrun the tokens);
`Agree` adds what holds between operations: the frame in flight is the active one
(`InFlightIsActive`), a pending one is later and has an image id left (`PendingIsLater`),
a lost attachment remembers no frame (`LostForgets`). There is one lemma per operation,
up to `AnswerAgrees` for a reply that is late, foreign or an error. `TheLayersAgree`
follows, and `NewestIsNeverLost`, since each operation also `MakesWay` for nothing but a
newer frame. The session: `AxesAgree` is inductive as it
stands, but a handler passes through states in which it does not hold, so that the lemmas
are about what a handler is given: `Quiet` is what an invalidation leaves, `SameAxes` says
that a step left the axes alone, `SelectFits` and `ReselectedFits` are about the new
selection. `TheAxesAgree` follows. `RefreshedFits` says the same of
`refresh_canonical_presentation`, which `Interactive` calls and the session alone does
not. All of these lemmas are about any session and any attachment, not about the
variables, so that they hold of those of the event loop too.

`InteractiveProofs`, what the event loop adds, in two parts. The first depends on nothing
the state machine answers, so its events are any set of sessions in the proof, and of the
renderer it only matters which frames are on their way (`Show`; `StartShows`, `SubmitShows` and
`AnswerShows` for the calls that change them). `Settled` says of a running session that
the frames show the scene and the scene shows the draft; a handler may leave it in the
middle, but not when it answers while the session runs (`Handled`), and what is left
then is enough for the cleanup at the end (`Sound`, `EndedFits`). There is one lemma per
handler and per input; `KeyFits` is the frame of a key press, which gives a command key a
session with no frame on its way. From `LoopInv` follow `EvidenceFitsTheScene`,
`PreviewFitsTheDraft` and `PublishedWasPreviewed`; for the latter `OfTheDraft` follows
through a commit what it leaves on disk, whatever another process commits inside it.

The second part is `EverythingSettles`: after every input the state machine, the
attachment, the scene and the draft agree (`SettledBetweenInputs`). Its invariant
`RestInv` is `Calm` between inputs (the machine is ready, in a phase that goes with the
draft, on the revision of the canonical scene) and `Left` after the end (what a cleanup
leaves, `CleanupCleans`). A handler takes several events and host calls, and `Calm` holds
in the middle of none of them. What does hold there is `Room(a, bumps, frames)`: `AxesAgree`
and `Agree` of the two parts, revisions in order (canonical, loaded, disk), and room below
the bounds for so many more generations and frames; the types of the two parts need it, and
each bump and each frame takes one off. `At(a, phase)` follows the phase through a handler.
`CommandMoves`, `BlurMoves`, `ResizeMoves` and `RefreshMoves` say what an event does to the
phase, the revision and the generation; `EventAt`, `RenderSteps`, `RefreshSteps` carry
`Room` and `At` over one call; one lemma per handler (`PreviewDraftSettles`,
`RejectCommitSettles`, `AcceptCommitSettles`, ...) ends in `Kept`: calm, or not running
any more. A handler that fails ends the session in any phase, and the cleanup needs no more
than `Room`. `Continues` and `Returns` then restore `RestInv` (`ContinuesSettles`,
`ReturnsSettles`). That a draft and the palette exclude each other is taken from the
first part's `LoopInv`.

Only model-checked: liveness (`EveryRequestEnds`, `RequestEnds`, `EverybodyIsServed`,
`EveryFrameIsShown`), since fairness is outside the prover.

## Not modelled

Left out of the modules that exist: `open_read_only` (takes no lock and
mutates nothing), staging directories orphaned by a crash (their names are never
reused), symlink aliases of a root (canonicalized before the lock is taken),
the contents of a migrated manifest, `HistoryStatus::Suppressed` (no operation produces it); of a
worker, closing stdout while it stays alive, descendants without a pipe (found by
cgroup and `/proc`), and a cancellation outside a request; of the host, drafts
of commands other than the bracket, previews, the expiry of drafts,
and geometry commands other than the bracket; of the session, sketch-solve,
new-project, a command given at launch, and the branch of `commit_draft` for `list`
(`tui/src/lib.rs:4426-4470`), which no draft reaches: the palette shows `list` and refuses
to open it as discovery-only (4054-4081).

The parts without a module have no state across calls, or one thread and a handful of
variables, so that a model would restate them:

- components, fits, sketches, semantic references and the command registry: a sequential
  replay of validated entries into maps, and static tables;
- command schemas, framing, the envelopes of the workers, the CLI's dispatch,
  themes: formats and parsing;
- projection, geometry kernels, gates and oracles: numeric;
- the configuration's reload: one file, one thread, the last good value;
- the reliability budget and the scripts: arithmetic over finished runs.
