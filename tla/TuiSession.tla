------------------------------ MODULE TuiSession ------------------------------
(***************************************************************************)
(* The interactive session's state machine: TuiSession of                  *)
(* crates/tui/src/lib.rs.  Six axes (lifecycle, focus and capture,         *)
(* selection, interaction mode, command phase, linear history) are kept in *)
(* one struct, and one handler per axis moves it.                          *)
(*                                                                         *)
(* An event is an operator from a session to the set of sessions it may    *)
(* leave behind.  The empty set is the Err the handler returns             *)
(* (InvalidTransition, StalePreview, SelectionIncompatible): the session   *)
(* is then as it was.  Interactive composes the same operators into the    *)
(* handlers of the event loop.                                             *)
(*                                                                         *)
(* Abstracted: overlays, markers and sequence numbers; the input           *)
(* fingerprint the command phase carries (Interactive keeps the draft's    *)
(* input); the direction a history application carries and the pointer's   *)
(* candidate and origin, which nothing reads back.                         *)
(***************************************************************************)
EXTENDS Naturals, Sequences

CONSTANTS
  Features,       \* stable ids a viewport or a caller may nominate
  Graphs,         \* the target lists the host can present
  Tools, NoTool,  \* pointer tools, and no capture
  Commands, NoCommand,
  Names,          \* Named Revisions
  MaxRevision,    \* bound: canonical revisions are 1 .. MaxRevision
  MaxGeneration   \* bound on presentation_generation

(* What the modules that instantiate this one assume of its constants.        *)
SessionAssumption ==
  /\ Graphs \subseteq Seq(Features)
  /\ NoTool \notin Tools
  /\ NoCommand \notin Commands
  /\ MaxRevision \in Nat \ {0}
  /\ MaxGeneration \in Nat

Revisions == 1..MaxRevision
NoRevision == 0

Previews == {"Previewing", "PreviewReady"}
Outcomes == {"Committed", "Rejected", "Cancelled"}
Phases == {"Idle", "Draft", "Committing", "Cancelling"} \cup Previews \cup Outcomes
Lifecycles == {"Probing", "InteractiveReady", "HeadlessOnly", "Restoring",
               "Resizing", "Closing", "Closed"}
Modes == {"ModelessReady", "DragActive", "CommandModal", "HistoryApplying",
          "RecoveryReady"}

Distinct(ids) == \A i, j \in DOMAIN ids : ids[i] = ids[j] => i = j
Members(ids) == {ids[i] : i \in DOMAIN ids}

(* Option<Vec<String>>: the empty list stands for None, a selection or a    *)
(* candidate list being never empty.                                        *)
IdLists == {<<>>} \cup {<<f>> : f \in Features}
           \cup {p \in Features \X Features : p[1] # p[2]}
Selections == [kind : {"None", "Candidate", "Selected"}, ids : IdLists, previous : IdLists]

Mode(m) == [at |-> m, tool |-> NoTool]
Drag(tool) == [at |-> "DragActive", tool |-> tool]
NoSelection == [kind |-> "None", ids |-> <<>>, previous |-> <<>>]
Candidate(ids, previous) == [kind |-> "Candidate", ids |-> ids, previous |-> previous]
Linear(undo, redo) == [at |-> "Linear", canUndo |-> undo, canRedo |-> redo]
NoTimeline == [open |-> FALSE, names |-> {}]

Sessions ==
  [lifecycle : Lifecycles, focus : {"Focused", "FocusLost"},
   capture : Tools \cup {NoTool}, selection : Selections, selectedIndex : Nat,
   targets : Graphs, mode : [at : Modes, tool : Tools \cup {NoTool}], phase : Phases,
   active : Commands \cup {NoCommand}, source : Revisions \cup {NoRevision},
   history : [at : {"Linear", "Applying"}, canUndo : BOOLEAN, canRedo : BOOLEAN],
   recoverable : SUBSET Names, timeline : [open : BOOLEAN, names : SUBSET Names],
   generation : 0..MaxGeneration, canonical : Revisions]

NewSession(targets, revision) ==
  [lifecycle |-> "InteractiveReady", focus |-> "Focused", capture |-> NoTool,
   selection |-> NoSelection, selectedIndex |-> 0, targets |-> targets,
   mode |-> Mode("ModelessReady"), phase |-> "Idle", active |-> NoCommand,
   source |-> NoRevision, history |-> Linear(FALSE, FALSE), recoverable |-> {},
   timeline |-> NoTimeline, generation |-> 0, canonical |-> revision]

When(guard, s) == IF guard THEN {s} ELSE {}

(* guard_global: every axis but the lifecycle waits for a ready, focused session. *)
Ready(s) == s.lifecycle = "InteractiveReady" /\ s.focus = "Focused"
Captured(s) == s.capture # NoTool
Dragging(s) == s.mode.at = "DragActive"
Modal(s) == s.mode.at = "CommandModal"
AtRest(s) == s.mode.at = "ModelessReady" /\ s.phase = "Idle"

-----------------------------------------------------------------------------
(* Shared effects *)

(* selected_ids: what is selected now or was before the candidate.           *)
SelectedIds(s) ==
  IF s.selection.kind = "Candidate" THEN s.selection.previous ELSE s.selection.ids

Position(targets, id) ==
  IF id \in Members(targets) THEN CHOOSE i \in DOMAIN targets : targets[i] = id ELSE 0

Select(s, ids) ==
  [s EXCEPT !.selection = [kind |-> "Selected", ids |-> ids, previous |-> <<>>],
            !.selectedIndex = Position(s.targets, Head(ids))]

Deselect(s) == [s EXCEPT !.selection = NoSelection, !.selectedIndex = 0]

Nominated(s, ids) ==
  [s EXCEPT !.selection = Candidate(ids, SelectedIds(s)), !.selectedIndex = 0]

RestoreNominated(s) ==
  IF s.selection.kind # "Candidate" THEN s ELSE Select(s, s.selection.ids)

RestoreSelection(s) ==
  IF s.selection.kind # "Candidate" THEN s
  ELSE IF s.selection.previous = <<>> THEN [s EXCEPT !.selection = NoSelection]
  ELSE Select(s, s.selection.previous)

CancelHistory(s) ==
  IF s.history.at = "Linear" THEN s
  ELSE [s EXCEPT !.history.at = "Linear",
                 !.mode = IF @.at = "HistoryApplying" THEN Mode("ModelessReady") ELSE @]

ReleaseDrag(s) == IF Dragging(s) THEN [s EXCEPT !.mode = Mode("ModelessReady")] ELSE s

InvalidateForResize(s) ==
  LET t == ReleaseDrag(CancelHistory(RestoreSelection(
             [s EXCEPT !.generation = @ + 1, !.capture = NoTool])))
  IN IF t.phase \in Previews
     THEN [t EXCEPT !.phase = "Draft", !.mode = Mode("CommandModal")] ELSE t

CloseDraft(s) ==
  [s EXCEPT !.phase = "Idle", !.active = NoCommand, !.source = NoRevision,
            !.mode = Mode("ModelessReady")]

(* refresh_canonical_presentation: the host's graph replaces the targets; the *)
(* selection survives only if every id of it does.                            *)
Refresh(s, targets, revision) ==
  LET t == [s EXCEPT !.targets = targets, !.canonical = revision,
                     !.generation = @ + 1]
      prior == SelectedIds(s)
  IN IF prior # <<>> /\ Members(prior) \subseteq Members(targets)
     THEN Select(t, prior) ELSE Deselect(t)

-----------------------------------------------------------------------------
(* Lifecycle axis: handle_lifecycle *)

ProbeStarted(s) ==
  When(s.lifecycle = "HeadlessOnly", [s EXCEPT !.lifecycle = "Probing"])

ProbeSucceeded(s) ==
  When(s.lifecycle = "Probing",
       [CloseDraft(s) EXCEPT !.lifecycle = "InteractiveReady", !.focus = "Focused",
                             !.capture = NoTool])

ProbeFailed(s) ==
  When(s.lifecycle = "Probing", [s EXCEPT !.lifecycle = "HeadlessOnly"])

ResizeStarted(s) ==
  When(s.lifecycle = "InteractiveReady",
       [InvalidateForResize(s) EXCEPT !.lifecycle = "Resizing"])

ResizeCompleted(s) ==
  When(s.lifecycle = "Resizing",
       [s EXCEPT !.lifecycle = "InteractiveReady",
                 !.mode = CASE s.phase = "Idle"      -> Mode("ModelessReady")
                            [] s.phase \in Outcomes  -> @
                            [] OTHER                 -> Mode("CommandModal")])

ResizeFailed(s) ==
  When(s.lifecycle = "Resizing",
       [InvalidateForResize(s) EXCEPT !.lifecycle = "Restoring"])

RuntimeFailure(s) ==
  When(s.lifecycle \in {"InteractiveReady", "Resizing"},
       [InvalidateForResize(s) EXCEPT !.lifecycle = "Restoring"])

RestoreCompleted(s) ==
  When(s.lifecycle = "Restoring", [s EXCEPT !.lifecycle = "HeadlessOnly"])

CloseRequested(s) ==
  When(s.lifecycle \notin {"Closing", "Closed"},
       [CloseDraft(RestoreSelection(s)) EXCEPT !.lifecycle = "Closing",
          !.capture = NoTool, !.history.at = "Linear"])

CleanupCompleted(s) ==
  When(s.lifecycle = "Closing", [s EXCEPT !.lifecycle = "Closed"])

-----------------------------------------------------------------------------
(* Focus and capture axis: handle_focus_capture *)

PointerPressed(s, tool, candidate) ==
  When(Ready(s) /\ ~Captured(s) /\ s.mode.at = "ModelessReady",
       [IF candidate = <<>> THEN s ELSE Nominated(s, candidate) EXCEPT !.capture = tool])

PointerMoved(s, candidate) ==
  When(Ready(s) /\ Captured(s), IF candidate = <<>> THEN s ELSE Nominated(s, candidate))

DragStarted(s) ==
  When(Ready(s) /\ Captured(s) /\ s.mode.at = "ModelessReady",
       [s EXCEPT !.mode = Drag(s.capture)])

DragFinished(s) ==
  When(Ready(s) /\ Captured(s) /\ Dragging(s),
       [s EXCEPT !.mode = Mode("ModelessReady"), !.capture = NoTool])

PointerReleased(s) ==
  When(Ready(s) /\ Captured(s), [ReleaseDrag(s) EXCEPT !.capture = NoTool])

FocusLostDragging(s) ==
  When(Ready(s), RestoreSelection(CancelHistory([s EXCEPT !.focus = "FocusLost"])))

FocusLost(s) ==
  When(Ready(s),
       LET t == RestoreSelection([s EXCEPT !.focus = "FocusLost", !.capture = NoTool])
           u == IF t.phase \in Previews THEN [t EXCEPT !.phase = "Draft"] ELSE t
       IN ReleaseDrag(CancelHistory(u)))

FocusIn(s) ==
  When(s.lifecycle = "InteractiveReady" /\ s.focus = "FocusLost",
       [s EXCEPT !.focus = "Focused", !.capture = NoTool, !.mode = Mode("RecoveryReady")])

RecoveryCompleted(s) ==
  When(Ready(s) /\ s.mode.at = "RecoveryReady",
       [s EXCEPT !.mode = Mode(IF s.phase = "Idle" THEN "ModelessReady"
                               ELSE "CommandModal")])

CaptureCancelledMidDrag(s) ==
  When(Ready(s) /\ (Captured(s) \/ Dragging(s)), RestoreSelection([s EXCEPT !.capture = NoTool]))

CaptureCancelled(s) ==
  When(Ready(s) /\ (Captured(s) \/ Dragging(s)),
       RestoreSelection([s EXCEPT !.capture = NoTool, !.mode = Mode("ModelessReady")]))

-----------------------------------------------------------------------------
(* Selection axis: handle_selection *)

Nominate(s, ids) == When(Ready(s) /\ ids # <<>>, Nominated(s, ids))

(* What a verified or an ambiguous answer may name: distinct ids that are    *)
(* both candidates and targets.                                              *)
Authoritative(s, ids) ==
  /\ s.selection.kind = "Candidate" /\ ids # <<>> /\ Distinct(ids)
  /\ Members(ids) \subseteq Members(s.selection.ids) \cap Members(s.targets)

(* A candidate is not a selected target, so the verified one always differs   *)
(* from the previous target and the timeline is closed.                       *)
VerifyExact(s, ids) ==
  When(Ready(s) /\ Authoritative(s, ids), [Select(s, ids) EXCEPT !.timeline = NoTimeline])

VerifyAmbiguous(s, ids) ==
  When(Ready(s) /\ Authoritative(s, ids) /\ Len(ids) > 1, Nominated(s, ids))

VerifyFailed(s) ==     \* Lost and Incompatible
  When(Ready(s) /\ s.selection.kind = "Candidate",
       [Deselect(s) EXCEPT !.timeline = NoTimeline])

Clear(s) ==
  When(Ready(s) /\ s.selection.kind # "None",
       [Deselect(s) EXCEPT !.timeline = NoTimeline])

(* press: an arrow key selects the neighbouring target, at the ends the same. *)
Press(s, forward) ==
  LET last == Len(s.targets)
      at == s.selectedIndex
      next == IF at < last THEN at + 1 ELSE at
      previous == IF at > 1 THEN at - 1 ELSE at
      i == IF at = 0 /\ ~forward THEN last ELSE IF forward THEN next ELSE previous
  IN When(/\ last > 0 /\ Ready(s) /\ ~Captured(s) /\ AtRest(s)
          /\ s.history.at = "Linear",
          [Select(s, <<s.targets[i]>>) EXCEPT !.timeline = NoTimeline,
                                              !.generation = @ + 1])

-----------------------------------------------------------------------------
(* Interaction and command axes: handle_interaction, handle_command *)

OpenCommand(s, command) ==
  When(Ready(s) /\ AtRest(s),
       [s EXCEPT !.active = command, !.source = s.canonical, !.phase = "Draft",
                 !.mode = Mode("CommandModal")])

StartDrag(s, tool) ==
  When(Ready(s) /\ s.mode.at = "ModelessReady" /\ tool \in Tools /\ s.capture = tool,
       [s EXCEPT !.mode = Drag(tool)])

MoveTo(s, from, to) == When(Ready(s) /\ Modal(s) /\ s.phase \in from, [s EXCEPT !.phase = to])

DraftUpdated(s)          == MoveTo(s, {"Draft"}, "Draft")
PreviewRequested(s)      == MoveTo(s, {"Draft"}, "Previewing")
PreviewReady(s)          == MoveTo(s, {"Previewing"}, "PreviewReady")
PreviewRejected(s)       == MoveTo(s, {"Previewing"}, "Draft")
CommitRequested(s)       == MoveTo(s, {"PreviewReady"}, "Committing")
CommitRejected(s)        == MoveTo(s, {"Committing"}, "Rejected")
CancelRequested(s)       == MoveTo(s, {"Draft", "Committing"} \cup Previews, "Cancelling")
CancellationCompleted(s) == MoveTo(s, {"Cancelling"}, "Cancelled")

(* The revision a commit was validated against must be the one the draft was *)
(* opened on, as the session saw it.                                         *)
CommitAccepted(s, source, validated, revision) ==
  When(/\ Ready(s) /\ Modal(s) /\ s.phase = "Committing"
       /\ s.source = source /\ validated = source,
       [s EXCEPT !.canonical = revision, !.history = Linear(TRUE, FALSE),
                 !.phase = "Committed"])

OutcomeDismissed(s) ==   \* and CloseCommand, its twin on the interaction axis
  When(Ready(s) /\ Modal(s) /\ s.phase \in Outcomes, CloseDraft(s))

-----------------------------------------------------------------------------
(* History axis: handle_history and the callers that drive it *)

Applying(s) == [s EXCEPT !.history.at = "Applying", !.mode = Mode("HistoryApplying")]

HistoryRequested(s, allowed) ==
  When(Ready(s) /\ AtRest(s) /\ s.history.at = "Linear" /\ allowed, Applying(s))

Undo(s) == HistoryRequested(s, s.history.canUndo)
Redo(s) == HistoryRequested(s, s.history.canRedo)
RestoreNamed(s, name) ==
  HistoryRequested(s, name \in IF s.timeline.open THEN s.timeline.names ELSE s.recoverable)

ApplyCompleted(s, revision, undo, redo) ==
  When(Ready(s) /\ s.history.at = "Applying",
       [s EXCEPT !.canonical = revision, !.history = Linear(undo, redo),
                 !.mode = Mode("ModelessReady"), !.timeline = NoTimeline])

ApplyRejected(s) ==
  When(Ready(s) /\ s.history.at = "Applying",
       [s EXCEPT !.history.at = "Linear", !.mode = Mode("ModelessReady")])

DivergentCommit(s, revision, name) ==
  When(Ready(s) /\ AtRest(s) /\ s.history.at = "Linear" /\ s.history.canRedo,
       [s EXCEPT !.canonical = revision, !.recoverable = @ \cup {name},
                 !.history = Linear(TRUE, FALSE)])

ShowTimeline(s, names) ==
  When(s.selection.kind = "Selected", [s EXCEPT !.timeline = [open |-> TRUE, names |-> names]])

(* restore_feature_timeline: a named revision of the open timeline, in one call. *)
RestoreTimeline(s, name, revision) ==
  IF s.timeline.open
  THEN UNION {ApplyRejected(t) \cup ApplyCompleted(t, revision, TRUE, FALSE) :
                t \in RestoreNamed(s, name)}
  ELSE {}

(* apply_history_cursor: the host's availability replaces the session's      *)
(* before anything can fail.  A named revision is refused after the          *)
(* application has started, and so is an applied cursor whose availability   *)
(* cannot be read again.                                                     *)
HistoryCursor(s, direction, name, revision, before, after) ==
  LET known   == [s EXCEPT !.history = Linear(before.undo, before.redo)]
      started == CASE direction = "Undo" -> Undo(known)
                   [] direction = "Redo" -> Redo(known)
                   [] OTHER              -> RestoreNamed(known, name)
      settled(t) == ApplyRejected(t) \cup ApplyCompleted(t, revision, after.undo, after.redo)
  IN IF started = {} THEN {known}
     ELSE started \cup
          IF direction = "Named" THEN {} ELSE UNION {settled(t) : t \in started}

-----------------------------------------------------------------------------
(* Whatever was nominated, cancelled, blurred or resized, the selection, and  *)
(* the one a candidate would fall back to, names current targets only, and    *)
(* the arrow keys continue from it.                                           *)
SelectionIsCurrent(s) ==
  /\ Members(SelectedIds(s)) \subseteq Members(s.targets)
  /\ s.selection.kind = "Selected" =>
       s.selectedIndex = Position(s.targets, Head(s.selection.ids))
  /\ s.selectedIndex # 0 => s.selection.kind = "Selected"

(* Nothing half done survives a blur, a resize, a failure or a close: no       *)
(* capture, drag, candidate, preview or history application is left.           *)
NothingHeldUnready(s) ==
  Ready(s) \/ /\ ~Captured(s) /\ ~Dragging(s)
              /\ s.selection.kind # "Candidate"
              /\ s.phase \notin Previews /\ s.history.at = "Linear"

(* A command phase other than Idle has its command and the revision it was     *)
(* opened on, what `expect("preview has an active command")` relies on.        *)
PhaseHasItsCommand(s) ==
  /\ s.phase = "Idle" <=> s.active = NoCommand
  /\ s.phase = "Idle" <=> s.source = NoRevision

(* A drag belongs to the pointer that is captured: no cancel, release, blur or *)
(* command leaves a drag behind that no pointer can finish.                    *)
DragKeepsItsCapture(s) == Dragging(s) => s.mode.tool = s.capture

(* Handlers that each look at a few of the axes keep four agreements between    *)
(* them: a command phase has its command, a drag its capture, nothing half done *)
(* is held while the session is not ready, and the selection names targets      *)
(* there are.  The mode is tied to no phase and no history: a capture cancelled *)
(* with a draft open leaves the draft with a modeless session.                  *)
AxesAgree(s) ==
  /\ s \in Sessions
  /\ PhaseHasItsCommand(s) /\ DragKeepsItsCapture(s) /\ NothingHeldUnready(s)
  /\ SelectionIsCurrent(s)
===============================================================================
