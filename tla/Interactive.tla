------------------------------ MODULE Interactive ------------------------------
(***************************************************************************)
(* Interactive Modeling: the event loop of crates/tui/src/launch.rs over   *)
(* TuiViewportSession (lib.rs), which owns a TuiSession, the palette, the  *)
(* Command Draft, the scene and the attachment, and calls the host on a    *)
(* bundle other processes write too.  One action is one input read by the  *)
(* loop, handled to the end: events of TuiSession, submissions to Renderer *)
(* and host calls in the order of the code, the first Err ending the       *)
(* session.                                                                *)
(*                                                                         *)
(* A handler is an operator from the state to the set of results it may    *)
(* end in, and Then runs the next one where it was Ok.                     *)
(*                                                                         *)
(* Abstracted: the camera, overlays, the transcript and the palette's      *)
(* query.  A draft's input is the feature it names, or NoInput for what is *)
(* not a request.  Commands stand for their kind: "model" for every        *)
(* solid-making command but extrude.  Left out: sketch-solve and           *)
(* new-project, list (the palette refuses to open a draft of it, so its    *)
(* branch of commit_draft is never reached), a command given at launch, a  *)
(* launch without a project, and projection errors.                        *)
(***************************************************************************)
EXTENDS TerminalParts

CONSTANTS
  NoInput,
  Graph,                     \* the features of each canonical revision
  SelectionTool

VARIABLE app

Revisions == 1..MaxRevision

Scene(revision, preview) == [revision |-> revision, preview |-> preview]
Scenes == [revision : Revisions, preview : {<<>>} \cup {<<f>> : f \in Features}]

ASSUME InteractiveAssumption ==
  /\ Graph \in [Revisions -> Graphs]
  /\ Commands = {"extrude", "model", "save", "load", "validate", "export"}
  /\ SelectionTool \in Tools
  /\ MaxToken > 0
  /\ NoInput \notin Features
  /\ [generation : 0..MaxGeneration, scene : Scenes] \subseteq Frames

NoDraft == [command |-> NoCommand, source |-> 0, input |-> NoInput, preview |-> <<>>]

(* What a handler answers: Ok, a refusal (LaunchError::Runtime), or an error of *)
(* the attachment (LaunchError::Viewport).                                      *)
Answered(a, session) == [to |-> a, session |-> session]
Done(a) == Answered(a, "running")
Fails(a) == Answered(a, "failed")
OnTerminal(a, s) ==
  Answered([a EXCEPT !.render = s.to], IF s.ok THEN "running" ELSE "lost")

Then(results, Handler(_)) ==
  UNION {IF r.session = "running" THEN Handler(r.to) ELSE {r} : r \in results}

-----------------------------------------------------------------------------
(* The session's parts *)

Drafting(a) == a.draft.command # NoCommand
CommandInput(a) == a.palette \/ Drafting(a)
Waiting(a) == a.render.pending # NoFrame
InFlight(a) == a.render.inFlight # NoFrame

(* A transition of the state machine; its Err is the handler's.               *)
Event(a, sessions) ==
  IF sessions = {} THEN {Fails(a)} ELSE {Done([a EXCEPT !.tui = s]) : s \in sessions}

(* render_current *)
Render(a) ==
  {OnTerminal(a, s) :
     s \in R!Submit(a.render, [generation |-> a.tui.generation, scene |-> a.scene])}

(* write_control, after every input: the overlay, the evidence, the transcript. *)
Overlay(a) == {Done(a), Answered([a EXCEPT !.render.open = FALSE], "lost")}

Bump(a) == [a EXCEPT !.tui.generation = @ + 1]
Transient(a) == a.scene # a.canonical
Restore(a) == [a EXCEPT !.scene = a.canonical]

Load(a) == [a EXCEPT !.loaded = a.disk]

(* refresh_scene_from_host: what the host holds becomes canonical; loading its *)
(* geometry can fail.                                                          *)
Refresh(a) ==
  {Fails(a),
   Done([a EXCEPT !.tui = T!Refresh(@, Graph[a.loaded], a.loaded),
                  !.canonical = Scene(a.loaded, <<>>), !.scene = Scene(a.loaded, <<>>)])}

-----------------------------------------------------------------------------
(* Preview and commit of the draft *)

Solid(a) == a.draft.command \in {"extrude", "model"}
Writes(a) == Solid(a) \/ a.draft.command = "save"

(* extrude_at_revision: the only commit that compares the draft's revision with *)
(* the one it works on.                                                         *)
Fenced(a) == a.draft.command = "extrude"
Requested(a) == a.draft.input # NoInput

(* export_gate_failure: the session validated this feature at the revision it  *)
(* takes for canonical.                                                        *)
ExportGate(a) ==
  a.draft.command = "export" => a.validated = <<a.draft.input, a.tui.canonical>>

Exists(a) == a.draft.input \in T!Members(Graph[a.disk])

(* What the host needs to answer: only modelling commands compare the revision *)
(* the draft was opened on when they are previewed.                            *)
Previewable(a) ==
  CASE Solid(a)                  -> Requested(a) /\ a.draft.source = a.disk
    [] a.draft.command = "save"  -> Requested(a)
    [] a.draft.command = "load"  -> TRUE
    [] OTHER                     -> Requested(a) /\ Exists(a) /\ ExportGate(a)

RejectPreview(a) ==
  Then(Event([Restore(a) EXCEPT !.draft.preview = <<>>], T!PreviewRejected(a.tui)),
       LAMBDA b : IF Transient(a) THEN Render(Bump(b)) ELSE {Done(b)})

ShowPreview(a) ==
  LET ready == [a EXCEPT !.draft.preview = <<a.draft.input>>]
      shown == IF Solid(a)
               THEN [Load(ready) EXCEPT !.scene = Scene(a.canonical.revision, <<a.draft.input>>)]
               ELSE ready
  IN Then(Event(Bump(shown), T!PreviewReady(Bump(shown).tui)),
          LAMBDA b : IF Solid(b) THEN Render(b) ELSE {Done(b)})

(* preview_draft: a modelling command loads the bundle before anything is      *)
(* checked, and a worker may always fail.                                      *)
PreviewDraft(a) ==
  Then(Event(a, T!PreviewRequested(a.tui)),
       LAMBDA b : RejectPreview(b)
                  \cup (IF Solid(b) THEN RejectPreview(Load(b)) ELSE {})
                  \cup (IF Previewable(b) THEN ShowPreview(b) ELSE {}))

(* reject_commit: the bundle is loaded again and its revision, whoever         *)
(* committed it, becomes the scene; drawn only if a preview was on screen.     *)
RejectCommitKeepingDraft(a) ==
  Then(Event(Restore(a), T!CommitRejected(a.tui)),
       LAMBDA b : IF Transient(a) THEN Render(Bump(b)) ELSE {Done(b)})

RejectCommit(a) ==
  LET dropped == [a EXCEPT !.draft = NoDraft]
  IN Then({Done(Restore(dropped)), Done(Restore(Load(dropped)))} \cup Refresh(Load(dropped)),
          LAMBDA b : Then(Event(b, T!CommitRejected(b.tui)),
                          LAMBDA c : IF Transient(a) THEN Render(Bump(c)) ELSE {Done(c)}))

Publish(a) == IF a.disk < MaxRevision THEN {[a EXCEPT !.disk = @ + 1]} ELSE {}

WorkedOnAny(a) == {a} \cup Publish(a)

(* A commit compares the draft's revision with a load of its own, and only then *)
(* opens the bundle its work is done on: another process may have committed in  *)
(* between.  Save appends to what it finds under the lock; a worker's result is *)
(* fenced on the revision the worker started from.                              *)
WorkedOn(a) == {b \in {a} \cup Publish(a) : Fenced(a) => a.draft.source = b.disk}

(* What gateway.commit leaves behind once it has done its work.                *)
CommittedAnyRevision(a) ==
  CASE Writes(a) -> IF Requested(a)
                    THEN {Load(c) : c \in UNION {Publish(b) : b \in WorkedOn(a)}} ELSE {}
    [] a.draft.command = "load" -> {Load(a)}
    [] a.draft.command = "validate" -> IF Requested(a) /\ Exists(a) THEN {a} ELSE {}
    [] OTHER -> IF Exists(a) /\ ExportGate(a) THEN {a} ELSE {}

Committed(a) ==
  CASE Writes(a) -> IF a.draft.source = a.disk /\ Requested(a)
                    THEN {Load(c) : c \in UNION {Publish(b) : b \in WorkedOn(a)}} ELSE {}
    [] a.draft.command = "load" -> {Load(a)}
    [] a.draft.command = "validate" -> IF Requested(a) /\ Exists(a) THEN {a} ELSE {}
    [] OTHER -> IF Exists(a) /\ ExportGate(a) THEN {a} ELSE {}

(* The commit is accepted with the revision of the response, the one on disk.  *)
AcceptCommit(a) ==
  LET validated == CASE a.draft.command = "validate" -> <<a.draft.input, a.disk>>
                     [] a.draft.command = "export"   -> a.validated
                     [] OTHER                        -> <<>>
  IN Then(Event(a, T!CommitAccepted(a.tui, a.draft.source, a.draft.source, a.disk)),
          LAMBDA b : Then(Refresh([b EXCEPT !.draft = NoDraft]),
                          LAMBDA c : Render([c EXCEPT !.validated = validated])))

(* commit_draft: what was done may still answer Err.                            *)
CommitDraft(a) ==
  IF a.draft.preview = <<>> THEN PreviewDraft(a)
  ELSE Then(Event(a, T!CommitRequested(a.tui)),
            LAMBDA b : RejectCommit(b)
                       \cup UNION {RejectCommit(c) \cup AcceptCommit(c) : c \in Committed(b)})

-----------------------------------------------------------------------------
(* The end of the loop: cleanup, and once more when the renderer is dropped.   *)

EndedUncleaned(a, session) == {[a EXCEPT !.session = session]}

Ended(a, session) ==
  {[Restore(a) EXCEPT !.render = d.to,
                      !.session = IF session = "closed" /\ ~d.first THEN "lost" ELSE session] :
     d \in UNION {{[to |-> e.to, first |-> c.ok] : e \in R!CleanRenderer(c.to)} :
                    c \in R!Cleanup(a.render)}}

Continues(results) ==
  \E r \in Then(results, Overlay) :
    IF r.session = "running" THEN app' = r.to ELSE app' \in Ended(r.to, r.session)

Returns(results) ==
  \E r \in Then(results, Overlay) :
    app' \in Ended(r.to, IF r.session = "running" THEN "closed" ELSE r.session)

(* handle_exit_signal *)
Close(a) ==
  UNION {{Answered([Restore(a) EXCEPT !.tui = t, !.render = c.to],
                   IF c.ok THEN "running" ELSE "failed") : c \in R!Cleanup(a.render)} :
           t \in UNION {T!CleanupCompleted(s) : s \in T!CloseRequested(a.tui)}}

Reset(a) ==
  UNION {{Done([Restore(a) EXCEPT !.tui = t, !.render = s.to]) :
            s \in R!LoseAttachment(a.render)} :
           t \in T!RuntimeFailure(a.tui)}

-----------------------------------------------------------------------------
(* The inputs *)

Running == app.session = "running"
Focused == app.tui.focus = "Focused"

(* Keys and the pointer reach the terminal only while it has the focus.  An     *)
(* input bumps the generation twice at most and submits one frame.              *)
Input ==
  /\ Running /\ Focused
  /\ app.tui.generation + 2 <= MaxGeneration
  /\ app.render.nextToken < MaxToken

(* Command input waits for the frame in flight.                                 *)
HeldBack(a) == CommandInput(a) /\ InFlight(a)

(* Every key closes a command's outcome first.                                  *)
Key(a, Handler(_)) ==
  Then(IF a.tui.phase \in T!Outcomes THEN Event(a, T!OutcomeDismissed(a.tui)) ELSE {Done(a)},
       LAMBDA b : IF HeldBack(b) THEN {Done(b)} ELSE Handler(b))

ReplyArrives ==
  /\ Running /\ app.render.replies # <<>>
  /\ Continues(IF InFlight(app)
               THEN {OnTerminal(app, s) : s \in R!Answer(app.render)}
               ELSE {Answered(app, "lost")})

ArrowPressed ==
  /\ Input /\ ~CommandInput(app)
  /\ \E forward \in BOOLEAN :
       Continues(Key(app, LAMBDA a : Then(Event(a, T!Press(a.tui, forward)), Render)))

CameraMoved ==
  /\ Input /\ ~CommandInput(app)
  /\ Continues(Key(app, LAMBDA a : Render(Bump(a))))

PaletteOpened ==
  /\ Input /\ ~CommandInput(app)
  /\ Continues(Key(app, LAMBDA a : {Done([a EXCEPT !.palette = TRUE])}))

PaletteDismissed ==
  /\ Input /\ app.palette
  /\ Continues(Key(app, LAMBDA a : {Done([a EXCEPT !.palette = FALSE])}))

(* The draft is bound to the revision on disk, the state machine's command to  *)
(* the one it shows.                                                           *)
OpenDraft(a, command) ==
  LET opened == [a EXCEPT !.palette = FALSE,
                          !.draft = [NoDraft EXCEPT !.command = command, !.source = a.disk]]
  IN Event(opened, T!OpenCommand(a.tui, command))

CommandChosen ==
  /\ Input /\ app.palette
  /\ \E command \in Commands : Continues(Key(app, LAMBDA a : OpenDraft(a, command)))

(* Any other key: the outcome is closed and nothing more happens.               *)
OutcomeClosed ==
  /\ Input /\ ~CommandInput(app) /\ app.tui.phase \in T!Outcomes
  /\ Continues(Key(app, LAMBDA a : {Done(a)}))

DraftCancelled ==
  /\ Input /\ Drafting(app)
  /\ Continues(Key(app, LAMBDA a :
       Then(Event([a EXCEPT !.draft = NoDraft], T!CancelRequested(a.tui)),
            LAMBDA b : Then(IF Transient(b) THEN Render(Bump(Restore(b))) ELSE {Done(b)},
                            LAMBDA c : Event(c, T!CancellationCompleted(c.tui))))))

(* A character or Backspace: any input may result.                             *)
TypedKeepingPreview(a, input) ==
  LET edited == [a EXCEPT !.draft.input = input]
  IN Event(edited, T!DraftUpdated(a.tui))

Typed(a, input) ==
  LET edited == [a EXCEPT !.draft.input = input, !.draft.preview = <<>>]
  IN Then(IF a.draft.preview # <<>> /\ Transient(a) THEN Render(Bump(Restore(edited)))
          ELSE {Done(edited)},
          LAMBDA b : Event(b, T!DraftUpdated(b.tui)))

DraftTyped ==
  /\ Input /\ Drafting(app)
  /\ \E input \in Features \cup {NoInput} : Continues(Key(app, LAMBDA a : Typed(a, input)))

PreviewPressed == Input /\ Drafting(app) /\ Continues(Key(app, PreviewDraft))
CommitPressed == Input /\ Drafting(app) /\ Continues(Key(app, CommitDraft))

(* pick_at: whatever goes wrong inside is an overlay; pressing the pointer on   *)
(* the picked feature afterwards may end the session.                           *)
PickAt(a, ids) ==
  LET picked == UNION {IF Len(ids) = 1 THEN T!VerifyExact(s, ids) ELSE T!VerifyAmbiguous(s, ids) :
                         s \in T!Nominate(a.tui, ids)}
      drawn == UNION {Render(Bump([a EXCEPT !.tui = s])) : s \in picked}
  IN IF InFlight(a) \/ a.render.visible = NoFrame \/ a.loaded # a.scene.revision THEN {Done(a)}
     ELSE IF picked = {} THEN {Done([a EXCEPT !.tui = s]) : s \in T!Nominate(a.tui, ids) \cup {a.tui}}
     ELSE UNION {IF r.session = "running" THEN Event(r.to, T!PointerPressed(r.to.tui, SelectionTool, <<Head(ids)>>))
                 ELSE {Done(r.to)} : r \in drawn}

Picked ==
  /\ Input /\ ~CommandInput(app)
  /\ \E ids \in T!IdLists \ {<<>>} :
       /\ T!Members(ids) \subseteq T!Members(Graph[app.scene.revision])
       /\ Continues(PickAt(app, ids))

PointerPressed ==
  /\ Input /\ ~CommandInput(app) /\ app.tui.mode.at = "ModelessReady"
  /\ \E tool \in Tools \ {SelectionTool} : Continues(Event(app, T!PointerPressed(app.tui, tool, <<>>)))

PointerMoved ==
  /\ Input /\ ~CommandInput(app) /\ T!Captured(app.tui)
  /\ Continues(Then(Event(app, T!PointerMoved(app.tui, <<>>)),
                    LAMBDA a : IF a.tui.mode.at = "ModelessReady"
                               THEN Event(a, T!StartDrag(a.tui, a.tui.capture)) ELSE {Done(a)}))

PointerReleased ==
  /\ Input /\ ~CommandInput(app) /\ (T!Captured(app.tui) \/ T!Dragging(app.tui))
  /\ Continues(Event(app, IF T!Dragging(app.tui) THEN T!DragFinished(app.tui)
                          ELSE T!PointerReleased(app.tui)))

FocusLost == Running /\ Focused /\ Continues(Event(app, T!FocusLost(app.tui)))

FocusGained ==
  /\ Running /\ ~Focused
  /\ Continues(Then(Event(app, T!FocusIn(app.tui)),
                    LAMBDA a : Event(a, T!RecoveryCompleted(a.tui))))

Resized ==
  /\ Running /\ app.tui.generation < MaxGeneration /\ app.render.nextToken < MaxToken
  /\ Continues(Then(Then(Event(app, T!ResizeStarted(app.tui)), Render),
                    LAMBDA a : Event(a, T!ResizeCompleted(a.tui))))

QuitPressed ==
  /\ Running /\ Focused /\ ~CommandInput(app) /\ ~InFlight(app)
  /\ Returns(Close(app))

SignalArrives == Running /\ Returns(Close(app))

TerminalReset ==
  Running /\ app.tui.generation < MaxGeneration /\ Returns(Reset(app))

OtherProcessCommits ==
  /\ Running /\ app.disk < MaxRevision
  /\ app' = [app EXCEPT !.disk = @ + 1]

vars == app

(* The loop starts with the loaded project's frame acknowledged.               *)
Init ==
  \E first \in R!Submit(R!NewAttachment, [generation |-> 0, scene |-> Scene(1, <<>>)]) :
    /\ first.ok
    /\ \E shown \in R!Answer(first.to) :
         app = [session |-> "running", tui |-> T!NewSession(Graph[1], 1), render |-> shown.to,
                palette |-> FALSE, draft |-> NoDraft, canonical |-> Scene(1, <<>>),
                scene |-> Scene(1, <<>>), validated |-> <<>>, loaded |-> 1, disk |-> 1]

Keyboard ==
  \/ ArrowPressed
  \/ CameraMoved
  \/ PaletteOpened
  \/ PaletteDismissed
  \/ CommandChosen
  \/ OutcomeClosed
  \/ DraftCancelled
  \/ DraftTyped
  \/ PreviewPressed
  \/ CommitPressed
  \/ QuitPressed

Next ==
  \/ Keyboard
  \/ ReplyArrives
  \/ Picked
  \/ PointerPressed
  \/ PointerMoved
  \/ PointerReleased
  \/ FocusLost
  \/ FocusGained
  \/ Resized
  \/ SignalArrives
  \/ TerminalReset
  \/ OtherProcessCommits

Spec == Init /\ [][Next]_vars

(* The terminal answers every image it is sent.                                *)
FairSpec == Spec /\ WF_vars(ReplyArrives)

-----------------------------------------------------------------------------
(* The frame the terminal is about to acknowledge, and the one after it, show   *)
(* the scene the session holds, so the evidence written with the               *)
(* acknowledgement describes what was drawn.                                    *)
EvidenceIsOfTheScene ==
  app.session = "running" =>
    \A s \in {app.render.inFlight, app.render.pending} \ {NoFrame} : s.frame.scene = app.scene

(* The preview on the screen is the draft's, made from the input a commit would *)
(* send; no edit, cancel, rejection, blur or resize leaves one behind.          *)
PreviewIsOfTheDraft ==
  /\ app.draft.preview # <<>> => app.draft.preview = <<app.draft.input>>
  /\ app.scene.preview # <<>> => app.scene.preview = app.draft.preview
  /\ app.session = "running" /\ Solid(app) => app.scene.preview = app.draft.preview

(* Every part keeps its type, and the state machine its promises when the loop   *)
(* drives it, refreshes from the host included.                                 *)
PartsKept ==
  /\ app.session \in {"running", "closed", "failed", "lost"}
  /\ app.tui \in T!Sessions /\ app.render \in R!Attachments
  /\ app.draft.command \in Commands \cup {NoCommand}
  /\ {app.loaded, app.disk} \subseteq Revisions
  /\ T!SelectionIsCurrent(app.tui) /\ T!NothingHeldUnready(app.tui)
  /\ T!DragKeepsItsCapture(app.tui)

(* A session that returns Ok has given the terminal back: no image, no preview  *)
(* and no open attachment, whatever was in flight.                              *)
CleanClose ==
  app.session = "closed" =>
    /\ app.render.cleaned /\ app.render.images = {} /\ ~app.render.open
    /\ ~Transient(app)

(* The state machine, the scene and the draft agree between inputs: the draft   *)
(* is open exactly in the phases that have one, and the revision the machine    *)
(* takes for canonical is the one of the canonical scene, never past the disk;  *)
(* a session that has ended well has left nothing behind.                       *)
SettledBetweenInputs ==
  /\ PartsKept /\ CleanClose
  /\ app.session = "running" =>
       /\ app.tui.lifecycle = "InteractiveReady"
       /\ app.tui.phase \in {"Idle", "Draft", "PreviewReady"} \cup T!Outcomes
       /\ Drafting(app) <=> app.tui.phase \in {"Draft", "PreviewReady"}
       /\ ~(Drafting(app) /\ app.palette)
       /\ app.tui.phase = "PreviewReady" => app.draft.preview # <<>>
       /\ app.tui.canonical = app.canonical.revision
       /\ app.canonical.revision <= app.loaded /\ app.loaded <= app.disk

(* The session publishes nothing but the input that was previewed, and nothing  *)
(* of a draft that was stale when its commit began; what it publishes replaces  *)
(* the very revision the draft was opened on if the command is fenced.  Of the  *)
(* other commands it does not: whoever commits after the comparison and before  *)
(* the work is built on or appended to without a conflict.                      *)
CommitWasPreviewed ==
  [][CommitPressed /\ app'.disk # app.disk =>
       /\ app.draft.preview = <<app.draft.input>>
       /\ app.draft.source = app.disk
       /\ Fenced(app) => app'.disk = app.draft.source + 1]_vars

(* Every frame submitted is shown, or a later one in its place, unless the      *)
(* session or its attachment ends: an error while a pick is drawn takes the      *)
(* attachment and leaves the session running.                                   *)
EveryFrameIsShown ==
  \A t \in 1..MaxToken :
    (app.render.nextToken >= t) ~>
      (\/ app.session # "running" \/ ~app.render.valid
       \/ (app.render.visible # NoFrame /\ app.render.visible.token >= t))
================================================================================
