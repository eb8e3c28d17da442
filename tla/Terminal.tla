------------------------------- MODULE Terminal -------------------------------
(***************************************************************************)
(* The two parts of a terminal session alone: any caller of the crates'    *)
(* APIs, in any order.  The session receives any event of its six axes;    *)
(* the attachment any call of the coordinator, over a terminal that        *)
(* answers the images in order, and may lose an answer or repeat one.      *)
(*                                                                         *)
(* A behaviour is one of the session or one of the attachment, which share *)
(* nothing here; Interactive composes the two.                             *)
(***************************************************************************)
EXTENDS TerminalParts

CONSTANT MaxReplies    \* bound on answers under way when one is repeated

ASSUME RepliesAssumption == MaxReplies \in Nat

VARIABLES tui, render, machine

-----------------------------------------------------------------------------
(* The session *)

NewSessionStarts ==
  \E targets \in Graphs, revision \in T!Revisions : tui = T!NewSession(targets, revision)

Becomes(sessions) == \E s \in sessions : tui' = s

(* Events that bump presentation_generation stop at the bound.               *)
Bumps(sessions) == tui.generation < MaxGeneration /\ Becomes(sessions)

Lifecycle ==
  \/ Becomes(T!ProbeStarted(tui))
  \/ Becomes(T!ProbeSucceeded(tui))
  \/ Becomes(T!ProbeFailed(tui))
  \/ Bumps(T!ResizeStarted(tui))
  \/ Becomes(T!ResizeCompleted(tui))
  \/ Bumps(T!ResizeFailed(tui))
  \/ Bumps(T!RuntimeFailure(tui))
  \/ Becomes(T!RestoreCompleted(tui))
  \/ Becomes(T!CloseRequested(tui))
  \/ Becomes(T!CleanupCompleted(tui))

FocusCapture ==
  \/ \E tool \in Tools, ids \in T!IdLists : Len(ids) < 2 /\ Becomes(T!PointerPressed(tui, tool, ids))
  \/ \E ids \in T!IdLists : Len(ids) < 2 /\ Becomes(T!PointerMoved(tui, ids))
  \/ Becomes(T!DragStarted(tui))
  \/ Becomes(T!DragFinished(tui))
  \/ Becomes(T!PointerReleased(tui))
  \/ Becomes(T!FocusLost(tui))
  \/ Becomes(T!FocusIn(tui))
  \/ Becomes(T!RecoveryCompleted(tui))
  \/ Becomes(T!CaptureCancelled(tui))

Selection ==
  \/ \E ids \in T!IdLists : Becomes(T!Nominate(tui, ids))
  \/ \E ids \in T!IdLists : Becomes(T!VerifyExact(tui, ids))
  \/ \E ids \in T!IdLists : Becomes(T!VerifyAmbiguous(tui, ids))
  \/ Becomes(T!VerifyFailed(tui))
  \/ Becomes(T!Clear(tui))
  \/ \E forward \in BOOLEAN : Bumps(T!Press(tui, forward))

Command ==
  \/ \E command \in Commands : Becomes(T!OpenCommand(tui, command))
  \/ \E tool \in Tools : Becomes(T!StartDrag(tui, tool))
  \/ Becomes(T!DraftUpdated(tui))
  \/ Becomes(T!PreviewRequested(tui))
  \/ Becomes(T!PreviewReady(tui))
  \/ Becomes(T!PreviewRejected(tui))
  \/ Becomes(T!CommitRequested(tui))
  \/ Becomes(T!CommitRejected(tui))
  \/ \E source, validated, revision \in T!Revisions :
       Becomes(T!CommitAccepted(tui, source, validated, revision))
  \/ Becomes(T!CancelRequested(tui))
  \/ Becomes(T!CancellationCompleted(tui))
  \/ Becomes(T!OutcomeDismissed(tui))

Availability == [undo : BOOLEAN, redo : BOOLEAN]

HistoryMoves ==
  \/ Becomes(T!Undo(tui))
  \/ Becomes(T!Redo(tui))
  \/ \E name \in Names : Becomes(T!RestoreNamed(tui, name))
  \/ \E revision \in T!Revisions, undo, redo \in BOOLEAN :
       Becomes(T!ApplyCompleted(tui, revision, undo, redo))
  \/ Becomes(T!ApplyRejected(tui))
  \/ \E revision \in T!Revisions, name \in Names : Becomes(T!DivergentCommit(tui, revision, name))
  \/ \E names \in SUBSET Names : Becomes(T!ShowTimeline(tui, names))
  \/ \E name \in Names, revision \in T!Revisions : Becomes(T!RestoreTimeline(tui, name, revision))
  \/ Becomes(UNION {T!HistoryCursor(tui, direction, name, revision, before, after) :
                      direction \in {"Undo", "Redo", "Named"}, name \in Names,
                      revision \in T!Revisions, before, after \in Availability})

SessionEvent == Lifecycle \/ FocusCapture \/ Selection \/ Command \/ HistoryMoves

-----------------------------------------------------------------------------
(* The attachment *)

Ends(results) == \E s \in results : render' = s.to

SubmitFrame == render.nextToken < MaxToken /\ \E f \in Frames : Ends(R!Submit(render, f))

AnswerArrives == render.replies # <<>> /\ Ends(R!Answer(render))

AnswerLost == render.replies # <<>> /\ render' = [render EXCEPT !.replies = Tail(@)]

AnswerRepeated ==
  /\ Len(render.replies) < MaxReplies
  /\ \E i \in render.answered : render' = [render EXCEPT !.replies = <<i>> \o @]

CancelRequested == render.valid /\ Ends(R!RequestCancel(render))

AttachmentLost == render.valid /\ Ends(R!LoseAttachment(render))

CleanedUp == ~(render.cleaned /\ ~render.valid) /\ Ends(R!Cleanup(render))

RendererCall ==
  \/ SubmitFrame
  \/ AnswerArrives
  \/ AnswerLost
  \/ AnswerRepeated
  \/ CancelRequested
  \/ AttachmentLost
  \/ CleanedUp

-----------------------------------------------------------------------------
TerminalInit ==
  NewSessionStarts /\ render = R!NewAttachment /\ machine \in {"session", "renderer"}

SessionMoves == machine = "session" /\ SessionEvent /\ UNCHANGED <<render, machine>>

RendererMoves == machine = "renderer" /\ RendererCall /\ UNCHANGED <<tui, machine>>

TerminalNext == SessionMoves \/ RendererMoves

TerminalSpec == TerminalInit /\ [][TerminalNext]_<<tui, render, machine>>

(* No event leaves a command phase without its command, a drag without its     *)
(* capture, a selection of a target that is gone, or what a blur, resize or    *)
(* close has ended: T!AxesAgree.                                               *)
AxesAgree == T!AxesAgree(tui)

(* The coordinator and the renderer under it agree on the frame in flight, and *)
(* what counts as visible was answered: R!LayersAgree.                         *)
LayersAgree == R!LayersAgree(render)

(* A pending frame makes way only for a later one, for its own start or for    *)
(* the record that it was dropped, unless its predecessor was cancelled:       *)
(* R!MakesWay.                                                                 *)
NewestWins == [][R!MakesWay(render, render')]_render
===============================================================================
