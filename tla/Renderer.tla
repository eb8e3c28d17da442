------------------------------- MODULE Renderer -------------------------------
(***************************************************************************)
(* The attachment that puts viewport frames on the terminal:               *)
(* RenderCoordinator (crates/viewport/src/renderer.rs), which keeps one    *)
(* frame in flight and the newest one pending, over GhosttyRenderer        *)
(* (kitty.rs), which writes Kitty graphics commands and cleans up.         *)
(*                                                                         *)
(* One record holds the coordinator, the renderer under it and the         *)
(* terminal's side of the wire.  An operation is an operator from a record *)
(* to the set of [to, ok] it may end in, ok being Ok or Err of the call;   *)
(* Interactive composes them.  Writes to the terminal fail or not.         *)
(*                                                                         *)
(* Abstracted: pixels, compression and chunks (a frame is written whole or *)
(* the write fails), dimensions and payload limits (Refusal), diagnostics. *)
(***************************************************************************)
EXTENDS Naturals, Sequences, FiniteSets

CONSTANTS
  Frames,       \* what can be projected; a frame has a generation
  NoFrame,      \* no submission
  MaxToken      \* bound on frame tokens

(* What the modules that instantiate this one assume of its constants.        *)
RendererAssumption ==
  /\ \A f \in Frames : f.generation \in Nat
  /\ NoFrame \notin [token : Nat, image : Nat, frame : Frames, cancelled : BOOLEAN]
  /\ MaxToken \in Nat

Submissions == [token : 1..MaxToken, image : 0..MaxToken, frame : Frames, cancelled : BOOLEAN]
Attachments ==
  [nextToken : 0..MaxToken, inFlight : Submissions \cup {NoFrame},
   pending : Submissions \cup {NoFrame}, visible : Submissions \cup {NoFrame},
   dropped : SUBSET (1..MaxToken), valid : BOOLEAN,
   active : Submissions \cup {NoFrame}, nextImage : 1..(MaxToken + 1),
   open : BOOLEAN, cleaned : BOOLEAN,
   images : SUBSET (1..MaxToken), replies : Seq(1..MaxToken), answered : SUBSET (1..MaxToken)]

(* A session starts with an admitted renderer that has entered the alternate  *)
(* screen.                                                                    *)
NewAttachment ==
  [nextToken |-> 0, inFlight |-> NoFrame, pending |-> NoFrame, visible |-> NoFrame,
   dropped |-> {}, valid |-> TRUE, active |-> NoFrame, nextImage |-> 1, open |-> TRUE,
   cleaned |-> FALSE, images |-> {}, replies |-> <<>>, answered |-> {}]

Done(r) == [to |-> r, ok |-> TRUE]
Fails(r) == [to |-> r, ok |-> FALSE]

-----------------------------------------------------------------------------
(* GhosttyRenderer *)

(* Deleting an image: the terminal drops it, or the write fails and the       *)
(* renderer takes no further frame.                                           *)
DeleteImage(r, submission) ==
  {Done([r EXCEPT !.images = @ \ {submission.image}]), Fails([r EXCEPT !.open = FALSE])}

DeleteNone(r) == {Done(r)}

DeleteActive(r) == IF r.active = NoFrame THEN {Done(r)} ELSE DeleteImage(r, r.active)

(* The frame is drawn under a fresh image id and the terminal will answer it.  *)
Draw(r, submission) ==
  LET drawn == [submission EXCEPT !.image = r.nextImage]
  IN {Done([r EXCEPT !.active = drawn, !.inFlight = drawn, !.nextImage = @ + 1,
                     !.images = @ \cup {drawn.image},
                     !.replies = Append(@, drawn.image)]),
      Fails([r EXCEPT !.nextImage = @ + 1, !.open = FALSE])}

(* emit_frame, with RenderCoordinator::start around it: the active image is    *)
(* deleted before the next one is drawn.  A frame of a size the renderer does  *)
(* not take is refused before anything is written.                             *)
Start(r, submission) ==
  LET refused == Fails(r)
      after(d) == IF d.ok THEN Draw(d.to, submission) ELSE {d}
      results == IF r.open THEN {refused} \cup UNION {after(d) : d \in DeleteActive(r)}
                 ELSE {refused}
  IN {IF s.ok THEN s ELSE Fails([s.to EXCEPT !.valid = FALSE]) : s \in results}

(* cleanup_inner: the image is deleted and the modes restored.  A failed write  *)
(* leaves the attachment uncleaned, to be retried, and the image remembered     *)
(* unless its own deletion went through.                                        *)
CleanRenderer(r) ==
  IF r.cleaned THEN {Done(r)}
  ELSE LET closed == [r EXCEPT !.open = FALSE]
           deleted == [closed EXCEPT !.active = NoFrame,
                         !.images = IF r.active = NoFrame THEN @ ELSE @ \ {r.active.image}]
       IN {Done([deleted EXCEPT !.cleaned = TRUE]), Fails(deleted), Fails(closed)}

(* request_cancel of the renderer: the image of the frame in flight is deleted, *)
(* unless another one is active.                                                *)
CancelImage(r) ==
  IF r.inFlight = NoFrame \/ r.active = NoFrame THEN {Done(r)}
  ELSE IF [r.active EXCEPT !.cancelled = FALSE] # [r.inFlight EXCEPT !.cancelled = FALSE]
       THEN {Fails(r)} ELSE DeleteImage(r, r.active)

-----------------------------------------------------------------------------
(* RenderCoordinator *)

Forget(r) ==
  [r EXCEPT !.valid = FALSE, !.pending = NoFrame, !.inFlight = NoFrame, !.visible = NoFrame]

(* invalidate_and_cleanup ignores what the renderer answers. *)
Invalidate(r) ==
  {Forget(c.to) : c \in UNION {CleanRenderer(d.to) : d \in CancelImage([r EXCEPT !.valid = FALSE])}}

Broken(r) == {Fails(s) : s \in Invalidate(r)}
OrBroken(results) == UNION {IF s.ok THEN {s} ELSE Broken(s.to) : s \in results}

Current(r) ==
  {s.frame.generation : s \in {r.inFlight, r.pending} \ {NoFrame}}

(* submit: a frame older than the ones in flight or pending is dropped; a frame *)
(* in flight makes the new one pending, in place of the one that was.           *)
Submit(r, frame) ==
  LET token == r.nextToken + 1
      next == [r EXCEPT !.nextToken = token]
      submission == [token |-> token, image |-> 0, frame |-> frame, cancelled |-> FALSE]
      replaced == IF r.pending = NoFrame THEN {} ELSE {r.pending.token}
  IN CASE ~r.valid -> {Fails(r)}
       [] r.valid /\ \E g \in Current(r) : frame.generation < g ->
            {Done([next EXCEPT !.dropped = @ \cup {token}])}
       [] r.valid /\ r.inFlight # NoFrame /\ ~\E g \in Current(r) : frame.generation < g ->
            {Done([next EXCEPT !.pending = submission, !.dropped = @ \cup replaced])}
       [] OTHER -> OrBroken(Start(next, submission))

(* acknowledge: only the frame in flight, by its token and its image.  It        *)
(* becomes visible and the pending one starts, unless it was cancelled.          *)
AcknowledgeAny(r, token, image) ==
  IF r.inFlight = NoFrame THEN Broken(r)
  ELSE LET shown == [r EXCEPT !.inFlight = NoFrame, !.pending = NoFrame, !.visible = r.inFlight]
       IN IF r.pending = NoFrame THEN {Done(shown)} ELSE OrBroken(Start(shown, r.pending))

AcknowledgeAlone(r, token, image) ==
  IF r.inFlight = NoFrame \/ r.inFlight.token # token \/ r.inFlight.image # image
  THEN Broken(r)
  ELSE {Done([r EXCEPT !.inFlight = NoFrame, !.pending = NoFrame, !.visible = r.inFlight])}

AcknowledgeKeepingPending(r, token, image) ==
  IF r.inFlight = NoFrame \/ r.inFlight.token # token \/ r.inFlight.image # image
  THEN Broken(r)
  ELSE {Done([r EXCEPT !.inFlight = NoFrame, !.visible = r.inFlight])}

Acknowledge(r, token, image) ==
  IF r.inFlight = NoFrame \/ r.inFlight.token # token \/ r.inFlight.image # image
  THEN Broken(r)
  ELSE IF r.active = NoFrame \/ r.active.token # token \/ r.active.image # image
  THEN Broken([r EXCEPT !.open = FALSE])
  ELSE LET answered == [r EXCEPT !.inFlight = NoFrame, !.pending = NoFrame]
           shown == [answered EXCEPT !.visible = r.inFlight]
       IN IF r.inFlight.cancelled THEN {Done(answered)}
          ELSE IF r.pending = NoFrame THEN {Done(shown)}
          ELSE OrBroken(Start(shown, r.pending))

(* request_cancel: the pending frame is dropped, the one in flight is marked.    *)
RequestCancel(r) ==
  LET pending == IF r.pending = NoFrame THEN {} ELSE {r.pending.token}
      marked == [r EXCEPT !.pending = NoFrame, !.dropped = @ \cup pending,
                          !.inFlight = IF @ = NoFrame THEN @ ELSE [@ EXCEPT !.cancelled = TRUE]]
  IN OrBroken(CancelImage(marked))

(* acknowledgement_timeout, terminal_reset and invalidate. *)
LoseAttachment(r) == {Fails(s) : s \in Invalidate(r)}

Cleanup(r) == CleanRenderer(Forget(r))

(* The event loop completes a reply, which has only the image, with the token  *)
(* of the frame in flight.                                                     *)
Answer(r) ==
  Acknowledge([r EXCEPT !.replies = Tail(@), !.answered = @ \cup {Head(r.replies)}],
              IF r.inFlight = NoFrame THEN 0 ELSE r.inFlight.token, Head(r.replies))

-----------------------------------------------------------------------------
(* One attachment-scoped image: the terminal never shows two, and once cleaned  *)
(* it shows none.                                                               *)
OneImage(r) ==
  /\ \A i \in r.images : r.active # NoFrame /\ r.active.image = i
  /\ r.cleaned => r.images = {}

(* The coordinator and the renderer under it agree on the frame in flight: it   *)
(* is the active image, so that cancelling or acknowledging it never hits       *)
(* another one, and nothing waits when nothing is in flight; a lost attachment  *)
(* remembers no frame, and the terminal shows one image at most.  A frame       *)
(* counts as visible only after the terminal has answered its own image:        *)
(* answers to cancelled, replaced or lost frames confirm no other.              *)
LayersAgree(r) ==
  /\ r \in Attachments
  /\ r.inFlight # NoFrame =>
       /\ r.active # NoFrame
       /\ r.active.token = r.inFlight.token
       /\ r.active.image = r.inFlight.image
  /\ r.pending # NoFrame =>
       /\ r.inFlight # NoFrame
       /\ r.pending.token > r.inFlight.token
       /\ r.pending.frame.generation >= r.inFlight.frame.generation
  /\ ~r.valid => r.inFlight = NoFrame /\ r.visible = NoFrame
  /\ r.visible # NoFrame => r.visible.image \in r.answered
  /\ OneImage(r)

(* The newest state is never lost: a pending frame makes way for a later one or *)
(* for its own start, and otherwise it is recorded as dropped.  Not so after a   *)
(* cancel: the cancelled frame takes one submitted after it along, unrecorded.   *)
MakesWay(a, b) ==
  a.pending # NoFrame /\ b.valid /\ ~a.inFlight.cancelled =>
    \/ b.pending # NoFrame /\ b.pending.token >= a.pending.token
    \/ b.inFlight # NoFrame /\ b.inFlight.token = a.pending.token
    \/ a.pending.token \in b.dropped
===============================================================================
