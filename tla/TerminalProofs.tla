--------------------------- MODULE TerminalProofs ---------------------------
(***************************************************************************)
(* Proofs about the two machines of the terminal attachment: whatever the  *)
(* frames, answers, failures and cancels, the coordinator and the renderer *)
(* agree on the frame in flight and the newest state is not lost; whatever *)
(* the events, the session keeps the agreements of AxesAgree.              *)
(***************************************************************************)
EXTENDS Terminal, SequenceTheorems, TLAPS

-----------------------------------------------------------------------------
(* The renderer *)

\* What holds of an attachment also in the middle of a call: its type, the
\* image on the terminal is the active one and gone after the cleanup, what
\* is visible was answered, and image ids do not outrun the tokens.
Fits(a) ==
  /\ a \in R!Attachments
  /\ \A i \in a.images : a.active # NoFrame /\ a.active.image = i
  /\ a.cleaned => a.images = {} /\ ~a.open
  /\ a.visible # NoFrame => a.visible.image \in a.answered
  /\ a.nextImage <= a.nextToken + 1

\* The frame in flight is the active one.
InFlightIsActive(a) ==
  a.inFlight # NoFrame =>
    /\ a.active # NoFrame
    /\ a.active.token = a.inFlight.token
    /\ a.active.image = a.inFlight.image
    /\ a.inFlight.token <= a.nextToken

\* A pending frame is later than the one in flight, and has an image id left.
PendingIsLater(a) ==
  a.pending # NoFrame =>
    /\ a.inFlight # NoFrame
    /\ a.pending.token > a.inFlight.token
    /\ a.pending.frame.generation >= a.inFlight.frame.generation
    /\ a.pending.token <= a.nextToken
    /\ a.nextImage <= a.nextToken

LostForgets(a) == ~a.valid => a.inFlight = NoFrame /\ a.visible = NoFrame

Agree(a) == Fits(a) /\ InFlightIsActive(a) /\ PendingIsLater(a) /\ LostForgets(a)

\* What the renderer's own calls leave to the coordinator.
SamePlaces(a, b) ==
  /\ b.inFlight = a.inFlight /\ b.pending = a.pending /\ b.visible = a.visible
  /\ b.nextToken = a.nextToken /\ b.valid = a.valid /\ b.dropped = a.dropped

LEMMA ResultOf ==
    ASSUME NEW a
    PROVE  /\ R!Done(a).to = a /\ R!Done(a).ok
           /\ R!Fails(a).to = a /\ ~R!Fails(a).ok
BY DEF R!Done, R!Fails

LEMMA NoFrameIsNone == NoFrame \notin R!Submissions
BY PartsAssumption DEF R!RendererAssumption, R!Submissions

\* Deleting the image of the frame in flight keeps all but the images.
LEMMA CancelImageFits ==
    ASSUME NEW a, Fits(a), NEW s \in R!CancelImage(a)
    PROVE  /\ Fits(s.to) /\ SamePlaces(a, s.to)
           /\ s.to.active = a.active /\ s.to.nextImage = a.nextImage
<1>1. CASE s.to = a
  BY <1>1 DEF SamePlaces
<1>2. CASE s.to = [a EXCEPT !.images = @ \ {a.active.image}]
  BY <1>2 DEF Fits, SamePlaces, R!Attachments
<1>3. CASE s.to = [a EXCEPT !.open = FALSE]
  BY <1>3 DEF Fits, SamePlaces, R!Attachments
<1>4. \/ s \in {R!Done(a), R!Fails(a)}
      \/ s \in R!DeleteImage(a, a.active)
  BY DEF R!CancelImage
<1>5. \/ s.to = a
      \/ s.to = [a EXCEPT !.images = @ \ {a.active.image}]
      \/ s.to = [a EXCEPT !.open = FALSE]
  BY <1>4, ResultOf DEF R!DeleteImage
<1> QED BY <1>1, <1>2, <1>3, <1>5

\* A cleanup, complete or failed, shows no image that the renderer forgot.
LEMMA CleanRendererFits ==
    ASSUME NEW a, Fits(a), NEW s \in R!CleanRenderer(a)
    PROVE  Fits(s.to) /\ SamePlaces(a, s.to)
<1> DEFINE closed == [a EXCEPT !.open = FALSE]
           deleted == [closed EXCEPT !.active = NoFrame,
                         !.images = IF a.active = NoFrame THEN @ ELSE @ \ {a.active.image}]
<1>1. CASE s.to = a
  BY <1>1 DEF SamePlaces
<1>2. Fits(closed) /\ SamePlaces(a, closed)
  BY DEF Fits, SamePlaces, R!Attachments
<1>3. deleted.images = {}
  BY DEF Fits, R!Attachments
<1>4. Fits(deleted) /\ SamePlaces(a, deleted)
  BY <1>3 DEF Fits, SamePlaces, R!Attachments
<1>5. Fits([deleted EXCEPT !.cleaned = TRUE]) /\ SamePlaces(a, [deleted EXCEPT !.cleaned = TRUE])
  BY <1>3 DEF Fits, SamePlaces, R!Attachments
<1>6. s \in IF a.cleaned THEN {R!Done(a)}
           ELSE {R!Done([deleted EXCEPT !.cleaned = TRUE]),
                 R!Fails(deleted), R!Fails(closed)}
  BY DEF R!CleanRenderer
<1> HIDE DEF closed, deleted
<1>7. \/ s.to = a
      \/ s.to = closed
      \/ s.to = deleted
      \/ s.to = [deleted EXCEPT !.cleaned = TRUE]
  BY <1>6, ResultOf
<1> QED BY <1>1, <1>2, <1>4, <1>5, <1>7

LEMMA ForgetAgrees ==
    ASSUME NEW a, Fits(a)
    PROVE  /\ Agree(R!Forget(a))
           /\ ~R!Forget(a).valid
<1> QED
  BY DEF Agree, Fits, InFlightIsActive, PendingIsLater, LostForgets,
         R!Forget, R!Attachments

\* A lost attachment remembers no frame.
LEMMA InvalidateAgrees ==
    ASSUME NEW a, Fits(a), NEW s \in R!Invalidate(a)
    PROVE  Agree(s) /\ ~s.valid
<1> DEFINE lost == [a EXCEPT !.valid = FALSE]
<1>1. Fits(lost)
  BY DEF Fits, R!Attachments
<1>2. PICK d \in R!CancelImage(lost) :
        \E c \in R!CleanRenderer(d.to) : s = R!Forget(c.to)
  BY DEF R!Invalidate
<1> HIDE DEF lost
<1>3. Fits(d.to)
  BY <1>1, CancelImageFits
<1>4. PICK c \in R!CleanRenderer(d.to) : s = R!Forget(c.to)
  BY <1>2
<1>5. Fits(c.to)
  BY <1>3, CleanRendererFits
<1> QED BY <1>4, <1>5, ForgetAgrees

LEMMA BrokenAgrees ==
    ASSUME NEW a, Fits(a), NEW s \in R!Broken(a)
    PROVE  Agree(s.to) /\ ~s.to.valid
<1>1. PICK t \in R!Invalidate(a) : s = R!Fails(t)
  BY DEF R!Broken
<1>2. s.to = t
  BY <1>1, ResultOf
<1> QED BY <1>1, <1>2, InvalidateAgrees

\* A call ends as it is, or breaks the attachment.
LEMMA EndsOrBreaks ==
    ASSUME NEW results, NEW s \in R!OrBroken(results)
    PROVE  \/ s \in results /\ s.ok
           \/ \E d \in results : ~d.ok /\ s \in R!Broken(d.to)
BY DEF R!OrBroken

\* Deleting the active image clears the terminal for the next frame.
LEMMA DeleteActiveFits ==
    ASSUME NEW a, Fits(a), NEW s \in R!DeleteActive(a)
    PROVE  /\ Fits(s.to) /\ SamePlaces(a, s.to)
           /\ s.to.nextImage = a.nextImage /\ s.to.cleaned = a.cleaned
           /\ s.ok => s.to.images = {}
<1>1. CASE a.active = NoFrame
  <2>1. s.to = a /\ a.images = {}
    BY <1>1, ResultOf DEF R!DeleteActive, Fits
  <2> QED BY <2>1 DEF SamePlaces
<1>2. CASE a.active # NoFrame
  <2> DEFINE deleted == [a EXCEPT !.images = @ \ {a.active.image}]
             closed == [a EXCEPT !.open = FALSE]
  <2>1. s = R!Done(deleted) \/ s = R!Fails(closed)
    BY <1>2 DEF R!DeleteActive, R!DeleteImage
  <2>2. /\ Fits(deleted) /\ SamePlaces(a, deleted)
        /\ deleted.nextImage = a.nextImage /\ deleted.cleaned = a.cleaned
    BY DEF Fits, SamePlaces, R!Attachments
  <2>3. deleted.images = {}
    BY DEF Fits, R!Attachments
  <2>4. /\ Fits(closed) /\ SamePlaces(a, closed)
        /\ closed.nextImage = a.nextImage /\ closed.cleaned = a.cleaned
    BY DEF Fits, SamePlaces, R!Attachments
  <2> HIDE DEF deleted, closed
  <2> QED BY <2>1, <2>2, <2>3, <2>4, ResultOf
<1> QED BY <1>1, <1>2

\* Room for another frame: a free image id, and nothing in flight or pending.
Startable(a) ==
  /\ Fits(a) /\ a.valid
  /\ a.inFlight = NoFrame /\ a.pending = NoFrame
  /\ a.nextImage <= a.nextToken /\ a.nextImage <= MaxToken

\* A frame drawn on a cleared terminal is the one image, active and in flight.
LEMMA DrawAgrees ==
    ASSUME NEW a, Startable(a), a.images = {}, ~a.cleaned,
           NEW submission \in R!Submissions, submission.token <= a.nextToken,
           NEW s \in R!Draw(a, submission)
    PROVE  /\ Fits(s.to)
           /\ s.ok => /\ Agree(s.to) /\ s.to.inFlight # NoFrame
                      /\ s.to.inFlight.token = submission.token
<1> DEFINE drawn == [submission EXCEPT !.image = a.nextImage]
           shown == [a EXCEPT !.active = drawn, !.inFlight = drawn, !.nextImage = @ + 1,
                     !.images = @ \cup {drawn.image},
                     !.replies = Append(@, drawn.image)]
           failed == [a EXCEPT !.nextImage = @ + 1, !.open = FALSE]
<1>1. /\ MaxToken \in Nat
      /\ a.nextImage \in 1..MaxToken /\ a.nextToken \in 0..MaxToken
      /\ a.replies \in Seq(1..MaxToken)
  BY PartsAssumption
  DEF R!RendererAssumption, Startable, Fits, R!Attachments
<1>2. /\ drawn \in R!Submissions
      /\ drawn.image = a.nextImage /\ drawn.token = submission.token
  BY <1>1 DEF R!Submissions
<1>3. drawn # NoFrame
  BY <1>2, NoFrameIsNone
<1>4. s = R!Done(shown) \/ s = R!Fails(failed)
  BY DEF R!Draw
<1>5. /\ a.nextImage + 1 \in 1..(MaxToken + 1)
      /\ drawn.image \in 1..MaxToken
      /\ Append(a.replies, drawn.image) \in Seq(1..MaxToken)
  BY <1>1, <1>2
<1> HIDE DEF drawn
<1>6. shown \in R!Attachments
  BY <1>2, <1>5 DEF Startable, Fits, R!Attachments
<1>7. /\ shown.images = {drawn.image}
      /\ shown.active = drawn /\ shown.inFlight = drawn /\ shown.pending = NoFrame
      /\ shown.cleaned = a.cleaned /\ shown.visible = a.visible
      /\ shown.answered = a.answered /\ shown.valid = a.valid
      /\ shown.nextImage = a.nextImage + 1 /\ shown.nextToken = a.nextToken
  BY DEF Startable, Fits, R!Attachments
<1>8. failed \in R!Attachments
  BY <1>5 DEF Startable, Fits, R!Attachments
<1>9. /\ failed.images = {} /\ ~failed.open /\ failed.visible = a.visible
      /\ failed.answered = a.answered
      /\ failed.nextImage = a.nextImage + 1 /\ failed.nextToken = a.nextToken
  BY DEF Startable, Fits, R!Attachments
<1> HIDE DEF shown, failed
<1>10. Agree(shown)
  BY <1>1, <1>2, <1>3, <1>6, <1>7
  DEF Startable, Agree, Fits, InFlightIsActive, PendingIsLater, LostForgets
<1>11. Fits(failed)
  BY <1>1, <1>8, <1>9 DEF Startable, Fits
<1> QED BY <1>2, <1>3, <1>4, <1>7, <1>10, <1>11, ResultOf DEF Agree

\* A start draws the frame, or leaves the attachment fit to be invalidated.
LEMMA StartAgrees ==
    ASSUME NEW a, Startable(a),
           NEW submission \in R!Submissions, submission.token <= a.nextToken,
           NEW s \in R!Start(a, submission)
    PROVE  /\ Fits(s.to)
           /\ s.ok => /\ Agree(s.to) /\ s.to.inFlight # NoFrame
                      /\ s.to.inFlight.token = submission.token
<1> DEFINE after(d) == IF d.ok THEN R!Draw(d.to, submission) ELSE {d}
           results == IF a.open
                      THEN {R!Fails(a)} \cup UNION {after(d) : d \in R!DeleteActive(a)}
                      ELSE {R!Fails(a)}
<1>1. PICK q \in results :
        s = IF q.ok THEN q ELSE R!Fails([q.to EXCEPT !.valid = FALSE])
  BY DEF R!Start
<1>2. /\ Fits(q.to)
      /\ q.ok => /\ Agree(q.to) /\ q.to.inFlight # NoFrame
                 /\ q.to.inFlight.token = submission.token
  <2>1. CASE q = R!Fails(a)
    BY <2>1, ResultOf DEF Startable
  <2>2. CASE a.open /\ q \in UNION {after(d) : d \in R!DeleteActive(a)}
    <3>1. PICK d \in R!DeleteActive(a) : q \in after(d)
      BY <2>2
    <3>2. /\ Fits(d.to) /\ SamePlaces(a, d.to)
          /\ d.to.nextImage = a.nextImage /\ d.to.cleaned = a.cleaned
          /\ d.ok => d.to.images = {}
      BY DeleteActiveFits DEF Startable
    <3>3. ~a.cleaned
      BY <2>2 DEF Startable, Fits
    <3>4. CASE d.ok
      <4>1. Startable(d.to) /\ d.to.nextToken = a.nextToken
        BY <3>2 DEF Startable, SamePlaces
      <4>2. q \in R!Draw(d.to, submission)
        BY <3>1, <3>4
      <4> QED BY <3>2, <3>3, <3>4, <4>1, <4>2, DrawAgrees
    <3>5. CASE ~d.ok
      BY <3>1, <3>2, <3>5
    <3> QED BY <3>4, <3>5
  <2> QED BY <1>1, <2>1, <2>2
<1>3. CASE q.ok
  BY <1>1, <1>2, <1>3
<1>4. CASE ~q.ok
  <2>1. Fits([q.to EXCEPT !.valid = FALSE])
    BY <1>2 DEF Fits, R!Attachments
  <2> QED BY <1>1, <1>4, <2>1, ResultOf
<1> QED BY <1>3, <1>4

\* Around it, the coordinator shows the frame or gives the attachment up.
LEMMA StartOrBreak ==
    ASSUME NEW a, Startable(a),
           NEW submission \in R!Submissions, submission.token <= a.nextToken,
           NEW s \in R!OrBroken(R!Start(a, submission))
    PROVE  /\ Agree(s.to)
           /\ \/ ~s.to.valid
              \/ s.to.inFlight # NoFrame /\ s.to.inFlight.token = submission.token
<1>1. CASE s \in R!Start(a, submission) /\ s.ok
  BY <1>1, StartAgrees
<1>2. CASE \E d \in R!Start(a, submission) : ~d.ok /\ s \in R!Broken(d.to)
  BY <1>2, StartAgrees, BrokenAgrees
<1> QED BY <1>1, <1>2, EndsOrBreaks

LEMMA SubmitAgrees ==
    ASSUME NEW a, Agree(a), a.nextToken < MaxToken, NEW frame \in Frames,
           NEW s \in R!Submit(a, frame)
    PROVE  Agree(s.to) /\ R!MakesWay(a, s.to)
<1> DEFINE token == a.nextToken + 1
           next == [a EXCEPT !.nextToken = token]
           submission == [token |-> token, image |-> 0, frame |-> frame, cancelled |-> FALSE]
           replaced == IF a.pending = NoFrame THEN {} ELSE {a.pending.token}
<1>1. /\ MaxToken \in Nat /\ a.nextToken \in 0..MaxToken
      /\ token \in 1..MaxToken /\ a.nextImage \in 1..(MaxToken + 1)
      /\ \A f \in Frames : f.generation \in Nat
  BY PartsAssumption DEF R!RendererAssumption, Agree, Fits, R!Attachments
<1>2. submission \in R!Submissions /\ submission # NoFrame
  <2>1. submission \in R!Submissions
    BY <1>1 DEF R!Submissions
  <2> QED BY <2>1, NoFrameIsNone
<1>3. /\ a.inFlight \in R!Submissions \cup {NoFrame}
      /\ a.pending \in R!Submissions \cup {NoFrame}
      /\ \A t \in R!Submissions : t.token \in 1..MaxToken /\ t.frame \in Frames
  BY DEF Agree, Fits, R!Attachments, R!Submissions
<1>4. CASE s = R!Fails(a)
  BY <1>1, <1>3, <1>4, ResultOf DEF R!MakesWay
<1>5. CASE s = R!Done([next EXCEPT !.dropped = @ \cup {token}])
  <2> DEFINE b == [next EXCEPT !.dropped = @ \cup {token}]
  <2>1. b \in R!Attachments
    <3>1. token \in 0..MaxToken /\ a.dropped \cup {token} \in SUBSET (1..MaxToken)
      BY <1>1 DEF Agree, Fits, R!Attachments
    <3> HIDE DEF token
    <3> QED BY <3>1 DEF Agree, Fits, R!Attachments
  <2>2. /\ b.inFlight = a.inFlight /\ b.pending = a.pending /\ b.visible = a.visible
        /\ b.valid = a.valid /\ b.active = a.active /\ b.nextImage = a.nextImage
        /\ b.open = a.open /\ b.cleaned = a.cleaned /\ b.images = a.images
        /\ b.answered = a.answered /\ b.nextToken = a.nextToken + 1
    BY DEF Agree, Fits, R!Attachments
  <2> HIDE DEF b
  <2>3. Agree(b)
    BY <1>1, <1>3, <2>1, <2>2
    DEF Agree, Fits, InFlightIsActive, PendingIsLater, LostForgets
  <2>4. R!MakesWay(a, b)
    BY <1>1, <1>3, <2>2 DEF R!MakesWay
  <2> QED BY <1>5, <2>3, <2>4, ResultOf DEF b
<1>6. CASE /\ s = R!Done([next EXCEPT !.pending = submission, !.dropped = @ \cup replaced])
           /\ a.valid /\ a.inFlight # NoFrame
           /\ \A g \in R!Current(a) : frame.generation >= g
  <2> DEFINE b == [next EXCEPT !.pending = submission, !.dropped = @ \cup replaced]
  <2>1. token \in 0..MaxToken /\ a.dropped \cup replaced \in SUBSET (1..MaxToken)
    BY <1>1, <1>3 DEF Agree, Fits, R!Attachments
  <2>2. b \in R!Attachments
    <3> HIDE DEF token, submission, replaced
    <3> QED BY <1>2, <2>1 DEF Agree, Fits, R!Attachments
  <2>3. /\ b.inFlight = a.inFlight /\ b.pending = submission /\ b.visible = a.visible
        /\ b.valid = a.valid /\ b.active = a.active /\ b.nextImage = a.nextImage
        /\ b.open = a.open /\ b.cleaned = a.cleaned /\ b.images = a.images
        /\ b.answered = a.answered /\ b.nextToken = a.nextToken + 1
        /\ b.dropped = a.dropped \cup replaced
    BY DEF Agree, Fits, R!Attachments
  <2>4. submission.token = a.nextToken + 1 /\ submission.frame = frame
    OBVIOUS
  <2>5. frame.generation >= a.inFlight.frame.generation
    BY <1>6 DEF R!Current
  <2> HIDE DEF b, submission
  <2>6. Agree(b)
    BY <1>1, <1>2, <1>3, <1>6, <2>2, <2>3, <2>4, <2>5
    DEF Agree, Fits, InFlightIsActive, PendingIsLater, LostForgets
  <2>7. R!MakesWay(a, b)
    BY <2>3 DEF R!MakesWay
  <2> QED BY <1>6, <2>6, <2>7, ResultOf DEF b, submission
<1>7. CASE /\ s \in R!OrBroken(R!Start(next, submission))
           /\ a.valid /\ a.inFlight = NoFrame
  <2>1. next \in R!Attachments
    <3>1. token \in 0..MaxToken
      BY <1>1
    <3> HIDE DEF token, submission, replaced
    <3> QED BY <3>1 DEF Agree, Fits, R!Attachments
  <2>2. /\ next.inFlight = a.inFlight /\ next.pending = a.pending /\ next.visible = a.visible
        /\ next.valid = a.valid /\ next.active = a.active /\ next.nextImage = a.nextImage
        /\ next.open = a.open /\ next.cleaned = a.cleaned /\ next.images = a.images
        /\ next.answered = a.answered /\ next.nextToken = a.nextToken + 1
    BY DEF Agree, Fits, R!Attachments
  <2>3. submission.token = a.nextToken + 1
    OBVIOUS
  <2>4. a.pending = NoFrame
    BY <1>7 DEF Agree, PendingIsLater
  <2> HIDE DEF next, submission
  <2>5. Startable(next)
    BY <1>1, <1>7, <2>1, <2>2, <2>4 DEF Startable, Agree, Fits
  <2>6. submission.token <= next.nextToken
    BY <1>1, <2>2, <2>3
  <2> QED BY <1>2, <1>7, <2>4, <2>5, <2>6, StartOrBreak DEF R!MakesWay
<1>8. \A g \in R!Current(a) :
        (frame.generation < g) <=> ~(frame.generation >= g)
  <2>1. frame.generation \in Nat /\ \A g \in R!Current(a) : g \in Nat
    BY <1>1, <1>3 DEF R!Current
  <2> QED BY <2>1
<1>9. CASE a.valid /\ ~(\E g \in R!Current(a) : frame.generation < g)
  <2>1. \A g \in R!Current(a) : frame.generation >= g
    BY <1>8, <1>9
  <2>2. \/ a.inFlight # NoFrame /\ s \in {R!Done([next EXCEPT !.pending = submission,
                                                                  !.dropped = @ \cup replaced])}
        \/ a.inFlight = NoFrame /\ s \in R!OrBroken(R!Start(next, submission))
    BY <1>9, <2>1 DEF R!Submit
  <2> QED BY <1>6, <1>7, <1>9, <2>1, <2>2
<1>10. CASE a.valid /\ \E g \in R!Current(a) : frame.generation < g
  <2>1. s \in {R!Done([next EXCEPT !.dropped = @ \cup {token}])}
    BY <1>10 DEF R!Submit
  <2> QED BY <1>5, <2>1
<1>11. CASE ~a.valid
  <2>1. s \in {R!Fails(a)}
    BY <1>11 DEF R!Submit
  <2> QED BY <1>4, <2>1
<1> QED BY <1>9, <1>10, <1>11

\* Only the answer to the frame in flight confirms it, and then the pending
\* frame starts; anything else gives the attachment up.
LEMMA AcknowledgeAgrees ==
    ASSUME NEW a, Agree(a), NEW token, NEW image, image \in a.answered,
           NEW s \in R!Acknowledge(a, token, image)
    PROVE  Agree(s.to) /\ R!MakesWay(a, s.to)
<1> DEFINE closed == [a EXCEPT !.open = FALSE]
           answered == [a EXCEPT !.inFlight = NoFrame, !.pending = NoFrame]
           shown == [answered EXCEPT !.visible = a.inFlight]
<1>1. CASE s \in R!Broken(a) \cup R!Broken(closed)
  <2>1. Fits(a) /\ Fits(closed)
    BY DEF Agree, Fits, R!Attachments
  <2>2. Agree(s.to) /\ ~s.to.valid
    BY <1>1, <2>1, BrokenAgrees
  <2> QED BY <2>2 DEF R!MakesWay
<1>2. CASE s \notin R!Broken(a) \cup R!Broken(closed)
  <2>1. a.inFlight # NoFrame /\ a.inFlight.image = image
    BY <1>2 DEF R!Acknowledge
  <2>2. s \in IF a.inFlight.cancelled THEN {R!Done(answered)}
             ELSE IF a.pending = NoFrame THEN {R!Done(shown)}
             ELSE R!OrBroken(R!Start(shown, a.pending))
    BY <1>2, <2>1 DEF R!Acknowledge
  <2>3. /\ answered \in R!Attachments
        /\ answered.inFlight = NoFrame /\ answered.pending = NoFrame
        /\ answered.visible = a.visible /\ answered.nextToken = a.nextToken
        /\ answered.valid = a.valid /\ answered.active = a.active
        /\ answered.nextImage = a.nextImage /\ answered.open = a.open
        /\ answered.cleaned = a.cleaned /\ answered.images = a.images
        /\ answered.answered = a.answered
    BY DEF Agree, Fits, R!Attachments
  <2>4. /\ shown \in R!Attachments
        /\ shown.inFlight = NoFrame /\ shown.pending = NoFrame
        /\ shown.visible = a.inFlight /\ shown.nextToken = a.nextToken
        /\ shown.valid = a.valid /\ shown.active = a.active
        /\ shown.nextImage = a.nextImage /\ shown.open = a.open
        /\ shown.cleaned = a.cleaned /\ shown.images = a.images
        /\ shown.answered = a.answered
    BY DEF Agree, Fits, R!Attachments
  <2>5. a.valid
    BY <2>1 DEF Agree, LostForgets
  <2> HIDE DEF answered, shown
  <2>6. Agree(answered)
    BY <2>3, <2>5 DEF Agree, Fits, InFlightIsActive, PendingIsLater, LostForgets
  <2>7. Agree(shown)
    BY <2>1, <2>4, <2>5 DEF Agree, Fits, InFlightIsActive, PendingIsLater, LostForgets
  <2>8. CASE a.inFlight.cancelled
    BY <2>2, <2>6, <2>8, ResultOf DEF R!MakesWay
  <2>9. CASE ~a.inFlight.cancelled /\ a.pending = NoFrame
    BY <2>2, <2>7, <2>9, ResultOf DEF R!MakesWay
  <2>10. CASE ~a.inFlight.cancelled /\ a.pending # NoFrame
    <3>1. /\ a.pending \in R!Submissions
          /\ a.pending.token <= a.nextToken /\ a.nextImage <= a.nextToken
          /\ a.nextToken \in 0..MaxToken /\ a.nextImage \in 1..(MaxToken + 1)
          /\ MaxToken \in Nat
      BY <2>10, PartsAssumption
      DEF R!RendererAssumption, Agree, Fits, PendingIsLater, R!Attachments
    <3>2. Startable(shown)
      BY <2>4, <2>5, <2>7, <3>1 DEF Startable, Agree
    <3>3. s \in R!OrBroken(R!Start(shown, a.pending))
      BY <2>2, <2>10
    <3>4. a.pending.token <= shown.nextToken
      BY <2>4, <3>1
    <3> QED BY <3>1, <3>2, <3>3, <3>4, StartOrBreak DEF R!MakesWay
  <2> QED BY <2>8, <2>9, <2>10
<1> QED BY <1>1, <1>2

\* A cancel marks the frame in flight and records the pending one as dropped.
LEMMA RequestCancelAgrees ==
    ASSUME NEW a, Agree(a), NEW s \in R!RequestCancel(a)
    PROVE  Agree(s.to) /\ R!MakesWay(a, s.to)
<1> DEFINE pending == IF a.pending = NoFrame THEN {} ELSE {a.pending.token}
           flight == IF a.inFlight = NoFrame THEN a.inFlight
                     ELSE [a.inFlight EXCEPT !.cancelled = TRUE]
           marked == [a EXCEPT !.pending = NoFrame, !.dropped = @ \cup pending,
                               !.inFlight = flight]
<1>1. /\ a.inFlight \in R!Submissions \cup {NoFrame}
      /\ a.pending \in R!Submissions \cup {NoFrame}
      /\ \A t \in R!Submissions : t.token \in 1..MaxToken
  BY DEF Agree, Fits, R!Attachments, R!Submissions
<1>2. /\ flight \in R!Submissions \cup {NoFrame}
      /\ flight # NoFrame => /\ a.inFlight # NoFrame
                             /\ flight.token = a.inFlight.token
                             /\ flight.image = a.inFlight.image
      /\ a.inFlight = NoFrame => flight = NoFrame
  BY <1>1 DEF R!Submissions
<1>3. a.dropped \cup pending \in SUBSET (1..MaxToken)
  BY <1>1 DEF Agree, Fits, R!Attachments
<1>4. s \in R!OrBroken(R!CancelImage(marked))
  BY DEF R!RequestCancel
<1>5. a.pending # NoFrame => a.pending.token \in pending
  OBVIOUS
<1> HIDE DEF pending, flight
<1>6. /\ marked \in R!Attachments
      /\ marked.inFlight = flight /\ marked.pending = NoFrame
      /\ marked.visible = a.visible /\ marked.nextToken = a.nextToken
      /\ marked.valid = a.valid /\ marked.active = a.active
      /\ marked.nextImage = a.nextImage /\ marked.open = a.open
      /\ marked.cleaned = a.cleaned /\ marked.images = a.images
      /\ marked.answered = a.answered /\ marked.dropped = a.dropped \cup pending
  BY <1>2, <1>3 DEF Agree, Fits, R!Attachments
<1> HIDE DEF marked
<1>7. Agree(marked)
  BY <1>2, <1>6 DEF Agree, Fits, InFlightIsActive, PendingIsLater, LostForgets
<1>8. CASE s \in R!CancelImage(marked) /\ s.ok
  <2>1. /\ Fits(s.to) /\ SamePlaces(marked, s.to)
        /\ s.to.active = marked.active /\ s.to.nextImage = marked.nextImage
    BY <1>7, <1>8, CancelImageFits DEF Agree
  <2>2. Agree(s.to)
    BY <1>6, <1>7, <2>1
    DEF Agree, SamePlaces, InFlightIsActive, PendingIsLater, LostForgets
  <2>3. R!MakesWay(a, s.to)
    BY <1>5, <1>6, <2>1 DEF R!MakesWay, SamePlaces
  <2> QED BY <2>2, <2>3
<1>9. CASE \E d \in R!CancelImage(marked) : ~d.ok /\ s \in R!Broken(d.to)
  <2>1. Agree(s.to) /\ ~s.to.valid
    BY <1>7, <1>9, CancelImageFits, BrokenAgrees DEF Agree
  <2> QED BY <2>1 DEF R!MakesWay
<1> QED BY <1>4, <1>8, <1>9, EndsOrBreaks

LEMMA CleanupAgrees ==
    ASSUME NEW a, Agree(a), NEW s \in R!Cleanup(a)
    PROVE  Agree(s.to) /\ ~s.to.valid
<1> DEFINE b == R!Forget(a)
<1>1. Agree(b) /\ ~b.valid
  BY ForgetAgrees DEF Agree
<1>2. b.inFlight = NoFrame /\ b.pending = NoFrame /\ b.visible = NoFrame
  BY DEF R!Forget, Agree, Fits, R!Attachments
<1>3. s \in R!CleanRenderer(b)
  BY DEF R!Cleanup
<1> HIDE DEF b
<1>4. Fits(s.to) /\ SamePlaces(b, s.to)
  BY <1>1, <1>3, CleanRendererFits DEF Agree
<1> QED
  BY <1>1, <1>2, <1>4
  DEF Agree, SamePlaces, InFlightIsActive, PendingIsLater, LostForgets

\* An attachment with other answers under way and more of them arrived.
Heard(a, replies, answered) == [a EXCEPT !.replies = replies, !.answered = answered]

\* The terminal's side of the wire changes nothing that the layers agree on.
LEMMA WireKeeps ==
    ASSUME NEW a, Agree(a), NEW replies \in Seq(1..MaxToken),
           NEW answered \in SUBSET (1..MaxToken), a.answered \subseteq answered
    PROVE  LET b == Heard(a, replies, answered)
           IN  /\ Agree(b) /\ R!MakesWay(a, b)
               /\ b.inFlight = a.inFlight /\ b.pending = a.pending
               /\ b.answered = answered
<1> DEFINE b == Heard(a, replies, answered)
<1>1. /\ b \in R!Attachments
      /\ b.inFlight = a.inFlight /\ b.pending = a.pending
      /\ b.visible = a.visible /\ b.nextToken = a.nextToken
      /\ b.valid = a.valid /\ b.active = a.active
      /\ b.nextImage = a.nextImage /\ b.open = a.open
      /\ b.cleaned = a.cleaned /\ b.images = a.images
      /\ b.answered = answered
  BY DEF Heard, Agree, Fits, R!Attachments
<1> HIDE DEF b
<1>2. a.pending # NoFrame => a.pending.token \in 1..MaxToken
  BY DEF Agree, Fits, R!Attachments, R!Submissions
<1>3. R!MakesWay(a, b)
  BY <1>1, <1>2 DEF R!MakesWay
<1>4. Agree(b)
  BY <1>1 DEF Agree, Fits, InFlightIsActive, PendingIsLater, LostForgets
<1>5. /\ Agree(b) /\ R!MakesWay(a, b)
      /\ b.inFlight = a.inFlight /\ b.pending = a.pending
      /\ b.answered = answered
  BY <1>1, <1>3, <1>4
<1> QED BY <1>5 DEF b

LEMMA AnswerAgrees ==
    ASSUME NEW a, Agree(a), a.replies # <<>>, NEW s \in R!Answer(a)
    PROVE  Agree(s.to) /\ R!MakesWay(a, s.to)
<1> DEFINE image == Head(a.replies)
           b == [a EXCEPT !.replies = Tail(@), !.answered = @ \cup {image}]
<1>1. a.replies \in Seq(1..MaxToken) /\ a.answered \in SUBSET (1..MaxToken)
  BY DEF Agree, Fits, R!Attachments
<1>2. image \in 1..MaxToken /\ Tail(a.replies) \in Seq(1..MaxToken)
  BY <1>1, HeadTailProperties
<1>3. b = Heard(a, Tail(a.replies), a.answered \cup {image})
  BY DEF Heard
<1>4. \E token : s \in R!Acknowledge(b, token, image)
  BY DEF R!Answer
<1>5. a.answered \cup {image} \in SUBSET (1..MaxToken)
  BY <1>1, <1>2
<1> HIDE DEF b, image
<1>6. /\ Agree(b) /\ b.inFlight = a.inFlight /\ b.pending = a.pending
      /\ b.answered = a.answered \cup {image}
  BY <1>2, <1>3, <1>5, WireKeeps
<1>7. image \in b.answered
  BY <1>6
<1>8. Agree(s.to) /\ R!MakesWay(b, s.to)
  BY <1>4, <1>6, <1>7, AcknowledgeAgrees
<1> QED BY <1>6, <1>8 DEF R!MakesWay

\* Every step of the attachment keeps the agreement and the newest frame.
LEMMA RendererStepAgrees ==
    ASSUME Agree(render), RendererCall
    PROVE  Agree(render') /\ R!MakesWay(render, render')
<1>1. CASE SubmitFrame
  BY <1>1, SubmitAgrees DEF SubmitFrame, Ends
<1>2. CASE AnswerArrives
  BY <1>2, AnswerAgrees DEF AnswerArrives, Ends
<1>3. /\ render.replies \in Seq(1..MaxToken) /\ render.answered \in SUBSET (1..MaxToken)
  BY DEF Agree, Fits, R!Attachments
<1>4. CASE AnswerLost
  <2>1. Tail(render.replies) \in Seq(1..MaxToken)
    BY <1>3, <1>4, HeadTailProperties DEF AnswerLost
  <2>2. render' = Heard(render, Tail(render.replies), render.answered)
    BY <1>4 DEF Heard, AnswerLost, Agree, Fits, R!Attachments
  <2> QED BY <1>3, <2>1, <2>2, WireKeeps
<1>5. CASE AnswerRepeated
  <2>1. PICK i \in render.answered : render' = [render EXCEPT !.replies = <<i>> \o @]
    BY <1>5 DEF AnswerRepeated
  <2>2. <<i>> \o render.replies \in Seq(1..MaxToken)
    BY <1>3
  <2>3. render' = Heard(render, <<i>> \o render.replies, render.answered)
    BY <2>1 DEF Heard, Agree, Fits, R!Attachments
  <2> QED BY <1>3, <2>2, <2>3, WireKeeps
<1>6. CASE CancelRequested
  BY <1>6, RequestCancelAgrees DEF CancelRequested, Ends
<1>7. CASE AttachmentLost
  <2>1. PICK t \in R!Invalidate(render) : render' = R!Fails(t).to
    BY <1>7 DEF AttachmentLost, R!LoseAttachment, Ends
  <2>2. Agree(t) /\ ~t.valid
    BY InvalidateAgrees DEF Agree
  <2> QED BY <2>1, <2>2, ResultOf DEF R!MakesWay
<1>8. CASE CleanedUp
  <2>1. Agree(render') /\ ~render'.valid
    BY <1>8, CleanupAgrees DEF CleanedUp, Ends
  <2> QED BY <2>1 DEF R!MakesWay
<1> QED
  BY <1>1, <1>2, <1>4, <1>5, <1>6, <1>7, <1>8 DEF RendererCall

LEMMA AttachmentStarts == Agree(R!NewAttachment)
<1> DEFINE a == R!NewAttachment
<1>1. MaxToken \in Nat /\ <<>> \in Seq(1..MaxToken)
  BY PartsAssumption DEF R!RendererAssumption
<1>2. a \in R!Attachments
  BY <1>1 DEF R!NewAttachment, R!Attachments
<1> QED
  BY <1>2
  DEF R!NewAttachment, Agree, Fits, InFlightIsActive, PendingIsLater, LostForgets

LEMMA AgreementShows == Agree(render) => LayersAgree
BY DEF Agree, Fits, InFlightIsActive, PendingIsLater, LostForgets,
       LayersAgree, R!LayersAgree, R!OneImage

LEMMA TerminalStepAgrees ==
    ASSUME Agree(render), [TerminalNext]_<<tui, render, machine>>
    PROVE  Agree(render') /\ (render' = render \/ R!MakesWay(render, render'))
<1>1. CASE render' = render
  BY <1>1
<1>2. CASE RendererCall
  BY <1>2, RendererStepAgrees
<1> QED BY <1>1, <1>2 DEF TerminalNext, SessionMoves, RendererMoves

\* The coordinator and the renderer agree on the frame in flight: it is the
\* active image, what waits is later than it, a lost attachment remembers
\* nothing, and what counts as visible was answered.
THEOREM TheLayersAgree == TerminalSpec => []LayersAgree
<1>1. TerminalInit => Agree(render)
  BY AttachmentStarts DEF TerminalInit
<1>2. Agree(render) /\ [TerminalNext]_<<tui, render, machine>> => Agree(render)'
  BY TerminalStepAgrees
<1> QED BY <1>1, <1>2, AgreementShows, PTL DEF TerminalSpec

\* A pending frame makes way only for a later one, for its own start or for
\* the record that it was dropped: the newest state is never lost.
THEOREM NewestIsNeverLost == TerminalSpec => NewestWins
<1>1. TerminalInit => Agree(render)
  BY AttachmentStarts DEF TerminalInit
<1>2. Agree(render) /\ [TerminalNext]_<<tui, render, machine>> => Agree(render)'
  BY TerminalStepAgrees
<1>3. Agree(render) /\ [TerminalNext]_<<tui, render, machine>> =>
        [R!MakesWay(render, render')]_render
  BY TerminalStepAgrees
<1> QED
  BY <1>1, <1>2, <1>3, PTL DEF TerminalSpec, NewestWins

-----------------------------------------------------------------------------
(* The session *)

LEMMA Taken ==
    ASSUME NEW guard, NEW s, NEW t \in T!When(guard, s)
    PROVE  guard /\ t = s
BY DEF T!When

\* The handlers of the other axes leave the selection alone.
LEMMA SelectionCarries ==
    ASSUME NEW s, NEW t, T!SelectionIsCurrent(s), t.selection = s.selection,
           t.selectedIndex = s.selectedIndex, t.targets = s.targets
    PROVE  T!SelectionIsCurrent(t)
BY DEF T!SelectionIsCurrent, T!SelectedIds

LEMMA PositionInTargets ==
    ASSUME NEW targets \in Graphs, NEW id
    PROVE  /\ Len(targets) \in Nat /\ DOMAIN targets = 1..Len(targets)
           /\ T!Position(targets, id) \in 0..Len(targets)
           /\ T!Position(targets, id) \in Nat
<1>1. Len(targets) \in Nat /\ DOMAIN targets = 1..Len(targets)
  BY PartsAssumption DEF T!SessionAssumption
<1>2. CASE id \in T!Members(targets)
  <2>1. \E i \in DOMAIN targets : targets[i] = id
    BY <1>2 DEF T!Members
  <2> QED BY <1>1, <1>2, <2>1 DEF T!Position
<1>3. CASE id \notin T!Members(targets)
  BY <1>1, <1>3 DEF T!Position
<1> QED BY <1>1, <1>2, <1>3

\* All but the selection is the same.
SameAxes(s, t) ==
  /\ t.lifecycle = s.lifecycle /\ t.focus = s.focus /\ t.capture = s.capture
  /\ t.targets = s.targets /\ t.mode = s.mode /\ t.phase = s.phase
  /\ t.active = s.active /\ t.source = s.source /\ t.history = s.history
  /\ t.generation = s.generation

\* A selection of current targets is one that the arrow keys continue from.
LEMMA SelectFits ==
    ASSUME NEW s \in T!Sessions, NEW ids \in T!IdLists, T!Members(ids) \subseteq T!Members(s.targets)
    PROVE  /\ T!Select(s, ids) \in T!Sessions /\ T!SelectionIsCurrent(T!Select(s, ids))
           /\ SameAxes(s, T!Select(s, ids)) /\ T!Select(s, ids).selection.kind = "Selected"
<1> DEFINE i == T!Position(s.targets, Head(ids))
           chosen == [kind |-> "Selected", ids |-> ids, previous |-> <<>>]
<1>1. i \in Nat
  BY PositionInTargets DEF T!Sessions
<1>2. chosen \in T!Selections
  BY DEF T!Selections, T!IdLists
<1> HIDE DEF i, chosen
<1>3. T!Select(s, ids) = [s EXCEPT !.selection = chosen, !.selectedIndex = i]
  BY DEF T!Select, i, chosen
<1>4. /\ T!Select(s, ids) \in T!Sessions /\ SameAxes(s, T!Select(s, ids))
      /\ T!Select(s, ids).selection = chosen /\ T!Select(s, ids).selectedIndex = i
      /\ T!Select(s, ids).targets = s.targets
  <2>1. [s EXCEPT !.selection = chosen, !.selectedIndex = i] \in T!Sessions
    BY <1>1, <1>2 DEF T!Sessions
  <2> QED BY <1>3, <2>1 DEF T!Sessions, SameAxes
<1>5. chosen.kind = "Selected" /\ chosen.ids = ids
  BY DEF chosen
<1> QED BY <1>4, <1>5 DEF T!SelectionIsCurrent, T!SelectedIds, i

LEMMA NoneSelected ==
    /\ T!NoSelection \in T!Selections /\ T!NoSelection.kind = "None" /\ T!NoSelection.ids = <<>>
    /\ T!Members(<<>>) = {}
BY DEF T!NoSelection, T!Selections, T!IdLists, T!Members

LEMMA DeselectFits ==
    ASSUME NEW s \in T!Sessions
    PROVE  /\ T!Deselect(s) \in T!Sessions /\ T!SelectionIsCurrent(T!Deselect(s))
           /\ SameAxes(s, T!Deselect(s)) /\ T!Deselect(s).selection.kind = "None"
<1>1. /\ T!Deselect(s) \in T!Sessions /\ SameAxes(s, T!Deselect(s))
      /\ T!Deselect(s).selection = T!NoSelection /\ T!Deselect(s).selectedIndex = 0
  BY NoneSelected DEF T!Deselect, T!Sessions, SameAxes
<1> QED BY <1>1, NoneSelected DEF T!SelectionIsCurrent, T!SelectedIds

LEMMA NominatedFits ==
    ASSUME NEW s \in T!Sessions, T!SelectionIsCurrent(s), NEW ids \in T!IdLists
    PROVE  /\ T!Nominated(s, ids) \in T!Sessions /\ T!SelectionIsCurrent(T!Nominated(s, ids))
           /\ SameAxes(s, T!Nominated(s, ids))
<1> DEFINE chosen == T!Candidate(ids, T!SelectedIds(s))
<1>1. T!SelectedIds(s) \in T!IdLists
  BY DEF T!SelectedIds, T!Sessions, T!Selections
<1>2. /\ chosen \in T!Selections /\ chosen.kind = "Candidate"
      /\ chosen.previous = T!SelectedIds(s)
  BY <1>1 DEF T!Candidate, T!Selections
<1> HIDE DEF chosen
<1>3. T!Nominated(s, ids) = [s EXCEPT !.selection = chosen, !.selectedIndex = 0]
  BY DEF T!Nominated, chosen
<1>4. /\ T!Nominated(s, ids) \in T!Sessions /\ SameAxes(s, T!Nominated(s, ids))
      /\ T!Nominated(s, ids).selection = chosen /\ T!Nominated(s, ids).selectedIndex = 0
      /\ T!Nominated(s, ids).targets = s.targets
  <2>1. [s EXCEPT !.selection = chosen, !.selectedIndex = 0] \in T!Sessions
    BY <1>2 DEF T!Sessions
  <2> QED BY <1>3, <2>1 DEF T!Sessions, SameAxes
<1>5. T!SelectedIds(T!Nominated(s, ids)) = T!SelectedIds(s)
  BY <1>2, <1>4 DEF T!SelectedIds
<1> QED BY <1>2, <1>4, <1>5 DEF T!SelectionIsCurrent

\* What a candidate falls back to is still a selection of current targets.
LEMMA RestoreSelectionFits ==
    ASSUME NEW s \in T!Sessions, T!SelectionIsCurrent(s)
    PROVE  /\ T!RestoreSelection(s) \in T!Sessions /\ T!SelectionIsCurrent(T!RestoreSelection(s))
           /\ SameAxes(s, T!RestoreSelection(s))
           /\ T!RestoreSelection(s).selection.kind # "Candidate"
<1>1. CASE s.selection.kind # "Candidate"
  <2>1. T!RestoreSelection(s) = s
    BY <1>1 DEF T!RestoreSelection
  <2> QED BY <1>1, <2>1 DEF SameAxes
<1>2. CASE s.selection.kind = "Candidate" /\ s.selection.previous = <<>>
  <2>1. T!RestoreSelection(s) = [s EXCEPT !.selection = T!NoSelection]
    BY <1>2 DEF T!RestoreSelection
  <2>2. /\ T!RestoreSelection(s) \in T!Sessions /\ SameAxes(s, T!RestoreSelection(s))
        /\ T!RestoreSelection(s).selection = T!NoSelection
        /\ T!RestoreSelection(s).selectedIndex = s.selectedIndex
    BY <2>1, NoneSelected DEF T!Sessions, SameAxes
  <2>3. s.selectedIndex = 0
    BY <1>2 DEF T!SelectionIsCurrent
  <2> QED BY <2>2, <2>3, NoneSelected DEF T!SelectionIsCurrent, T!SelectedIds
<1>3. CASE s.selection.kind = "Candidate" /\ s.selection.previous # <<>>
  <2>1. T!RestoreSelection(s) = T!Select(s, s.selection.previous)
    BY <1>3 DEF T!RestoreSelection
  <2>2. /\ s.selection.previous \in T!IdLists
        /\ T!Members(s.selection.previous) \subseteq T!Members(s.targets)
    BY <1>3 DEF T!Sessions, T!Selections, T!SelectionIsCurrent, T!SelectedIds
  <2> QED BY <2>1, <2>2, SelectFits
<1> QED BY <1>1, <1>2, <1>3

LEMMA ModesFit ==
    ASSUME NEW m \in T!Modes, m # "DragActive"
    PROVE  /\ T!Mode(m) \in [at : T!Modes, tool : Tools \cup {NoTool}]
           /\ T!Mode(m).at = m /\ T!Mode(m).at # "DragActive"
BY DEF T!Mode

\* A cancelled history application or drag leaves everything else.
LEMMA CancelHistoryFits ==
    ASSUME NEW s \in T!Sessions
    PROVE  LET t == T!CancelHistory(s)
           IN  /\ t \in T!Sessions /\ t.history.at = "Linear"
               /\ t.lifecycle = s.lifecycle /\ t.focus = s.focus /\ t.capture = s.capture
               /\ t.selection = s.selection /\ t.selectedIndex = s.selectedIndex
               /\ t.targets = s.targets /\ t.phase = s.phase
               /\ t.active = s.active /\ t.source = s.source
               /\ T!Dragging(t) => t.mode = s.mode
<1> DEFINE t == T!CancelHistory(s)
<1>1. CASE s.history.at = "Linear"
  BY <1>1 DEF T!CancelHistory
<1>2. CASE s.history.at # "Linear"
  <2> DEFINE h == [s.history EXCEPT !.at = "Linear"]
             m == IF s.mode.at = "HistoryApplying" THEN T!Mode("ModelessReady") ELSE s.mode
  <2>1. t = [s EXCEPT !.history = h, !.mode = m]
    BY <1>2 DEF T!CancelHistory, T!Sessions
  <2>2. /\ h \in [at : {"Linear", "Applying"}, canUndo : BOOLEAN, canRedo : BOOLEAN]
        /\ h.at = "Linear"
    BY DEF T!Sessions
  <2>3. /\ m \in [at : T!Modes, tool : Tools \cup {NoTool}]
        /\ m.at = "DragActive" => m = s.mode
    BY ModesFit DEF T!Sessions, T!Modes
  <2> HIDE DEF h, m, t
  <2>4. /\ t \in T!Sessions /\ t.history = h /\ t.mode = m
        /\ t.lifecycle = s.lifecycle /\ t.focus = s.focus /\ t.capture = s.capture
        /\ t.selection = s.selection /\ t.selectedIndex = s.selectedIndex
        /\ t.targets = s.targets /\ t.phase = s.phase
        /\ t.active = s.active /\ t.source = s.source
    BY <2>1, <2>2, <2>3 DEF T!Sessions
  <2> QED BY <2>2, <2>3, <2>4 DEF T!Dragging, t
<1> QED BY <1>1, <1>2

LEMMA ReleaseDragFits ==
    ASSUME NEW s \in T!Sessions
    PROVE  LET t == T!ReleaseDrag(s)
           IN  /\ t \in T!Sessions /\ ~T!Dragging(t)
               /\ t.lifecycle = s.lifecycle /\ t.focus = s.focus /\ t.capture = s.capture
               /\ t.selection = s.selection /\ t.selectedIndex = s.selectedIndex
               /\ t.targets = s.targets /\ t.phase = s.phase
               /\ t.active = s.active /\ t.source = s.source /\ t.history = s.history
<1> DEFINE m == T!Mode("ModelessReady")
<1>1. m \in [at : T!Modes, tool : Tools \cup {NoTool}] /\ m.at # "DragActive"
  BY ModesFit DEF T!Modes
<1> HIDE DEF m
<1>2. CASE T!Dragging(s)
  BY <1>1, <1>2 DEF T!ReleaseDrag, T!Dragging, T!Sessions, m
<1>3. CASE ~T!Dragging(s)
  BY <1>3 DEF T!ReleaseDrag
<1> QED BY <1>2, <1>3

\* A session in which nothing is held, whatever its lifecycle.
Quiet(s) ==
  /\ s \in T!Sessions /\ T!PhaseHasItsCommand(s) /\ T!SelectionIsCurrent(s)
  /\ ~T!Captured(s) /\ ~T!Dragging(s) /\ s.selection.kind # "Candidate"
  /\ s.phase \notin T!Previews /\ s.history.at = "Linear"

LEMMA QuietFits ==
    ASSUME NEW s, Quiet(s), NEW l \in T!Lifecycles
    PROVE  T!AxesAgree([s EXCEPT !.lifecycle = l])
<1> DEFINE t == [s EXCEPT !.lifecycle = l]
<1>1. /\ t \in T!Sessions /\ t.focus = s.focus /\ t.capture = s.capture
      /\ t.selection = s.selection /\ t.selectedIndex = s.selectedIndex
      /\ t.targets = s.targets /\ t.mode = s.mode /\ t.phase = s.phase
      /\ t.active = s.active /\ t.source = s.source /\ t.history = s.history
  BY DEF Quiet, T!Sessions
<1> HIDE DEF t
<1>2. T!SelectionIsCurrent(t)
  BY <1>1, SelectionCarries DEF Quiet
<1> QED
  BY <1>1, <1>2
  DEF Quiet, T!AxesAgree, T!PhaseHasItsCommand, T!DragKeepsItsCapture, T!NothingHeldUnready, T!Captured, T!Dragging, t

\* A resize or a failure of the runtime drops what is held and keeps the
\* draft of a preview.
LEMMA InvalidateForResizeQuiet ==
    ASSUME NEW s, T!AxesAgree(s), s.generation < MaxGeneration
    PROVE  Quiet(T!InvalidateForResize(s))
<1> DEFINE a == [s EXCEPT !.generation = @ + 1, !.capture = NoTool]
           b == T!RestoreSelection(a)
           c == T!CancelHistory(b)
           d == T!ReleaseDrag(c)
           e == [d EXCEPT !.phase = "Draft", !.mode = T!Mode("CommandModal")]
<1>1. /\ a \in T!Sessions /\ a.capture = NoTool
      /\ a.selection = s.selection /\ a.selectedIndex = s.selectedIndex
      /\ a.targets = s.targets /\ a.phase = s.phase
      /\ a.active = s.active /\ a.source = s.source
  <2>1. s.generation + 1 \in 0..MaxGeneration
    BY PartsAssumption DEF T!SessionAssumption, T!AxesAgree, T!Sessions
  <2> QED BY <2>1 DEF T!AxesAgree, T!Sessions
<1>2. T!InvalidateForResize(s) = IF d.phase \in T!Previews THEN e ELSE d
  BY DEF T!InvalidateForResize
<1> HIDE DEF a
<1>3. T!SelectionIsCurrent(a)
  BY <1>1, SelectionCarries DEF T!AxesAgree
<1>4. /\ b \in T!Sessions /\ T!SelectionIsCurrent(b) /\ SameAxes(a, b)
      /\ b.selection.kind # "Candidate"
  BY <1>1, <1>3, RestoreSelectionFits
<1> HIDE DEF b
<1>5. /\ c \in T!Sessions /\ c.history.at = "Linear" /\ c.capture = b.capture
      /\ c.selection = b.selection /\ c.selectedIndex = b.selectedIndex
      /\ c.targets = b.targets /\ c.phase = b.phase
      /\ c.active = b.active /\ c.source = b.source
  BY <1>4, CancelHistoryFits
<1> HIDE DEF c
<1>6. /\ d \in T!Sessions /\ ~T!Dragging(d) /\ d.capture = c.capture
      /\ d.selection = c.selection /\ d.selectedIndex = c.selectedIndex
      /\ d.targets = c.targets /\ d.phase = c.phase
      /\ d.active = c.active /\ d.source = c.source /\ d.history = c.history
  BY <1>5, ReleaseDragFits
<1> HIDE DEF d
<1>7. T!SelectionIsCurrent(d)
  BY <1>4, <1>5, <1>6, SelectionCarries
<1>8. T!PhaseHasItsCommand(d)
  BY <1>1, <1>4, <1>5, <1>6 DEF T!AxesAgree, T!PhaseHasItsCommand, SameAxes
<1>9. CASE d.phase \notin T!Previews
  BY <1>1, <1>2, <1>4, <1>5, <1>6, <1>7, <1>8, <1>9 DEF Quiet, T!Captured, SameAxes
<1>10. CASE d.phase \in T!Previews
  <2> DEFINE m == T!Mode("CommandModal")
  <2>1. m \in [at : T!Modes, tool : Tools \cup {NoTool}] /\ m.at # "DragActive"
    BY ModesFit DEF T!Modes
  <2> HIDE DEF m
  <2>2. /\ e \in T!Sessions /\ e.mode = m /\ e.phase = "Draft" /\ e.capture = d.capture
        /\ e.selection = d.selection /\ e.selectedIndex = d.selectedIndex
        /\ e.targets = d.targets /\ e.active = d.active /\ e.source = d.source
        /\ e.history = d.history
    BY <1>6, <2>1 DEF T!Sessions, T!Phases, m
  <2> HIDE DEF e
  <2>3. T!SelectionIsCurrent(e)
    BY <1>7, <2>2, SelectionCarries
  <2>4. T!PhaseHasItsCommand(e)
    BY <1>8, <1>10, <2>2 DEF T!PhaseHasItsCommand, T!Previews
  <2> QED
    BY <1>1, <1>2, <1>4, <1>5, <1>6, <1>10, <2>1, <2>2, <2>3, <2>4
    DEF Quiet, T!Captured, T!Dragging, SameAxes, T!Previews
<1> QED BY <1>9, <1>10

\* Events that touch neither the selection nor the targets.
LEMMA OtherAxesFit ==
    ASSUME NEW s, T!AxesAgree(s), NEW t \in T!Sessions,
           t.selection = s.selection, t.selectedIndex = s.selectedIndex, t.targets = s.targets,
           T!PhaseHasItsCommand(t), T!DragKeepsItsCapture(t), T!NothingHeldUnready(t)
    PROVE  T!AxesAgree(t)
BY SelectionCarries DEF T!AxesAgree

\* A closed draft leaves no command and no drag.
LEMMA CloseDraftFits ==
    ASSUME NEW s \in T!Sessions
    PROVE  LET t == T!CloseDraft(s)
           IN  /\ t \in T!Sessions /\ t.phase = "Idle" /\ t.mode = T!Mode("ModelessReady")
               /\ T!PhaseHasItsCommand(t) /\ ~T!Dragging(t)
               /\ t.lifecycle = s.lifecycle /\ t.focus = s.focus /\ t.capture = s.capture
               /\ t.selection = s.selection /\ t.selectedIndex = s.selectedIndex
               /\ t.targets = s.targets /\ t.history = s.history
<1> DEFINE m == T!Mode("ModelessReady")
           t == T!CloseDraft(s)
<1>1. m \in [at : T!Modes, tool : Tools \cup {NoTool}] /\ m.at # "DragActive"
  BY ModesFit DEF T!Modes
<1>2. t = [s EXCEPT !.phase = "Idle", !.active = NoCommand, !.source = T!NoRevision, !.mode = m]
  BY DEF T!CloseDraft
<1> HIDE DEF m, t
<1>3. /\ t \in T!Sessions /\ t.phase = "Idle" /\ t.mode = m
      /\ t.active = NoCommand /\ t.source = T!NoRevision
      /\ t.lifecycle = s.lifecycle /\ t.focus = s.focus /\ t.capture = s.capture
      /\ t.selection = s.selection /\ t.selectedIndex = s.selectedIndex
      /\ t.targets = s.targets /\ t.history = s.history
  BY <1>1, <1>2 DEF T!Sessions, T!Phases
<1> QED BY <1>1, <1>3 DEF T!PhaseHasItsCommand, T!Dragging, m, t

LEMMA LifecycleFits ==
    ASSUME NEW s, T!AxesAgree(s), NEW t,
           \/ t \in T!ProbeStarted(s) \cup T!ProbeSucceeded(s) \cup T!ProbeFailed(s)
           \/ /\ s.generation < MaxGeneration
              /\ t \in T!ResizeStarted(s) \cup T!ResizeFailed(s) \cup T!RuntimeFailure(s)
           \/ t \in T!ResizeCompleted(s) \cup T!RestoreCompleted(s)
           \/ t \in T!CloseRequested(s) \cup T!CleanupCompleted(s)
    PROVE  T!AxesAgree(t)
<1>1. ASSUME NEW l \in T!Lifecycles, s.lifecycle # "InteractiveReady", l # "InteractiveReady",
             t = [s EXCEPT !.lifecycle = l]
      PROVE  T!AxesAgree(t)
  <2>1. /\ t \in T!Sessions /\ t.lifecycle = l /\ t.focus = s.focus /\ t.capture = s.capture
        /\ t.selection = s.selection /\ t.selectedIndex = s.selectedIndex
        /\ t.targets = s.targets /\ t.mode = s.mode /\ t.phase = s.phase
        /\ t.active = s.active /\ t.source = s.source /\ t.history = s.history
    BY <1>1 DEF T!AxesAgree, T!Sessions
  <2>2. T!PhaseHasItsCommand(t) /\ T!DragKeepsItsCapture(t)
    BY <2>1 DEF T!AxesAgree, T!PhaseHasItsCommand, T!DragKeepsItsCapture, T!Dragging
  <2>3. ~T!Ready(s) /\ T!NothingHeldUnready(s)
    BY <1>1 DEF T!AxesAgree, T!Ready
  <2>4. T!NothingHeldUnready(t)
    BY <2>1, <2>3 DEF T!NothingHeldUnready, T!Captured, T!Dragging
  <2> QED BY <2>1, <2>2, <2>4, OtherAxesFit
<1>2. CASE t \in T!ProbeStarted(s)
  <2>1. s.lifecycle = "HeadlessOnly" /\ t = [s EXCEPT !.lifecycle = "Probing"]
    BY <1>2, Taken DEF T!ProbeStarted
  <2> QED BY <1>1, <2>1 DEF T!Lifecycles
<1>3. CASE t \in T!ProbeFailed(s)
  <2>1. s.lifecycle = "Probing" /\ t = [s EXCEPT !.lifecycle = "HeadlessOnly"]
    BY <1>3, Taken DEF T!ProbeFailed
  <2> QED BY <1>1, <2>1 DEF T!Lifecycles
<1>4. CASE t \in T!RestoreCompleted(s)
  <2>1. s.lifecycle = "Restoring" /\ t = [s EXCEPT !.lifecycle = "HeadlessOnly"]
    BY <1>4, Taken DEF T!RestoreCompleted
  <2> QED BY <1>1, <2>1 DEF T!Lifecycles
<1>5. CASE t \in T!CleanupCompleted(s)
  <2>1. s.lifecycle = "Closing" /\ t = [s EXCEPT !.lifecycle = "Closed"]
    BY <1>5, Taken DEF T!CleanupCompleted
  <2> QED BY <1>1, <2>1 DEF T!Lifecycles
<1>6. CASE /\ s.generation < MaxGeneration
           /\ t \in T!ResizeStarted(s) \cup T!ResizeFailed(s) \cup T!RuntimeFailure(s)
  <2>1. \E l \in T!Lifecycles : t = [T!InvalidateForResize(s) EXCEPT !.lifecycle = l]
    BY <1>6, Taken DEF T!ResizeStarted, T!ResizeFailed, T!RuntimeFailure, T!Lifecycles
  <2> QED BY <1>6, <2>1, InvalidateForResizeQuiet, QuietFits
<1>7. CASE t \in T!ProbeSucceeded(s)
  <2> DEFINE a == T!CloseDraft(s)
  <2>1. /\ s.lifecycle = "Probing"
        /\ t = [a EXCEPT !.lifecycle = "InteractiveReady", !.focus = "Focused",
                         !.capture = NoTool]
    BY <1>7, Taken DEF T!ProbeSucceeded
  <2>2. /\ a \in T!Sessions /\ T!PhaseHasItsCommand(a) /\ ~T!Dragging(a)
        /\ a.selection = s.selection /\ a.selectedIndex = s.selectedIndex
        /\ a.targets = s.targets
    BY CloseDraftFits DEF T!AxesAgree
  <2> HIDE DEF a
  <2>3. /\ t \in T!Sessions /\ T!Ready(t) /\ t.mode = a.mode /\ t.phase = a.phase
        /\ t.selection = a.selection /\ t.selectedIndex = a.selectedIndex
        /\ t.targets = a.targets /\ t.active = a.active /\ t.source = a.source
    BY <2>1, <2>2 DEF T!Sessions, T!Lifecycles, T!Ready
  <2> QED
    BY <2>2, <2>3, OtherAxesFit DEF T!PhaseHasItsCommand, T!DragKeepsItsCapture, T!NothingHeldUnready, T!Dragging
<1>8. CASE t \in T!ResizeCompleted(s)
  <2> DEFINE m == CASE s.phase = "Idle"      -> T!Mode("ModelessReady")
                    [] s.phase \in T!Outcomes  -> s.mode
                    [] OTHER                 -> T!Mode("CommandModal")
             after == [s EXCEPT !.lifecycle = "InteractiveReady", !.mode = m]
  <2>1. t \in T!When(s.lifecycle = "Resizing", after)
    BY <1>8 DEF T!ResizeCompleted
  <2>2. /\ m \in [at : T!Modes, tool : Tools \cup {NoTool}]
        /\ m.at = "DragActive" => m = s.mode
    <3>1. \/ m = s.mode \/ m = T!Mode("ModelessReady") \/ m = T!Mode("CommandModal")
      BY DEF T!Outcomes
    <3> QED BY <3>1, ModesFit DEF T!AxesAgree, T!Sessions, T!Modes
  <2> HIDE DEF m
  <2>3. /\ after \in T!Sessions /\ after.lifecycle = "InteractiveReady" /\ after.focus = s.focus
        /\ after.capture = s.capture /\ after.mode = m /\ after.phase = s.phase
        /\ after.selection = s.selection /\ after.selectedIndex = s.selectedIndex
        /\ after.targets = s.targets /\ after.active = s.active /\ after.source = s.source
        /\ after.history = s.history
    BY <2>2 DEF T!AxesAgree, T!Sessions, T!Lifecycles
  <2> HIDE DEF after
  <2>4. s.lifecycle = "Resizing" /\ t = after
    BY <2>1, Taken
  <2>5. ~T!Dragging(s) /\ T!NothingHeldUnready(s) /\ T!PhaseHasItsCommand(s)
    BY <2>4 DEF T!AxesAgree, T!NothingHeldUnready, T!Ready
  <2>6. T!PhaseHasItsCommand(t) /\ T!DragKeepsItsCapture(t) /\ T!NothingHeldUnready(t)
    BY <2>2, <2>3, <2>4, <2>5
    DEF T!PhaseHasItsCommand, T!DragKeepsItsCapture, T!NothingHeldUnready, T!Ready, T!Captured, T!Dragging
  <2> QED BY <2>3, <2>4, <2>6, OtherAxesFit
<1>9. CASE t \in T!CloseRequested(s)
  <2> DEFINE a == T!RestoreSelection(s)
             b == T!CloseDraft(a)
             h == [b.history EXCEPT !.at = "Linear"]
  <2>1. t = [b EXCEPT !.lifecycle = "Closing", !.capture = NoTool, !.history.at = "Linear"]
    BY <1>9, Taken DEF T!CloseRequested
  <2>2. /\ a \in T!Sessions /\ T!SelectionIsCurrent(a) /\ a.selection.kind # "Candidate"
    BY RestoreSelectionFits DEF T!AxesAgree
  <2> HIDE DEF a
  <2>3. /\ b \in T!Sessions /\ b.phase = "Idle" /\ T!PhaseHasItsCommand(b) /\ ~T!Dragging(b)
        /\ b.selection = a.selection /\ b.selectedIndex = a.selectedIndex
        /\ b.targets = a.targets
    BY <2>2, CloseDraftFits
  <2> HIDE DEF b
  <2>4. /\ h \in [at : {"Linear", "Applying"}, canUndo : BOOLEAN, canRedo : BOOLEAN]
        /\ h.at = "Linear"
    BY <2>3 DEF T!Sessions
  <2>5. t = [b EXCEPT !.lifecycle = "Closing", !.capture = NoTool, !.history = h]
    BY <2>1, <2>3 DEF T!Sessions
  <2> HIDE DEF h
  <2>6. /\ t \in T!Sessions /\ t.lifecycle = "Closing" /\ t.capture = NoTool
        /\ t.history = h /\ t.mode = b.mode /\ t.phase = b.phase
        /\ t.selection = b.selection /\ t.selectedIndex = b.selectedIndex
        /\ t.targets = b.targets /\ t.active = b.active /\ t.source = b.source
    BY <2>3, <2>4, <2>5 DEF T!Sessions, T!Lifecycles
  <2>7. T!SelectionIsCurrent(t)
    BY <2>2, <2>3, <2>6, SelectionCarries
  <2> QED
    BY <2>2, <2>3, <2>4, <2>6, <2>7
    DEF T!AxesAgree, T!PhaseHasItsCommand, T!DragKeepsItsCapture, T!NothingHeldUnready, T!Captured, T!Dragging, T!Previews
<1> QED
  BY <1>2, <1>3, <1>4, <1>5, <1>6, <1>7, <1>8, <1>9

Captures == Tools \cup {NoTool}

\* A ready session may hold anything, a pointer captured or not.
LEMMA ReadyFits ==
    ASSUME NEW s, T!AxesAgree(s), T!Ready(s), NEW a \in T!Sessions, T!SelectionIsCurrent(a), SameAxes(s, a),
           NEW held \in Captures, NEW m \in [at : T!Modes, tool : Tools \cup {NoTool}],
           m.at = "DragActive" => m.tool = held,
           NEW t, t = [a EXCEPT !.capture = held, !.mode = m]
    PROVE  T!AxesAgree(t)
<1>1. /\ t \in T!Sessions /\ t.lifecycle = a.lifecycle /\ t.focus = a.focus
      /\ t.capture = held /\ t.mode = m /\ t.phase = a.phase
      /\ t.selection = a.selection /\ t.selectedIndex = a.selectedIndex
      /\ t.targets = a.targets /\ t.active = a.active /\ t.source = a.source
  BY DEF T!Sessions, Captures
<1>2. T!SelectionIsCurrent(t)
  BY <1>1, SelectionCarries
<1>3. T!PhaseHasItsCommand(t) /\ T!DragKeepsItsCapture(t) /\ T!NothingHeldUnready(t)
  BY <1>1 DEF T!AxesAgree, SameAxes, T!PhaseHasItsCommand, T!DragKeepsItsCapture, T!NothingHeldUnready, T!Ready, T!Dragging
<1> QED BY <1>1, <1>2, <1>3 DEF T!AxesAgree

\* The record as it is, with two of its axes named.
LEMMA Unmoved ==
    ASSUME NEW s \in T!Sessions
    PROVE  /\ \A held : [s EXCEPT !.capture = held] =
                         [s EXCEPT !.capture = held, !.mode = s.mode]
           /\ \A m : [s EXCEPT !.mode = m] = [s EXCEPT !.capture = s.capture, !.mode = m]
           /\ s = [s EXCEPT !.capture = s.capture, !.mode = s.mode]
BY DEF T!Sessions

\* A drag belongs to the pointer that is captured.
LEMMA DragBeginsFits ==
    ASSUME NEW s, T!AxesAgree(s), T!Ready(s), NEW t, t = [s EXCEPT !.mode = T!Drag(s.capture)]
    PROVE  T!AxesAgree(t)
<1> DEFINE m == T!Drag(s.capture)
<1>1. m \in [at : T!Modes, tool : Tools \cup {NoTool}] /\ m.tool = s.capture
  BY DEF T!AxesAgree, T!Sessions, T!Drag, T!Modes
<1> HIDE DEF m
<1>2. /\ t \in T!Sessions /\ t.lifecycle = s.lifecycle /\ t.focus = s.focus
      /\ t.capture = s.capture /\ t.mode = m /\ t.phase = s.phase
      /\ t.selection = s.selection /\ t.selectedIndex = s.selectedIndex
      /\ t.targets = s.targets /\ t.active = s.active /\ t.source = s.source
  BY <1>1 DEF T!AxesAgree, T!Sessions, m
<1>3. T!PhaseHasItsCommand(t) /\ T!DragKeepsItsCapture(t) /\ T!NothingHeldUnready(t)
  BY <1>1, <1>2 DEF T!AxesAgree, T!PhaseHasItsCommand, T!DragKeepsItsCapture, T!NothingHeldUnready, T!Ready
<1> QED BY <1>2, <1>3, OtherAxesFit

LEMMA FocusCaptureFits ==
    ASSUME NEW s, T!AxesAgree(s), NEW t, NEW held, NEW ids \in T!IdLists,
           \/ held \in Tools /\ t \in T!PointerPressed(s, held, ids)
           \/ t \in T!PointerMoved(s, ids)
           \/ t \in T!DragStarted(s) \cup T!DragFinished(s) \cup T!PointerReleased(s)
           \/ t \in T!FocusLost(s) \cup T!FocusIn(s) \cup T!RecoveryCompleted(s)
           \/ t \in T!CaptureCancelled(s)
    PROVE  T!AxesAgree(t)
<1>1. /\ s \in T!Sessions /\ T!SelectionIsCurrent(s) /\ SameAxes(s, s)
      /\ s.mode \in [at : T!Modes, tool : Tools \cup {NoTool}]
      /\ s.capture \in Captures /\ NoTool \in Captures
  BY DEF T!AxesAgree, SameAxes, T!Sessions, Captures
<1> DEFINE a == IF ids = <<>> THEN s ELSE T!Nominated(s, ids)
<1>2. a \in T!Sessions /\ T!SelectionIsCurrent(a) /\ SameAxes(s, a)
  BY <1>1, NominatedFits
<1>3. T!Mode("ModelessReady") \in [at : T!Modes, tool : Tools \cup {NoTool}]
      /\ T!Mode("ModelessReady").at # "DragActive"
  BY ModesFit DEF T!Modes
<1>4. CASE held \in Tools /\ t \in T!PointerPressed(s, held, ids)
  <2>1. /\ T!Ready(s) /\ s.mode.at = "ModelessReady"
        /\ t = [a EXCEPT !.capture = held]
    BY <1>4, Taken DEF T!PointerPressed
  <2> HIDE DEF a
  <2>2. held \in Tools \cup {NoTool}
    BY <1>4
  <2>3. /\ t \in T!Sessions /\ t.lifecycle = a.lifecycle /\ t.focus = a.focus
        /\ t.mode = a.mode /\ t.phase = a.phase
        /\ t.selection = a.selection /\ t.selectedIndex = a.selectedIndex
        /\ t.targets = a.targets /\ t.active = a.active /\ t.source = a.source
    BY <1>2, <2>1, <2>2 DEF T!Sessions
  <2>4. T!SelectionIsCurrent(t)
    BY <1>2, <2>3, SelectionCarries
  <2>5. T!PhaseHasItsCommand(t) /\ T!DragKeepsItsCapture(t) /\ T!NothingHeldUnready(t)
    BY <1>2, <2>1, <2>3
    DEF T!AxesAgree, SameAxes, T!PhaseHasItsCommand, T!DragKeepsItsCapture, T!NothingHeldUnready, T!Ready, T!Dragging
  <2> QED BY <2>3, <2>4, <2>5 DEF T!AxesAgree
<1>5. CASE t \in T!PointerMoved(s, ids)
  <2>1. T!Ready(s) /\ t = a
    BY <1>5, Taken DEF T!PointerMoved
  <2> HIDE DEF a
  <2>2. t = [a EXCEPT !.capture = s.capture, !.mode = s.mode]
    BY <1>2, <2>1, Unmoved DEF SameAxes
  <2>3. s.mode.at = "DragActive" => s.mode.tool = s.capture
    BY DEF T!AxesAgree, T!DragKeepsItsCapture, T!Dragging
  <2> QED BY <1>1, <1>2, <2>1, <2>2, <2>3, ReadyFits
<1>6. CASE t \in T!DragStarted(s)
  <2>1. T!Ready(s) /\ t = [s EXCEPT !.mode = T!Drag(s.capture)]
    BY <1>6, Taken DEF T!DragStarted
  <2> QED BY <2>1, DragBeginsFits
<1>7. CASE t \in T!DragFinished(s)
  <2>1. T!Ready(s) /\ t = [s EXCEPT !.mode = T!Mode("ModelessReady"), !.capture = NoTool]
    BY <1>7, Taken DEF T!DragFinished
  <2>2. t = [s EXCEPT !.capture = NoTool, !.mode = T!Mode("ModelessReady")]
    BY <1>1, <2>1 DEF T!Sessions
  <2> DEFINE m == T!Mode("ModelessReady")
  <2>3. /\ t = [s EXCEPT !.capture = NoTool, !.mode = m]
        /\ m \in [at : T!Modes, tool : Tools \cup {NoTool}] /\ m.at # "DragActive"
    BY <1>3, <2>2
  <2> HIDE DEF m
  <2>4. /\ t \in T!Sessions /\ t.lifecycle = s.lifecycle /\ t.focus = s.focus
        /\ t.mode = m /\ t.phase = s.phase
        /\ t.selection = s.selection /\ t.selectedIndex = s.selectedIndex
        /\ t.targets = s.targets /\ t.active = s.active /\ t.source = s.source
    BY <1>1, <2>3 DEF T!Sessions
  <2>5. T!PhaseHasItsCommand(t) /\ T!DragKeepsItsCapture(t) /\ T!NothingHeldUnready(t)
    BY <2>1, <2>3, <2>4 DEF T!AxesAgree, T!PhaseHasItsCommand, T!DragKeepsItsCapture, T!NothingHeldUnready, T!Ready, T!Dragging
  <2> QED BY <2>4, <2>5, OtherAxesFit
<1>8. CASE t \in T!PointerReleased(s)
  <2> DEFINE m == IF T!Dragging(s) THEN T!Mode("ModelessReady") ELSE s.mode
  <2>1. T!Ready(s) /\ t = [T!ReleaseDrag(s) EXCEPT !.capture = NoTool]
    BY <1>8, Taken DEF T!PointerReleased
  <2>2. t = [s EXCEPT !.capture = NoTool, !.mode = m]
    BY <1>1, <2>1, Unmoved DEF T!ReleaseDrag, T!Sessions
  <2>3. /\ m \in [at : T!Modes, tool : Tools \cup {NoTool}]
        /\ m.at # "DragActive"
    BY <1>1, <1>3 DEF T!Dragging
  <2> HIDE DEF m
  <2> QED BY <1>1, <2>1, <2>2, <2>3, ReadyFits
<1>9. CASE t \in T!CaptureCancelled(s)
  <2> DEFINE b == [s EXCEPT !.capture = NoTool, !.mode = T!Mode("ModelessReady")]
  <2>1. T!Ready(s) /\ t = T!RestoreSelection(b)
    BY <1>9, Taken DEF T!CaptureCancelled
  <2>2. T!AxesAgree(b)
    BY <1>1, <1>3, <2>1, ReadyFits
  <2>3. T!Ready(b)
    BY <1>1, <2>1 DEF T!Ready, T!Sessions
  <2> HIDE DEF b
  <2>4. t \in T!Sessions /\ T!SelectionIsCurrent(t) /\ SameAxes(b, t)
    BY <2>1, <2>2, RestoreSelectionFits DEF T!AxesAgree
  <2> QED
    BY <2>2, <2>3, <2>4
    DEF T!AxesAgree, SameAxes, T!PhaseHasItsCommand, T!DragKeepsItsCapture, T!NothingHeldUnready, T!Ready, T!Dragging
<1>10. CASE t \in T!FocusIn(s)
  <2> DEFINE m == T!Mode("RecoveryReady")
  <2>1. /\ s.lifecycle = "InteractiveReady"
        /\ t = [s EXCEPT !.focus = "Focused", !.capture = NoTool, !.mode = m]
    BY <1>10, Taken DEF T!FocusIn
  <2>2. m \in [at : T!Modes, tool : Tools \cup {NoTool}] /\ m.at # "DragActive"
    BY ModesFit DEF T!Modes
  <2> HIDE DEF m
  <2>3. /\ t \in T!Sessions /\ t.lifecycle = s.lifecycle /\ t.focus = "Focused"
        /\ t.mode = m /\ t.phase = s.phase
        /\ t.selection = s.selection /\ t.selectedIndex = s.selectedIndex
        /\ t.targets = s.targets /\ t.active = s.active /\ t.source = s.source
    BY <1>1, <2>1, <2>2 DEF T!Sessions
  <2>4. T!PhaseHasItsCommand(t) /\ T!DragKeepsItsCapture(t) /\ T!NothingHeldUnready(t)
    BY <2>1, <2>2, <2>3 DEF T!AxesAgree, T!PhaseHasItsCommand, T!DragKeepsItsCapture, T!NothingHeldUnready, T!Ready, T!Dragging
  <2> QED BY <2>3, <2>4, OtherAxesFit
<1>11. CASE t \in T!RecoveryCompleted(s)
  <2> DEFINE m == T!Mode(IF s.phase = "Idle" THEN "ModelessReady" ELSE "CommandModal")
  <2>1. T!Ready(s) /\ t = [s EXCEPT !.mode = m]
    BY <1>11, Taken DEF T!RecoveryCompleted
  <2>2. m \in [at : T!Modes, tool : Tools \cup {NoTool}] /\ m.at # "DragActive"
    BY ModesFit DEF T!Modes
  <2> HIDE DEF m
  <2>3. t = [s EXCEPT !.capture = s.capture, !.mode = m]
    BY <1>1, <2>1, Unmoved
  <2> QED BY <1>1, <2>1, <2>2, <2>3, ReadyFits
<1>12. CASE t \in T!FocusLost(s)
  <2> DEFINE b == [s EXCEPT !.focus = "FocusLost", !.capture = NoTool]
             c == T!RestoreSelection(b)
             d == IF c.phase \in T!Previews THEN [c EXCEPT !.phase = "Draft"] ELSE c
             e == T!CancelHistory(d)
  <2>1. t = T!ReleaseDrag(e)
    BY <1>12, Taken DEF T!FocusLost
  <2>2. /\ b \in T!Sessions /\ b.capture = NoTool
        /\ b.selection = s.selection /\ b.selectedIndex = s.selectedIndex
        /\ b.targets = s.targets /\ b.phase = s.phase
        /\ b.active = s.active /\ b.source = s.source
    BY <1>1 DEF T!Sessions
  <2> HIDE DEF b
  <2>3. T!SelectionIsCurrent(b)
    BY <1>1, <2>2, SelectionCarries
  <2>4. /\ c \in T!Sessions /\ T!SelectionIsCurrent(c) /\ SameAxes(b, c)
        /\ c.selection.kind # "Candidate"
    BY <2>2, <2>3, RestoreSelectionFits
  <2> HIDE DEF c
  <2>5. /\ d \in T!Sessions /\ d.capture = c.capture
        /\ d.selection = c.selection /\ d.selectedIndex = c.selectedIndex
        /\ d.targets = c.targets /\ d.active = c.active /\ d.source = c.source
        /\ d.phase \notin T!Previews /\ (d.phase = "Idle" <=> c.phase = "Idle")
    BY <2>4 DEF T!Sessions, T!Phases, T!Previews
  <2> HIDE DEF d
  <2>6. /\ e \in T!Sessions /\ e.history.at = "Linear" /\ e.capture = d.capture
        /\ e.selection = d.selection /\ e.selectedIndex = d.selectedIndex
        /\ e.targets = d.targets /\ e.phase = d.phase
        /\ e.active = d.active /\ e.source = d.source
    BY <2>5, CancelHistoryFits
  <2> HIDE DEF e
  <2>7. /\ t \in T!Sessions /\ ~T!Dragging(t) /\ t.capture = e.capture
        /\ t.selection = e.selection /\ t.selectedIndex = e.selectedIndex
        /\ t.targets = e.targets /\ t.phase = e.phase
        /\ t.active = e.active /\ t.source = e.source /\ t.history = e.history
    BY <2>1, <2>6, ReleaseDragFits
  <2>8. T!SelectionIsCurrent(t)
    BY <2>4, <2>5, <2>6, <2>7, SelectionCarries
  <2>9. T!PhaseHasItsCommand(t)
    BY <2>2, <2>4, <2>5, <2>6, <2>7 DEF T!AxesAgree, T!PhaseHasItsCommand, SameAxes
  <2>10. T!DragKeepsItsCapture(t) /\ T!NothingHeldUnready(t)
    BY <2>2, <2>4, <2>5, <2>6, <2>7 DEF T!DragKeepsItsCapture, T!NothingHeldUnready, T!Captured, SameAxes
  <2> QED BY <2>7, <2>8, <2>9, <2>10 DEF T!AxesAgree
<1> QED
  BY <1>4, <1>5, <1>6, <1>7, <1>8, <1>9, <1>10, <1>11, <1>12

\* A ready session with another selection of current targets, and its
\* timeline open or not.
LEMMA ReselectedFits ==
    ASSUME NEW s, T!AxesAgree(s), T!Ready(s), NEW t \in T!Sessions, T!SelectionIsCurrent(t),
           t.lifecycle = s.lifecycle, t.focus = s.focus, t.capture = s.capture,
           t.mode = s.mode, t.phase = s.phase, t.active = s.active, t.source = s.source
    PROVE  T!AxesAgree(t)
BY DEF T!AxesAgree, T!PhaseHasItsCommand, T!DragKeepsItsCapture, T!NothingHeldUnready, T!Ready, T!Dragging

LEMMA TimelineFits ==
    ASSUME NEW s \in T!Sessions, T!SelectionIsCurrent(s),
           NEW timeline \in [open : BOOLEAN, names : SUBSET Names]
    PROVE  LET t == [s EXCEPT !.timeline = timeline]
           IN  t \in T!Sessions /\ T!SelectionIsCurrent(t) /\ SameAxes(s, t)
<1> DEFINE t == [s EXCEPT !.timeline = timeline]
<1>1. /\ t \in T!Sessions /\ SameAxes(s, t)
      /\ t.selection = s.selection /\ t.selectedIndex = s.selectedIndex
      /\ t.targets = s.targets
  BY DEF T!Sessions, SameAxes
<1> HIDE DEF t
<1>2. T!SelectionIsCurrent(t)
  BY <1>1, SelectionCarries
<1> QED BY <1>1, <1>2 DEF t

LEMMA SelectionMovesFit ==
    ASSUME NEW s, T!AxesAgree(s), NEW t, NEW ids \in T!IdLists, NEW forward \in BOOLEAN,
           \/ t \in T!Nominate(s, ids) \cup T!VerifyExact(s, ids) \cup T!VerifyAmbiguous(s, ids)
           \/ t \in T!VerifyFailed(s) \cup T!Clear(s)
           \/ s.generation < MaxGeneration /\ t \in T!Press(s, forward)
    PROVE  T!AxesAgree(t)
<1>1. s \in T!Sessions /\ T!SelectionIsCurrent(s)
  BY DEF T!AxesAgree
<1>2. T!NoTimeline \in [open : BOOLEAN, names : SUBSET Names]
  BY DEF T!NoTimeline
<1>3. CASE t \in T!Nominate(s, ids) \cup T!VerifyAmbiguous(s, ids)
  <2>1. T!Ready(s) /\ t = T!Nominated(s, ids)
    BY <1>3, Taken DEF T!Nominate, T!VerifyAmbiguous
  <2>2. t \in T!Sessions /\ T!SelectionIsCurrent(t) /\ SameAxes(s, t)
    BY <1>1, <2>1, NominatedFits
  <2> QED BY <2>1, <2>2, ReselectedFits DEF SameAxes
<1>4. CASE t \in T!VerifyExact(s, ids)
  <2> DEFINE a == T!Select(s, ids)
  <2>1. /\ T!Ready(s) /\ T!Members(ids) \subseteq T!Members(s.targets)
        /\ t = [a EXCEPT !.timeline = T!NoTimeline]
    BY <1>4, Taken DEF T!VerifyExact, T!Authoritative
  <2>2. a \in T!Sessions /\ T!SelectionIsCurrent(a) /\ SameAxes(s, a)
    BY <1>1, <2>1, SelectFits
  <2> HIDE DEF a
  <2>3. t \in T!Sessions /\ T!SelectionIsCurrent(t) /\ SameAxes(a, t)
    BY <1>2, <2>1, <2>2, TimelineFits
  <2> QED BY <2>1, <2>2, <2>3, ReselectedFits DEF SameAxes
<1>5. CASE t \in T!VerifyFailed(s) \cup T!Clear(s)
  <2> DEFINE a == T!Deselect(s)
  <2>1. T!Ready(s) /\ t = [a EXCEPT !.timeline = T!NoTimeline]
    BY <1>5, Taken DEF T!VerifyFailed, T!Clear
  <2>2. a \in T!Sessions /\ T!SelectionIsCurrent(a) /\ SameAxes(s, a)
    BY <1>1, DeselectFits
  <2> HIDE DEF a
  <2>3. t \in T!Sessions /\ T!SelectionIsCurrent(t) /\ SameAxes(a, t)
    BY <1>2, <2>1, <2>2, TimelineFits
  <2> QED BY <2>1, <2>2, <2>3, ReselectedFits DEF SameAxes
<1>6. CASE s.generation < MaxGeneration /\ t \in T!Press(s, forward)
  <2> DEFINE last == Len(s.targets)
             at == s.selectedIndex
             next == IF at < last THEN at + 1 ELSE at
             previous == IF at > 1 THEN at - 1 ELSE at
             i == IF at = 0 /\ ~forward THEN last ELSE IF forward THEN next ELSE previous
             ids1 == <<s.targets[i]>>
             a == T!Select(s, ids1)
             b == [a EXCEPT !.timeline = T!NoTimeline]
  <2>1. /\ T!Ready(s) /\ last > 0
        /\ t = [a EXCEPT !.timeline = T!NoTimeline, !.generation = @ + 1]
    BY <1>6, Taken DEF T!Press
  <2>2. /\ s.targets \in Seq(Features) /\ last \in Nat
        /\ DOMAIN s.targets = 1..last /\ at \in Nat /\ at <= last
    BY <1>1, PositionInTargets, PartsAssumption DEF T!SessionAssumption, T!SelectionIsCurrent, T!Sessions
  <2>3. i \in 1..last
    <3>1. last \in Nat /\ at \in Nat /\ at <= last /\ last > 0
      BY <2>1, <2>2
    <3> HIDE DEF last, at
    <3>2. at # 0 => next \in 1..last
      BY <3>1
    <3>3. at # 0 => previous \in 1..last
      BY <3>1
    <3>4. at = 0 => next = 1
      BY <3>1
    <3> HIDE DEF next, previous
    <3> QED BY <3>1, <3>2, <3>3, <3>4
  <2>4. s.targets[i] \in Features /\ s.targets[i] \in T!Members(s.targets)
    BY <2>2, <2>3 DEF T!Members
  <2> HIDE DEF last, i
  <2>5. ids1 \in T!IdLists /\ T!Members(ids1) \subseteq T!Members(s.targets)
    <3>1. ids1 \in T!IdLists
      BY <2>4 DEF T!IdLists
    <3>2. DOMAIN ids1 = {1} /\ ids1[1] = s.targets[i]
      OBVIOUS
    <3> QED BY <2>4, <3>1, <3>2 DEF T!Members
  <2> HIDE DEF ids1
  <2>6. a \in T!Sessions /\ T!SelectionIsCurrent(a) /\ SameAxes(s, a)
    BY <1>1, <2>5, SelectFits
  <2> HIDE DEF a
  <2>7. b \in T!Sessions /\ T!SelectionIsCurrent(b) /\ SameAxes(a, b)
    BY <1>2, <2>6, TimelineFits
  <2>8. t = [b EXCEPT !.generation = a.generation + 1]
    BY <2>1, <2>6 DEF T!Sessions
  <2> HIDE DEF b
  <2>9. a.generation + 1 \in 0..MaxGeneration
    BY <1>1, <1>6, <2>6, PartsAssumption DEF T!SessionAssumption, T!Sessions, SameAxes
  <2>10. /\ t \in T!Sessions /\ t.lifecycle = b.lifecycle /\ t.focus = b.focus
         /\ t.capture = b.capture /\ t.mode = b.mode /\ t.phase = b.phase
         /\ t.selection = b.selection /\ t.selectedIndex = b.selectedIndex
         /\ t.targets = b.targets /\ t.active = b.active /\ t.source = b.source
    BY <2>7, <2>8, <2>9 DEF T!Sessions
  <2>11. T!SelectionIsCurrent(t)
    BY <2>7, <2>10, SelectionCarries
  <2> QED BY <2>1, <2>6, <2>7, <2>10, <2>11, ReselectedFits DEF SameAxes
<1> QED BY <1>3, <1>4, <1>5, <1>6

\* The host's graph replaces the targets, and a selection survives only if
\* every feature of it does.  The loop refreshes; a session alone does not.
LEMMA RefreshedFits ==
    ASSUME NEW s, T!AxesAgree(s), s.generation < MaxGeneration,
           NEW targets \in Graphs, NEW revision \in T!Revisions
    PROVE  T!AxesAgree(T!Refresh(s, targets, revision))
<1> DEFINE a == [s EXCEPT !.targets = targets, !.canonical = revision,
                          !.generation = @ + 1]
           prior == T!SelectedIds(s)
           t == T!Refresh(s, targets, revision)
<1>1. s.generation + 1 \in 0..MaxGeneration
  BY PartsAssumption DEF T!SessionAssumption, T!AxesAgree, T!Sessions
<1>2. /\ a \in T!Sessions /\ a.lifecycle = s.lifecycle /\ a.focus = s.focus
      /\ a.capture = s.capture /\ a.mode = s.mode /\ a.phase = s.phase
      /\ a.targets = targets /\ a.active = s.active /\ a.source = s.source
      /\ a.history = s.history
  BY <1>1 DEF T!AxesAgree, T!Sessions
<1>3. t = IF prior # <<>> /\ T!Members(prior) \subseteq T!Members(targets)
          THEN T!Select(a, prior) ELSE T!Deselect(a)
  BY DEF T!Refresh
<1> HIDE DEF a
<1>4. prior \in T!IdLists
  BY DEF T!AxesAgree, T!SelectedIds, T!Sessions, T!Selections
<1>5. /\ t \in T!Sessions /\ T!SelectionIsCurrent(t) /\ SameAxes(a, t)
      /\ t.selection.kind # "Candidate"
  <2>1. CASE prior # <<>> /\ T!Members(prior) \subseteq T!Members(targets)
    BY <1>2, <1>3, <1>4, <2>1, SelectFits
  <2>2. CASE ~(prior # <<>> /\ T!Members(prior) \subseteq T!Members(targets))
    BY <1>2, <1>3, <2>2, DeselectFits
  <2> QED BY <2>1, <2>2
<1> HIDE DEF t
<1>6. T!PhaseHasItsCommand(t) /\ T!DragKeepsItsCapture(t) /\ T!NothingHeldUnready(t)
  BY <1>2, <1>5
  DEF T!AxesAgree, SameAxes, T!PhaseHasItsCommand, T!DragKeepsItsCapture, T!NothingHeldUnready, T!Ready, T!Captured, T!Dragging
<1> QED BY <1>5, <1>6 DEF T!AxesAgree, t

\* A ready session moves to another phase of the same command.
LEMMA MoveFits ==
    ASSUME NEW s, T!AxesAgree(s), NEW from \in SUBSET T!Phases, "Idle" \notin from,
           NEW to \in T!Phases \ {"Idle"}, NEW t \in T!MoveTo(s, from, to)
    PROVE  T!AxesAgree(t)
<1>1. T!Ready(s) /\ s.phase \in from /\ t = [s EXCEPT !.phase = to]
  BY Taken DEF T!MoveTo
<1>2. /\ t \in T!Sessions /\ t.lifecycle = s.lifecycle /\ t.focus = s.focus
      /\ t.capture = s.capture /\ t.mode = s.mode /\ t.phase = to
      /\ t.selection = s.selection /\ t.selectedIndex = s.selectedIndex
      /\ t.targets = s.targets /\ t.active = s.active /\ t.source = s.source
  BY <1>1 DEF T!AxesAgree, T!Sessions
<1>3. T!PhaseHasItsCommand(t) /\ T!DragKeepsItsCapture(t) /\ T!NothingHeldUnready(t)
  BY <1>1, <1>2 DEF T!AxesAgree, T!PhaseHasItsCommand, T!DragKeepsItsCapture, T!NothingHeldUnready, T!Ready, T!Dragging
<1> QED BY <1>2, <1>3, OtherAxesFit

LEMMA CommandFits ==
    ASSUME NEW s, T!AxesAgree(s), NEW t, NEW command, NEW held,
           NEW source \in T!Revisions, NEW validated \in T!Revisions, NEW revision \in T!Revisions,
           \/ command \in Commands /\ t \in T!OpenCommand(s, command)
           \/ t \in T!StartDrag(s, held)
           \/ t \in T!DraftUpdated(s) \cup T!PreviewRequested(s) \cup T!PreviewReady(s)
           \/ t \in T!PreviewRejected(s) \cup T!CommitRequested(s) \cup T!CommitRejected(s)
           \/ t \in T!CancelRequested(s) \cup T!CancellationCompleted(s)
           \/ t \in T!CommitAccepted(s, source, validated, revision) \cup T!OutcomeDismissed(s)
    PROVE  T!AxesAgree(t)
<1>1. s \in T!Sessions /\ T!SelectionIsCurrent(s) /\ SameAxes(s, s)
  BY DEF T!AxesAgree, SameAxes
<1>2. CASE command \in Commands /\ t \in T!OpenCommand(s, command)
  <2> DEFINE m == T!Mode("CommandModal")
  <2>1. /\ T!Ready(s)
        /\ t = [s EXCEPT !.active = command, !.source = s.canonical, !.phase = "Draft",
                         !.mode = m]
    BY <1>2, Taken DEF T!OpenCommand
  <2>2. m \in [at : T!Modes, tool : Tools \cup {NoTool}] /\ m.at # "DragActive"
    BY ModesFit DEF T!Modes
  <2> HIDE DEF m
  <2>3. /\ t \in T!Sessions /\ t.lifecycle = s.lifecycle /\ t.focus = s.focus
        /\ t.mode = m /\ t.phase = "Draft" /\ t.active = command /\ t.source = s.canonical
        /\ t.selection = s.selection /\ t.selectedIndex = s.selectedIndex
        /\ t.targets = s.targets
    BY <1>1, <1>2, <2>1, <2>2 DEF T!Sessions, T!Phases
  <2>4. command # NoCommand /\ s.canonical # T!NoRevision
    BY <1>1, <1>2, PartsAssumption DEF T!SessionAssumption, T!Sessions, T!Revisions, T!NoRevision
  <2>5. T!PhaseHasItsCommand(t) /\ T!DragKeepsItsCapture(t) /\ T!NothingHeldUnready(t)
    BY <2>1, <2>2, <2>3, <2>4 DEF T!PhaseHasItsCommand, T!DragKeepsItsCapture, T!NothingHeldUnready, T!Ready, T!Dragging
  <2> QED BY <2>3, <2>5, OtherAxesFit
<1>3. CASE t \in T!StartDrag(s, held)
  <2>1. T!Ready(s) /\ s.capture = held /\ t = [s EXCEPT !.mode = T!Drag(held)]
    BY <1>3, Taken DEF T!StartDrag
  <2>2. t = [s EXCEPT !.mode = T!Drag(s.capture)]
    BY <2>1
  <2> QED BY <2>1, <2>2, DragBeginsFits
<1>4. CASE \/ t \in T!DraftUpdated(s) \cup T!PreviewRequested(s) \cup T!PreviewReady(s)
           \/ t \in T!PreviewRejected(s) \cup T!CommitRequested(s) \cup T!CommitRejected(s)
           \/ t \in T!CancelRequested(s) \cup T!CancellationCompleted(s)
  BY <1>4, MoveFits
  DEF T!DraftUpdated, T!PreviewRequested, T!PreviewReady, T!PreviewRejected, T!CommitRequested,
      T!CommitRejected, T!CancelRequested, T!CancellationCompleted, T!Phases, T!Previews, T!Outcomes
<1>5. CASE t \in T!CommitAccepted(s, source, validated, revision)
  <2>1. /\ T!Ready(s) /\ s.phase = "Committing"
        /\ t = [s EXCEPT !.canonical = revision, !.history = T!Linear(TRUE, FALSE),
                         !.phase = "Committed"]
    BY <1>5, Taken DEF T!CommitAccepted
  <2>2. /\ t \in T!Sessions /\ t.lifecycle = s.lifecycle /\ t.focus = s.focus
        /\ t.capture = s.capture /\ t.mode = s.mode /\ t.phase = "Committed"
        /\ t.selection = s.selection /\ t.selectedIndex = s.selectedIndex
        /\ t.targets = s.targets /\ t.active = s.active /\ t.source = s.source
    BY <1>1, <2>1 DEF T!Sessions, T!Phases, T!Outcomes, T!Linear
  <2>3. T!PhaseHasItsCommand(t) /\ T!DragKeepsItsCapture(t) /\ T!NothingHeldUnready(t)
    BY <2>1, <2>2 DEF T!AxesAgree, T!PhaseHasItsCommand, T!DragKeepsItsCapture, T!NothingHeldUnready, T!Ready, T!Dragging
  <2> QED BY <2>2, <2>3, OtherAxesFit
<1>6. CASE t \in T!OutcomeDismissed(s)
  <2>1. T!Ready(s) /\ t = T!CloseDraft(s)
    BY <1>6, Taken DEF T!OutcomeDismissed
  <2>2. /\ t \in T!Sessions /\ T!PhaseHasItsCommand(t) /\ ~T!Dragging(t)
        /\ t.lifecycle = s.lifecycle /\ t.focus = s.focus
        /\ t.selection = s.selection /\ t.selectedIndex = s.selectedIndex
        /\ t.targets = s.targets
    BY <1>1, <2>1, CloseDraftFits
  <2>3. T!DragKeepsItsCapture(t) /\ T!NothingHeldUnready(t)
    BY <2>1, <2>2 DEF T!DragKeepsItsCapture, T!NothingHeldUnready, T!Ready
  <2> QED BY <2>2, <2>3, OtherAxesFit
<1> QED BY <1>2, <1>3, <1>4, <1>5, <1>6

\* Events of the history axis: only a ready session applies, and no drag starts.
LEMMA HistoryFits ==
    ASSUME NEW s, T!AxesAgree(s), NEW t \in T!Sessions,
           t.lifecycle = s.lifecycle, t.focus = s.focus, t.capture = s.capture,
           t.selection = s.selection, t.selectedIndex = s.selectedIndex,
           t.targets = s.targets, t.phase = s.phase, t.active = s.active,
           t.source = s.source,
           T!Ready(s) \/ t.history.at = "Linear",
           t.mode = s.mode \/ t.mode.at # "DragActive"
    PROVE  T!AxesAgree(t)
<1>1. T!PhaseHasItsCommand(t) /\ T!DragKeepsItsCapture(t) /\ T!NothingHeldUnready(t)
  BY DEF T!AxesAgree, T!PhaseHasItsCommand, T!DragKeepsItsCapture, T!NothingHeldUnready, T!Ready, T!Captured, T!Dragging
<1> QED BY <1>1, OtherAxesFit

LEMMA LinearFits ==
    ASSUME NEW undo \in BOOLEAN, NEW redo \in BOOLEAN
    PROVE  /\ T!Linear(undo, redo) \in [at : {"Linear", "Applying"}, canUndo : BOOLEAN,
                                      canRedo : BOOLEAN]
           /\ T!Linear(undo, redo).at = "Linear"
BY DEF T!Linear

\* A request starts the application or is refused.
LEMMA RequestFits ==
    ASSUME NEW s, T!AxesAgree(s), NEW allowed, NEW t \in T!HistoryRequested(s, allowed)
    PROVE  T!AxesAgree(t) /\ T!Ready(t)
<1> DEFINE h == [s.history EXCEPT !.at = "Applying"]
           m == T!Mode("HistoryApplying")
<1>1. T!Ready(s) /\ t = T!Applying(s)
  BY Taken DEF T!HistoryRequested
<1>2. h \in [at : {"Linear", "Applying"}, canUndo : BOOLEAN, canRedo : BOOLEAN]
  BY DEF T!AxesAgree, T!Sessions
<1>3. m \in [at : T!Modes, tool : Tools \cup {NoTool}] /\ m.at # "DragActive"
  BY ModesFit DEF T!Modes
<1>4. t = [s EXCEPT !.history = h, !.mode = m]
  BY <1>1 DEF T!Applying, T!AxesAgree, T!Sessions
<1> HIDE DEF h, m
<1>5. /\ t \in T!Sessions /\ t.lifecycle = s.lifecycle /\ t.focus = s.focus
      /\ t.capture = s.capture /\ t.mode = m /\ t.phase = s.phase
      /\ t.selection = s.selection /\ t.selectedIndex = s.selectedIndex
      /\ t.targets = s.targets /\ t.active = s.active /\ t.source = s.source
  BY <1>2, <1>3, <1>4 DEF T!AxesAgree, T!Sessions
<1> QED BY <1>1, <1>3, <1>5, HistoryFits DEF T!Ready

LEMMA ApplyFits ==
    ASSUME NEW s, T!AxesAgree(s), NEW revision \in T!Revisions, NEW undo \in BOOLEAN,
           NEW redo \in BOOLEAN,
           NEW t \in T!ApplyRejected(s) \cup T!ApplyCompleted(s, revision, undo, redo)
    PROVE  T!AxesAgree(t)
<1> DEFINE m == T!Mode("ModelessReady")
           l == T!Linear(undo, redo)
           h == [s.history EXCEPT !.at = "Linear"]
<1>1. m \in [at : T!Modes, tool : Tools \cup {NoTool}] /\ m.at # "DragActive"
  BY ModesFit DEF T!Modes
<1>2. /\ l \in [at : {"Linear", "Applying"}, canUndo : BOOLEAN, canRedo : BOOLEAN]
      /\ h \in [at : {"Linear", "Applying"}, canUndo : BOOLEAN, canRedo : BOOLEAN]
      /\ l.at = "Linear" /\ h.at = "Linear"
  BY LinearFits DEF T!AxesAgree, T!Sessions
<1>3. T!NoTimeline \in [open : BOOLEAN, names : SUBSET Names]
  BY DEF T!NoTimeline
<1>4. CASE t \in T!ApplyRejected(s)
  <2>1. t = [s EXCEPT !.history.at = "Linear", !.mode = m]
    BY <1>4, Taken DEF T!ApplyRejected
  <2>2. t = [s EXCEPT !.history = h, !.mode = m]
    BY <2>1 DEF T!AxesAgree, T!Sessions
  <2> HIDE DEF m, h
  <2>3. /\ t \in T!Sessions /\ t.lifecycle = s.lifecycle /\ t.focus = s.focus
        /\ t.capture = s.capture /\ t.mode = m /\ t.phase = s.phase /\ t.history = h
        /\ t.selection = s.selection /\ t.selectedIndex = s.selectedIndex
        /\ t.targets = s.targets /\ t.active = s.active /\ t.source = s.source
    BY <1>1, <1>2, <2>2 DEF T!AxesAgree, T!Sessions
  <2> QED BY <1>1, <1>2, <2>3, HistoryFits
<1>5. CASE t \in T!ApplyCompleted(s, revision, undo, redo)
  <2>1. t = [s EXCEPT !.canonical = revision, !.history = l, !.mode = m,
                      !.timeline = T!NoTimeline]
    BY <1>5, Taken DEF T!ApplyCompleted
  <2> HIDE DEF m, l
  <2>2. /\ t \in T!Sessions /\ t.lifecycle = s.lifecycle /\ t.focus = s.focus
        /\ t.capture = s.capture /\ t.mode = m /\ t.phase = s.phase /\ t.history = l
        /\ t.selection = s.selection /\ t.selectedIndex = s.selectedIndex
        /\ t.targets = s.targets /\ t.active = s.active /\ t.source = s.source
    BY <1>1, <1>2, <1>3, <2>1 DEF T!AxesAgree, T!Sessions
  <2> QED BY <1>1, <1>2, <2>2, HistoryFits
<1> QED BY <1>4, <1>5

\* The host's availability, taken over before anything can fail.
LEMMA KnownFits ==
    ASSUME NEW s, T!AxesAgree(s), NEW undo \in BOOLEAN, NEW redo \in BOOLEAN
    PROVE  T!AxesAgree([s EXCEPT !.history = T!Linear(undo, redo)])
<1> DEFINE l == T!Linear(undo, redo)
           t == [s EXCEPT !.history = l]
<1>1. l \in [at : {"Linear", "Applying"}, canUndo : BOOLEAN, canRedo : BOOLEAN]
      /\ l.at = "Linear"
  BY LinearFits
<1> HIDE DEF l
<1>2. /\ t \in T!Sessions /\ t.lifecycle = s.lifecycle /\ t.focus = s.focus
      /\ t.capture = s.capture /\ t.mode = s.mode /\ t.phase = s.phase /\ t.history = l
      /\ t.selection = s.selection /\ t.selectedIndex = s.selectedIndex
      /\ t.targets = s.targets /\ t.active = s.active /\ t.source = s.source
  BY <1>1 DEF T!AxesAgree, T!Sessions
<1> HIDE DEF t
<1>3. T!AxesAgree(t)
  BY <1>1, <1>2, HistoryFits
<1> QED BY <1>3 DEF t, l

LEMMA HistoryCursorFits ==
    ASSUME NEW s, T!AxesAgree(s), NEW direction, NEW name, NEW revision \in T!Revisions,
           NEW before \in Availability, NEW after \in Availability,
           NEW t \in T!HistoryCursor(s, direction, name, revision, before, after)
    PROVE  T!AxesAgree(t)
<1> DEFINE known == [s EXCEPT !.history = T!Linear(before.undo, before.redo)]
           started == CASE direction = "Undo" -> T!Undo(known)
                        [] direction = "Redo" -> T!Redo(known)
                        [] OTHER              -> T!RestoreNamed(known, name)
           settled(u) == T!ApplyRejected(u)
                           \cup T!ApplyCompleted(u, revision, after.undo, after.redo)
<1>1. t = known \/ t \in started \/ t \in UNION {settled(u) : u \in started}
  BY DEF T!HistoryCursor
<1>2. T!AxesAgree(known)
  BY KnownFits DEF Availability
<1> HIDE DEF known
<1>3. ASSUME NEW u \in started PROVE T!AxesAgree(u)
  <2>1. u \in T!Undo(known) \/ u \in T!Redo(known) \/ u \in T!RestoreNamed(known, name)
    BY <1>3
  <2>2. \E allowed : u \in T!HistoryRequested(known, allowed)
    BY <2>1 DEF T!Undo, T!Redo, T!RestoreNamed
  <2> QED BY <1>2, <2>2, RequestFits
<1> HIDE DEF started
<1>4. ASSUME NEW u \in started, t \in settled(u) PROVE T!AxesAgree(t)
  <2>1. T!AxesAgree(u)
    BY <1>3
  <2> QED BY <1>4, <2>1, ApplyFits DEF Availability
<1> QED BY <1>1, <1>2, <1>3, <1>4

LEMMA HistoryMovesFit ==
    ASSUME T!AxesAgree(tui), HistoryMoves
    PROVE  T!AxesAgree(tui')
<1>1. CASE Becomes(T!Undo(tui)) \/ Becomes(T!Redo(tui)) \/ \E n \in Names : Becomes(T!RestoreNamed(tui, n))
  <2>1. \E allowed : tui' \in T!HistoryRequested(tui, allowed)
    BY <1>1 DEF Becomes, T!Undo, T!Redo, T!RestoreNamed
  <2> QED BY <2>1, RequestFits
<1>2. CASE \/ Becomes(T!ApplyRejected(tui))
           \/ \E revision \in T!Revisions, undo, redo \in BOOLEAN :
                Becomes(T!ApplyCompleted(tui, revision, undo, redo))
  <2>1. 1 \in T!Revisions
    BY PartsAssumption DEF T!SessionAssumption, T!Revisions
  <2> QED BY <1>2, <2>1, ApplyFits DEF Becomes
<1>3. CASE \E revision \in T!Revisions, n \in Names : Becomes(T!DivergentCommit(tui, revision, n))
  <2> DEFINE l == T!Linear(TRUE, FALSE)
  <2>1. PICK revision \in T!Revisions, n \in Names : tui' \in T!DivergentCommit(tui, revision, n)
    BY <1>3 DEF Becomes
  <2>2. tui' = [tui EXCEPT !.canonical = revision, !.recoverable = @ \cup {n}, !.history = l]
    BY <2>1, Taken DEF T!DivergentCommit
  <2>3. l \in [at : {"Linear", "Applying"}, canUndo : BOOLEAN, canRedo : BOOLEAN]
        /\ l.at = "Linear"
    BY LinearFits
  <2> HIDE DEF l
  <2>4. /\ tui' \in T!Sessions /\ tui'.lifecycle = tui.lifecycle /\ tui'.focus = tui.focus
        /\ tui'.capture = tui.capture /\ tui'.mode = tui.mode /\ tui'.phase = tui.phase
        /\ tui'.history = l /\ tui'.selection = tui.selection
        /\ tui'.selectedIndex = tui.selectedIndex /\ tui'.targets = tui.targets
        /\ tui'.active = tui.active /\ tui'.source = tui.source
    BY <2>2, <2>3 DEF T!AxesAgree, T!Sessions
  <2> QED BY <2>3, <2>4, HistoryFits
<1>4. CASE \E names \in SUBSET Names : Becomes(T!ShowTimeline(tui, names))
  <2>1. PICK names \in SUBSET Names : tui' \in T!ShowTimeline(tui, names)
    BY <1>4 DEF Becomes
  <2> DEFINE line == [open |-> TRUE, names |-> names]
  <2>2. tui' = [tui EXCEPT !.timeline = line] /\ line \in [open : BOOLEAN, names : SUBSET Names]
    BY <2>1, Taken DEF T!ShowTimeline
  <2> HIDE DEF line
  <2>3. /\ tui' \in T!Sessions /\ tui'.lifecycle = tui.lifecycle /\ tui'.focus = tui.focus
        /\ tui'.capture = tui.capture /\ tui'.mode = tui.mode /\ tui'.phase = tui.phase
        /\ tui'.history = tui.history /\ tui'.selection = tui.selection
        /\ tui'.selectedIndex = tui.selectedIndex /\ tui'.targets = tui.targets
        /\ tui'.active = tui.active /\ tui'.source = tui.source
    BY <2>2 DEF T!AxesAgree, T!Sessions
  <2> QED BY <2>3, HistoryFits DEF T!AxesAgree, T!NothingHeldUnready
<1>5. CASE \E n \in Names, revision \in T!Revisions : Becomes(T!RestoreTimeline(tui, n, revision))
  <2>1. PICK n \in Names, revision \in T!Revisions : tui' \in T!RestoreTimeline(tui, n, revision)
    BY <1>5 DEF Becomes
  <2>2. PICK u \in T!RestoreNamed(tui, n) :
          tui' \in T!ApplyRejected(u) \cup T!ApplyCompleted(u, revision, TRUE, FALSE)
    BY <2>1 DEF T!RestoreTimeline
  <2>3. T!AxesAgree(u)
    BY <2>2, RequestFits DEF T!RestoreNamed
  <2> QED BY <2>2, <2>3, ApplyFits
<1>6. CASE Becomes(UNION {T!HistoryCursor(tui, direction, n, revision, before, after) :
                      direction \in {"Undo", "Redo", "Named"}, n \in Names,
                      revision \in T!Revisions, before, after \in Availability})
  <2>1. PICK direction \in {"Undo", "Redo", "Named"}, n \in Names,
             revision \in T!Revisions, before \in Availability, after \in Availability :
          tui' \in T!HistoryCursor(tui, direction, n, revision, before, after)
    BY <1>6 DEF Becomes
  <2> QED BY <2>1, HistoryCursorFits
<1> QED BY <1>1, <1>2, <1>3, <1>4, <1>5, <1>6 DEF HistoryMoves

\* Every event of the session keeps the agreements of AxesAgree.
LEMMA SessionStepFits ==
    ASSUME T!AxesAgree(tui), SessionEvent
    PROVE  T!AxesAgree(tui')
<1>1. <<>> \in T!IdLists /\ 1 \in T!Revisions /\ TRUE \in BOOLEAN
  BY PartsAssumption DEF T!SessionAssumption, T!IdLists, T!Revisions
<1>2. CASE Lifecycle
  BY <1>2, LifecycleFits DEF Lifecycle, Bumps, Becomes
<1>3. CASE FocusCapture
  <2>1. CASE \E held \in Tools, ids \in T!IdLists : tui' \in T!PointerPressed(tui, held, ids)
    BY <2>1, FocusCaptureFits
  <2>2. CASE \E ids \in T!IdLists : tui' \in T!PointerMoved(tui, ids)
    BY <2>2, FocusCaptureFits
  <2>3. CASE \/ tui' \in T!DragStarted(tui) \cup T!DragFinished(tui) \cup T!PointerReleased(tui)
             \/ tui' \in T!FocusLost(tui) \cup T!FocusIn(tui) \cup T!RecoveryCompleted(tui)
             \/ tui' \in T!CaptureCancelled(tui)
    BY <1>1, <2>3, FocusCaptureFits
  <2> QED BY <1>3, <2>1, <2>2, <2>3 DEF FocusCapture, Becomes
<1>4. CASE Selection
  <2>1. \E ids \in T!IdLists, forward \in BOOLEAN :
          \/ tui' \in T!Nominate(tui, ids) \cup T!VerifyExact(tui, ids)
                      \cup T!VerifyAmbiguous(tui, ids)
          \/ tui' \in T!VerifyFailed(tui) \cup T!Clear(tui)
          \/ tui.generation < MaxGeneration /\ tui' \in T!Press(tui, forward)
    BY <1>1, <1>4 DEF Selection, Bumps, Becomes
  <2> QED BY <2>1, SelectionMovesFit
<1>5. CASE Command
  <2>1. \E command, held :
        \E source, validated, revision \in T!Revisions :
          \/ command \in Commands /\ tui' \in T!OpenCommand(tui, command)
          \/ tui' \in T!StartDrag(tui, held)
          \/ tui' \in T!DraftUpdated(tui) \cup T!PreviewRequested(tui) \cup T!PreviewReady(tui)
          \/ tui' \in T!PreviewRejected(tui) \cup T!CommitRequested(tui) \cup T!CommitRejected(tui)
          \/ tui' \in T!CancelRequested(tui) \cup T!CancellationCompleted(tui)
          \/ tui' \in T!CommitAccepted(tui, source, validated, revision)
                      \cup T!OutcomeDismissed(tui)
    BY <1>1, <1>5 DEF Command, Becomes
  <2> QED BY <2>1, CommandFits
<1>6. CASE HistoryMoves
  BY <1>6, HistoryMovesFit
<1> QED BY <1>2, <1>3, <1>4, <1>5, <1>6 DEF SessionEvent

LEMMA SessionStarts ==
    ASSUME NEW targets \in Graphs, NEW revision \in T!Revisions
    PROVE  T!AxesAgree(T!NewSession(targets, revision))
<1>1. PICK s : s = T!NewSession(targets, revision)
  OBVIOUS
<1> DEFINE m == T!Mode("ModelessReady")
           h == T!Linear(FALSE, FALSE)
<1>2. m \in [at : T!Modes, tool : Tools \cup {NoTool}] /\ m.at # "DragActive"
  BY ModesFit DEF T!Modes
<1>3. h \in [at : {"Linear", "Applying"}, canUndo : BOOLEAN, canRedo : BOOLEAN]
  BY LinearFits
<1>4. 0 \in 0..MaxGeneration /\ T!NoTimeline \in [open : BOOLEAN, names : SUBSET Names]
  BY PartsAssumption DEF T!SessionAssumption, T!NoTimeline
<1> HIDE DEF m, h
<1>5. /\ s \in T!Sessions /\ s.phase = "Idle" /\ s.active = NoCommand
      /\ s.source = T!NoRevision /\ s.mode = m /\ T!Ready(s)
      /\ s.selection = T!NoSelection /\ s.selectedIndex = 0
  BY <1>1, <1>2, <1>3, <1>4, NoneSelected
  DEF T!NewSession, T!Sessions, T!Lifecycles, T!Phases, T!Ready, m, h
<1>6. T!SelectionIsCurrent(s)
  BY <1>5, NoneSelected DEF T!SelectionIsCurrent, T!SelectedIds
<1> QED
  BY <1>1, <1>2, <1>5, <1>6 DEF T!AxesAgree, T!PhaseHasItsCommand, T!DragKeepsItsCapture, T!NothingHeldUnready, T!Dragging

\* No event leaves a command phase without its command, a drag without its
\* capture, a selection of a target that is gone, or what a blur, a resize or a
\* close has ended.
THEOREM TheAxesAgree == TerminalSpec => []AxesAgree
<1>1. TerminalInit => AxesAgree
  BY SessionStarts DEF TerminalInit, NewSessionStarts, AxesAgree
<1>2. AxesAgree /\ [TerminalNext]_<<tui, render, machine>> => AxesAgree'
  <2> SUFFICES ASSUME T!AxesAgree(tui), [TerminalNext]_<<tui, render, machine>>
               PROVE  T!AxesAgree(tui')
    BY DEF AxesAgree
  <2>1. CASE tui' = tui
    BY <2>1
  <2>2. CASE SessionEvent
    BY <2>2, SessionStepFits
  <2> QED BY <2>1, <2>2 DEF TerminalNext, SessionMoves, RendererMoves
<1> QED BY <1>1, <1>2, PTL DEF TerminalSpec
=============================================================================
