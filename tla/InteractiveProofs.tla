-------------------------- MODULE InteractiveProofs --------------------------
(***************************************************************************)
(* Proofs about the event loop, for any graphs, tools, commands and        *)
(* inputs: what is drawn is the scene, what is previewed is the draft,     *)
(* what is published was previewed, and the state machine, the attachment, *)
(* the scene and the draft agree whenever an input has been handled.       *)
(*                                                                         *)
(* The first three depend on nothing the state machine answers, so that    *)
(* its events are any set of sessions there; of the renderer it matters    *)
(* what a call does to the two frames on their way. The last one takes the *)
(* events and the calls one by one, from the lemmas of TerminalProofs.     *)
(***************************************************************************)
EXTENDS Interactive, TerminalProofs

-----------------------------------------------------------------------------
(* The frames on their way *)

HasFrames(x) == "inFlight" \in DOMAIN x /\ "pending" \in DOMAIN x

\* The frame in flight and the one after it show the scene.
Show(x, scene) ==
  /\ HasFrames(x)
  /\ \A s \in {x.inFlight, x.pending} \ {NoFrame} : s.frame.scene = scene
  /\ x.pending # NoFrame => x.inFlight # NoFrame /\ "frame" \in DOMAIN x.pending

Resting(x) ==
  HasFrames(x) /\ x.inFlight = NoFrame /\ x.pending = NoFrame

LEMMA RestingShows == ASSUME NEW x, NEW scene, Resting(x) PROVE Show(x, scene)
BY DEF Resting, Show, HasFrames

\* Taking the image off the terminal is no concern of the frames.
SameFrames(x, y) ==
  HasFrames(y) /\ y.inFlight = x.inFlight /\ y.pending = x.pending

LEMMA OtherFieldsKeepFrames ==
    ASSUME NEW x, HasFrames(x)
    PROVE  /\ SameFrames(x, x)
           /\ \A v : /\ SameFrames(x, [x EXCEPT !.valid = v])
                     /\ SameFrames(x, [x EXCEPT !.open = v])
                     /\ SameFrames(x, [x EXCEPT !.images = v])
                     /\ SameFrames(x, [x EXCEPT !.active = v])
                     /\ SameFrames(x, [x EXCEPT !.cleaned = v])
                     /\ SameFrames(x, [x EXCEPT !.nextToken = v])
                     /\ SameFrames(x, [x EXCEPT !.dropped = v])
                     /\ SameFrames(x, [x EXCEPT !.answered = v])
                     /\ SameFrames(x, [x EXCEPT !.replies = v])
                     /\ SameFrames(x, [x EXCEPT !.nextImage = v])
BY DEF HasFrames, SameFrames

LEMMA DeletionKeepsFrames ==
    ASSUME NEW x, HasFrames(x),
           NEW s \in R!CancelImage(x) \cup R!CleanRenderer(x) \cup R!DeleteActive(x)
    PROVE  SameFrames(x, s.to)
<1>1. CASE \E submission : s \in R!DeleteImage(x, submission)
  <2>1. PICK submission : s \in R!DeleteImage(x, submission)
    BY <1>1
  <2>2. \/ s.to = [x EXCEPT !.images = x.images \ {submission.image}]
        \/ s.to = [x EXCEPT !.open = FALSE]
    BY <2>1, ResultOf DEF R!DeleteImage
  <2>3. HasFrames(s.to) /\ s.to.inFlight = x.inFlight /\ s.to.pending = x.pending
    BY <2>2 DEF HasFrames
  <2> QED BY <2>3 DEF SameFrames
<1>2. CASE s \in R!CancelImage(x)
  BY <1>1, <1>2, ResultOf, OtherFieldsKeepFrames DEF R!CancelImage
<1>3. CASE s \in R!CleanRenderer(x)
  <2> DEFINE closed == [x EXCEPT !.open = FALSE]
             deleted == [closed EXCEPT !.active = NoFrame,
                           !.images = IF x.active = NoFrame THEN @ ELSE @ \ {x.active.image}]
             done == [deleted EXCEPT !.cleaned = TRUE]
  <2>1. s.to \in {x, closed, deleted, done}
    BY <1>3, ResultOf DEF R!CleanRenderer
  <2>2. \A y \in {closed, deleted, done} : SameFrames(x, y)
    BY DEF HasFrames, SameFrames
  <2> QED BY <2>1, <2>2, OtherFieldsKeepFrames
<1>4. CASE s \in R!DeleteActive(x)
  BY <1>1, <1>4, ResultOf, OtherFieldsKeepFrames DEF R!DeleteActive
<1> QED BY <1>2, <1>3, <1>4

LEMMA BrokenRests ==
    ASSUME NEW x, HasFrames(x), NEW s \in R!Broken(x)
    PROVE  Resting(s.to) /\ ~s.ok
<1> DEFINE lost == [x EXCEPT !.valid = FALSE]
<1>1. HasFrames(lost)
  BY OtherFieldsKeepFrames DEF SameFrames
<1>2. PICK d \in R!CancelImage(lost) :
        \E c \in R!CleanRenderer(d.to) : s = R!Fails(R!Forget(c.to))
  BY DEF R!Broken, R!Invalidate
<1> HIDE DEF lost
<1>3. HasFrames(d.to)
  BY <1>1, DeletionKeepsFrames DEF SameFrames
<1>4. PICK c \in R!CleanRenderer(d.to) : s = R!Fails(R!Forget(c.to))
  BY <1>2
<1>5. HasFrames(c.to)
  BY <1>3, DeletionKeepsFrames DEF SameFrames
<1>6. Resting(R!Forget(c.to))
  BY <1>5 DEF R!Forget, Resting, HasFrames
<1> QED BY <1>4, <1>6, ResultOf

\* A frame that starts is the only one on its way, or none is.
LEMMA StartShows ==
    ASSUME NEW x, Resting(x), NEW scene, NEW submission, "frame" \in DOMAIN submission,
           submission.frame.scene = scene, NEW s \in R!OrBroken(R!Start(x, submission))
    PROVE  Show(s.to, scene)
<1>1. ASSUME NEW y, Resting(y), NEW t \in R!Draw(y, submission)
      PROVE  /\ HasFrames(t.to)
             /\ t.ok => Show(t.to, scene)
  <2> DEFINE drawn == [submission EXCEPT !.image = y.nextImage]
  <2>1. drawn.frame = submission.frame
    OBVIOUS
  <2>2. CASE t = R!Fails([y EXCEPT !.nextImage = @ + 1, !.open = FALSE])
    <3>1. t.to = [y EXCEPT !.nextImage = @ + 1, !.open = FALSE] /\ ~t.ok
      BY <2>2, ResultOf
    <3> QED BY <3>1, <1>1 DEF Resting, HasFrames
  <2>3. CASE t = R!Done([y EXCEPT !.active = drawn, !.inFlight = drawn, !.nextImage = @ + 1,
                     !.images = @ \cup {drawn.image},
                     !.replies = Append(@, drawn.image)])
    <3> DEFINE after == [y EXCEPT !.active = drawn, !.inFlight = drawn, !.nextImage = @ + 1,
                     !.images = @ \cup {drawn.image},
                     !.replies = Append(@, drawn.image)]
    <3>1. t.to = after
      BY <2>3, ResultOf
    <3>2. after.inFlight = drawn /\ after.pending = NoFrame /\ HasFrames(after)
      BY <1>1 DEF Resting, HasFrames
    <3> QED BY <3>1, <3>2, <2>1 DEF Show
  <2> QED BY <1>1, <2>2, <2>3 DEF R!Draw
<1>2. ASSUME NEW t \in R!Start(x, submission)
      PROVE  /\ HasFrames(t.to)
             /\ t.ok => Show(t.to, scene)
  <2> DEFINE after(d) == IF d.ok THEN R!Draw(d.to, submission) ELSE {d}
             results == IF x.open THEN {R!Fails(x)} \cup UNION {after(d) : d \in R!DeleteActive(x)}
                        ELSE {R!Fails(x)}
  <2>1. t \in {IF u.ok THEN u ELSE R!Fails([u.to EXCEPT !.valid = FALSE]) : u \in results}
    BY <1>2 DEF R!Start
  <2>2. \A u \in results :
          \/ u = R!Fails(x)
          \/ \E d \in R!DeleteActive(x) :
                IF d.ok THEN u \in R!Draw(d.to, submission) ELSE u = d
    OBVIOUS
  <2> HIDE DEF results
  <2>3. PICK u : /\ t = IF u.ok THEN u ELSE R!Fails([u.to EXCEPT !.valid = FALSE])
                 /\ \/ u = R!Fails(x)
                    \/ \E d \in R!DeleteActive(x) :
                          IF d.ok THEN u \in R!Draw(d.to, submission) ELSE u = d
    BY <2>1, <2>2
  <2>4. /\ HasFrames(u.to)
        /\ u.ok => Show(u.to, scene)
    <3>1. CASE u = R!Fails(x)
      BY <3>1, ResultOf DEF Resting
    <3>2. ASSUME NEW d \in R!DeleteActive(x),
                 IF d.ok THEN u \in R!Draw(d.to, submission) ELSE u = d
          PROVE  /\ HasFrames(u.to)
                 /\ u.ok => Show(u.to, scene)
      <4>1. Resting(d.to)
        BY DeletionKeepsFrames DEF Resting, SameFrames
      <4> QED BY <1>1, <3>2, <4>1 DEF Resting
    <3> QED BY <2>3, <3>1, <3>2
  <2>5. CASE ~u.ok
    <3>1. t.to = [u.to EXCEPT !.valid = FALSE] /\ ~t.ok
      BY <2>3, <2>5, ResultOf
    <3> QED BY <2>4, <3>1, OtherFieldsKeepFrames DEF SameFrames
  <2> QED BY <2>3, <2>4, <2>5
<1>3. PICK t \in R!Start(x, submission) : IF t.ok THEN s = t ELSE s \in R!Broken(t.to)
  BY DEF R!OrBroken
<1> QED BY <1>2, <1>3, BrokenRests, RestingShows

\* A frame of the scene joins the ones on their way.
LEMMA SubmitShows ==
    ASSUME NEW x, NEW frame, Show(x, frame.scene), NEW s \in R!Submit(x, frame)
    PROVE  Show(s.to, frame.scene)
<1> DEFINE token == x.nextToken + 1
           next == [x EXCEPT !.nextToken = token]
           submission == [token |-> token, image |-> 0, frame |-> frame, cancelled |-> FALSE]
           replaced == IF x.pending = NoFrame THEN {} ELSE {x.pending.token}
           waiting == [next EXCEPT !.pending = submission, !.dropped = @ \cup replaced]
<1>0. HasFrames(x)
  BY DEF Show
<1>1. CASE s = R!Fails(x)
  BY <1>1, ResultOf
<1>2. CASE s = R!Done([next EXCEPT !.dropped = @ \cup {token}])
  <2> DEFINE dropping == [next EXCEPT !.dropped = @ \cup {token}]
  <2>1. dropping.inFlight = x.inFlight /\ dropping.pending = x.pending /\ HasFrames(dropping)
    BY <1>0 DEF HasFrames
  <2>2. s.to = dropping
    BY <1>2, ResultOf
  <2> QED BY <2>1, <2>2 DEF Show
<1>3. CASE s = R!Done(waiting) /\ x.inFlight # NoFrame
  <2>1. /\ waiting.pending = submission /\ waiting.inFlight = x.inFlight
        /\ HasFrames(waiting)
    BY <1>0 DEF HasFrames
  <2>2. "frame" \in DOMAIN submission /\ submission.frame.scene = frame.scene
    OBVIOUS
  <2>3. s.to = waiting
    BY <1>3, ResultOf
  <2> HIDE DEF waiting, submission
  <2> QED BY <1>3, <2>1, <2>2, <2>3 DEF Show
<1>4. CASE s \in R!OrBroken(R!Start(next, submission)) /\ x.inFlight = NoFrame
  <2>1. Resting(next)
    BY <1>0, <1>4, OtherFieldsKeepFrames DEF Show, Resting, SameFrames
  <2>2. "frame" \in DOMAIN submission /\ submission.frame.scene = frame.scene
    OBVIOUS
  <2> QED BY <1>4, <2>1, <2>2, StartShows
<1> QED BY <1>1, <1>2, <1>3, <1>4 DEF R!Submit, R!Current

\* An answer makes the pending frame the one in flight, or ends both.
LEMMA AnswerShows ==
    ASSUME NEW x, NEW scene, Show(x, scene), NEW s \in R!Answer(x)
    PROVE  Show(s.to, scene)
<1> DEFINE told == [x EXCEPT !.replies = Tail(@), !.answered = @ \cup {Head(x.replies)}]
           shut == [told EXCEPT !.open = FALSE]
           answered == [told EXCEPT !.inFlight = NoFrame, !.pending = NoFrame]
           shown == [answered EXCEPT !.visible = told.inFlight]
<1>1. HasFrames(x)
  BY DEF Show
<1>2. SameFrames(x, told)
  BY <1>1 DEF SameFrames, HasFrames
<1>3. HasFrames(told)
  BY <1>2 DEF SameFrames
<1>4. HasFrames(shut)
  BY <1>3, OtherFieldsKeepFrames DEF SameFrames
<1>5. Resting(answered) /\ Resting(shown)
  BY <1>3 DEF HasFrames, Resting
<1>6. \/ s \in R!Broken(told) \cup R!Broken(shut)
      \/ s \in {R!Done(answered), R!Done(shown)}
      \/ told.pending # NoFrame /\ s \in R!OrBroken(R!Start(shown, told.pending))
  BY DEF R!Answer, R!Acknowledge
<1> HIDE DEF shut, answered, shown
<1>7. CASE s \in R!Broken(told) \cup R!Broken(shut)
  BY <1>3, <1>4, <1>7, BrokenRests, RestingShows
<1>8. CASE s \in {R!Done(answered), R!Done(shown)}
  BY <1>5, <1>8, ResultOf, RestingShows
<1>9. CASE told.pending # NoFrame /\ s \in R!OrBroken(R!Start(shown, told.pending))
  <2>1. "frame" \in DOMAIN told.pending /\ told.pending.frame.scene = scene
    BY <1>2, <1>9 DEF Show, SameFrames
  <2> QED BY <1>5, <1>9, <2>1, StartShows
<1> QED BY <1>6, <1>7, <1>8, <1>9

-----------------------------------------------------------------------------
(* The session between inputs and inside a handler *)

Fields == {"session", "tui", "render", "palette", "draft", "canonical", "scene",
           "validated", "loaded", "disk"}

IsSession(a) ==
  /\ Fields \subseteq DOMAIN a
  /\ {"command", "source", "input", "preview"} \subseteq DOMAIN a.draft

\* What holds until the end: a preview is of the draft's input, and the
\* canonical scene has none.
Sound(a) ==
  /\ IsSession(a)
  /\ a.session = "running"
  /\ a.canonical.preview = <<>>
  /\ a.draft.preview # <<>> => a.draft.preview = <<a.draft.input>>

\* What is shown of the draft, and that a palette and a draft exclude each other.
ShowsDraft(a) ==
  /\ a.scene.preview # <<>> => a.scene.preview = a.draft.preview
  /\ Solid(a) => a.scene.preview = a.draft.preview
  /\ ~Drafting(a) => a.draft.preview = <<>>
  /\ a.palette => ~Drafting(a)

Settled(a) == Sound(a) /\ ShowsDraft(a) /\ Show(a.render, a.scene)

\* Nothing but the state machine and the attachment is different.
Same(a, b) ==
  /\ IsSession(b)
  /\ b.session = a.session /\ b.palette = a.palette /\ b.draft = a.draft
  /\ b.canonical = a.canonical /\ b.scene = a.scene
  /\ b.loaded = a.loaded /\ b.disk = a.disk

\* What a handler may answer: as long as the session runs it is settled.
Handled(r) == Sound(r.to) /\ (r.session = "running" => Settled(r.to))

\* The revision a commit leaves on disk is of a draft that was current, and is
\* the one after the draft's if it was fenced.
OfTheDraft(a, disk) ==
  /\ a.draft.source = a.disk
  /\ Fenced(a) => disk = a.draft.source + 1

LEMMA AnsweredOf ==
    ASSUME NEW a, NEW session
    PROVE  /\ Answered(a, session).to = a /\ Answered(a, session).session = session
           /\ Done(a) = Answered(a, "running") /\ Fails(a) = Answered(a, "failed")
BY DEF Answered, Done, Fails

LEMMA SameIsSound ==
    ASSUME NEW a, NEW b, Same(a, b), Sound(a)
    PROVE  /\ Sound(b)
           /\ ShowsDraft(a) => ShowsDraft(b)
           /\ Drafting(b) = Drafting(a) /\ Solid(b) = Solid(a) /\ Transient(b) = Transient(a)
BY DEF Same, Sound, ShowsDraft, Drafting, Solid, Transient

LEMMA TuiIsAside ==
    ASSUME NEW a, IsSession(a), NEW t
    PROVE  Same(a, [a EXCEPT !.tui = t]) /\ [a EXCEPT !.tui = t].render = a.render
BY DEF IsSession, Fields, Same

LEMMA RenderIsAside ==
    ASSUME NEW a, IsSession(a), NEW x
    PROVE  Same(a, [a EXCEPT !.render = x]) /\ [a EXCEPT !.render = x].render = x
BY DEF IsSession, Fields, Same

LEMMA EventKeeps ==
    ASSUME NEW a, IsSession(a), NEW sessions, NEW r \in Event(a, sessions)
    PROVE  /\ Same(a, r.to) /\ r.to.render = a.render
           /\ r.session \in {"running", "failed"}
<1>1. CASE r = Fails(a)
  BY <1>1, AnsweredOf DEF Same
<1>2. ASSUME NEW s, r = Done([a EXCEPT !.tui = s])
      PROVE  /\ Same(a, r.to) /\ r.to.render = a.render
             /\ r.session \in {"running", "failed"}
  <2>1. r.to = [a EXCEPT !.tui = s] /\ r.session = "running"
    BY <1>2, AnsweredOf
  <2> QED BY <2>1, TuiIsAside
<1> QED BY <1>1, <1>2 DEF Event

LEMMA RenderKeeps ==
    ASSUME NEW a, IsSession(a), NEW r \in Render(a)
    PROVE  /\ Same(a, r.to)
           /\ Show(a.render, a.scene) => Show(r.to.render, r.to.scene)
           /\ r.session \in {"running", "lost"}
<1> DEFINE frame == [generation |-> a.tui.generation, scene |-> a.scene]
<1>1. PICK s \in R!Submit(a.render, frame) : r = OnTerminal(a, s)
  BY DEF Render
<1>2. r.to = [a EXCEPT !.render = s.to] /\ r.session \in {"running", "lost"}
  BY <1>1, AnsweredOf DEF OnTerminal
<1>3. frame.scene = a.scene
  OBVIOUS
<1> HIDE DEF frame
<1>4. Show(a.render, a.scene) => Show(s.to, a.scene)
  BY <1>1, <1>3, SubmitShows
<1> QED BY <1>2, <1>4, RenderIsAside DEF Same

LEMMA BumpKeeps ==
    ASSUME NEW a, IsSession(a)
    PROVE  Same(a, Bump(a)) /\ Bump(a).render = a.render
BY DEF Bump, IsSession, Fields, Same

LEMMA SameIsSettled ==
    ASSUME NEW a, Settled(a), NEW b, Same(a, b),
           b.render = a.render \/ Show(b.render, b.scene)
    PROVE  Settled(b)
BY SameIsSound DEF Settled, Same

\* A transition of a settled session, and a frame of its scene, leave it settled.
LEMMA EventFits ==
    ASSUME NEW a, Settled(a), NEW sessions, NEW r \in Event(a, sessions)
    PROVE  Handled(r) /\ Same(a, r.to) /\ r.to.render = a.render
BY EventKeeps, SameIsSound, SameIsSettled DEF Settled, Sound, Handled

LEMMA RedrawFits ==
    ASSUME NEW a, Settled(a), NEW r \in Render(a) \cup Render(Bump(a)) \cup {Done(a)}
    PROVE  Handled(r) /\ Same(a, r.to) /\ Settled(r.to)
<1>1. IsSession(a) /\ Show(a.render, a.scene) /\ Sound(a)
  BY DEF Settled, Sound
<1>2. CASE r \in Render(a)
  BY <1>1, <1>2, RenderKeeps, SameIsSound, SameIsSettled DEF Handled
<1>3. CASE r \in Render(Bump(a))
  <2>1. Same(a, Bump(a)) /\ Settled(Bump(a)) /\ IsSession(Bump(a))
    BY <1>1, BumpKeeps, SameIsSettled DEF Same
  <2>2. Same(Bump(a), r.to) /\ Show(r.to.render, r.to.scene)
    BY <1>3, <2>1, RenderKeeps DEF Settled
  <2>3. Same(a, r.to)
    BY <2>1, <2>2 DEF Same
  <2> QED BY <1>1, <2>2, <2>3, SameIsSound, SameIsSettled DEF Handled
<1>4. CASE r = Done(a)
  BY <1>1, <1>4, AnsweredOf DEF Handled, Same
<1> QED BY <1>2, <1>3, <1>4

-----------------------------------------------------------------------------
(* Preview and commit *)

\* A command is open and no frame is on its way: what a command key finds.
Commanding(a) == Settled(a) /\ Resting(a.render) /\ Drafting(a)

\* Only what the scene and the draft are made of.
LEMMA LoadFits ==
    ASSUME NEW a, IsSession(a)
    PROVE  /\ IsSession(Load(a))
           /\ Load(a).session = a.session /\ Load(a).palette = a.palette
           /\ Load(a).draft = a.draft /\ Load(a).canonical = a.canonical
           /\ Load(a).scene = a.scene /\ Load(a).disk = a.disk /\ Load(a).render = a.render
BY DEF Load, IsSession, Fields

LEMMA RestoreFits ==
    ASSUME NEW a, IsSession(a)
    PROVE  /\ IsSession(Restore(a))
           /\ Restore(a).session = a.session /\ Restore(a).palette = a.palette
           /\ Restore(a).draft = a.draft /\ Restore(a).canonical = a.canonical
           /\ Restore(a).scene = a.canonical /\ Restore(a).disk = a.disk
           /\ Restore(a).render = a.render
BY DEF Restore, IsSession, Fields

LEMMA RejectPreviewFits ==
    ASSUME NEW a, Sound(a), Resting(a.render), a.palette => ~Drafting(a),
           NEW r \in RejectPreview(a)
    PROVE  Handled(r) /\ r.to.disk = a.disk
<1> DEFINE hidden == [Restore(a) EXCEPT !.draft.preview = <<>>]
<1>1. Settled(hidden) /\ hidden.disk = a.disk
  <2>1. /\ IsSession(hidden) /\ hidden.session = a.session /\ hidden.palette = a.palette
        /\ hidden.canonical = a.canonical /\ hidden.scene = a.canonical
        /\ hidden.render = a.render /\ hidden.disk = a.disk
        /\ hidden.draft = [a.draft EXCEPT !.preview = <<>>]
    BY RestoreFits DEF Sound, IsSession, Fields
  <2>2. hidden.draft.preview = <<>> /\ hidden.draft.command = a.draft.command
    BY <2>1 DEF Sound, IsSession
  <2> HIDE DEF hidden
  <2> QED BY <2>1, <2>2, RestingShows DEF Settled, Sound, ShowsDraft, Solid, Drafting
<1> HIDE DEF hidden
<1>2. PICK e \in Event(hidden, T!PreviewRejected(a.tui)) :
        IF e.session = "running"
        THEN r \in IF Transient(a) THEN Render(Bump(e.to)) ELSE {Done(e.to)}
        ELSE r = e
  BY DEF RejectPreview, Then, hidden
<1>3. Handled(e) /\ e.to.disk = a.disk
  BY <1>1, EventFits DEF Same
<1>4. CASE e.session = "running"
  <2>1. Settled(e.to) /\ r \in Render(e.to) \cup Render(Bump(e.to)) \cup {Done(e.to)}
    BY <1>2, <1>3, <1>4 DEF Handled
  <2> QED BY <1>3, <2>1, RedrawFits DEF Same
<1> QED BY <1>2, <1>3, <1>4

LEMMA ShowPreviewFits ==
    ASSUME NEW a, Commanding(a), NEW r \in ShowPreview(a)
    PROVE  Handled(r) /\ r.to.disk = a.disk
<1> DEFINE ready == [a EXCEPT !.draft.preview = <<a.draft.input>>]
           drawn == [Load(ready) EXCEPT !.scene = Scene(a.canonical.revision, <<a.draft.input>>)]
           shown == IF Solid(a) THEN drawn ELSE ready
<1>1. /\ IsSession(ready) /\ ready.session = a.session /\ ready.palette = a.palette
      /\ ready.canonical = a.canonical /\ ready.scene = a.scene
      /\ ready.render = a.render /\ ready.disk = a.disk
      /\ ready.draft = [a.draft EXCEPT !.preview = <<a.draft.input>>]
  BY DEF Commanding, Settled, Sound, IsSession, Fields
<1>2. /\ ready.draft.preview = <<a.draft.input>> /\ ready.draft.command = a.draft.command
      /\ ready.draft.input = a.draft.input
  BY <1>1 DEF Commanding, Settled, Sound, IsSession
<1> HIDE DEF ready
<1>3. /\ IsSession(drawn) /\ drawn.session = a.session /\ drawn.palette = a.palette
      /\ drawn.canonical = a.canonical /\ drawn.scene.preview = <<a.draft.input>>
      /\ drawn.render = a.render /\ drawn.disk = a.disk /\ drawn.draft = ready.draft
  BY <1>1, LoadFits DEF IsSession, Fields, Scene
<1> HIDE DEF drawn
<1>4. Settled(shown) /\ shown.disk = a.disk
  <2>1. CASE Solid(a)
    BY <1>2, <1>3, <2>1, RestingShows DEF Commanding, Settled, Sound, ShowsDraft, Solid, Drafting
  <2>2. CASE ~Solid(a)
    BY <1>1, <1>2, <2>2, RestingShows DEF Commanding, Settled, Sound, ShowsDraft, Solid, Drafting
  <2> QED BY <2>1, <2>2
<1>5. PICK e \in Event(Bump(shown), T!PreviewReady(Bump(shown).tui)) :
        IF e.session = "running"
        THEN r \in IF Solid(e.to) THEN Render(e.to) ELSE {Done(e.to)}
        ELSE r = e
  BY DEF ShowPreview, Then, ready, drawn
<1> HIDE DEF shown
<1>6. Settled(Bump(shown)) /\ Bump(shown).disk = a.disk
  BY <1>4, BumpKeeps, SameIsSettled DEF Settled, Sound, Same
<1>7. Handled(e) /\ e.to.disk = a.disk
  BY <1>6, EventFits DEF Same
<1>8. CASE e.session = "running"
  <2>1. Settled(e.to) /\ r \in Render(e.to) \cup Render(Bump(e.to)) \cup {Done(e.to)}
    BY <1>5, <1>7, <1>8 DEF Handled
  <2> QED BY <1>7, <2>1, RedrawFits DEF Same
<1> QED BY <1>5, <1>7, <1>8

LEMMA PreviewDraftFits ==
    ASSUME NEW a, Commanding(a), NEW r \in PreviewDraft(a)
    PROVE  Handled(r) /\ r.to.disk = a.disk
<1>1. PICK e \in Event(a, T!PreviewRequested(a.tui)) :
        IF e.session = "running"
        THEN r \in RejectPreview(e.to) \cup RejectPreview(Load(e.to)) \cup ShowPreview(e.to)
        ELSE r = e
  BY DEF PreviewDraft, Then
<1>2. Handled(e) /\ Same(a, e.to) /\ e.to.render = a.render
  BY EventFits DEF Commanding
<1>3. CASE e.session = "running"
  <2>1. Commanding(e.to) /\ e.to.disk = a.disk
    BY <1>2, <1>3 DEF Commanding, Handled, Same, Drafting
  <2>2. Sound(Load(e.to)) /\ Resting(Load(e.to).render)
        /\ (Load(e.to).palette => ~Drafting(Load(e.to))) /\ Load(e.to).disk = a.disk
    BY <2>1, LoadFits DEF Commanding, Settled, Sound, ShowsDraft, Drafting
  <2>3. Sound(e.to) /\ Resting(e.to.render) /\ (e.to.palette => ~Drafting(e.to))
    BY <2>1 DEF Commanding, Settled, ShowsDraft
  <2> QED BY <1>1, <1>3, <2>1, <2>2, <2>3, RejectPreviewFits, ShowPreviewFits
<1> QED BY <1>1, <1>2, <1>3 DEF Same

LEMMA RefreshFits ==
    ASSUME NEW a, Sound(a), Resting(a.render), a.draft = NoDraft, NEW r \in Refresh(a)
    PROVE  Handled(r) /\ r.to.disk = a.disk
<1>1. CASE r = Fails(a)
  BY <1>1, AnsweredOf DEF Handled
<1>2. ASSUME NEW t,
             r = Done([a EXCEPT !.tui = t, !.canonical = Scene(a.loaded, <<>>),
                                !.scene = Scene(a.loaded, <<>>)])
      PROVE  Handled(r) /\ r.to.disk = a.disk
  <2> DEFINE b == [a EXCEPT !.tui = t, !.canonical = Scene(a.loaded, <<>>),
                            !.scene = Scene(a.loaded, <<>>)]
  <2>1. /\ IsSession(b) /\ b.session = a.session /\ b.disk = a.disk
        /\ b.canonical.preview = <<>> /\ b.scene.preview = <<>> /\ b.draft = NoDraft
        /\ b.render = a.render
    BY DEF Sound, IsSession, Fields, Scene
  <2>2. Settled(b)
    BY <2>1, RestingShows DEF Settled, Sound, ShowsDraft, Solid, Drafting, NoDraft
  <2>3. r = Done(b)
    BY <1>2
  <2> HIDE DEF b
  <2> QED BY <2>1, <2>2, <2>3, AnsweredOf DEF Handled, Settled
<1> QED BY <1>1, <1>2 DEF Refresh

LEMMA RejectCommitFits ==
    ASSUME NEW a, Sound(a), Resting(a.render), NEW r \in RejectCommit(a)
    PROVE  Handled(r) /\ r.to.disk = a.disk
<1> DEFINE dropped == [a EXCEPT !.draft = NoDraft]
           dropping == {Done(Restore(dropped)), Done(Restore(Load(dropped)))}
                         \cup Refresh(Load(dropped))
<1>1. /\ IsSession(dropped) /\ dropped.session = a.session /\ dropped.draft = NoDraft
      /\ dropped.canonical = a.canonical /\ dropped.render = a.render
      /\ dropped.disk = a.disk
  BY DEF Sound, IsSession, Fields, NoDraft
<1>2. PICK d \in dropping :
        IF d.session = "running"
        THEN r \in Then(Event(d.to, T!CommitRejected(d.to.tui)),
                        LAMBDA c : IF Transient(a) THEN Render(Bump(c)) ELSE {Done(c)})
        ELSE r = d
  BY DEF RejectCommit, Then
<1> HIDE DEF dropped
<1>3. ASSUME NEW b, Sound(b), b.draft = NoDraft, Resting(b.render)
      PROVE  Settled(Restore(b)) /\ Restore(b).disk = b.disk
  BY <1>3, RestoreFits, RestingShows
     DEF Settled, Sound, ShowsDraft, Solid, Drafting, NoDraft
<1>4. Sound(dropped) /\ Sound(Load(dropped))
      /\ Load(dropped).draft = NoDraft /\ Resting(Load(dropped).render)
      /\ Load(dropped).disk = a.disk
  BY <1>1, LoadFits DEF Sound, NoDraft
<1>5. Handled(d) /\ d.to.disk = a.disk
  <2>1. CASE d = Done(Restore(dropped))
    BY <1>1, <1>3, <1>4, <2>1, AnsweredOf DEF Handled, Settled
  <2>2. CASE d = Done(Restore(Load(dropped)))
    BY <1>3, <1>4, <2>2, AnsweredOf DEF Handled, Settled
  <2>3. CASE d \in Refresh(Load(dropped))
    BY <1>4, <2>3, RefreshFits
  <2> QED BY <2>1, <2>2, <2>3
<1>6. CASE d.session = "running"
  <2>1. PICK e \in Event(d.to, T!CommitRejected(d.to.tui)) :
          IF e.session = "running"
          THEN r \in IF Transient(a) THEN Render(Bump(e.to)) ELSE {Done(e.to)}
          ELSE r = e
    BY <1>2, <1>6 DEF Then
  <2>2. Handled(e) /\ e.to.disk = a.disk
    BY <1>5, <1>6, EventFits DEF Same, Handled
  <2>3. CASE e.session = "running"
    <3>1. Settled(e.to) /\ r \in Render(e.to) \cup Render(Bump(e.to)) \cup {Done(e.to)}
      BY <2>1, <2>2, <2>3 DEF Handled
    <3> QED BY <2>2, <3>1, RedrawFits DEF Same
  <2> QED BY <2>1, <2>2, <2>3
<1> QED BY <1>2, <1>5, <1>6

LEMMA AcceptCommitFits ==
    ASSUME NEW a, Sound(a), Resting(a.render), NEW r \in AcceptCommit(a)
    PROVE  Handled(r) /\ r.to.disk = a.disk
<1> DEFINE validated == CASE a.draft.command = "validate" -> <<a.draft.input, a.disk>>
                          [] a.draft.command = "export"   -> a.validated
                          [] OTHER                        -> <<>>
<1>1. PICK e \in Event(a, T!CommitAccepted(a.tui, a.draft.source, a.draft.source, a.disk)) :
        IF e.session = "running"
        THEN r \in Then(Refresh([e.to EXCEPT !.draft = NoDraft]),
                        LAMBDA c : Render([c EXCEPT !.validated = validated]))
        ELSE r = e
  BY DEF AcceptCommit, Then
<1> HIDE DEF validated
<1>2. Same(a, e.to) /\ e.to.render = a.render /\ Sound(e.to)
  BY EventKeeps, SameIsSound DEF Sound
<1> DEFINE dropped == [e.to EXCEPT !.draft = NoDraft]
<1>3. Sound(dropped) /\ Resting(dropped.render) /\ dropped.draft = NoDraft
      /\ dropped.disk = a.disk
  BY <1>2 DEF Sound, IsSession, Fields, NoDraft, Same
<1> HIDE DEF dropped
<1>4. CASE e.session = "running"
  <2>1. PICK f \in Refresh(dropped) :
          IF f.session = "running"
          THEN r \in Render([f.to EXCEPT !.validated = validated])
          ELSE r = f
    BY <1>1, <1>4 DEF Then, dropped
  <2>2. Handled(f) /\ f.to.disk = a.disk
    BY <1>3, RefreshFits
  <2>3. CASE f.session = "running"
    <3> DEFINE b == [f.to EXCEPT !.validated = validated]
    <3>1. Same(f.to, b) /\ b.render = f.to.render
      BY <2>2 DEF Handled, Sound, IsSession, Fields, Same
    <3> HIDE DEF b
    <3>2. Settled(b)
      BY <2>2, <2>3, <3>1, SameIsSettled DEF Handled
    <3>3. r \in Render(b) \cup Render(Bump(b)) \cup {Done(b)}
      BY <2>1, <2>3 DEF b
    <3> QED BY <2>2, <3>1, <3>2, <3>3, RedrawFits DEF Same
  <2> QED BY <2>1, <2>2, <2>3
<1>5. CASE e.session # "running"
  BY <1>1, <1>2, <1>5 DEF Handled, Same
<1> QED BY <1>4, <1>5

\* What is published is of a draft that was current when its commit began, and
\* under a fence it replaces the draft's revision.
LEMMA CommittedFits ==
    ASSUME NEW a, Sound(a), Resting(a.render), NEW b \in Committed(a)
    PROVE  /\ Sound(b) /\ Resting(b.render)
           /\ b.disk # a.disk => OfTheDraft(a, b.disk)
<1>1. ASSUME NEW c, Sound(c), Resting(c.render), NEW d \in Publish(c)
      PROVE  /\ Sound(d) /\ Resting(d.render)
             /\ d.disk = c.disk + 1
  BY <1>1 DEF Publish, Sound, IsSession, Fields
<1>2. ASSUME NEW w \in WorkedOn(a), NEW c \in Publish(w)
      PROVE  /\ Sound(Load(c)) /\ Resting(Load(c).render)
             /\ Fenced(a) => Load(c).disk = a.draft.source + 1
  <2>1. Sound(w) /\ Resting(w.render) /\ (Fenced(a) => a.draft.source = w.disk)
    BY <1>1 DEF WorkedOn
  <2>2. Sound(c) /\ Resting(c.render) /\ c.disk = w.disk + 1
    BY <1>1, <2>1
  <2> QED BY <2>1, <2>2, LoadFits DEF Sound
<1>3. Sound(Load(a)) /\ Resting(Load(a).render) /\ Load(a).disk = a.disk
  BY LoadFits DEF Sound
<1>4. \/ b = a \/ b = Load(a)
      \/ /\ a.draft.source = a.disk
         /\ \E w \in WorkedOn(a) : \E c \in Publish(w) : b = Load(c)
  BY DEF Committed
<1> QED BY <1>2, <1>3, <1>4 DEF OfTheDraft

LEMMA CommitDraftFits ==
    ASSUME NEW a, Commanding(a), NEW r \in CommitDraft(a)
    PROVE  /\ Handled(r)
           /\ r.to.disk # a.disk =>
                a.draft.preview = <<a.draft.input>> /\ OfTheDraft(a, r.to.disk)
<1>1. CASE a.draft.preview = <<>>
  BY <1>1, PreviewDraftFits DEF CommitDraft
<1>2. CASE a.draft.preview # <<>>
  <2>1. PICK e \in Event(a, T!CommitRequested(a.tui)) :
          IF e.session = "running"
          THEN r \in RejectCommit(e.to)
                     \cup UNION {RejectCommit(c) \cup AcceptCommit(c) : c \in Committed(e.to)}
          ELSE r = e
    BY <1>2 DEF CommitDraft, Then
  <2>2. Handled(e) /\ Same(a, e.to) /\ e.to.render = a.render
    BY EventFits DEF Commanding
  <2>3. Sound(e.to) /\ Resting(e.to.render) /\ e.to.disk = a.disk /\ e.to.draft = a.draft
    BY <2>2 DEF Handled, Same, Commanding
  <2>4. a.draft.preview = <<a.draft.input>>
    BY <1>2 DEF Commanding, Settled, Sound
  <2>5. CASE r \in RejectCommit(e.to)
    BY <2>3, <2>5, RejectCommitFits
  <2>6. ASSUME NEW c \in Committed(e.to), r \in RejectCommit(c) \cup AcceptCommit(c)
        PROVE  Handled(r) /\ (r.to.disk # a.disk => OfTheDraft(a, r.to.disk))
    <3>1. Sound(c) /\ Resting(c.render) /\ (c.disk # a.disk => OfTheDraft(a, c.disk))
      BY <2>3, CommittedFits DEF OfTheDraft, Fenced
    <3> QED BY <2>6, <3>1, RejectCommitFits, AcceptCommitFits
  <2>7. CASE r = e
    BY <2>2, <2>3, <2>7
  <2> QED BY <2>1, <2>4, <2>5, <2>6, <2>7
<1> QED BY <1>1, <1>2

-----------------------------------------------------------------------------
(* An input, handled to the end *)

\* After the end nothing of a preview is left on the scene.
Over(a) ==
  /\ a.scene.preview = <<>>
  /\ a.draft.preview # <<>> => a.draft.preview = <<a.draft.input>>

LoopInv == IF Running THEN Settled(app) ELSE Over(app)

LEMMA EndedFits ==
    ASSUME NEW a, Sound(a), NEW session, session # "running", NEW b \in Ended(a, session)
    PROVE  Over(b) /\ b.session # "running" /\ b.disk = a.disk
<1>1. PICK d : b = [Restore(a) EXCEPT !.render = d.to,
                     !.session = IF session = "closed" /\ ~d.first THEN "lost" ELSE session]
  BY DEF Ended
<1> DEFINE end == IF session = "closed" /\ ~d.first THEN "lost" ELSE session
<1>2. IsSession(Restore(a))
  BY RestoreFits DEF Sound
<1>3. b.scene = a.canonical /\ b.draft = a.draft /\ b.session = end /\ b.disk = a.disk
  BY <1>1, <1>2, RestoreFits DEF Sound, IsSession, Fields
<1> QED BY <1>3 DEF Over, Sound

LEMMA OverlayFits ==
    ASSUME NEW a, Sound(a), NEW r \in Overlay(a)
    PROVE  /\ Sound(r.to) /\ r.to.disk = a.disk
           /\ Settled(a) => Handled(r)
<1>1. CASE r = Done(a)
  BY <1>1, AnsweredOf DEF Handled
<1>2. CASE r = Answered([a EXCEPT !.render.open = FALSE], "lost")
  <2> DEFINE b == [a EXCEPT !.render.open = FALSE]
  <2>1. Same(a, b)
    BY DEF Sound, IsSession, Fields, Same
  <2>2. r.to = b /\ r.session = "lost"
    BY <1>2, AnsweredOf
  <2> HIDE DEF b
  <2> QED BY <2>1, <2>2, SameIsSound DEF Handled, Same
<1> QED BY <1>1, <1>2 DEF Overlay

LEMMA ContinuesFits ==
    ASSUME NEW results, \A r \in results : Handled(r), Continues(results)
    PROVE  LoopInv' /\ \E r \in results : app'.disk = r.to.disk
<1>1. PICK s \in Then(results, Overlay) :
        IF s.session = "running" THEN app' = s.to ELSE app' \in Ended(s.to, s.session)
  BY DEF Continues
<1>2. PICK r \in results : IF r.session = "running" THEN s \in Overlay(r.to) ELSE s = r
  BY <1>1 DEF Then
<1>3. Handled(s) /\ s.to.disk = r.to.disk
  BY <1>2, OverlayFits DEF Handled
<1>4. CASE s.session = "running"
  BY <1>1, <1>3, <1>4 DEF Handled, LoopInv, Running, Settled, Sound
<1>5. CASE s.session # "running"
  <2>1. Over(app') /\ app'.session # "running" /\ app'.disk = s.to.disk
    BY <1>1, <1>3, <1>5, EndedFits DEF Handled
  <2> QED BY <1>3, <2>1 DEF LoopInv, Running, Over
<1> QED BY <1>4, <1>5

LEMMA ReturnsFits ==
    ASSUME NEW results, \A r \in results : Sound(r.to), Returns(results)
    PROVE  LoopInv'
<1>1. PICK s \in Then(results, Overlay) :
        app' \in Ended(s.to, IF s.session = "running" THEN "closed" ELSE s.session)
  BY DEF Returns
<1>2. PICK r \in results : IF r.session = "running" THEN s \in Overlay(r.to) ELSE s = r
  BY <1>1 DEF Then
<1>3. Sound(s.to)
  BY <1>2, OverlayFits
<1>4. Over(app') /\ app'.session # "running"
  <2> DEFINE session == IF s.session = "running" THEN "closed" ELSE s.session
  <2>1. session # "running" /\ app' \in Ended(s.to, session)
    BY <1>1
  <2> HIDE DEF session
  <2> QED BY <1>3, <2>1, EndedFits
<1> QED BY <1>4 DEF LoopInv, Running, Over

\* The outcome that a key closes first.
Dismissed(a) ==
  IF a.tui.phase \in T!Outcomes THEN Event(a, T!OutcomeDismissed(a.tui)) ELSE {Done(a)}

LEMMA DismissedFits ==
    ASSUME NEW a, Settled(a), NEW r \in Dismissed(a)
    PROVE  Handled(r) /\ Same(a, r.to) /\ r.to.render = a.render
<1>1. CASE r = Done(a)
  <2>1. Handled(r) /\ Same(a, r.to)
    BY <1>1, RedrawFits
  <2> QED BY <1>1, <2>1, AnsweredOf
<1>2. CASE r \in Event(a, T!OutcomeDismissed(a.tui))
  BY <1>2, EventFits
<1> QED BY <1>1, <1>2 DEF Dismissed

\* What a key is given to handle: a settled session, a command key one with no
\* frame on its way.
Given(a, b) ==
  /\ Settled(b)
  /\ Drafting(b) = Drafting(a) /\ b.palette = a.palette
  /\ b.disk = a.disk /\ b.draft = a.draft
  /\ CommandInput(a) => Resting(b.render)

\* A key is handled if what it does with what it is given is.
LEMMA KeyFits ==
    ASSUME NEW a, Settled(a), NEW first \in Dismissed(a), NEW handled, NEW r,
           IF first.session = "running"
           THEN r \in IF HeldBack(first.to) THEN {Done(first.to)} ELSE handled
           ELSE r = first,
           Given(a, first.to) => \A q \in handled : Handled(q)
    PROVE  Handled(r) /\ (r.to.disk = a.disk \/ r \in handled)
<1>1. Handled(first) /\ Same(a, first.to) /\ first.to.render = a.render
  BY DismissedFits
<1>2. CASE first.session # "running"
  BY <1>1, <1>2 DEF Same
<1>3. CASE first.session = "running" /\ HeldBack(first.to)
  <2>1. r = Done(first.to) /\ Settled(first.to)
    BY <1>1, <1>3 DEF Handled
  <2> QED BY <1>1, <2>1, RedrawFits, AnsweredOf DEF Same
<1>4. CASE first.session = "running" /\ ~HeldBack(first.to)
  <2>1. /\ Settled(first.to)
        /\ Drafting(first.to) = Drafting(a) /\ first.to.palette = a.palette
        /\ first.to.disk = a.disk /\ first.to.draft = a.draft
    BY <1>1, <1>4, SameIsSound DEF Handled, Same, Settled
  <2>2. CommandInput(a) => Resting(first.to.render)
    BY <1>4, <2>1 DEF HeldBack, CommandInput, InFlight, Settled, Show, Resting
  <2>3. r \in handled /\ Given(a, first.to)
    BY <1>4, <2>1, <2>2 DEF Given
  <2> QED BY <2>3
<1> QED BY <1>2, <1>3, <1>4

\* The keys that draw: an arrow, the camera.
LEMMA ArrowPressedFits == ASSUME Settled(app), ArrowPressed PROVE LoopInv'
<1>1. PICK forward \in BOOLEAN :
        Continues(Key(app, LAMBDA a : Then(Event(a, T!Press(a.tui, forward)), Render)))
  BY DEF ArrowPressed
<1>2. ASSUME NEW r \in Key(app, LAMBDA a : Then(Event(a, T!Press(a.tui, forward)), Render))
      PROVE  Handled(r)
  <2>1. PICK first \in Dismissed(app) :
          IF first.session = "running"
          THEN r \in IF HeldBack(first.to) THEN {Done(first.to)}
                     ELSE Then(Event(first.to, T!Press(first.to.tui, forward)), Render)
          ELSE r = first
    BY <1>2 DEF Key, Then, Dismissed
  <2> DEFINE a == first.to
             handled == Then(Event(a, T!Press(a.tui, forward)), Render)
  <2>2. ASSUME Given(app, first.to), NEW q \in handled PROVE Handled(q)
    <3>1. PICK e \in Event(a, T!Press(a.tui, forward)) :
            IF e.session = "running" THEN q \in Render(e.to) ELSE q = e
      BY <2>2 DEF Then
    <3>2. Handled(e)
      BY <2>2, EventFits DEF Given
    <3> QED BY <3>1, <3>2, RedrawFits DEF Handled
  <2> HIDE DEF handled
  <2> QED BY <2>1, <2>2, KeyFits DEF handled
<1> QED BY <1>1, <1>2, ContinuesFits

LEMMA CameraMovedFits == ASSUME Settled(app), CameraMoved PROVE LoopInv'
<1>1. ASSUME NEW r \in Key(app, LAMBDA a : Render(Bump(a)))
      PROVE  Handled(r)
  <2>1. PICK first \in Dismissed(app) :
          IF first.session = "running"
          THEN r \in IF HeldBack(first.to) THEN {Done(first.to)} ELSE Render(Bump(first.to))
          ELSE r = first
    BY <1>1 DEF Key, Then, Dismissed
  <2> DEFINE handled == Render(Bump(first.to))
  <2>2. ASSUME Given(app, first.to), NEW q \in handled PROVE Handled(q)
    BY <2>2, RedrawFits DEF Given
  <2> HIDE DEF handled
  <2> QED BY <2>1, <2>2, KeyFits DEF handled
<1> QED BY <1>1, ContinuesFits DEF CameraMoved

\* A key that only opens or closes something.
LEMMA PaletteFits ==
    ASSUME NEW a, Settled(a), ~Drafting(a), NEW open \in BOOLEAN
    PROVE  Handled(Done([a EXCEPT !.palette = open]))
<1> DEFINE b == [a EXCEPT !.palette = open]
<1>1. /\ IsSession(b) /\ b.session = a.session /\ b.draft = a.draft
      /\ b.canonical = a.canonical /\ b.scene = a.scene /\ b.render = a.render
  BY DEF Settled, Sound, IsSession, Fields
<1> HIDE DEF b
<1>2. Settled(b)
  BY <1>1 DEF Settled, Sound, ShowsDraft, Drafting, Solid
<1>3. Done(b).to = b
  BY AnsweredOf
<1> QED BY <1>2, <1>3 DEF Handled, Settled, b

LEMMA PaletteOpenedFits ==
    ASSUME Settled(app), PaletteOpened \/ PaletteDismissed
    PROVE  LoopInv'
<1>1. ASSUME NEW open \in BOOLEAN, ~Drafting(app),
             NEW r \in Key(app, LAMBDA a : {Done([a EXCEPT !.palette = open])})
      PROVE  Handled(r)
  <2>1. PICK first \in Dismissed(app) :
          IF first.session = "running"
          THEN r \in IF HeldBack(first.to) THEN {Done(first.to)}
                     ELSE {Done([first.to EXCEPT !.palette = open])}
          ELSE r = first
    BY <1>1 DEF Key, Then, Dismissed
  <2> DEFINE handled == {Done([first.to EXCEPT !.palette = open])}
  <2>2. ASSUME Given(app, first.to), NEW q \in handled
        PROVE  Handled(q)
    BY <1>1, <2>2, PaletteFits DEF Given
  <2>3. IF first.session = "running"
        THEN r \in IF HeldBack(first.to) THEN {Done(first.to)} ELSE handled
        ELSE r = first
    BY <2>1
  <2> HIDE DEF handled
  <2> QED BY <2>2, <2>3, KeyFits
<1>2. CASE PaletteOpened
  BY <1>1, <1>2, ContinuesFits DEF PaletteOpened, CommandInput
<1>3. CASE PaletteDismissed
  BY <1>1, <1>3, ContinuesFits DEF PaletteDismissed, Settled, ShowsDraft
<1> QED BY <1>2, <1>3

LEMMA OutcomeClosedFits == ASSUME Settled(app), OutcomeClosed PROVE LoopInv'
<1>1. ASSUME NEW r \in Key(app, LAMBDA a : {Done(a)})
      PROVE  Handled(r)
  <2>1. PICK first \in Dismissed(app) :
          IF first.session = "running"
          THEN r \in IF HeldBack(first.to) THEN {Done(first.to)} ELSE {Done(first.to)}
          ELSE r = first
    BY <1>1 DEF Key, Then, Dismissed
  <2> DEFINE handled == {Done(first.to)}
  <2>2. ASSUME Given(app, first.to), NEW q \in handled PROVE Handled(q)
    BY <2>2, RedrawFits DEF Given
  <2>3. IF first.session = "running"
        THEN r \in IF HeldBack(first.to) THEN {Done(first.to)} ELSE handled
        ELSE r = first
    BY <2>1
  <2> HIDE DEF handled
  <2> QED BY <2>2, <2>3, KeyFits
<1> QED BY <1>1, ContinuesFits DEF OutcomeClosed

\* A command opens with nothing of an earlier draft on the scene.
LEMMA OpenDraftFits ==
    ASSUME NEW a, Settled(a), a.palette, NEW command, NEW r \in OpenDraft(a, command)
    PROVE  Handled(r)
<1> DEFINE opened == [a EXCEPT !.palette = FALSE,
                               !.draft = [NoDraft EXCEPT !.command = command, !.source = a.disk]]
<1>1. a.scene.preview = <<>>
  BY DEF Settled, ShowsDraft
<1>2. /\ IsSession(opened) /\ opened.session = a.session /\ opened.palette = FALSE
      /\ opened.canonical = a.canonical /\ opened.scene = a.scene /\ opened.render = a.render
      /\ opened.draft.preview = <<>>
  BY DEF Settled, Sound, IsSession, Fields, NoDraft
<1>3. r \in Event(opened, T!OpenCommand(a.tui, command))
  BY DEF OpenDraft
<1> HIDE DEF opened
<1>4. Settled(opened)
  BY <1>1, <1>2 DEF Settled, Sound, ShowsDraft, Drafting, Solid
<1> QED BY <1>3, <1>4, EventFits

LEMMA CommandChosenFits == ASSUME Settled(app), CommandChosen PROVE LoopInv'
<1>1. PICK command \in Commands : Continues(Key(app, LAMBDA a : OpenDraft(a, command)))
  BY DEF CommandChosen
<1>2. ASSUME NEW r \in Key(app, LAMBDA a : OpenDraft(a, command))
      PROVE  Handled(r)
  <2>1. PICK first \in Dismissed(app) :
          IF first.session = "running"
          THEN r \in IF HeldBack(first.to) THEN {Done(first.to)}
                     ELSE OpenDraft(first.to, command)
          ELSE r = first
    BY <1>2 DEF Key, Then, Dismissed
  <2> DEFINE handled == OpenDraft(first.to, command)
  <2>2. ASSUME Given(app, first.to), NEW q \in handled
        PROVE  Handled(q)
    BY <2>2, OpenDraftFits DEF CommandChosen, Given
  <2> HIDE DEF handled
  <2> QED BY <2>1, <2>2, KeyFits DEF handled
<1> QED BY <1>1, <1>2, ContinuesFits

\* The scene of a draft that is given up is the canonical one.
LEMMA CancelFits ==
    ASSUME NEW a, Commanding(a),
           NEW e \in Event([a EXCEPT !.draft = NoDraft], T!CancelRequested(a.tui)), NEW r,
           IF e.session = "running"
           THEN r \in Then(IF Transient(e.to) THEN Render(Bump(Restore(e.to))) ELSE {Done(e.to)},
                           LAMBDA c : Event(c, T!CancellationCompleted(c.tui)))
           ELSE r = e
    PROVE  Handled(r)
<1> DEFINE dropped == [a EXCEPT !.draft = NoDraft]
<1>1. Sound(dropped) /\ dropped.draft = NoDraft /\ Resting(dropped.render)
  BY DEF Commanding, Settled, Sound, IsSession, Fields, NoDraft
<1>2. e \in Event(dropped, T!CancelRequested(a.tui))
  OBVIOUS
<1> HIDE DEF dropped
<1>3. Sound(e.to) /\ e.to.draft = NoDraft /\ Resting(e.to.render)
  BY <1>1, <1>2, EventKeeps, SameIsSound DEF Sound, Same
<1> DEFINE b == IF Transient(e.to) THEN Restore(e.to) ELSE e.to
<1>4. Settled(b)
  <2>1. b.scene.preview = <<>> /\ Sound(b) /\ b.draft = NoDraft /\ Resting(b.render)
    BY <1>3, RestoreFits DEF Sound, Transient
  <2> QED BY <2>1, RestingShows DEF Settled, ShowsDraft, Drafting, Solid, NoDraft
<1>5. CASE e.session = "running"
  <2>1. PICK d \in Render(b) \cup Render(Bump(b)) \cup {Done(b)} :
          IF d.session = "running" THEN r \in Event(d.to, T!CancellationCompleted(d.to.tui))
          ELSE r = d
    BY <1>5 DEF Then
  <2>2. Handled(d)
    BY <1>4, RedrawFits
  <2> QED BY <2>1, <2>2, EventFits DEF Handled
<1> QED BY <1>3, <1>5 DEF Handled

LEMMA DraftCancelledFits == ASSUME Settled(app), DraftCancelled PROVE LoopInv'
<1> DEFINE Cancelling(a) ==
             Then(Event([a EXCEPT !.draft = NoDraft], T!CancelRequested(a.tui)),
                  LAMBDA b : Then(IF Transient(b) THEN Render(Bump(Restore(b))) ELSE {Done(b)},
                                  LAMBDA c : Event(c, T!CancellationCompleted(c.tui))))
<1>1. ASSUME NEW r \in Key(app, Cancelling)
      PROVE  Handled(r)
  <2>1. PICK first \in Dismissed(app) :
          IF first.session = "running"
          THEN r \in IF HeldBack(first.to) THEN {Done(first.to)} ELSE Cancelling(first.to)
          ELSE r = first
    BY <1>1 DEF Key, Then, Dismissed
  <2> DEFINE handled == Cancelling(first.to)
  <2>2. ASSUME Given(app, first.to), NEW q \in handled
        PROVE  Handled(q)
    <3> DEFINE a == first.to
    <3>1. Commanding(a)
      BY <2>2 DEF Commanding, DraftCancelled, CommandInput, Given
    <3>2. PICK e \in Event([a EXCEPT !.draft = NoDraft], T!CancelRequested(a.tui)) :
            IF e.session = "running"
            THEN q \in Then(IF Transient(e.to) THEN Render(Bump(Restore(e.to))) ELSE {Done(e.to)},
                            LAMBDA c : Event(c, T!CancellationCompleted(c.tui)))
            ELSE q = e
      BY <2>2 DEF Then
    <3> HIDE DEF a
    <3> QED BY <3>1, <3>2, CancelFits
  <2>3. IF first.session = "running"
        THEN r \in IF HeldBack(first.to) THEN {Done(first.to)} ELSE handled
        ELSE r = first
    BY <2>1
  <2> HIDE DEF handled
  <2> QED BY <2>2, <2>3, KeyFits
<1> QED BY <1>1, ContinuesFits DEF DraftCancelled

LEMMA TypedFits ==
    ASSUME NEW a, Commanding(a), NEW input, NEW r \in Typed(a, input)
    PROVE  Handled(r)
<1> DEFINE edited == [a EXCEPT !.draft.input = input, !.draft.preview = <<>>]
<1>1. /\ IsSession(edited) /\ edited.session = a.session /\ edited.palette = a.palette
      /\ edited.canonical = a.canonical /\ edited.scene = a.scene /\ edited.render = a.render
      /\ edited.draft.command = a.draft.command /\ edited.draft.preview = <<>>
  BY DEF Commanding, Settled, Sound, IsSession, Fields
<1>2. PICK d : /\ d \in IF a.draft.preview # <<>> /\ Transient(a)
                        THEN Render(Bump(Restore(edited))) ELSE {Done(edited)}
               /\ IF d.session = "running" THEN r \in Event(d.to, T!DraftUpdated(d.to.tui))
                  ELSE r = d
  BY DEF Typed, Then
<1> HIDE DEF edited
<1> DEFINE b == IF a.draft.preview # <<>> /\ Transient(a) THEN Restore(edited) ELSE edited
<1>3. Settled(b)
  <2>1. /\ Sound(edited) /\ Resting(edited.render)
        /\ edited.palette => ~Drafting(edited)
    BY <1>1 DEF Commanding, Settled, Sound, ShowsDraft, Drafting
  <2>2. /\ b.scene.preview = <<>> /\ Sound(b) /\ b.draft = edited.draft
        /\ b.palette = edited.palette /\ Resting(b.render)
    <3>1. CASE a.draft.preview # <<>> /\ Transient(a)
      BY <2>1, <3>1, RestoreFits DEF Sound
    <3>2. CASE ~(a.draft.preview # <<>> /\ Transient(a))
      BY <1>1, <2>1, <3>2 DEF Commanding, Settled, Sound, ShowsDraft, Transient
    <3> QED BY <3>1, <3>2
  <2> HIDE DEF b
  <2> QED BY <1>1, <2>1, <2>2, RestingShows DEF Settled, ShowsDraft, Drafting, Solid
<1>4. d \in Render(b) \cup Render(Bump(b)) \cup {Done(b)}
  BY <1>2
<1> HIDE DEF b
<1>5. Handled(d)
  BY <1>3, <1>4, RedrawFits
<1> QED BY <1>2, <1>5, EventFits DEF Handled

LEMMA DraftTypedFits == ASSUME Settled(app), DraftTyped PROVE LoopInv'
<1>1. PICK input \in Features \cup {NoInput} : Continues(Key(app, LAMBDA a : Typed(a, input)))
  BY DEF DraftTyped
<1>2. ASSUME NEW r \in Key(app, LAMBDA a : Typed(a, input))
      PROVE  Handled(r)
  <2>1. PICK first \in Dismissed(app) :
          IF first.session = "running"
          THEN r \in IF HeldBack(first.to) THEN {Done(first.to)} ELSE Typed(first.to, input)
          ELSE r = first
    BY <1>2 DEF Key, Then, Dismissed
  <2> DEFINE handled == Typed(first.to, input)
  <2>2. ASSUME Given(app, first.to), NEW q \in handled
        PROVE  Handled(q)
    BY <2>2, TypedFits DEF Commanding, DraftTyped, CommandInput, Given
  <2> HIDE DEF handled
  <2> QED BY <2>1, <2>2, KeyFits DEF handled
<1> QED BY <1>1, <1>2, ContinuesFits

LEMMA PreviewPressedFits == ASSUME Settled(app), PreviewPressed PROVE LoopInv'
<1>1. ASSUME NEW r \in Key(app, PreviewDraft)
      PROVE  Handled(r)
  <2>1. PICK first \in Dismissed(app) :
          IF first.session = "running"
          THEN r \in IF HeldBack(first.to) THEN {Done(first.to)} ELSE PreviewDraft(first.to)
          ELSE r = first
    BY <1>1 DEF Key, Then, Dismissed
  <2> DEFINE handled == PreviewDraft(first.to)
  <2>2. ASSUME Given(app, first.to), NEW q \in handled
        PROVE  Handled(q)
    BY <2>2, PreviewDraftFits DEF Commanding, PreviewPressed, CommandInput, Given
  <2> HIDE DEF handled
  <2> QED BY <2>1, <2>2, KeyFits DEF handled
<1> QED BY <1>1, ContinuesFits DEF PreviewPressed

LEMMA CommitPressedFits ==
    ASSUME Settled(app), CommitPressed
    PROVE  /\ LoopInv'
           /\ app'.disk # app.disk =>
                app.draft.preview = <<app.draft.input>> /\ OfTheDraft(app, app'.disk)
<1>1. ASSUME NEW r \in Key(app, CommitDraft)
      PROVE  /\ Handled(r)
             /\ r.to.disk # app.disk =>
                  app.draft.preview = <<app.draft.input>> /\ OfTheDraft(app, r.to.disk)
  <2>1. PICK first \in Dismissed(app) :
          IF first.session = "running"
          THEN r \in IF HeldBack(first.to) THEN {Done(first.to)} ELSE CommitDraft(first.to)
          ELSE r = first
    BY <1>1 DEF Key, Then, Dismissed
  <2> DEFINE handled == CommitDraft(first.to)
  <2>2. ASSUME Given(app, first.to)
        PROVE  Commanding(first.to)
    BY <2>2 DEF Commanding, CommitPressed, CommandInput, Given
  <2>3. Handled(r) /\ (r.to.disk = app.disk \/ r \in handled)
    <3>1. ASSUME Given(app, first.to), NEW q \in handled
          PROVE  Handled(q)
      BY <2>2, <3>1, CommitDraftFits
    <3> HIDE DEF handled
    <3> QED BY <2>1, <3>1, KeyFits DEF handled
  <2>4. CASE r.to.disk # app.disk
    <3>1. /\ Handled(first) /\ Same(app, first.to) /\ first.to.render = app.render
          /\ Drafting(first.to) = Drafting(app)
      BY DismissedFits, SameIsSound DEF Settled
    <3>2. first.session = "running" /\ ~HeldBack(first.to) /\ r \in CommitDraft(first.to)
      BY <2>1, <2>4, <3>1, AnsweredOf DEF Same
    <3>3. Resting(first.to.render)
      BY <3>1, <3>2 DEF HeldBack, CommandInput, InFlight, Handled, Settled, Show, Resting,
                        CommitPressed
    <3>4. Commanding(first.to)
      BY <2>2, <3>1, <3>2, <3>3 DEF Handled, Given, Same
    <3> QED BY <2>4, <3>1, <3>2, <3>4, CommitDraftFits DEF Same, OfTheDraft, Fenced
  <2> QED BY <2>3, <2>4
<1>2. Continues(Key(app, CommitDraft))
  BY DEF CommitPressed
<1>3. LoopInv' /\ \E r \in Key(app, CommitDraft) : app'.disk = r.to.disk
  BY <1>1, <1>2, ContinuesFits
<1> QED BY <1>1, <1>3

\* A reply, and the events that come without a key.
LEMMA ReplyArrivesFits == ASSUME Settled(app), ReplyArrives PROVE LoopInv'
<1> DEFINE results == IF InFlight(app)
                      THEN {OnTerminal(app, s) : s \in R!Answer(app.render)}
                      ELSE {Answered(app, "lost")}
<1>1. ASSUME NEW r \in results PROVE Handled(r)
  <2>1. CASE r = Answered(app, "lost")
    BY <2>1, AnsweredOf DEF Handled, Settled
  <2>2. CASE \E s \in R!Answer(app.render) : r = OnTerminal(app, s)
    <3>1. PICK s \in R!Answer(app.render) : r = OnTerminal(app, s)
      BY <2>2
    <3>2. Show(s.to, app.scene)
      BY AnswerShows DEF Settled
    <3> DEFINE b == [app EXCEPT !.render = s.to]
    <3>3. Same(app, b) /\ b.render = s.to
      BY RenderIsAside DEF Settled, Sound
    <3>4. r.to = b
      BY <3>1, AnsweredOf DEF OnTerminal
    <3> HIDE DEF b
    <3>5. Settled(b)
      BY <3>2, <3>3, SameIsSettled DEF Same
    <3> QED BY <3>4, <3>5 DEF Handled, Settled
  <2> QED BY <2>1, <2>2
<1>2. Continues(results)
  BY DEF ReplyArrives
<1> HIDE DEF results
<1> QED BY <1>1, <1>2, ContinuesFits

LEMMA PickAtFits ==
    ASSUME NEW a, Settled(a), NEW ids, NEW r \in PickAt(a, ids)
    PROVE  Handled(r)
<1>1. ASSUME NEW s PROVE Settled([a EXCEPT !.tui = s])
  BY TuiIsAside, SameIsSettled DEF Settled, Sound
<1>2. ASSUME NEW b, Settled(b), r = Done(b) PROVE Handled(r)
  BY <1>2, RedrawFits
<1>3. CASE r = Done(a) \/ \E s : r = Done([a EXCEPT !.tui = s])
  BY <1>1, <1>2, <1>3
<1>4. ASSUME NEW s, NEW d \in Render(Bump([a EXCEPT !.tui = s])),
             IF d.session = "running"
             THEN r \in Event(d.to, T!PointerPressed(d.to.tui, SelectionTool, <<Head(ids)>>))
             ELSE r \in {Done(d.to)}
      PROVE  Handled(r)
  <2> DEFINE b == [a EXCEPT !.tui = s]
  <2>1. d \in Render(Bump(b)) /\ Settled(b)
    BY <1>1
  <2> HIDE DEF b
  <2>2. Settled(d.to)
    BY <2>1, RedrawFits
  <2> QED BY <1>2, <1>4, <2>2, EventFits
<1>5. \/ r = Done(a) \/ \E s : r = Done([a EXCEPT !.tui = s])
      \/ \E s : \E d \in Render(Bump([a EXCEPT !.tui = s])) :
           IF d.session = "running"
           THEN r \in Event(d.to, T!PointerPressed(d.to.tui, SelectionTool, <<Head(ids)>>))
           ELSE r \in {Done(d.to)}
  BY DEF PickAt
<1> QED BY <1>3, <1>4, <1>5

LEMMA PickedFits == ASSUME Settled(app), Picked PROVE LoopInv'
<1>1. PICK ids : Continues(PickAt(app, ids))
  BY DEF Picked
<1> QED BY <1>1, PickAtFits, ContinuesFits

LEMMA PointerFits ==
    ASSUME Settled(app), PointerPressed \/ PointerReleased \/ FocusLost
    PROVE  LoopInv'
<1>1. PICK sessions : Continues(Event(app, sessions))
  BY DEF PointerPressed, PointerReleased, FocusLost
<1> QED BY <1>1, EventFits, ContinuesFits

LEMMA PointerMovedFits == ASSUME Settled(app), PointerMoved PROVE LoopInv'
<1> DEFINE results == Then(Event(app, T!PointerMoved(app.tui, <<>>)),
                    LAMBDA a : IF a.tui.mode.at = "ModelessReady"
                               THEN Event(a, T!StartDrag(a.tui, a.tui.capture)) ELSE {Done(a)})
<1>1. ASSUME NEW r \in results PROVE Handled(r)
  <2>1. PICK e \in Event(app, T!PointerMoved(app.tui, <<>>)) :
          IF e.session = "running"
          THEN r \in Event(e.to, T!StartDrag(e.to.tui, e.to.tui.capture)) \cup {Done(e.to)}
          ELSE r = e
    BY <1>1 DEF Then
  <2>2. Handled(e)
    BY EventFits
  <2> QED BY <2>1, <2>2, EventFits, RedrawFits DEF Handled
<1>2. Continues(results)
  BY DEF PointerMoved
<1> HIDE DEF results
<1> QED BY <1>1, <1>2, ContinuesFits

LEMMA FocusGainedFits == ASSUME Settled(app), FocusGained PROVE LoopInv'
<1> DEFINE results == Then(Event(app, T!FocusIn(app.tui)),
                           LAMBDA a : Event(a, T!RecoveryCompleted(a.tui)))
<1>1. ASSUME NEW r \in results PROVE Handled(r)
  <2>1. PICK e \in Event(app, T!FocusIn(app.tui)) :
          IF e.session = "running" THEN r \in Event(e.to, T!RecoveryCompleted(e.to.tui)) ELSE r = e
    BY <1>1 DEF Then
  <2>2. Handled(e)
    BY EventFits
  <2> QED BY <2>1, <2>2, EventFits DEF Handled
<1>2. Continues(results)
  BY DEF FocusGained
<1> HIDE DEF results
<1> QED BY <1>1, <1>2, ContinuesFits

LEMMA ResizedFits == ASSUME Settled(app), Resized PROVE LoopInv'
<1> DEFINE started == Then(Event(app, T!ResizeStarted(app.tui)), Render)
           results == Then(started, LAMBDA a : Event(a, T!ResizeCompleted(a.tui)))
<1>1. ASSUME NEW d \in started PROVE Handled(d)
  <2>1. PICK e \in Event(app, T!ResizeStarted(app.tui)) :
          IF e.session = "running" THEN d \in Render(e.to) ELSE d = e
    BY <1>1 DEF Then
  <2>2. Handled(e)
    BY EventFits
  <2> QED BY <2>1, <2>2, RedrawFits DEF Handled
<1>2. Continues(results)
  BY DEF Resized
<1> HIDE DEF started
<1>3. ASSUME NEW r \in results PROVE Handled(r)
  <2>1. PICK d \in started :
          IF d.session = "running" THEN r \in Event(d.to, T!ResizeCompleted(d.to.tui)) ELSE r = d
    BY <1>3 DEF Then
  <2> QED BY <1>1, <2>1, EventFits DEF Handled
<1> HIDE DEF results
<1> QED BY <1>2, <1>3, ContinuesFits

LEMMA ExitFits ==
    ASSUME Settled(app), QuitPressed \/ SignalArrives \/ TerminalReset
    PROVE  LoopInv'
<1>1. ASSUME NEW r \in Close(app) \cup Reset(app)
      PROVE  Sound(r.to)
  <2>1. ASSUME NEW t, NEW x, NEW session,
               r = Answered([Restore(app) EXCEPT !.tui = t, !.render = x], session)
        PROVE  Sound(r.to)
    <3> DEFINE b == [Restore(app) EXCEPT !.tui = t, !.render = x]
    <3>1. Sound(b)
      BY RestoreFits DEF Settled, Sound, IsSession, Fields
    <3>2. r.to = b
      BY <2>1, AnsweredOf
    <3> QED BY <3>1, <3>2
  <2>2. CASE r \in Close(app)
    <3>1. PICK t \in UNION {T!CleanupCompleted(s) : s \in T!CloseRequested(app.tui)},
               c \in R!Cleanup(app.render) :
            r = Answered([Restore(app) EXCEPT !.tui = t, !.render = c.to],
                         IF c.ok THEN "running" ELSE "failed")
      BY <2>2 DEF Close
    <3> QED BY <2>1, <3>1
  <2>3. CASE r \in Reset(app)
    <3>1. PICK t \in T!RuntimeFailure(app.tui), s \in R!LoseAttachment(app.render) :
            r = Done([Restore(app) EXCEPT !.tui = t, !.render = s.to])
      BY <2>3 DEF Reset
    <3> QED BY <2>1, <3>1 DEF Done
  <2> QED BY <1>1, <2>2, <2>3
<1>2. Returns(Close(app)) \/ Returns(Reset(app))
  BY DEF QuitPressed, SignalArrives, TerminalReset
<1> QED BY <1>1, <1>2, ReturnsFits

LEMMA OtherProcessFits == ASSUME Settled(app), OtherProcessCommits PROVE LoopInv'
<1> DEFINE b == [app EXCEPT !.disk = @ + 1]
<1>1. /\ IsSession(b) /\ b.session = app.session /\ b.palette = app.palette
      /\ b.draft = app.draft /\ b.canonical = app.canonical /\ b.scene = app.scene
      /\ b.render = app.render
  BY DEF Settled, Sound, IsSession, Fields
<1>2. app' = b
  BY DEF OtherProcessCommits
<1> HIDE DEF b
<1> QED BY <1>1, <1>2 DEF LoopInv, Running, Settled, Sound, ShowsDraft, Drafting, Solid

LEMMA LoopStarts == Init => LoopInv
<1> SUFFICES ASSUME Init PROVE LoopInv
  OBVIOUS
<1> DEFINE frame == [generation |-> 0, scene |-> Scene(1, <<>>)]
<1>1. PICK first \in R!Submit(R!NewAttachment, frame) :
        \E shown \in R!Answer(first.to) :
         app = [session |-> "running", tui |-> T!NewSession(Graph[1], 1), render |-> shown.to,
                palette |-> FALSE, draft |-> NoDraft, canonical |-> Scene(1, <<>>),
                scene |-> Scene(1, <<>>), validated |-> <<>>, loaded |-> 1, disk |-> 1]
  BY DEF Init
<1>2. PICK shown \in R!Answer(first.to) :
         app = [session |-> "running", tui |-> T!NewSession(Graph[1], 1), render |-> shown.to,
                palette |-> FALSE, draft |-> NoDraft, canonical |-> Scene(1, <<>>),
                scene |-> Scene(1, <<>>), validated |-> <<>>, loaded |-> 1, disk |-> 1]
  BY <1>1
<1>3. Show(first.to, frame.scene)
  <2>1. Resting(R!NewAttachment)
    BY DEF Resting, HasFrames, R!NewAttachment
  <2> QED BY <2>1, SubmitShows, RestingShows
<1>4. Show(shown.to, Scene(1, <<>>))
  BY <1>3, AnswerShows
<1>5. Scene(1, <<>>).preview = <<>>
  BY DEF Scene
<1> HIDE DEF frame
<1>6. Sound(app) /\ ShowsDraft(app)
  BY <1>2, <1>5 DEF Sound, IsSession, Fields, ShowsDraft, NoDraft, Drafting, Solid
<1> QED BY <1>2, <1>4, <1>6 DEF LoopInv, Running, Settled

LEMMA LoopKept == LoopInv /\ [Next]_vars => LoopInv'
<1> SUFFICES ASSUME LoopInv, [Next]_vars PROVE LoopInv'
  OBVIOUS
<1>1. CASE UNCHANGED vars
  BY <1>1 DEF vars, LoopInv, Running
<1>2. CASE Next
  <2>1. Settled(app)
    BY <1>2 DEF LoopInv, Next, Keyboard, Input, ArrowPressed, CameraMoved, PaletteOpened,
      PaletteDismissed, CommandChosen, OutcomeClosed, DraftCancelled, DraftTyped,
      PreviewPressed, CommitPressed, QuitPressed, ReplyArrives, Picked, PointerPressed,
      PointerMoved, PointerReleased, FocusLost, FocusGained, Resized, SignalArrives,
      TerminalReset, OtherProcessCommits
  <2> QED BY <1>2, <2>1, ArrowPressedFits, CameraMovedFits, PaletteOpenedFits,
      CommandChosenFits, OutcomeClosedFits, DraftCancelledFits, DraftTypedFits,
      PreviewPressedFits, CommitPressedFits, ExitFits, ReplyArrivesFits, PickedFits,
      PointerFits, PointerMovedFits, FocusGainedFits, ResizedFits, OtherProcessFits
      DEF Next, Keyboard
<1> QED BY <1>1, <1>2

-----------------------------------------------------------------------------
(* What the events do to the phase, the lifecycle, the revision and the        *)
(* generation, the axes that the loop relies on                                *)

Whole(s) == {"lifecycle", "canonical", "generation", "phase"} \subseteq DOMAIN s

\* The command phase changes, or not even that.
Moves(s, t, phase) ==
  /\ Whole(t) /\ t.phase = phase
  /\ t.lifecycle = s.lifecycle /\ t.canonical = s.canonical /\ t.generation = s.generation

LEMMA SessionIsWhole == ASSUME NEW s \in T!Sessions PROVE Whole(s)
BY DEF T!Sessions, Whole

LEMMA OtherAxesMoveNothing ==
    ASSUME NEW s, Whole(s)
    PROVE  /\ Moves(s, s, s.phase)
           /\ \A v : /\ Moves(s, [s EXCEPT !.mode = v], s.phase)
                     /\ Moves(s, [s EXCEPT !.capture = v], s.phase)
                     /\ Moves(s, [s EXCEPT !.focus = v], s.phase)
                     /\ Moves(s, [s EXCEPT !.timeline = v], s.phase)
                     /\ Moves(s, [s EXCEPT !.selection = v], s.phase)
                     /\ Moves(s, [s EXCEPT !.phase = v], v)
           /\ \A v, w : /\ Moves(s, [s EXCEPT !.selection = v, !.selectedIndex = w], s.phase)
                        /\ Moves(s, [s EXCEPT !.mode = v, !.capture = w], s.phase)
                        /\ Moves(s, [s EXCEPT !.focus = v, !.capture = w], s.phase)
                        /\ Moves(s, [s EXCEPT !.phase = v, !.mode = w], v)
                        /\ Moves(s, [s EXCEPT !.history.at = v, !.mode = w], s.phase)
           /\ \A u, v, w : Moves(s, [s EXCEPT !.focus = u, !.capture = v, !.mode = w], s.phase)
BY DEF Whole, Moves

LEMMA EffectsMoveNothing ==
    ASSUME NEW s, Whole(s)
    PROVE  /\ \A ids : /\ Moves(s, T!Select(s, ids), s.phase)
                       /\ Moves(s, T!Nominated(s, ids), s.phase)
           /\ Moves(s, T!Deselect(s), s.phase)
           /\ Moves(s, T!RestoreSelection(s), s.phase)
           /\ Moves(s, T!CancelHistory(s), s.phase)
           /\ Moves(s, T!ReleaseDrag(s), s.phase)
<1>1. \A ids : /\ Moves(s, T!Select(s, ids), s.phase)
               /\ Moves(s, T!Nominated(s, ids), s.phase)
  BY OtherAxesMoveNothing DEF T!Select, T!Nominated
<1>2. Moves(s, T!Deselect(s), s.phase)
  BY OtherAxesMoveNothing DEF T!Deselect
<1>3. Moves(s, T!RestoreSelection(s), s.phase)
  BY <1>1, OtherAxesMoveNothing DEF T!RestoreSelection
<1>4. Moves(s, T!CancelHistory(s), s.phase)
  BY OtherAxesMoveNothing DEF T!CancelHistory
<1>5. Moves(s, T!ReleaseDrag(s), s.phase)
  BY OtherAxesMoveNothing DEF T!ReleaseDrag
<1> QED BY <1>1, <1>2, <1>3, <1>4, <1>5

LEMMA MovesOnMoves ==
    ASSUME NEW s, NEW t, NEW u, NEW phase, NEW next, Moves(s, t, phase), Moves(t, u, next)
    PROVE  Moves(s, u, next)
BY DEF Moves

\* What the pointer, a pick and the focus do.
LEMMA PointerMoves ==
    ASSUME NEW s, T!AxesAgree(s), NEW held, NEW ids, NEW t,
           \/ t \in T!PointerPressed(s, held, ids) \cup T!PointerMoved(s, ids)
           \/ t \in T!PointerReleased(s) \cup T!DragFinished(s) \cup T!StartDrag(s, held)
           \/ t \in T!Nominate(s, ids) \cup T!VerifyExact(s, ids) \cup T!VerifyAmbiguous(s, ids)
           \/ t \in T!FocusIn(s) \cup T!RecoveryCompleted(s)
    PROVE  Moves(s, t, s.phase)
<1>1. Whole(s)
  BY SessionIsWhole DEF T!AxesAgree
<1>2. CASE t \in T!PointerPressed(s, held, ids) \cup T!PointerMoved(s, ids)
  <2> DEFINE a == IF ids = <<>> THEN s ELSE T!Nominated(s, ids)
  <2>1. Moves(s, a, s.phase)
    BY <1>1, OtherAxesMoveNothing, EffectsMoveNothing
  <2>2. t = a \/ t = [a EXCEPT !.capture = held]
    BY <1>2, Taken DEF T!PointerPressed, T!PointerMoved
  <2> HIDE DEF a
  <2>3. Moves(a, t, a.phase)
    BY <2>1, <2>2 DEF Moves, Whole
  <2> QED BY <2>1, <2>3 DEF Moves
<1>3. CASE t \in T!PointerReleased(s)
  <2> DEFINE a == T!ReleaseDrag(s)
  <2>1. Moves(s, a, s.phase)
    BY <1>1, EffectsMoveNothing
  <2>2. t = [a EXCEPT !.capture = NoTool]
    BY <1>3, Taken DEF T!PointerReleased
  <2> HIDE DEF a
  <2>3. Moves(a, t, a.phase)
    BY <2>1, <2>2 DEF Moves, Whole
  <2> QED BY <2>1, <2>3 DEF Moves
<1>4. CASE t \in T!DragFinished(s) \cup T!StartDrag(s, held)
  <2>1. \/ t = [s EXCEPT !.mode = T!Mode("ModelessReady"), !.capture = NoTool]
        \/ t = [s EXCEPT !.mode = T!Drag(held)]
    BY <1>4, Taken DEF T!DragFinished, T!StartDrag
  <2> QED BY <1>1, <2>1 DEF Moves, Whole
<1>5. CASE t \in T!VerifyExact(s, ids)
  <2> DEFINE a == T!Select(s, ids)
  <2>1. Moves(s, a, s.phase)
    BY <1>1, EffectsMoveNothing
  <2>2. t = [a EXCEPT !.timeline = T!NoTimeline]
    BY <1>5, Taken DEF T!VerifyExact
  <2> HIDE DEF a
  <2>3. Moves(a, t, a.phase)
    BY <2>1, <2>2 DEF Moves, Whole
  <2> QED BY <2>1, <2>3 DEF Moves
<1>6. CASE t \in T!Nominate(s, ids) \cup T!VerifyAmbiguous(s, ids)
  BY <1>1, <1>6, Taken, EffectsMoveNothing DEF T!Nominate, T!VerifyAmbiguous
<1>7. CASE t \in T!FocusIn(s) \cup T!RecoveryCompleted(s)
  <2>1. \/ t = [s EXCEPT !.focus = "Focused", !.capture = NoTool,
                        !.mode = T!Mode("RecoveryReady")]
        \/ \E m : t = [s EXCEPT !.mode = m]
    BY <1>7, Taken DEF T!FocusIn, T!RecoveryCompleted
  <2> QED BY <1>1, <2>1 DEF Moves, Whole
<1> QED BY <1>2, <1>3, <1>4, <1>5, <1>6, <1>7

\* A blur takes a preview back to the draft it is of.
Unpreviewed(phase) == IF phase \in T!Previews THEN "Draft" ELSE phase

LEMMA BlurMoves ==
    ASSUME NEW s, T!AxesAgree(s), NEW t \in T!FocusLost(s)
    PROVE  Moves(s, t, Unpreviewed(s.phase))
<1>1. Whole(s)
  BY SessionIsWhole DEF T!AxesAgree
<1> DEFINE a == [s EXCEPT !.focus = "FocusLost", !.capture = NoTool]
           b == T!RestoreSelection(a)
           c == IF b.phase \in T!Previews THEN [b EXCEPT !.phase = "Draft"] ELSE b
           d == T!CancelHistory(c)
           e == T!ReleaseDrag(d)
<1>2. t = e
  BY Taken DEF T!FocusLost
<1>3. Moves(s, a, s.phase)
  BY <1>1, OtherAxesMoveNothing
<1> HIDE DEF a
<1>4. Moves(a, b, a.phase)
  BY <1>3, EffectsMoveNothing DEF Moves
<1> HIDE DEF b
<1>5. Moves(b, c, Unpreviewed(b.phase))
  BY <1>4 DEF Moves, Unpreviewed, Whole
<1> HIDE DEF c
<1>6. Moves(c, d, c.phase)
  BY <1>5, EffectsMoveNothing DEF Moves
<1> HIDE DEF d
<1>7. Moves(d, e, d.phase)
  BY <1>6, EffectsMoveNothing DEF Moves
<1> HIDE DEF e
<1> QED BY <1>2, <1>3, <1>4, <1>5, <1>6, <1>7 DEF Moves

\* Commands.
LEMMA CommandMoves ==
    ASSUME NEW s, T!AxesAgree(s), NEW t
    PROVE  /\ t \in T!DraftUpdated(s)          => s.phase = "Draft" /\ Moves(s, t, "Draft")
           /\ t \in T!PreviewRequested(s)      => Moves(s, t, "Previewing")
           /\ t \in T!PreviewReady(s)          => Moves(s, t, "PreviewReady")
           /\ t \in T!PreviewRejected(s)       => Moves(s, t, "Draft")
           /\ t \in T!CommitRequested(s)       => Moves(s, t, "Committing")
           /\ t \in T!CommitRejected(s)        => Moves(s, t, "Rejected")
           /\ t \in T!CancelRequested(s)       => Moves(s, t, "Cancelling")
           /\ t \in T!CancellationCompleted(s) => Moves(s, t, "Cancelled")
<1>1. Whole(s)
  BY SessionIsWhole DEF T!AxesAgree
<1>2. ASSUME NEW from, NEW to, t \in T!MoveTo(s, from, to)
      PROVE  s.phase \in from /\ Moves(s, t, to)
  <2>1. s.phase \in from /\ t = [s EXCEPT !.phase = to]
    BY <1>2, Taken DEF T!MoveTo
  <2> QED BY <1>1, <2>1 DEF Moves, Whole
<1> QED BY <1>2 DEF T!DraftUpdated, T!PreviewRequested, T!PreviewReady, T!PreviewRejected,
               T!CommitRequested, T!CommitRejected, T!CancelRequested, T!CancellationCompleted

LEMMA OpenMoves ==
    ASSUME NEW s, T!AxesAgree(s), NEW command, NEW t \in T!OpenCommand(s, command)
    PROVE  s.phase = "Idle" /\ Moves(s, t, "Draft")
<1>1. Whole(s)
  BY SessionIsWhole DEF T!AxesAgree
<1>2. /\ s.phase = "Idle"
      /\ t = [s EXCEPT !.active = command, !.source = s.canonical, !.phase = "Draft",
                       !.mode = T!Mode("CommandModal")]
  BY Taken DEF T!OpenCommand, T!AtRest
<1> QED BY <1>1, <1>2 DEF Whole, Moves

LEMMA DismissMoves ==
    ASSUME NEW s, T!AxesAgree(s), NEW t \in T!OutcomeDismissed(s)
    PROVE  Moves(s, t, "Idle")
<1>1. Whole(s)
  BY SessionIsWhole DEF T!AxesAgree
<1>2. t = [s EXCEPT !.phase = "Idle", !.active = NoCommand, !.source = T!NoRevision,
                    !.mode = T!Mode("ModelessReady")]
  BY Taken DEF T!OutcomeDismissed, T!CloseDraft
<1> QED BY <1>1, <1>2 DEF Whole, Moves

LEMMA AcceptMoves ==
    ASSUME NEW s, T!AxesAgree(s), NEW source, NEW validated, NEW revision,
           NEW t \in T!CommitAccepted(s, source, validated, revision)
    PROVE  Whole(t) /\ t.phase = "Committed" /\ t.lifecycle = s.lifecycle
           /\ t.generation = s.generation
<1>1. Whole(s)
  BY SessionIsWhole DEF T!AxesAgree
<1>2. t = [s EXCEPT !.canonical = revision, !.history = T!Linear(TRUE, FALSE),
                    !.phase = "Committed"]
  BY Taken DEF T!CommitAccepted
<1> QED BY <1>1, <1>2 DEF Whole

\* The events that bump the generation.
Bumped(s, t) == t.generation = s.generation + 1

LEMMA PressMoves ==
    ASSUME NEW s, T!AxesAgree(s), NEW forward, NEW t \in T!Press(s, forward)
    PROVE  /\ t.phase = s.phase /\ t.lifecycle = s.lifecycle /\ t.canonical = s.canonical
           /\ Bumped(s, t)
<1>1. Whole(s)
  BY SessionIsWhole DEF T!AxesAgree
<1>2. PICK ids : t = [T!Select(s, ids) EXCEPT !.timeline = T!NoTimeline, !.generation = @ + 1]
  <2> DEFINE last == Len(s.targets)
             at == s.selectedIndex
             next == IF at < last THEN at + 1 ELSE at
             previous == IF at > 1 THEN at - 1 ELSE at
             i == IF at = 0 /\ ~forward THEN last ELSE IF forward THEN next ELSE previous
  <2>1. PICK b : b = T!Select(s, <<s.targets[i]>>)
    OBVIOUS
  <2>2. t = [b EXCEPT !.timeline = T!NoTimeline, !.generation = @ + 1]
    BY <2>1 DEF T!Press, T!When
  <2> HIDE DEF i
  <2> QED BY <2>1, <2>2
<1> DEFINE a == T!Select(s, ids)
<1>3. Moves(s, a, s.phase)
  BY <1>1, EffectsMoveNothing
<1>4. t = [a EXCEPT !.timeline = T!NoTimeline, !.generation = @ + 1]
  BY <1>2
<1> HIDE DEF a
<1> QED BY <1>3, <1>4 DEF Moves, Whole, Bumped

LEMMA ResizeMoves ==
    ASSUME NEW s, T!AxesAgree(s), NEW t
    PROVE  /\ t \in T!ResizeStarted(s) =>
                /\ t.phase = Unpreviewed(s.phase) /\ t.canonical = s.canonical
                /\ t.lifecycle = "Resizing" /\ Bumped(s, t)
           /\ t \in T!ResizeCompleted(s) =>
                /\ t.phase = s.phase /\ t.canonical = s.canonical
                /\ t.lifecycle = "InteractiveReady" /\ t.generation = s.generation
<1>1. Whole(s)
  BY SessionIsWhole DEF T!AxesAgree
<1>2. ASSUME t \in T!ResizeStarted(s)
      PROVE  /\ t.phase = Unpreviewed(s.phase) /\ t.canonical = s.canonical
             /\ t.lifecycle = "Resizing" /\ Bumped(s, t)
  <2> DEFINE a == [s EXCEPT !.generation = @ + 1, !.capture = NoTool]
             b == T!RestoreSelection(a)
             c == T!CancelHistory(b)
             d == T!ReleaseDrag(c)
             e == IF d.phase \in T!Previews
                  THEN [d EXCEPT !.phase = "Draft", !.mode = T!Mode("CommandModal")] ELSE d
  <2>1. t = [e EXCEPT !.lifecycle = "Resizing"]
    BY <1>2, Taken DEF T!ResizeStarted, T!InvalidateForResize
  <2>2. /\ Whole(a) /\ a.phase = s.phase /\ a.canonical = s.canonical
        /\ a.generation = s.generation + 1
    BY <1>1 DEF Whole
  <2> HIDE DEF a
  <2>3. Moves(a, b, a.phase)
    BY <2>2, EffectsMoveNothing
  <2> HIDE DEF b
  <2>4. Moves(b, c, b.phase)
    BY <2>3, EffectsMoveNothing DEF Moves
  <2> HIDE DEF c
  <2>5. Moves(c, d, c.phase)
    BY <2>4, EffectsMoveNothing DEF Moves
  <2> HIDE DEF d
  <2>6. Moves(d, e, Unpreviewed(d.phase))
    BY <2>5 DEF Moves, Unpreviewed, Whole
  <2> HIDE DEF e
  <2>7. Whole(e) /\ e.phase = Unpreviewed(s.phase) /\ e.canonical = s.canonical
        /\ e.generation = s.generation + 1
    BY <2>2, <2>3, <2>4, <2>5, <2>6 DEF Moves
  <2> QED BY <2>1, <2>7 DEF Whole, Bumped
<1>3. ASSUME t \in T!ResizeCompleted(s)
      PROVE  /\ t.phase = s.phase /\ t.canonical = s.canonical
             /\ t.lifecycle = "InteractiveReady" /\ t.generation = s.generation
  <2>1. \E m : t = [s EXCEPT !.lifecycle = "InteractiveReady", !.mode = m]
    <3>1. PICK m : m = CASE s.phase = "Idle"        -> T!Mode("ModelessReady")
                         [] s.phase \in T!Outcomes -> s.mode
                         [] OTHER                  -> T!Mode("CommandModal")
      OBVIOUS
    <3>2. t = [s EXCEPT !.lifecycle = "InteractiveReady", !.mode = m]
      BY <1>3, <3>1, Taken DEF T!ResizeCompleted
    <3> QED BY <3>2
  <2> QED BY <1>1, <2>1 DEF Whole
<1> QED BY <1>2, <1>3

LEMMA RefreshMoves ==
    ASSUME NEW s, T!AxesAgree(s), NEW targets, NEW revision
    PROVE  LET t == T!Refresh(s, targets, revision)
           IN  /\ t.phase = s.phase /\ t.lifecycle = s.lifecycle /\ t.canonical = revision
               /\ Bumped(s, t)
<1>1. Whole(s)
  BY SessionIsWhole DEF T!AxesAgree
<1> DEFINE a == [s EXCEPT !.targets = targets, !.canonical = revision, !.generation = @ + 1]
           t == T!Refresh(s, targets, revision)
<1>2. /\ Whole(a) /\ a.phase = s.phase /\ a.lifecycle = s.lifecycle
      /\ a.canonical = revision /\ a.generation = s.generation + 1
  BY <1>1 DEF Whole
<1>3. (\E ids : t = T!Select(a, ids)) \/ t = T!Deselect(a)
  BY DEF T!Refresh
<1> HIDE DEF a, t
<1>4. Moves(a, t, a.phase)
  BY <1>2, <1>3, EffectsMoveNothing
<1>5. t.phase = s.phase /\ t.lifecycle = s.lifecycle /\ t.canonical = revision /\ Bumped(s, t)
  BY <1>2, <1>4 DEF Moves, Bumped
<1> QED BY <1>5 DEF t

-----------------------------------------------------------------------------
(* The state machine, the attachment, the scene and the draft together, inside *)
(* a handler and between inputs                                                *)

\* What holds all through a handler, with room for so many bumps of the
\* generation and so many frames.
Room(a, bumps, frames) ==
  /\ IsSession(a) /\ a.session = "running"
  /\ T!AxesAgree(a.tui) /\ a.tui.generation + bumps <= MaxGeneration
  /\ Agree(a.render) /\ a.render.nextToken + frames <= MaxToken
  /\ a.draft.command \in Commands \cup {NoCommand}
  /\ a.draft.input \in Features \cup {NoInput}
  /\ a.canonical \in Scenes /\ a.scene \in Scenes
  /\ a.loaded \in Revisions /\ a.disk \in Revisions
  /\ a.canonical.revision <= a.loaded /\ a.loaded <= a.disk

\* The ready state machine is in a phase, on the revision of the canonical scene.
At(a, phase) ==
  /\ a.tui.lifecycle = "InteractiveReady" /\ a.tui.phase = phase
  /\ a.tui.canonical = a.canonical.revision

\* Between inputs the phase and the draft go together.
Calm(a) ==
  /\ \E phase \in {"Idle", "Draft", "PreviewReady"} \cup T!Outcomes : At(a, phase)
  /\ Drafting(a) <=> a.tui.phase \in {"Draft", "PreviewReady"}
  /\ a.tui.phase = "PreviewReady" => a.draft.preview # <<>>

\* What a handler may answer.
Kept(r) ==
  /\ Room(r.to, 0, 0) /\ r.session \in {"running", "failed", "lost"}
  /\ r.session = "running" => Calm(r.to)

LEMMA BoundsAreNumbers ==
    /\ MaxGeneration \in Nat /\ MaxToken \in Nat \ {0} /\ MaxRevision \in Nat \ {0}
    /\ T!Revisions = Revisions
BY PartsAssumption, InteractiveAssumption
   DEF T!SessionAssumption, R!RendererAssumption, T!Revisions, Revisions

LEMMA RoomIsRoom ==
    ASSUME NEW a, NEW m \in Nat, NEW n \in Nat, NEW k \in 0..m, NEW l \in 0..n, Room(a, m, n)
    PROVE  /\ Room(a, k, l) /\ a.tui.generation \in Nat /\ a.render.nextToken \in Nat
           /\ a.tui \in T!Sessions
<1>1. a.tui.generation \in 0..MaxGeneration /\ a.render.nextToken \in 0..MaxToken
      /\ a.tui \in T!Sessions
  BY DEF Room, T!AxesAgree, T!Sessions, Agree, Fits, R!Attachments
<1>2. a.tui.generation + k <= MaxGeneration /\ a.render.nextToken + l <= MaxToken
  BY <1>1, BoundsAreNumbers DEF Room
<1> QED BY <1>1, <1>2, BoundsAreNumbers DEF Room

LEMMA RoomLeft ==
    ASSUME NEW a, NEW m \in Nat, NEW n \in Nat, Room(a, m, n)
    PROVE  Room(a, 0, 0)
BY RoomIsRoom

\* The parts of a session that only differs in the state machine, the attachment
\* or the outcome.
LEMMA SameHasRoom ==
    ASSUME NEW a, NEW m \in Nat, NEW n \in Nat, Room(a, m, n), NEW b, Same(a, b),
           NEW k \in Nat, NEW l \in Nat,
           T!AxesAgree(b.tui), b.tui.generation + k <= MaxGeneration,
           Agree(b.render), b.render.nextToken + l <= MaxToken
    PROVE  Room(b, k, l)
BY DEF Room, Same

LEMMA EventIs ==
    ASSUME NEW a, IsSession(a), NEW sessions, NEW r \in Event(a, sessions)
    PROVE  \/ r.session = "failed" /\ r.to = a
           \/ r.session = "running" /\ r.to.tui \in sessions
<1>1. CASE r = Fails(a)
  BY <1>1, AnsweredOf
<1>2. ASSUME NEW s \in sessions, r = Done([a EXCEPT !.tui = s])
      PROVE  r.session = "running" /\ r.to.tui \in sessions
  <2>1. r.to = [a EXCEPT !.tui = s] /\ r.session = "running"
    BY <1>2, AnsweredOf
  <2> QED BY <2>1 DEF IsSession, Fields
<1> QED BY <1>1, <1>2 DEF Event

LEMMA EventSteps ==
    ASSUME NEW a, NEW m \in Nat, NEW n \in Nat, Room(a, m, n), NEW sessions,
           \A s \in sessions : T!AxesAgree(s) /\ s.generation + m <= MaxGeneration,
           NEW r \in Event(a, sessions)
    PROVE  /\ Room(r.to, m, n) /\ Same(a, r.to) /\ r.to.render = a.render
           /\ r.session \in {"running", "failed"}
           /\ r.session = "running" => r.to.tui \in sessions
<1>1. Same(a, r.to) /\ r.to.render = a.render /\ r.session \in {"running", "failed"}
  BY EventKeeps DEF Room
<1>2. \/ r.session = "failed" /\ r.to = a
      \/ r.session = "running" /\ r.to.tui \in sessions
  BY EventIs DEF Room
<1>3. CASE r.session = "failed" /\ r.to = a
  BY <1>1, <1>3
<1>4. CASE r.session = "running" /\ r.to.tui \in sessions
  <2>1. Room(r.to, m, n)
    BY <1>1, <1>4, SameHasRoom DEF Room
  <2> QED BY <1>1, <1>4, <2>1
<1> QED BY <1>2, <1>3, <1>4

\* A transition that only moves the phase.
LEMMA EventAt ==
    ASSUME NEW a, NEW m \in Nat, NEW n \in Nat, Room(a, m, n), NEW phase, At(a, phase),
           NEW next, NEW sessions,
           \A s \in sessions : T!AxesAgree(s) /\ Moves(a.tui, s, next),
           NEW r \in Event(a, sessions)
    PROVE  /\ Room(r.to, m, n) /\ Same(a, r.to) /\ r.to.render = a.render
           /\ r.session \in {"running", "failed"}
           /\ r.session = "running" => At(r.to, next)
<1>1. \A s \in sessions : T!AxesAgree(s) /\ s.generation + m <= MaxGeneration
  BY DEF Moves, Room
<1>2. /\ Room(r.to, m, n) /\ Same(a, r.to) /\ r.to.render = a.render
      /\ r.session \in {"running", "failed"}
      /\ r.session = "running" => r.to.tui \in sessions
  BY <1>1, EventSteps
<1> QED BY <1>2 DEF At, Moves, Same

LEMMA BumpFits ==
    ASSUME NEW s, T!AxesAgree(s), s.generation < MaxGeneration
    PROVE  LET t == [s EXCEPT !.generation = @ + 1]
           IN  /\ T!AxesAgree(t) /\ t.generation = s.generation + 1
               /\ t.phase = s.phase /\ t.lifecycle = s.lifecycle /\ t.canonical = s.canonical
<1> DEFINE t == [s EXCEPT !.generation = @ + 1]
<1>1. s.generation + 1 \in 0..MaxGeneration
  BY BoundsAreNumbers DEF T!AxesAgree, T!Sessions
<1>2. /\ t \in T!Sessions /\ t.lifecycle = s.lifecycle /\ t.focus = s.focus
      /\ t.capture = s.capture /\ t.mode = s.mode /\ t.phase = s.phase
      /\ t.targets = s.targets /\ t.active = s.active /\ t.source = s.source
      /\ t.history = s.history /\ t.selection = s.selection
      /\ t.selectedIndex = s.selectedIndex /\ t.canonical = s.canonical
      /\ t.generation = s.generation + 1
  BY <1>1 DEF T!AxesAgree, T!Sessions
<1> HIDE DEF t
<1>3. T!PhaseHasItsCommand(t) /\ T!DragKeepsItsCapture(t) /\ T!NothingHeldUnready(t)
  BY <1>2 DEF T!AxesAgree, T!PhaseHasItsCommand, T!DragKeepsItsCapture, T!NothingHeldUnready,
              T!Ready, T!Captured, T!Dragging
<1>4. T!AxesAgree(t)
  BY <1>2, <1>3, OtherAxesFit
<1> QED BY <1>2, <1>4 DEF t

LEMMA BumpSteps ==
    ASSUME NEW a, NEW m \in Nat, NEW n \in Nat, Room(a, m + 1, n)
    PROVE  /\ Room(Bump(a), m, n) /\ Same(a, Bump(a)) /\ Bump(a).render = a.render
           /\ \A phase : At(a, phase) => At(Bump(a), phase)
<1> DEFINE t == [a.tui EXCEPT !.generation = @ + 1]
<1>1. Bump(a).tui = t /\ Same(a, Bump(a)) /\ Bump(a).render = a.render
  BY BumpKeeps DEF Bump, Room, IsSession, Fields
<1>2. a.tui.generation + 1 + m <= MaxGeneration /\ a.tui.generation < MaxGeneration
      /\ a.tui.generation \in Nat
  <2>1. a.tui.generation \in Nat
    BY RoomIsRoom, m + 1 \in Nat, 0 \in 0..(m + 1), 0 \in 0..n
  <2> QED BY <2>1, BoundsAreNumbers DEF Room
<1>3. /\ T!AxesAgree(t) /\ t.generation = a.tui.generation + 1
      /\ t.phase = a.tui.phase /\ t.lifecycle = a.tui.lifecycle
      /\ t.canonical = a.tui.canonical
  BY <1>2, BumpFits DEF Room
<1> HIDE DEF t
<1>4. Room(Bump(a), m, n)
  <2>1. m + 1 \in Nat
    OBVIOUS
  <2> QED BY <1>1, <1>2, <1>3, <2>1, SameHasRoom DEF Room
<1> QED BY <1>1, <1>3, <1>4 DEF At, Same

LEMMA FrameIsFrame ==
    ASSUME NEW a, NEW m \in Nat, NEW n \in Nat, Room(a, m, n)
    PROVE  [generation |-> a.tui.generation, scene |-> a.scene] \in Frames
<1>1. a.tui.generation \in 0..MaxGeneration /\ a.scene \in Scenes
  BY DEF Room, T!AxesAgree, T!Sessions
<1> QED BY <1>1, InteractiveAssumption

LEMMA RenderSteps ==
    ASSUME NEW a, NEW m \in Nat, Room(a, m, 1), NEW r \in Render(a)
    PROVE  /\ Room(r.to, m, 0) /\ Same(a, r.to) /\ r.to.tui = a.tui
           /\ r.session \in {"running", "lost"}
           /\ \A phase : At(a, phase) => At(r.to, phase)
<1> DEFINE frame == [generation |-> a.tui.generation, scene |-> a.scene]
<1>1. frame \in Frames
  BY FrameIsFrame
<1>2. PICK s \in R!Submit(a.render, frame) : r = OnTerminal(a, s)
  BY DEF Render
<1> HIDE DEF frame
<1>3. a.render.nextToken < MaxToken
  BY RoomIsRoom, BoundsAreNumbers DEF Room
<1>4. Agree(s.to)
  BY <1>1, <1>2, <1>3, SubmitAgrees DEF Room
<1>5. r.to = [a EXCEPT !.render = s.to] /\ r.session \in {"running", "lost"}
  BY <1>2, AnsweredOf DEF OnTerminal
<1>6. Same(a, r.to) /\ r.to.tui = a.tui /\ r.to.render = s.to
  BY <1>5 DEF Room, IsSession, Fields, Same
<1>7. s.to.nextToken + 0 <= MaxToken
  BY <1>4, BoundsAreNumbers DEF Agree, Fits, R!Attachments
<1>8. Room(r.to, m, 0)
  BY <1>4, <1>6, <1>7, SameHasRoom DEF Room
<1> QED BY <1>5, <1>6, <1>8 DEF At, Same

LEMMA DoneSteps ==
    ASSUME NEW a
    PROVE  Done(a).to = a /\ Done(a).session = "running"
BY AnsweredOf

\* A frame of the scene, of a new generation or not, or no frame.
LEMMA RedrawSteps ==
    ASSUME NEW a, Room(a, 1, 1), NEW phase, At(a, phase),
           NEW r \in Render(a) \cup Render(Bump(a)) \cup {Done(a)}
    PROVE  /\ Room(r.to, 0, 0) /\ Same(a, r.to) /\ At(r.to, phase)
           /\ r.session \in {"running", "lost"}
<1>0. Room(a, 0, 1) /\ Room(a, 0, 0)
  BY RoomIsRoom
<1>1. CASE r \in Render(a)
  BY <1>0, <1>1, RenderSteps
<1>2. CASE r \in Render(Bump(a))
  <2>1. Room(Bump(a), 0, 1) /\ Same(a, Bump(a)) /\ At(Bump(a), phase)
    BY BumpSteps, 0 + 1 = 1
  <2>2. /\ Room(r.to, 0, 0) /\ Same(Bump(a), r.to) /\ At(r.to, phase)
        /\ r.session \in {"running", "lost"}
    BY <1>2, <2>1, RenderSteps
  <2> QED BY <2>1, <2>2 DEF Same
<1>3. CASE r = Done(a)
  BY <1>0, <1>3, DoneSteps DEF Same, Room
<1> QED BY <1>1, <1>2, <1>3

-----------------------------------------------------------------------------
(* Preview and commit, with the state machine *)

LEMMA CommandEventsFit ==
    ASSUME NEW s, T!AxesAgree(s), NEW t,
           \/ t \in T!DraftUpdated(s) \cup T!PreviewRequested(s) \cup T!PreviewReady(s)
           \/ t \in T!PreviewRejected(s) \cup T!CommitRequested(s) \cup T!CommitRejected(s)
           \/ t \in T!CancelRequested(s) \cup T!CancellationCompleted(s)
           \/ t \in T!OutcomeDismissed(s)
    PROVE  T!AxesAgree(t)
<1>1. 1 \in T!Revisions
  BY BoundsAreNumbers DEF T!Revisions
<1> QED BY <1>1, CommandFits

LEMMA CommitAcceptedFits ==
    ASSUME NEW s, T!AxesAgree(s), NEW source, NEW revision \in T!Revisions,
           NEW t \in T!CommitAccepted(s, source, source, revision)
    PROVE  T!AxesAgree(t)
<1>1. s.phase = "Committing" /\ s.source = source
  BY Taken DEF T!CommitAccepted
<1>2. source \in T!Revisions
  BY <1>1 DEF T!AxesAgree, T!Sessions, T!PhaseHasItsCommand, T!NoRevision
<1> QED BY <1>2, CommandFits

LEMMA LoadSteps ==
    ASSUME NEW a, NEW m \in Nat, NEW n \in Nat, Room(a, m, n)
    PROVE  /\ Room(Load(a), m, n) /\ Load(a).render = a.render /\ Load(a).draft = a.draft
           /\ Load(a).loaded = a.disk /\ Load(a).tui = a.tui
           /\ \A phase : At(a, phase) => At(Load(a), phase)
<1>1. /\ IsSession(Load(a)) /\ Load(a).session = a.session /\ Load(a).draft = a.draft /\ Load(a).canonical = a.canonical
      /\ Load(a).scene = a.scene /\ Load(a).disk = a.disk /\ Load(a).render = a.render
      /\ Load(a).tui = a.tui /\ Load(a).loaded = a.disk
  BY LoadFits DEF Room, Load, IsSession, Fields
<1>2. a.canonical.revision <= a.disk /\ a.disk <= a.disk
  <2>1. a.canonical.revision \in Nat /\ a.loaded \in Nat /\ a.disk \in Nat
    BY BoundsAreNumbers DEF Room, Scenes, Revisions
  <2> QED BY <2>1 DEF Room
<1> QED BY <1>1, <1>2 DEF Room, At

LEMMA RestoreSteps ==
    ASSUME NEW a, NEW m \in Nat, NEW n \in Nat, Room(a, m, n)
    PROVE  /\ Room(Restore(a), m, n) /\ Restore(a).render = a.render
           /\ Restore(a).draft = a.draft /\ Restore(a).tui = a.tui
           /\ \A phase : At(a, phase) => At(Restore(a), phase)
<1>1. /\ IsSession(Restore(a)) /\ Restore(a).session = a.session /\ Restore(a).draft = a.draft
      /\ Restore(a).canonical = a.canonical
      /\ Restore(a).scene = a.canonical /\ Restore(a).disk = a.disk
      /\ Restore(a).loaded = a.loaded
      /\ Restore(a).render = a.render /\ Restore(a).tui = a.tui
  BY RestoreFits DEF Room, Restore, IsSession, Fields
<1> QED BY <1>1 DEF Room, At

\* Another draft of the same kind, or none.
LEMMA DraftSteps ==
    ASSUME NEW a, NEW m \in Nat, NEW n \in Nat, Room(a, m, n), NEW draft,
           {"command", "source", "input", "preview"} \subseteq DOMAIN draft,
           draft.command \in Commands \cup {NoCommand}, draft.input \in Features \cup {NoInput}
    PROVE  LET b == [a EXCEPT !.draft = draft]
           IN  /\ Room(b, m, n) /\ b.render = a.render /\ b.draft = draft /\ b.tui = a.tui
               /\ b.canonical = a.canonical /\ b.scene = a.scene
               /\ b.loaded = a.loaded /\ b.disk = a.disk /\ b.palette = a.palette
               /\ \A phase : At(a, phase) => At(b, phase)
<1> DEFINE b == [a EXCEPT !.draft = draft]
<1>1. /\ IsSession(b) /\ b.session = a.session /\ b.render = a.render /\ b.draft = draft /\ b.tui = a.tui
      /\ b.canonical = a.canonical /\ b.scene = a.scene
      /\ b.loaded = a.loaded /\ b.disk = a.disk /\ b.palette = a.palette
  BY DEF Room, IsSession, Fields
<1> HIDE DEF b
<1>2. Room(b, m, n) /\ \A phase : At(a, phase) => At(b, phase)
  BY <1>1 DEF Room, At
<1> QED BY <1>1, <1>2 DEF b

LEMMA NoDraftIsADraft ==
    /\ {"command", "source", "input", "preview"} \subseteq DOMAIN NoDraft
    /\ NoDraft.command = NoCommand /\ NoDraft.command \in Commands \cup {NoCommand}
    /\ NoDraft.input \in Features \cup {NoInput}
BY DEF NoDraft

\* The end of a handler that has an outcome, or a draft still.
LEMMA OutcomeIsCalm ==
    ASSUME NEW a, NEW phase \in T!Outcomes \cup {"Idle"}, At(a, phase), ~Drafting(a)
    PROVE  Calm(a)
BY DEF Calm, At, T!Outcomes

LEMMA DraftIsCalm ==
    ASSUME NEW a, Drafting(a),
           At(a, "Draft") \/ (At(a, "PreviewReady") /\ a.draft.preview # <<>>)
    PROVE  Calm(a)
BY DEF Calm, At

LEMMA RejectPreviewSettles ==
    ASSUME NEW a, Room(a, 1, 1), At(a, "Previewing"), Drafting(a), NEW r \in RejectPreview(a)
    PROVE  Kept(r)
<1> DEFINE draft == [a.draft EXCEPT !.preview = <<>>]
           hidden == [Restore(a) EXCEPT !.draft.preview = <<>>]
<1>1. /\ Room(hidden, 1, 1) /\ At(hidden, "Previewing") /\ Drafting(hidden)
      /\ hidden.tui = a.tui
  <2>1. /\ Room(Restore(a), 1, 1) /\ Restore(a).draft = a.draft
        /\ At(Restore(a), "Previewing") /\ Restore(a).tui = a.tui
    BY RestoreSteps
  <2>2. /\ {"command", "source", "input", "preview"} \subseteq DOMAIN draft
        /\ draft.command = a.draft.command /\ draft.input = a.draft.input
    BY DEF Room, IsSession
  <2>3. hidden = [Restore(a) EXCEPT !.draft = draft]
    BY <2>1
  <2> HIDE DEF draft, hidden
  <2>4. /\ Room(hidden, 1, 1) /\ hidden.draft = draft /\ At(hidden, "Previewing")
        /\ hidden.tui = a.tui
    BY <2>1, <2>2, <2>3, DraftSteps DEF Room
  <2> QED BY <2>2, <2>4 DEF Drafting
<1>2. PICK e \in Event(hidden, T!PreviewRejected(a.tui)) :
        IF e.session = "running"
        THEN r \in IF Transient(a) THEN Render(Bump(e.to)) ELSE {Done(e.to)}
        ELSE r = e
  BY DEF RejectPreview, Then
<1> HIDE DEF hidden
<1>3. \A s \in T!PreviewRejected(a.tui) : T!AxesAgree(s) /\ Moves(hidden.tui, s, "Draft")
  BY <1>1, CommandMoves, CommandEventsFit DEF Room
<1>4. /\ Room(e.to, 1, 1) /\ Same(hidden, e.to) /\ e.session \in {"running", "failed"}
      /\ e.session = "running" => At(e.to, "Draft")
  BY <1>1, <1>3, EventAt
<1>5. CASE e.session = "running"
  <2>1. /\ Room(r.to, 0, 0) /\ Same(e.to, r.to) /\ At(r.to, "Draft")
        /\ r.session \in {"running", "lost"}
    BY <1>2, <1>4, <1>5, RedrawSteps
  <2>2. Drafting(r.to)
    BY <1>1, <1>4, <2>1 DEF Same, Drafting
  <2> QED BY <2>1, <2>2, DraftIsCalm DEF Kept
<1>6. CASE e.session = "failed"
  BY <1>2, <1>4, <1>6, RoomLeft DEF Kept
<1> QED BY <1>4, <1>5, <1>6

LEMMA ShowPreviewSettles ==
    ASSUME NEW a, Room(a, 1, 1), At(a, "Previewing"), Drafting(a), Previewable(a),
           NEW r \in ShowPreview(a)
    PROVE  Kept(r)
<1> DEFINE draft == [a.draft EXCEPT !.preview = <<a.draft.input>>]
           ready == [a EXCEPT !.draft.preview = <<a.draft.input>>]
           drawn == [Load(ready) EXCEPT !.scene = Scene(a.canonical.revision, <<a.draft.input>>)]
           shown == IF Solid(a) THEN drawn ELSE ready
<1>1. PICK e \in Event(Bump(shown), T!PreviewReady(Bump(shown).tui)) :
        IF e.session = "running"
        THEN r \in IF Solid(e.to) THEN Render(e.to) ELSE {Done(e.to)}
        ELSE r = e
  BY DEF ShowPreview, Then
<1>2. /\ {"command", "source", "input", "preview"} \subseteq DOMAIN draft
      /\ draft.command = a.draft.command /\ draft.input = a.draft.input
      /\ draft.preview # <<>>
  BY DEF Room, IsSession
<1>3. ready = [a EXCEPT !.draft = draft]
  OBVIOUS
<1> HIDE DEF draft, ready
<1>4. /\ Room(ready, 1, 1) /\ ready.draft = draft /\ At(ready, "Previewing")
      /\ ready.canonical = a.canonical
  BY <1>2, <1>3, DraftSteps DEF Room
<1>5. Solid(a) => /\ Room(drawn, 1, 1) /\ drawn.draft = draft /\ At(drawn, "Previewing")
  <2> SUFFICES ASSUME Solid(a)
               PROVE  Room(drawn, 1, 1) /\ drawn.draft = draft /\ At(drawn, "Previewing")
    OBVIOUS
  <2>1. a.draft.input \in Features
    BY DEF Previewable, Solid, Requested, Room
  <2>2. Scene(a.canonical.revision, <<a.draft.input>>) \in Scenes
    BY <2>1 DEF Room, Scene, Scenes
  <2>3. Room(Load(ready), 1, 1) /\ Load(ready).draft = draft /\ At(Load(ready), "Previewing")
    BY <1>4, LoadSteps
  <2> DEFINE scene == Scene(a.canonical.revision, <<a.draft.input>>)
             b == Load(ready)
  <2> HIDE DEF scene, b
  <2>4. drawn = [b EXCEPT !.scene = scene]
    BY DEF scene, b
  <2>5. /\ IsSession(drawn) /\ drawn.session = b.session /\ drawn.tui = b.tui /\ drawn.render = b.render
        /\ drawn.draft = b.draft /\ drawn.canonical = b.canonical /\ drawn.scene = scene
        /\ drawn.loaded = b.loaded /\ drawn.disk = b.disk
    BY <2>3, <2>4 DEF Room, IsSession, Fields, b
  <2> QED BY <2>2, <2>3, <2>5 DEF Room, At, scene, b
<1> HIDE DEF drawn
<1>6. Room(shown, 1, 1) /\ shown.draft = draft /\ At(shown, "Previewing")
  BY <1>4, <1>5
<1> HIDE DEF shown
<1>7. /\ Room(Bump(shown), 0, 1) /\ Same(shown, Bump(shown)) /\ At(Bump(shown), "Previewing")
  BY <1>6, BumpSteps, 0 + 1 = 1
<1> DEFINE b == Bump(shown)
<1> HIDE DEF b
<1>8. \A s \in T!PreviewReady(b.tui) : T!AxesAgree(s) /\ Moves(b.tui, s, "PreviewReady")
  BY <1>7, CommandMoves, CommandEventsFit DEF Room, b
<1>9. /\ Room(e.to, 0, 1) /\ Same(b, e.to) /\ e.session \in {"running", "failed"}
      /\ e.session = "running" => At(e.to, "PreviewReady")
  BY <1>1, <1>7, <1>8, EventAt DEF b
<1>10. CASE e.session = "running"
  <2>1. /\ Room(r.to, 0, 0) /\ Same(e.to, r.to) /\ At(r.to, "PreviewReady")
        /\ r.session \in {"running", "lost"}
    <3>1. CASE r \in Render(e.to)
      BY <1>9, <1>10, <3>1, RenderSteps
    <3>2. CASE r = Done(e.to)
      BY <1>9, <1>10, <3>2, DoneSteps, RoomLeft DEF Same, Room
    <3> QED BY <1>1, <1>10, <3>1, <3>2
  <2>2. Drafting(r.to) /\ r.to.draft.preview # <<>>
    BY <1>2, <1>6, <1>7, <1>9, <2>1 DEF Same, Drafting, b
  <2> QED BY <2>1, <2>2, DraftIsCalm DEF Kept
<1>11. CASE e.session = "failed"
  BY <1>1, <1>9, <1>11, RoomLeft DEF Kept
<1> QED BY <1>9, <1>10, <1>11

LEMMA PreviewDraftSettles ==
    ASSUME NEW a, Room(a, 1, 1), NEW phase, At(a, phase), Drafting(a), NEW r \in PreviewDraft(a)
    PROVE  Kept(r)
<1>1. PICK e \in Event(a, T!PreviewRequested(a.tui)) :
        IF e.session = "running"
        THEN \/ r \in RejectPreview(e.to) \cup RejectPreview(Load(e.to))
             \/ Previewable(e.to) /\ r \in ShowPreview(e.to)
        ELSE r = e
  BY DEF PreviewDraft, Then
<1>2. \A s \in T!PreviewRequested(a.tui) : T!AxesAgree(s) /\ Moves(a.tui, s, "Previewing")
  BY CommandMoves, CommandEventsFit DEF Room
<1>3. /\ Room(e.to, 1, 1) /\ Same(a, e.to) /\ e.session \in {"running", "failed"}
      /\ e.session = "running" => At(e.to, "Previewing")
  BY <1>2, EventAt
<1>4. CASE e.session = "running"
  <2>1. Drafting(e.to) /\ Drafting(Load(e.to))
    BY <1>3, LoadSteps DEF Same, Drafting
  <2>2. Room(Load(e.to), 1, 1) /\ At(Load(e.to), "Previewing")
    BY <1>3, <1>4, LoadSteps
  <2> QED BY <1>1, <1>3, <1>4, <2>1, <2>2, RejectPreviewSettles, ShowPreviewSettles
<1>5. CASE e.session = "failed"
  BY <1>1, <1>3, <1>5, RoomLeft DEF Kept
<1> QED BY <1>3, <1>4, <1>5

\* After a refresh the state machine and the canonical scene are on the revision
\* that is loaded, wherever the state machine was.
LEMMA RefreshSteps ==
    ASSUME NEW a, NEW m \in Nat, NEW n \in Nat, Room(a, m + 1, n),
           a.tui.lifecycle = "InteractiveReady", NEW r \in Refresh(a)
    PROVE  /\ Room(r.to, m, n) /\ r.to.draft = a.draft
           /\ r.session \in {"running", "failed"}
           /\ r.session = "running" => At(r.to, a.tui.phase)
<1> DEFINE t == T!Refresh(a.tui, Graph[a.loaded], a.loaded)
           scene == Scene(a.loaded, <<>>)
           b == [a EXCEPT !.tui = t, !.canonical = scene, !.scene = scene]
<1>0. Room(a, m, n) /\ a.tui.generation \in Nat /\ a.tui.generation + 1 + m <= MaxGeneration
      /\ a.tui.generation < MaxGeneration
  <2>1. m + 1 \in Nat /\ m \in 0..(m + 1) /\ n \in 0..n
    OBVIOUS
  <2>2. Room(a, m, n) /\ a.tui.generation \in Nat
    BY <2>1, RoomIsRoom
  <2> QED BY <2>2, BoundsAreNumbers DEF Room
<1>1. CASE r = Fails(a)
  BY <1>0, <1>1, AnsweredOf
<1>2. CASE r = Done(b)
  <2>1. Graph[a.loaded] \in Graphs /\ a.loaded \in T!Revisions
    BY BoundsAreNumbers, InteractiveAssumption DEF Room
  <2>2. T!AxesAgree(t)
    BY <1>0, <2>1, RefreshedFits DEF Room
  <2>3. t.phase = a.tui.phase /\ t.lifecycle = a.tui.lifecycle /\ t.canonical = a.loaded
        /\ t.generation = a.tui.generation + 1
    BY RefreshMoves DEF Room, Bumped
  <2>4. scene \in Scenes /\ scene.revision = a.loaded
    BY DEF Room, Scene, Scenes
  <2> HIDE DEF t, scene
  <2>5. /\ IsSession(b) /\ b.session = a.session /\ b.tui = t /\ b.render = a.render /\ b.draft = a.draft
        /\ b.canonical = scene /\ b.scene = scene /\ b.loaded = a.loaded /\ b.disk = a.disk
    BY DEF Room, IsSession, Fields
  <2> HIDE DEF b
  <2>6. a.loaded <= a.loaded
    BY BoundsAreNumbers DEF Room, Revisions
  <2>7. Room(b, m, n)
    BY <1>0, <2>2, <2>3, <2>4, <2>5, <2>6 DEF Room
  <2>8. At(b, a.tui.phase)
    BY <2>3, <2>4, <2>5 DEF At
  <2> QED BY <1>2, <2>5, <2>7, <2>8, DoneSteps
<1> QED BY <1>1, <1>2 DEF Refresh

LEMMA RejectCommitSettles ==
    ASSUME NEW a, Room(a, 2, 1), At(a, "Committing"), NEW r \in RejectCommit(a)
    PROVE  Kept(r)
<1> DEFINE dropped == [a EXCEPT !.draft = NoDraft]
           dropping == {Done(Restore(dropped)), Done(Restore(Load(dropped)))}
                         \cup Refresh(Load(dropped))
<1>1. /\ Room(dropped, 2, 1) /\ dropped.draft = NoDraft /\ At(dropped, "Committing")
  BY NoDraftIsADraft, DraftSteps
<1>2. PICK d \in dropping :
        IF d.session = "running"
        THEN r \in Then(Event(d.to, T!CommitRejected(d.to.tui)),
                        LAMBDA c : IF Transient(a) THEN Render(Bump(c)) ELSE {Done(c)})
        ELSE r = d
  BY DEF RejectCommit, Then
<1> HIDE DEF dropped
<1>3. /\ Room(Load(dropped), 2, 1) /\ Load(dropped).draft = NoDraft
      /\ At(Load(dropped), "Committing")
  BY <1>1, LoadSteps
<1>4. /\ Room(d.to, 1, 1) /\ d.to.draft = NoDraft /\ d.session \in {"running", "failed"}
      /\ d.session = "running" => At(d.to, "Committing")
  <2>1. ASSUME NEW b, Room(b, 2, 1), b.draft = NoDraft, At(b, "Committing"),
               d = Done(Restore(b))
        PROVE  /\ Room(d.to, 1, 1) /\ d.to.draft = NoDraft /\ d.session = "running"
               /\ At(d.to, "Committing")
    BY <2>1, RestoreSteps, RoomIsRoom, DoneSteps
  <2>2. CASE d \in Refresh(Load(dropped))
    <3>1. Room(Load(dropped), 1 + 1, 1) /\ Load(dropped).tui.lifecycle = "InteractiveReady"
          /\ Load(dropped).tui.phase = "Committing"
      BY <1>3 DEF At
    <3> QED BY <1>3, <2>2, <3>1, RefreshSteps
  <2> QED BY <1>1, <1>3, <2>1, <2>2
<1> HIDE DEF dropping
<1>5. CASE d.session = "running"
  <2>1. PICK e \in Event(d.to, T!CommitRejected(d.to.tui)) :
          IF e.session = "running"
          THEN r \in IF Transient(a) THEN Render(Bump(e.to)) ELSE {Done(e.to)}
          ELSE r = e
    BY <1>2, <1>5 DEF Then
  <2>2. \A s \in T!CommitRejected(d.to.tui) : T!AxesAgree(s) /\ Moves(d.to.tui, s, "Rejected")
    BY <1>4, CommandMoves, CommandEventsFit DEF Room
  <2>3. /\ Room(e.to, 1, 1) /\ Same(d.to, e.to) /\ e.session \in {"running", "failed"}
        /\ e.session = "running" => At(e.to, "Rejected")
    <3>1. e \in Event(d.to, T!CommitRejected(d.to.tui)) /\ Room(d.to, 1, 1)
          /\ At(d.to, "Committing")
      BY <1>4, <1>5
    <3>2. PICK b, sessions : b = d.to /\ sessions = T!CommitRejected(b.tui)
      OBVIOUS
    <3>3. /\ e \in Event(b, sessions) /\ Room(b, 1, 1) /\ At(b, "Committing")
          /\ \A s \in sessions : T!AxesAgree(s) /\ Moves(b.tui, s, "Rejected")
      BY <2>2, <3>1, <3>2
    <3>4. 1 \in Nat
      OBVIOUS
    <3>5. /\ Room(e.to, 1, 1) /\ Same(b, e.to) /\ e.session \in {"running", "failed"}
          /\ e.session = "running" => At(e.to, "Rejected")
      BY ONLY <3>3, <3>4, EventAt
    <3> QED BY <3>2, <3>5
  <2>4. CASE e.session = "running"
    <3>1. /\ Room(r.to, 0, 0) /\ Same(e.to, r.to) /\ At(r.to, "Rejected")
          /\ r.session \in {"running", "lost"}
      BY <2>1, <2>3, <2>4, RedrawSteps
    <3>2. ~Drafting(r.to)
      BY <1>4, <2>3, <3>1, NoDraftIsADraft DEF Same, Drafting
    <3> QED BY <3>1, <3>2, OutcomeIsCalm DEF Kept, T!Outcomes
  <2>5. CASE e.session = "failed"
    BY <2>1, <2>3, <2>5, RoomLeft DEF Kept
  <2> QED BY <2>3, <2>4, <2>5
<1>6. CASE d.session = "failed"
  BY <1>2, <1>4, <1>6, RoomLeft DEF Kept
<1> QED BY <1>4, <1>5, <1>6

LEMMA AcceptCommitSettles ==
    ASSUME NEW a, Room(a, 2, 1), At(a, "Committing"), NEW r \in AcceptCommit(a)
    PROVE  Kept(r)
<1> DEFINE validated == CASE a.draft.command = "validate" -> <<a.draft.input, a.disk>>
                          [] a.draft.command = "export"   -> a.validated
                          [] OTHER                        -> <<>>
           sessions == T!CommitAccepted(a.tui, a.draft.source, a.draft.source, a.disk)
<1>1. PICK e \in Event(a, sessions) :
        IF e.session = "running"
        THEN r \in Then(Refresh([e.to EXCEPT !.draft = NoDraft]),
                        LAMBDA c : Render([c EXCEPT !.validated = validated]))
        ELSE r = e
  BY DEF AcceptCommit, Then
<1> HIDE DEF validated
<1>2. \A s \in sessions : /\ T!AxesAgree(s) /\ s.phase = "Committed"
                          /\ s.lifecycle = "InteractiveReady"
                          /\ s.generation = a.tui.generation
  BY AcceptMoves, CommitAcceptedFits, BoundsAreNumbers DEF Room, At
<1> HIDE DEF sessions
<1>3. /\ Room(e.to, 2, 1) /\ e.session \in {"running", "failed"}
      /\ e.session = "running" => e.to.tui \in sessions
  <2>1. \A s \in sessions : T!AxesAgree(s) /\ s.generation + 2 <= MaxGeneration
    BY <1>2 DEF Room
  <2> QED BY <2>1, EventSteps
<1>4. CASE e.session = "failed"
  BY <1>1, <1>3, <1>4, RoomLeft DEF Kept
<1>5. CASE e.session = "running"
  <2> DEFINE dropped == [e.to EXCEPT !.draft = NoDraft]
  <2>1. /\ Room(dropped, 2, 1) /\ dropped.draft = NoDraft /\ dropped.tui = e.to.tui
    BY <1>3, NoDraftIsADraft, DraftSteps
  <2>2. PICK f \in Refresh(dropped) :
          IF f.session = "running"
          THEN r \in Render([f.to EXCEPT !.validated = validated])
          ELSE r = f
    BY <1>1, <1>5 DEF Then
  <2> HIDE DEF dropped
  <2>3. /\ Room(dropped, 1 + 1, 1) /\ dropped.tui.lifecycle = "InteractiveReady"
        /\ dropped.tui.phase = "Committed"
    BY <1>2, <1>3, <1>5, <2>1
  <2>4. /\ Room(f.to, 1, 1) /\ f.to.draft = NoDraft /\ f.session \in {"running", "failed"}
        /\ f.session = "running" => At(f.to, "Committed")
    BY <2>1, <2>2, <2>3, RefreshSteps
  <2>5. CASE f.session = "running"
    <3> DEFINE b == [f.to EXCEPT !.validated = validated]
    <3>1. Same(f.to, b) /\ b.render = f.to.render /\ b.tui = f.to.tui
      BY <2>4 DEF Room, IsSession, Fields, Same
    <3>2. r \in Render(b)
      BY <2>2, <2>5
    <3> HIDE DEF b
    <3>3. Room(b, 1, 1) /\ At(b, "Committed")
      BY <2>4, <2>5, <3>1 DEF Room, Same, At
    <3>4. /\ Room(r.to, 0, 0) /\ Same(b, r.to) /\ At(r.to, "Committed")
          /\ r.session \in {"running", "lost"}
      BY <3>2, <3>3, RedrawSteps
    <3>5. ~Drafting(r.to)
      BY <2>4, <3>1, <3>4, NoDraftIsADraft DEF Same, Drafting
    <3> QED BY <3>4, <3>5, OutcomeIsCalm DEF Kept, T!Outcomes
  <2>6. CASE f.session = "failed"
    BY <2>2, <2>4, <2>6, RoomLeft DEF Kept
  <2> QED BY <2>4, <2>5, <2>6
<1> QED BY <1>3, <1>4, <1>5

LEMMA PublishSteps ==
    ASSUME NEW a, NEW m \in Nat, NEW n \in Nat, Room(a, m, n), NEW b \in Publish(a)
    PROVE  /\ Room(b, m, n) /\ b.draft = a.draft /\ b.render = a.render
           /\ \A phase : At(a, phase) => At(b, phase)
<1>1. a.disk < MaxRevision /\ b = [a EXCEPT !.disk = @ + 1]
  BY DEF Publish
<1>2. a.disk + 1 \in Revisions /\ a.loaded <= a.disk + 1
  BY <1>1, BoundsAreNumbers DEF Room, Revisions
<1>3. /\ IsSession(b) /\ b.session = a.session /\ b.tui = a.tui /\ b.render = a.render /\ b.draft = a.draft
      /\ b.canonical = a.canonical /\ b.scene = a.scene /\ b.loaded = a.loaded
      /\ b.disk = a.disk + 1
  BY <1>1 DEF Room, IsSession, Fields
<1> QED BY <1>2, <1>3 DEF Room, At

LEMMA CommittedSteps ==
    ASSUME NEW a, Room(a, 2, 1), At(a, "Committing"), NEW b \in Committed(a)
    PROVE  Room(b, 2, 1) /\ At(b, "Committing")
<1>1. \/ b = a \/ b = Load(a)
      \/ \E w \in WorkedOn(a) : \E c \in Publish(w) : b = Load(c)
  BY DEF Committed
<1>2. \A w \in WorkedOn(a) : Room(w, 2, 1) /\ At(w, "Committing")
  BY PublishSteps DEF WorkedOn
<1>3. ASSUME NEW w \in WorkedOn(a), NEW c \in Publish(w)
      PROVE  Room(c, 2, 1) /\ At(c, "Committing")
  BY <1>2, PublishSteps
<1> QED BY <1>1, <1>3, LoadSteps

LEMMA CommitDraftSettles ==
    ASSUME NEW a, Room(a, 2, 1), NEW phase, At(a, phase), Drafting(a), NEW r \in CommitDraft(a)
    PROVE  Kept(r)
<1>1. CASE a.draft.preview = <<>>
  <2>1. Room(a, 1, 1)
    BY RoomIsRoom, 2 \in Nat, 1 \in Nat, 1 \in 0..2, 1 \in 0..1
  <2>2. r \in PreviewDraft(a)
    BY <1>1 DEF CommitDraft
  <2> QED BY <2>1, <2>2, PreviewDraftSettles
<1>2. CASE a.draft.preview # <<>>
  <2>1. PICK e \in Event(a, T!CommitRequested(a.tui)) :
          IF e.session = "running"
          THEN r \in RejectCommit(e.to)
                     \cup UNION {RejectCommit(c) \cup AcceptCommit(c) : c \in Committed(e.to)}
          ELSE r = e
    BY <1>2 DEF CommitDraft, Then
  <2>2. \A s \in T!CommitRequested(a.tui) : T!AxesAgree(s) /\ Moves(a.tui, s, "Committing")
    BY CommandMoves, CommandEventsFit DEF Room
  <2>3. /\ Room(e.to, 2, 1) /\ e.session \in {"running", "failed"}
        /\ e.session = "running" => At(e.to, "Committing")
    BY <2>2, EventAt
  <2>4. CASE e.session = "running"
    <3>1. ASSUME NEW c \in Committed(e.to), r \in RejectCommit(c) \cup AcceptCommit(c)
          PROVE  Kept(r)
      <4>1. Room(c, 2, 1) /\ At(c, "Committing")
        BY <2>3, <2>4, CommittedSteps
      <4> QED BY <3>1, <4>1, RejectCommitSettles, AcceptCommitSettles
    <3>2. CASE r \in RejectCommit(e.to)
      BY <2>3, <2>4, <3>2, RejectCommitSettles
    <3> QED BY <2>1, <2>4, <3>1, <3>2
  <2>5. CASE e.session = "failed"
    BY <2>1, <2>3, <2>5, RoomLeft DEF Kept
  <2> QED BY <2>3, <2>4, <2>5
<1> QED BY <1>1, <1>2

-----------------------------------------------------------------------------
(* An input, with the state machine and the attachment *)

\* What is left of a session that has ended.
Left(a) ==
  /\ a.session \in {"closed", "failed", "lost"}
  /\ T!AxesAgree(a.tui) /\ a.render \in R!Attachments
  /\ a.draft.command \in Commands \cup {NoCommand}
  /\ a.loaded \in Revisions /\ a.disk \in Revisions
  /\ a.session = "closed" =>
       a.render.cleaned /\ a.render.images = {} /\ ~a.render.open /\ ~Transient(a)

RestInv == IF Running THEN Room(app, 0, 0) /\ Calm(app) ELSE Left(app)

\* A cleanup that goes through leaves nothing, and the next one changes nothing.
LEMMA CleanupCleans ==
    ASSUME NEW x, Agree(x), NEW c \in R!Cleanup(x)
    PROVE  /\ Agree(c.to)
           /\ c.ok => c.to.cleaned /\ c.to.images = {} /\ ~c.to.open
<1>1. Agree(c.to) /\ Agree(R!Forget(x))
  BY CleanupAgrees, ForgetAgrees DEF Agree
<1>2. ASSUME c.ok PROVE c.to.cleaned
  <2> DEFINE y == R!Forget(x)
             closed == [y EXCEPT !.open = FALSE]
             deleted == [closed EXCEPT !.active = NoFrame,
                           !.images = IF y.active = NoFrame THEN @ ELSE @ \ {y.active.image}]
             done == [deleted EXCEPT !.cleaned = TRUE]
  <2>1. IF y.cleaned THEN c = R!Done(y)
        ELSE c \in {R!Done(done), R!Fails(deleted), R!Fails(closed)}
    BY DEF R!Cleanup, R!CleanRenderer
  <2>2. done.cleaned = TRUE
    BY <1>1 DEF Agree, Fits, R!Attachments
  <2> HIDE DEF y, closed, deleted, done
  <2> QED BY <1>2, <2>1, <2>2, ResultOf
<1> QED BY <1>1, <1>2 DEF Agree, Fits

LEMMA EndedLeaves ==
    ASSUME NEW a, Room(a, 0, 0), NEW session \in {"closed", "failed", "lost"},
           NEW b \in Ended(a, session)
    PROVE  Left(b)
<1>0. PICK d \in UNION {{[to |-> x.to, first |-> y.ok] : x \in R!CleanRenderer(y.to)} :
                          y \in R!Cleanup(a.render)} :
        b = [Restore(a) EXCEPT !.render = d.to,
                 !.session = IF session = "closed" /\ ~d.first THEN "lost" ELSE session]
  BY DEF Ended
<1> PICK c \in R!Cleanup(a.render) :
        d \in {[to |-> x.to, first |-> c.ok] : x \in R!CleanRenderer(c.to)}
  BY <1>0
<1> PICK e \in R!CleanRenderer(c.to) : d = [to |-> e.to, first |-> c.ok]
  OBVIOUS
<1> DEFINE end == IF session = "closed" /\ ~c.ok THEN "lost" ELSE session
<1>1. e \in R!CleanRenderer(c.to) /\ b = [Restore(a) EXCEPT !.render = e.to, !.session = end]
  BY <1>0
<1>2. Agree(c.to) /\ (c.ok => c.to.cleaned /\ c.to.images = {} /\ ~c.to.open)
  BY CleanupCleans DEF Room
<1>3. e.to \in R!Attachments
  BY <1>1, <1>2, CleanRendererFits DEF Agree, Fits
<1>4. c.ok => e.to = c.to
  BY <1>1, <1>2, ResultOf DEF R!CleanRenderer
<1>5. IsSession(Restore(a))
  BY RestoreFits DEF Room
<1>6. /\ b.render = e.to /\ b.session = end /\ b.tui = a.tui /\ b.draft = a.draft
      /\ b.canonical = a.canonical /\ b.scene = a.canonical
      /\ b.loaded = a.loaded /\ b.disk = a.disk
  BY <1>1, <1>5, RestoreFits DEF Room, IsSession, Fields, Restore
<1>7. end \in {"closed", "failed", "lost"} /\ (end = "closed" => c.ok)
  OBVIOUS
<1> HIDE DEF end
<1> QED BY <1>2, <1>3, <1>4, <1>6, <1>7 DEF Left, Room, Transient

LEMMA OverlaySteps ==
    ASSUME NEW a, Room(a, 0, 0), NEW r \in Overlay(a)
    PROVE  /\ Room(r.to, 0, 0) /\ r.session \in {"running", "lost"}
           /\ Calm(a) => Calm(r.to)
<1>1. CASE r = Done(a)
  BY <1>1, DoneSteps
<1>2. CASE r = Answered([a EXCEPT !.render.open = FALSE], "lost")
  <2> DEFINE x == [a.render EXCEPT !.open = FALSE]
  <2>1. Agree(x) /\ x.nextToken = a.render.nextToken
    BY DEF Room, Agree, Fits, InFlightIsActive, PendingIsLater, LostForgets, R!Attachments
  <2> HIDE DEF x
  <2>2. r.to = [a EXCEPT !.render = x] /\ r.session = "lost"
    BY <1>2, AnsweredOf DEF x
  <2>3. Same(a, r.to) /\ r.to.tui = a.tui /\ r.to.render = x
    BY <2>2 DEF Room, IsSession, Fields, Same
  <2>4. Room(r.to, 0, 0)
    BY <2>1, <2>3, SameHasRoom DEF Room
  <2>5. Calm(a) => Calm(r.to)
    BY <2>3 DEF Calm, At, Same, Drafting
  <2> QED BY <2>2, <2>4, <2>5
<1> QED BY <1>1, <1>2 DEF Overlay

LEMMA ContinuesSettles ==
    ASSUME NEW results, \A r \in results : Kept(r), Continues(results)
    PROVE  RestInv'
<1>1. PICK s \in Then(results, Overlay) :
        IF s.session = "running" THEN app' = s.to ELSE app' \in Ended(s.to, s.session)
  BY DEF Continues
<1>2. PICK r \in results : IF r.session = "running" THEN s \in Overlay(r.to) ELSE s = r
  BY <1>1 DEF Then
<1>3. Kept(s)
  BY <1>2, OverlaySteps DEF Kept
<1>4. CASE s.session = "running"
  <2>1. Room(app', 0, 0) /\ Calm(app')
    BY <1>1, <1>3, <1>4 DEF Kept
  <2>2. app'.session = "running"
    BY <2>1 DEF Room
  <2> QED BY <2>1, <2>2 DEF RestInv, Running
<1>5. CASE s.session # "running"
  <2>1. Left(app')
    BY <1>1, <1>3, <1>5, EndedLeaves DEF Kept
  <2> QED BY <2>1 DEF RestInv, Running, Left
<1> QED BY <1>4, <1>5

LEMMA ReturnsSettles ==
    ASSUME NEW results,
           \A r \in results : Room(r.to, 0, 0) /\ r.session \in {"running", "failed", "lost"},
           Returns(results)
    PROVE  RestInv'
<1>1. PICK s \in Then(results, Overlay) :
        app' \in Ended(s.to, IF s.session = "running" THEN "closed" ELSE s.session)
  BY DEF Returns
<1>2. PICK r \in results : IF r.session = "running" THEN s \in Overlay(r.to) ELSE s = r
  BY <1>1 DEF Then
<1>3. Room(s.to, 0, 0) /\ s.session \in {"running", "failed", "lost"}
  BY <1>2, OverlaySteps
<1> DEFINE session == IF s.session = "running" THEN "closed" ELSE s.session
<1>4. session \in {"closed", "failed", "lost"} /\ app' \in Ended(s.to, session)
  BY <1>1, <1>3
<1> HIDE DEF session
<1>5. Left(app')
  BY <1>3, <1>4, EndedLeaves
<1> QED BY <1>5 DEF RestInv, Running, Left

\* What a session at rest may be asked to handle.
Rested == Room(app, 0, 0) /\ Calm(app)

LEMMA InputHasRoom ==
    ASSUME Room(app, 0, 0), Input
    PROVE  Room(app, 2, 1)
<1>1. app.render.nextToken \in Nat /\ app.render.nextToken < MaxToken
      /\ app.tui.generation + 2 <= MaxGeneration
  BY RoomIsRoom DEF Input
<1>2. app.render.nextToken + 1 <= MaxToken
  BY <1>1, BoundsAreNumbers
<1> QED BY <1>1, <1>2 DEF Room

\* Closing an outcome leaves a session that is ready for what the key does.
LEMMA DismissedSteps ==
    ASSUME NEW a, Room(a, 2, 1), Calm(a), NEW r \in Dismissed(a)
    PROVE  /\ Room(r.to, 2, 1) /\ Same(a, r.to) /\ r.to.render = a.render
           /\ r.session \in {"running", "failed"}
           /\ r.session = "running" => Calm(r.to)
<1>1. PICK phase \in {"Idle", "Draft", "PreviewReady"} \cup T!Outcomes : At(a, phase)
  BY DEF Calm
<1>2. CASE r = Done(a)
  BY <1>2, DoneSteps DEF Same, Room
<1>3. CASE a.tui.phase \in T!Outcomes /\ r \in Event(a, T!OutcomeDismissed(a.tui))
  <2>1. \A s \in T!OutcomeDismissed(a.tui) : T!AxesAgree(s) /\ Moves(a.tui, s, "Idle")
    BY DismissMoves, CommandEventsFit DEF Room
  <2>2. /\ Room(r.to, 2, 1) /\ Same(a, r.to) /\ r.to.render = a.render
        /\ r.session \in {"running", "failed"}
        /\ r.session = "running" => At(r.to, "Idle")
    BY <1>1, <1>3, <2>1, EventAt
  <2>3. ~Drafting(r.to)
    BY <1>3, <2>2 DEF Calm, T!Outcomes, Same, Drafting
  <2> QED BY <2>2, <2>3, OutcomeIsCalm
<1> QED BY <1>2, <1>3 DEF Dismissed

\* What a key is given to handle.
Handed(a, b) == Room(b, 2, 1) /\ Calm(b) /\ Same(a, b)

LEMMA KeySettles ==
    ASSUME NEW a, Room(a, 2, 1), Calm(a), NEW first \in Dismissed(a), NEW handled, NEW r,
           IF first.session = "running"
           THEN r \in IF HeldBack(first.to) THEN {Done(first.to)} ELSE handled
           ELSE r = first,
           Handed(a, first.to) => \A q \in handled : Kept(q)
    PROVE  Kept(r)
<1>1. /\ Room(first.to, 2, 1) /\ Same(a, first.to) /\ first.session \in {"running", "failed"}
      /\ first.session = "running" => Calm(first.to)
  BY DismissedSteps
<1>2. Room(first.to, 0, 0)
  BY <1>1, RoomLeft, 2 \in Nat, 1 \in Nat
<1>3. Done(first.to).to = first.to /\ Done(first.to).session = "running"
  BY DoneSteps
<1> QED BY <1>1, <1>2, <1>3 DEF Kept, Handed

LEMMA ArrowSettles == ASSUME Rested, ArrowPressed PROVE RestInv'
<1>1. PICK forward \in BOOLEAN :
        Continues(Key(app, LAMBDA a : Then(Event(a, T!Press(a.tui, forward)), Render)))
  BY DEF ArrowPressed
<1>2. Room(app, 2, 1) /\ Calm(app)
  BY InputHasRoom DEF Rested, ArrowPressed
<1>3. ASSUME NEW a, Handed(app, a), NEW q \in Then(Event(a, T!Press(a.tui, forward)), Render)
      PROVE  Kept(q)
  <2>1. PICK e \in Event(a, T!Press(a.tui, forward)) :
          IF e.session = "running" THEN q \in Render(e.to) ELSE q = e
    BY <1>3 DEF Then
  <2>2. Room(a, 1, 1) /\ Room(a, 2, 1) /\ Calm(a)
        /\ a.tui.generation \in Nat /\ a.tui.generation < MaxGeneration
    <3>1. Room(a, 1, 1) /\ a.tui.generation \in Nat
      BY <1>3, RoomIsRoom, 2 \in Nat, 1 \in Nat, 1 \in 0..2, 1 \in 0..1 DEF Handed
    <3> QED BY <1>3, <3>1, BoundsAreNumbers DEF Handed, Room
  <2>3. \A s \in T!Press(a.tui, forward) :
          /\ T!AxesAgree(s) /\ s.generation = a.tui.generation + 1
          /\ s.phase = a.tui.phase /\ s.lifecycle = a.tui.lifecycle
          /\ s.canonical = a.tui.canonical
    <3>1. <<>> \in T!IdLists
      BY DEF T!IdLists
    <3> QED BY <2>2, <3>1, SelectionMovesFit, PressMoves DEF Room, Bumped
  <2>4. /\ Room(e.to, 1, 1) /\ Same(a, e.to) /\ e.session \in {"running", "failed"}
        /\ e.session = "running" => Calm(e.to)
    <3>1. \A s \in T!Press(a.tui, forward) : T!AxesAgree(s) /\ s.generation + 1 <= MaxGeneration
      BY <2>2, <2>3 DEF Room
    <3>2. /\ Room(e.to, 1, 1) /\ Same(a, e.to) /\ e.session \in {"running", "failed"}
          /\ e.session = "running" => e.to.tui \in T!Press(a.tui, forward)
      BY <2>2, <3>1, EventSteps, 1 \in Nat
    <3> QED BY <2>2, <2>3, <3>2 DEF Calm, At, Same, Drafting
  <2>5. CASE e.session = "running"
    <3>1. /\ Room(q.to, 1, 0) /\ Same(e.to, q.to) /\ q.to.tui = e.to.tui
          /\ q.session \in {"running", "lost"}
      BY <2>1, <2>4, <2>5, RenderSteps, 1 \in Nat
    <3>2. Room(q.to, 0, 0) /\ Calm(q.to)
      BY <2>4, <2>5, <3>1, RoomLeft, 1 \in Nat, 0 \in Nat DEF Calm, At, Same, Drafting
    <3> QED BY <3>1, <3>2 DEF Kept
  <2>6. CASE e.session = "failed"
    BY <2>1, <2>4, <2>6, RoomLeft, 1 \in Nat DEF Kept
  <2> QED BY <2>4, <2>5, <2>6
<1>4. ASSUME NEW r \in Key(app, LAMBDA a : Then(Event(a, T!Press(a.tui, forward)), Render))
      PROVE  Kept(r)
  <2>1. PICK first \in Dismissed(app) :
          IF first.session = "running"
          THEN r \in IF HeldBack(first.to) THEN {Done(first.to)}
                     ELSE Then(Event(first.to, T!Press(first.to.tui, forward)), Render)
          ELSE r = first
    BY <1>4 DEF Key, Then, Dismissed
  <2> DEFINE handled == Then(Event(first.to, T!Press(first.to.tui, forward)), Render)
  <2>2. Handed(app, first.to) => \A q \in handled : Kept(q)
    BY <1>3
  <2> HIDE DEF handled
  <2> QED BY <1>2, <2>1, <2>2, KeySettles DEF handled
<1> QED BY <1>1, <1>4, ContinuesSettles

LEMMA RedrawSettles ==
    ASSUME NEW a, Room(a, 1, 1), Calm(a), NEW r \in Render(a) \cup Render(Bump(a)) \cup {Done(a)}
    PROVE  Kept(r)
<1>1. PICK phase \in {"Idle", "Draft", "PreviewReady"} \cup T!Outcomes : At(a, phase)
  BY DEF Calm
<1>2. /\ Room(r.to, 0, 0) /\ Same(a, r.to) /\ At(r.to, phase)
      /\ r.session \in {"running", "lost"}
  BY <1>1, RedrawSteps
<1> QED BY <1>1, <1>2 DEF Kept, Calm, At, Same, Drafting

LEMMA HandedHasRoom ==
    ASSUME NEW a, NEW b, Handed(a, b)
    PROVE  /\ Room(b, 2, 1) /\ Room(b, 1, 1) /\ Room(b, 0, 0) /\ Calm(b)
           /\ Drafting(b) = Drafting(a)
<1>1. 2 \in Nat /\ 1 \in Nat /\ 1 \in 0..2 /\ 1 \in 0..1
  OBVIOUS
<1>2. Room(b, 1, 1) /\ Room(b, 0, 0)
  BY <1>1, RoomIsRoom, RoomLeft DEF Handed
<1> QED BY <1>2 DEF Handed, Same, Drafting

LEMMA CameraSettles == ASSUME Rested, CameraMoved PROVE RestInv'
<1>1. Room(app, 2, 1) /\ Calm(app)
  BY InputHasRoom DEF Rested, CameraMoved
<1>2. ASSUME NEW r \in Key(app, LAMBDA a : Render(Bump(a)))
      PROVE  Kept(r)
  <2>1. PICK first \in Dismissed(app) :
          IF first.session = "running"
          THEN r \in IF HeldBack(first.to) THEN {Done(first.to)} ELSE Render(Bump(first.to))
          ELSE r = first
    BY <1>2 DEF Key, Then, Dismissed
  <2> DEFINE handled == Render(Bump(first.to))
  <2>2. Handed(app, first.to) => \A q \in handled : Kept(q)
    BY HandedHasRoom, RedrawSettles
  <2> HIDE DEF handled
  <2> QED BY <1>1, <2>1, <2>2, KeySettles DEF handled
<1> QED BY <1>2, ContinuesSettles DEF CameraMoved

LEMMA PaletteSteps ==
    ASSUME NEW a, NEW m \in Nat, NEW n \in Nat, Room(a, m, n), Calm(a), NEW open
    PROVE  LET b == [a EXCEPT !.palette = open]
           IN  /\ Room(b, m, n) /\ Calm(b) /\ b.tui = a.tui /\ b.draft = a.draft
               /\ b.disk = a.disk /\ \A phase : At(a, phase) => At(b, phase)
<1> DEFINE b == [a EXCEPT !.palette = open]
<1>1. /\ IsSession(b) /\ b.session = a.session /\ b.render = a.render /\ b.draft = a.draft
      /\ b.tui = a.tui /\ b.canonical = a.canonical /\ b.scene = a.scene
      /\ b.loaded = a.loaded /\ b.disk = a.disk
  BY DEF Room, IsSession, Fields
<1> HIDE DEF b
<1>2. Room(b, m, n) /\ Calm(b) /\ \A phase : At(a, phase) => At(b, phase)
  BY <1>1 DEF Room, Calm, At, Drafting
<1> QED BY <1>1, <1>2 DEF b

LEMMA PaletteMoved ==
    ASSUME Room(app, 2, 1), Calm(app), NEW open, NEW first \in Dismissed(app), NEW r,
           IF first.session = "running"
           THEN r \in IF HeldBack(first.to) THEN {Done(first.to)}
                      ELSE {Done([first.to EXCEPT !.palette = open])}
           ELSE r = first
    PROVE  Kept(r)
<1> DEFINE b == [first.to EXCEPT !.palette = open]
           handled == {Done(b)}
<1>1. ASSUME Handed(app, first.to) PROVE \A q \in handled : Kept(q)
  <2>1. Room(b, 0, 0) /\ Calm(b)
    BY <1>1, HandedHasRoom, PaletteSteps, 0 \in Nat
  <2> HIDE DEF b
  <2> QED BY <2>1, DoneSteps DEF Kept
<1>2. IF first.session = "running"
      THEN r \in IF HeldBack(first.to) THEN {Done(first.to)} ELSE handled
      ELSE r = first
  OBVIOUS
<1> HIDE DEF handled, b
<1> QED BY <1>1, <1>2, KeySettles

LEMMA PaletteSettles == ASSUME Rested, PaletteOpened \/ PaletteDismissed PROVE RestInv'
<1>1. Room(app, 2, 1) /\ Calm(app)
  BY InputHasRoom DEF Rested, PaletteOpened, PaletteDismissed
<1>2. ASSUME NEW r \in Key(app, LAMBDA a : {Done([a EXCEPT !.palette = TRUE])})
      PROVE  Kept(r)
  BY <1>1, <1>2, PaletteMoved DEF Key, Then, Dismissed
<1>3. ASSUME NEW r \in Key(app, LAMBDA a : {Done([a EXCEPT !.palette = FALSE])})
      PROVE  Kept(r)
  BY <1>1, <1>3, PaletteMoved DEF Key, Then, Dismissed
<1>4. CASE PaletteOpened
  BY <1>2, <1>4, ContinuesSettles DEF PaletteOpened
<1>5. CASE PaletteDismissed
  BY <1>3, <1>5, ContinuesSettles DEF PaletteDismissed
<1> QED BY <1>4, <1>5

LEMMA OutcomeSettles == ASSUME Rested, OutcomeClosed PROVE RestInv'
<1>1. Room(app, 2, 1) /\ Calm(app)
  BY InputHasRoom DEF Rested, OutcomeClosed
<1>2. ASSUME NEW r \in Key(app, LAMBDA a : {Done(a)})
      PROVE  Kept(r)
  <2>1. PICK first \in Dismissed(app) :
          IF first.session = "running"
          THEN r \in IF HeldBack(first.to) THEN {Done(first.to)} ELSE {Done(first.to)}
          ELSE r = first
    BY <1>2 DEF Key, Then, Dismissed
  <2> DEFINE handled == {Done(first.to)}
  <2>2. Handed(app, first.to) => \A q \in handled : Kept(q)
    BY HandedHasRoom, RedrawSettles
  <2>3. IF first.session = "running"
        THEN r \in IF HeldBack(first.to) THEN {Done(first.to)} ELSE handled
        ELSE r = first
    BY <2>1
  <2> HIDE DEF handled
  <2> QED BY <1>1, <2>2, <2>3, KeySettles
<1> QED BY <1>2, ContinuesSettles DEF OutcomeClosed

LEMMA OpenDraftSettles ==
    ASSUME NEW a, Room(a, 0, 0), Calm(a), NEW command \in Commands,
           NEW r \in OpenDraft(a, command)
    PROVE  Kept(r)
<1> DEFINE b == [a EXCEPT !.palette = FALSE]
           draft == [NoDraft EXCEPT !.command = command, !.source = a.disk]
           opened == [a EXCEPT !.palette = FALSE, !.draft = draft]
<1>1. /\ Room(b, 0, 0) /\ b.tui = a.tui /\ \A phase : At(a, phase) => At(b, phase)
  BY PaletteSteps, 0 \in Nat
<1>2. /\ {"command", "source", "input", "preview"} \subseteq DOMAIN draft
      /\ draft.command = command /\ draft.input \in Features \cup {NoInput}
  BY DEF NoDraft
<1>3. opened = [b EXCEPT !.draft = draft]
  OBVIOUS
<1>4. r \in Event(opened, T!OpenCommand(a.tui, command))
  BY DEF OpenDraft
<1> HIDE DEF b, draft, opened
<1>5. /\ Room(opened, 0, 0) /\ opened.draft = draft /\ opened.tui = a.tui
      /\ \A phase : At(b, phase) => At(opened, phase)
  BY <1>1, <1>2, <1>3, DraftSteps, 0 \in Nat
<1>6. PICK phase \in {"Idle", "Draft", "PreviewReady"} \cup T!Outcomes : At(a, phase)
  BY DEF Calm
<1>7. \A s \in T!OpenCommand(a.tui, command) :
        T!AxesAgree(s) /\ Moves(opened.tui, s, "Draft")
  <2>1. 1 \in T!Revisions
    BY BoundsAreNumbers DEF T!Revisions
  <2> QED BY <1>5, <2>1, CommandFits, OpenMoves DEF Room
<1>8. /\ Room(r.to, 0, 0) /\ Same(opened, r.to) /\ r.session \in {"running", "failed"}
      /\ r.session = "running" => At(r.to, "Draft")
  BY <1>1, <1>4, <1>5, <1>6, <1>7, EventAt, 0 \in Nat
<1>9. Drafting(r.to)
  <2>1. command # NoCommand
    BY PartsAssumption DEF T!SessionAssumption
  <2> QED BY <1>2, <1>5, <1>8, <2>1 DEF Same, Drafting
<1> QED BY <1>8, <1>9, DraftIsCalm DEF Kept

LEMMA CommandSettles == ASSUME Rested, CommandChosen PROVE RestInv'
<1>1. PICK command \in Commands : Continues(Key(app, LAMBDA a : OpenDraft(a, command)))
  BY DEF CommandChosen
<1>2. Room(app, 2, 1) /\ Calm(app)
  BY InputHasRoom DEF Rested, CommandChosen
<1>3. ASSUME NEW r \in Key(app, LAMBDA a : OpenDraft(a, command))
      PROVE  Kept(r)
  <2>1. PICK first \in Dismissed(app) :
          IF first.session = "running"
          THEN r \in IF HeldBack(first.to) THEN {Done(first.to)}
                     ELSE OpenDraft(first.to, command)
          ELSE r = first
    BY <1>3 DEF Key, Then, Dismissed
  <2> DEFINE handled == OpenDraft(first.to, command)
  <2>2. Handed(app, first.to) => \A q \in handled : Kept(q)
    BY HandedHasRoom, OpenDraftSettles
  <2> HIDE DEF handled
  <2> QED BY <1>2, <2>1, <2>2, KeySettles DEF handled
<1> QED BY <1>1, <1>3, ContinuesSettles

LEMMA CancelSettles ==
    ASSUME NEW a, Room(a, 1, 1), NEW phase, At(a, phase),
           NEW e \in Event([a EXCEPT !.draft = NoDraft], T!CancelRequested(a.tui)), NEW r,
           IF e.session = "running"
           THEN r \in Then(IF Transient(e.to) THEN Render(Bump(Restore(e.to))) ELSE {Done(e.to)},
                           LAMBDA c : Event(c, T!CancellationCompleted(c.tui)))
           ELSE r = e
    PROVE  Kept(r)
<1> DEFINE dropped == [a EXCEPT !.draft = NoDraft]
<1>1. /\ Room(dropped, 1, 1) /\ dropped.draft = NoDraft /\ dropped.tui = a.tui
      /\ At(dropped, phase)
  BY NoDraftIsADraft, DraftSteps, 1 \in Nat
<1>2. e \in Event(dropped, T!CancelRequested(a.tui))
  OBVIOUS
<1> HIDE DEF dropped
<1>3. \A s \in T!CancelRequested(a.tui) : T!AxesAgree(s) /\ Moves(dropped.tui, s, "Cancelling")
  BY <1>1, CommandMoves, CommandEventsFit DEF Room
<1>4. /\ Room(e.to, 1, 1) /\ Same(dropped, e.to) /\ e.session \in {"running", "failed"}
      /\ e.session = "running" => At(e.to, "Cancelling")
  BY <1>1, <1>2, <1>3, EventAt, 1 \in Nat
<1>5. CASE e.session = "failed"
  BY <1>4, <1>5, RoomLeft, 1 \in Nat DEF Kept
<1>6. CASE e.session = "running"
  <2> DEFINE b == IF Transient(e.to) THEN Restore(e.to) ELSE e.to
  <2>1. Room(b, 1, 1) /\ At(b, "Cancelling") /\ b.draft = NoDraft
    BY <1>1, <1>4, <1>6, RestoreSteps, 1 \in Nat DEF Same
  <2>2. PICK d \in Render(b) \cup Render(Bump(b)) \cup {Done(b)} :
          IF d.session = "running" THEN r \in Event(d.to, T!CancellationCompleted(d.to.tui))
          ELSE r = d
    BY <1>6 DEF Then
  <2> HIDE DEF b
  <2>3. /\ Room(d.to, 0, 0) /\ Same(b, d.to) /\ At(d.to, "Cancelling")
        /\ d.session \in {"running", "lost"}
    BY <2>1, <2>2, RedrawSteps
  <2>4. CASE d.session = "lost"
    BY <2>2, <2>3, <2>4 DEF Kept
  <2>5. CASE d.session = "running"
    <3>1. PICK c, sessions : c = d.to /\ sessions = T!CancellationCompleted(c.tui)
      OBVIOUS
    <3>2. /\ r \in Event(c, sessions) /\ Room(c, 0, 0) /\ At(c, "Cancelling")
          /\ \A s \in sessions : T!AxesAgree(s) /\ Moves(c.tui, s, "Cancelled")
      BY <2>2, <2>3, <2>5, <3>1, CommandMoves, CommandEventsFit DEF Room
    <3>3. 0 \in Nat
      OBVIOUS
    <3>4. /\ Room(r.to, 0, 0) /\ Same(c, r.to) /\ r.session \in {"running", "failed"}
          /\ r.session = "running" => At(r.to, "Cancelled")
      BY ONLY <3>2, <3>3, EventAt
    <3>5. ~Drafting(r.to)
      BY <2>1, <2>3, <3>1, <3>4, NoDraftIsADraft DEF Same, Drafting
    <3> QED BY <3>4, <3>5, OutcomeIsCalm DEF Kept, T!Outcomes
  <2> QED BY <2>3, <2>4, <2>5
<1> QED BY <1>4, <1>5, <1>6

LEMMA DraftCancelledSettles == ASSUME Rested, DraftCancelled PROVE RestInv'
<1> DEFINE Cancelling(a) ==
             Then(Event([a EXCEPT !.draft = NoDraft], T!CancelRequested(a.tui)),
                  LAMBDA b : Then(IF Transient(b) THEN Render(Bump(Restore(b))) ELSE {Done(b)},
                                  LAMBDA c : Event(c, T!CancellationCompleted(c.tui))))
<1>1. Room(app, 2, 1) /\ Calm(app)
  BY InputHasRoom DEF Rested, DraftCancelled
<1>2. ASSUME NEW r \in Key(app, Cancelling)
      PROVE  Kept(r)
  <2>1. PICK first \in Dismissed(app) :
          IF first.session = "running"
          THEN r \in IF HeldBack(first.to) THEN {Done(first.to)} ELSE Cancelling(first.to)
          ELSE r = first
    BY <1>2 DEF Key, Then, Dismissed
  <2> DEFINE handled == Cancelling(first.to)
  <2>2. ASSUME Handed(app, first.to), NEW q \in handled
        PROVE  Kept(q)
    <3> DEFINE a == first.to
    <3>1. Room(a, 1, 1) /\ \E phase : At(a, phase)
      BY <2>2, HandedHasRoom DEF Calm
    <3>2. PICK e \in Event([a EXCEPT !.draft = NoDraft], T!CancelRequested(a.tui)) :
            IF e.session = "running"
            THEN q \in Then(IF Transient(e.to) THEN Render(Bump(Restore(e.to))) ELSE {Done(e.to)},
                            LAMBDA c : Event(c, T!CancellationCompleted(c.tui)))
            ELSE q = e
      BY <2>2 DEF Then
    <3> HIDE DEF a
    <3> QED BY <3>1, <3>2, CancelSettles
  <2>3. IF first.session = "running"
        THEN r \in IF HeldBack(first.to) THEN {Done(first.to)} ELSE handled
        ELSE r = first
    BY <2>1
  <2> HIDE DEF handled
  <2> QED BY <1>1, <2>2, <2>3, KeySettles
<1> QED BY <1>2, ContinuesSettles DEF DraftCancelled

LEMMA TypedSettles ==
    ASSUME NEW a, Room(a, 1, 1), Calm(a), Drafting(a), NEW input \in Features \cup {NoInput},
           NEW r \in Typed(a, input)
    PROVE  Kept(r)
<1> DEFINE draft == [a.draft EXCEPT !.input = input, !.preview = <<>>]
           edited == [a EXCEPT !.draft.input = input, !.draft.preview = <<>>]
<1>1. PICK d : /\ d \in IF a.draft.preview # <<>> /\ Transient(a)
                        THEN Render(Bump(Restore(edited))) ELSE {Done(edited)}
               /\ IF d.session = "running" THEN r \in Event(d.to, T!DraftUpdated(d.to.tui))
                  ELSE r = d
  BY DEF Typed, Then
<1>2. /\ {"command", "source", "input", "preview"} \subseteq DOMAIN draft
      /\ draft.command = a.draft.command /\ draft.input = input
  BY DEF Room, IsSession
<1>3. edited = [a EXCEPT !.draft = draft]
  OBVIOUS
<1>4. PICK phase \in {"Idle", "Draft", "PreviewReady"} \cup T!Outcomes : At(a, phase)
  BY DEF Calm
<1> HIDE DEF draft, edited
<1>5. Room(edited, 1, 1) /\ edited.draft = draft /\ At(edited, phase)
  BY <1>2, <1>3, <1>4, DraftSteps, 1 \in Nat DEF Room
<1> DEFINE b == IF a.draft.preview # <<>> /\ Transient(a) THEN Restore(edited) ELSE edited
<1>6. Room(b, 1, 1) /\ At(b, phase) /\ b.draft = draft
  BY <1>5, RestoreSteps, 1 \in Nat
<1>7. d \in Render(b) \cup Render(Bump(b)) \cup {Done(b)}
  BY <1>1
<1> HIDE DEF b
<1>8. /\ Room(d.to, 0, 0) /\ Same(b, d.to) /\ At(d.to, phase) /\ d.session \in {"running", "lost"}
  BY <1>6, <1>7, RedrawSteps
<1>9. CASE d.session = "lost"
  BY <1>1, <1>8, <1>9 DEF Kept
<1>10. CASE d.session = "running"
  <2>1. PICK c, sessions : c = d.to /\ sessions = T!DraftUpdated(c.tui)
    OBVIOUS
  <2>2. /\ r \in Event(c, sessions) /\ Room(c, 0, 0) /\ At(c, phase)
        /\ \A s \in sessions : T!AxesAgree(s) /\ Moves(c.tui, s, "Draft")
    BY <1>1, <1>8, <1>10, <2>1, CommandMoves, CommandEventsFit DEF Room
  <2>3. 0 \in Nat
    OBVIOUS
  <2>4. /\ Room(r.to, 0, 0) /\ Same(c, r.to) /\ r.session \in {"running", "failed"}
        /\ r.session = "running" => At(r.to, "Draft")
    BY ONLY <2>2, <2>3, EventAt
  <2>5. Drafting(r.to)
    BY <1>2, <1>6, <1>8, <2>1, <2>4 DEF Same, Drafting
  <2> QED BY <2>4, <2>5, DraftIsCalm DEF Kept
<1> QED BY <1>8, <1>9, <1>10

LEMMA DraftTypedSettles == ASSUME Rested, DraftTyped PROVE RestInv'
<1>1. PICK input \in Features \cup {NoInput} : Continues(Key(app, LAMBDA a : Typed(a, input)))
  BY DEF DraftTyped
<1>2. Room(app, 2, 1) /\ Calm(app) /\ Drafting(app)
  BY InputHasRoom DEF Rested, DraftTyped
<1>3. ASSUME NEW r \in Key(app, LAMBDA a : Typed(a, input))
      PROVE  Kept(r)
  <2>1. PICK first \in Dismissed(app) :
          IF first.session = "running"
          THEN r \in IF HeldBack(first.to) THEN {Done(first.to)} ELSE Typed(first.to, input)
          ELSE r = first
    BY <1>3 DEF Key, Then, Dismissed
  <2> DEFINE handled == Typed(first.to, input)
  <2>2. Handed(app, first.to) => \A q \in handled : Kept(q)
    BY <1>2, HandedHasRoom, TypedSettles
  <2> HIDE DEF handled
  <2> QED BY <1>2, <2>1, <2>2, KeySettles DEF handled
<1> QED BY <1>1, <1>3, ContinuesSettles

LEMMA PreviewSettles == ASSUME Rested, PreviewPressed PROVE RestInv'
<1>1. Room(app, 2, 1) /\ Calm(app) /\ Drafting(app)
  BY InputHasRoom DEF Rested, PreviewPressed
<1>2. ASSUME NEW r \in Key(app, PreviewDraft)
      PROVE  Kept(r)
  <2>1. PICK first \in Dismissed(app) :
          IF first.session = "running"
          THEN r \in IF HeldBack(first.to) THEN {Done(first.to)} ELSE PreviewDraft(first.to)
          ELSE r = first
    BY <1>2 DEF Key, Then, Dismissed
  <2> DEFINE handled == PreviewDraft(first.to)
  <2>2. Handed(app, first.to) => \A q \in handled : Kept(q)
    BY <1>1, HandedHasRoom, PreviewDraftSettles DEF Calm
  <2> HIDE DEF handled
  <2> QED BY <1>1, <2>1, <2>2, KeySettles DEF handled
<1> QED BY <1>2, ContinuesSettles DEF PreviewPressed

LEMMA CommitSettles == ASSUME Rested, CommitPressed PROVE RestInv'
<1>1. Room(app, 2, 1) /\ Calm(app) /\ Drafting(app)
  BY InputHasRoom DEF Rested, CommitPressed
<1>2. ASSUME NEW r \in Key(app, CommitDraft)
      PROVE  Kept(r)
  <2>1. PICK first \in Dismissed(app) :
          IF first.session = "running"
          THEN r \in IF HeldBack(first.to) THEN {Done(first.to)} ELSE CommitDraft(first.to)
          ELSE r = first
    BY <1>2 DEF Key, Then, Dismissed
  <2> DEFINE handled == CommitDraft(first.to)
  <2>2. Handed(app, first.to) => \A q \in handled : Kept(q)
    BY <1>1, HandedHasRoom, CommitDraftSettles DEF Calm
  <2> HIDE DEF handled
  <2> QED BY <1>1, <2>1, <2>2, KeySettles DEF handled
<1> QED BY <1>2, ContinuesSettles DEF CommitPressed

\* A reply, and the events that come without a key.
LEMMA ReplySettles == ASSUME Rested, ReplyArrives PROVE RestInv'
<1> DEFINE results == IF InFlight(app)
                      THEN {OnTerminal(app, s) : s \in R!Answer(app.render)}
                      ELSE {Answered(app, "lost")}
<1>1. ASSUME NEW r \in results PROVE Kept(r)
  <2>1. CASE r = Answered(app, "lost")
    BY <2>1, AnsweredOf DEF Kept, Rested
  <2>2. CASE \E s \in R!Answer(app.render) : r = OnTerminal(app, s)
    <3>1. PICK s \in R!Answer(app.render) : r = OnTerminal(app, s)
      BY <2>2
    <3>2. Agree(s.to)
      BY AnswerAgrees DEF Rested, Room, ReplyArrives
    <3>3. r.to = [app EXCEPT !.render = s.to] /\ r.session \in {"running", "lost"}
      BY <3>1, AnsweredOf DEF OnTerminal
    <3>4. Same(app, r.to) /\ r.to.tui = app.tui /\ r.to.render = s.to
      BY <3>3 DEF Rested, Room, IsSession, Fields, Same
    <3>5. s.to.nextToken + 0 <= MaxToken
      BY <3>2, BoundsAreNumbers DEF Agree, Fits, R!Attachments
    <3>6. Room(r.to, 0, 0)
      BY <3>2, <3>4, <3>5, SameHasRoom DEF Room, Rested
    <3>7. Calm(r.to)
      BY <3>4 DEF Rested, Calm, At, Same, Drafting
    <3> QED BY <3>3, <3>6, <3>7 DEF Kept
  <2> QED BY <2>1, <2>2
<1>2. Continues(results)
  BY DEF ReplyArrives
<1> HIDE DEF results
<1> QED BY <1>1, <1>2, ContinuesSettles

\* An event that moves nothing the loop relies on.
LEMMA AsideSettles ==
    ASSUME NEW a, Room(a, 0, 0), Calm(a), NEW sessions,
           \A s \in sessions : T!AxesAgree(s) /\ Moves(a.tui, s, Unpreviewed(a.tui.phase)),
           NEW r \in Event(a, sessions)
    PROVE  Kept(r)
<1>1. PICK phase \in {"Idle", "Draft", "PreviewReady"} \cup T!Outcomes : At(a, phase)
  BY DEF Calm
<1>2. /\ Room(r.to, 0, 0) /\ Same(a, r.to) /\ r.session \in {"running", "failed"}
      /\ r.session = "running" => At(r.to, Unpreviewed(a.tui.phase))
  BY <1>1, EventAt, 0 \in Nat
<1>3. At(r.to, Unpreviewed(a.tui.phase)) => Calm(r.to)
  BY <1>1, <1>2 DEF Calm, At, Same, Drafting, Unpreviewed, T!Previews, T!Outcomes
<1> QED BY <1>2, <1>3 DEF Kept

LEMMA EventKeepsCalm ==
    ASSUME NEW a, Room(a, 0, 0), Calm(a), NEW sessions,
           \A s \in sessions : T!AxesAgree(s) /\ Moves(a.tui, s, a.tui.phase),
           NEW r \in Event(a, sessions)
    PROVE  Kept(r)
<1>1. PICK phase \in {"Idle", "Draft", "PreviewReady"} \cup T!Outcomes : At(a, phase)
  BY DEF Calm
<1>2. /\ Room(r.to, 0, 0) /\ Same(a, r.to) /\ r.session \in {"running", "failed"}
      /\ r.session = "running" => At(r.to, a.tui.phase)
  BY <1>1, EventAt, 0 \in Nat
<1>3. At(r.to, a.tui.phase) => Calm(r.to)
  BY <1>1, <1>2 DEF Calm, At, Same, Drafting
<1> QED BY <1>2, <1>3 DEF Kept

\* The state machine put in place by hand.
LEMMA TuiSteps ==
    ASSUME NEW a, NEW m \in Nat, NEW n \in Nat, Room(a, m, n), Calm(a),
           NEW s, T!AxesAgree(s), Moves(a.tui, s, a.tui.phase)
    PROVE  LET b == [a EXCEPT !.tui = s]
           IN  Room(b, m, n) /\ Calm(b) /\ b.tui = s
<1> DEFINE b == [a EXCEPT !.tui = s]
<1>1. Same(a, b) /\ b.render = a.render /\ b.tui = s
  BY TuiIsAside DEF Room, IsSession, Fields
<1> HIDE DEF b
<1>2. s.generation + m <= MaxGeneration
  BY DEF Moves, Room
<1>3. Room(b, m, n)
  BY <1>1, <1>2, SameHasRoom DEF Room
<1>4. Calm(b)
  BY <1>1 DEF Calm, At, Moves, Same, Drafting
<1> QED BY <1>1, <1>3, <1>4 DEF b

LEMMA PickMoves ==
    ASSUME NEW s, T!AxesAgree(s), NEW ids \in T!IdLists, NEW n \in T!Nominate(s, ids),
           NEW t \in T!VerifyExact(n, ids) \cup T!VerifyAmbiguous(n, ids)
    PROVE  /\ T!AxesAgree(n) /\ Moves(s, n, s.phase)
           /\ T!AxesAgree(t) /\ Moves(s, t, s.phase)
<1>1. T!AxesAgree(n) /\ Moves(s, n, s.phase)
  BY SelectionMovesFit, PointerMoves, TRUE \in BOOLEAN
<1>2. T!AxesAgree(t) /\ Moves(n, t, n.phase)
  BY <1>1, SelectionMovesFit, PointerMoves, TRUE \in BOOLEAN
<1> QED BY <1>1, <1>2 DEF Moves

LEMMA PickAtSettles ==
    ASSUME NEW a, Room(a, 2, 1), Calm(a), NEW ids \in T!IdLists, ids # <<>>,
           NEW r \in PickAt(a, ids)
    PROVE  Kept(r)
<1>1. Room(a, 1, 1) /\ Room(a, 0, 0)
  BY RoomIsRoom, 2 \in Nat, 1 \in Nat, 1 \in 0..2, 0 \in 0..2, 1 \in 0..1, 0 \in 0..1
<1>2. Whole(a.tui)
  BY SessionIsWhole DEF Room, T!AxesAgree
<1>3. CASE r = Done(a)
  BY <1>1, <1>3, DoneSteps DEF Kept
<1>4. ASSUME NEW s \in T!Nominate(a.tui, ids) \cup {a.tui}, r = Done([a EXCEPT !.tui = s])
      PROVE  Kept(r)
  <2>1. T!AxesAgree(s) /\ Moves(a.tui, s, a.tui.phase)
    <3>1. CASE s = a.tui
      BY <1>2, <3>1 DEF Room, Moves
    <3>2. CASE s \in T!Nominate(a.tui, ids)
      BY <3>2, SelectionMovesFit, PointerMoves, TRUE \in BOOLEAN DEF Room
    <3> QED BY <3>1, <3>2
  <2> DEFINE b == [a EXCEPT !.tui = s]
  <2>2. Room(b, 0, 0) /\ Calm(b)
    BY <1>1, <2>1, TuiSteps, 0 \in Nat
  <2> HIDE DEF b
  <2>3. r.to = b /\ r.session = "running"
    BY <1>4, DoneSteps DEF b
  <2> QED BY <2>2, <2>3 DEF Kept
<1>5. ASSUME NEW n \in T!Nominate(a.tui, ids),
             NEW s \in T!VerifyExact(n, ids) \cup T!VerifyAmbiguous(n, ids),
             NEW d \in Render(Bump([a EXCEPT !.tui = s])),
             IF d.session = "running"
             THEN r \in Event(d.to, T!PointerPressed(d.to.tui, SelectionTool, <<Head(ids)>>))
             ELSE r \in {Done(d.to)}
      PROVE  Kept(r)
  <2> DEFINE b == [a EXCEPT !.tui = s]
  <2>1. T!AxesAgree(s) /\ Moves(a.tui, s, a.tui.phase)
    BY PickMoves DEF Room
  <2>2. Room(b, 1, 1) /\ Calm(b)
    BY <1>1, <2>1, TuiSteps, 1 \in Nat
  <2>3. d \in Render(Bump(b))
    OBVIOUS
  <2> HIDE DEF b
  <2>4. PICK phase \in {"Idle", "Draft", "PreviewReady"} \cup T!Outcomes : At(b, phase)
    BY <2>2 DEF Calm
  <2>5. Room(d.to, 0, 0) /\ Same(b, d.to) /\ At(d.to, phase)
    BY <2>2, <2>3, <2>4, RedrawSteps
  <2>6. Calm(d.to)
    BY <2>2, <2>4, <2>5 DEF Calm, At, Same, Drafting
  <2>7. PICK c, sessions, id : /\ c = d.to /\ id = <<Head(ids)>>
                               /\ sessions = T!PointerPressed(c.tui, SelectionTool, id)
    OBVIOUS
  <2>8. id \in T!IdLists
    <3>1. Head(ids) \in Features
      BY DEF T!IdLists
    <3> QED BY <2>7, <3>1 DEF T!IdLists
  <2>9. \A t \in sessions : T!AxesAgree(t) /\ Moves(c.tui, t, c.tui.phase)
    <3>1. T!AxesAgree(c.tui) /\ SelectionTool \in Tools
      BY <2>5, <2>7, InteractiveAssumption DEF Room
    <3> QED BY <2>7, <2>8, <3>1, FocusCaptureFits, PointerMoves
  <2>10. Room(c, 0, 0) /\ Calm(c) /\ (r \in Event(c, sessions) \/ r = Done(c))
    BY <1>5, <2>5, <2>6, <2>7
  <2>11. CASE r \in Event(c, sessions)
    BY ONLY <2>9, <2>10, <2>11, EventKeepsCalm
  <2>12. CASE r = Done(c)
    BY <2>10, <2>12, DoneSteps DEF Kept
  <2> QED BY <2>10, <2>11, <2>12
<1>6. \/ r = Done(a) \/ \E s \in T!Nominate(a.tui, ids) \cup {a.tui} : r = Done([a EXCEPT !.tui = s])
      \/ \E n \in T!Nominate(a.tui, ids) :
         \E s \in T!VerifyExact(n, ids) \cup T!VerifyAmbiguous(n, ids) :
         \E d \in Render(Bump([a EXCEPT !.tui = s])) :
           IF d.session = "running"
           THEN r \in Event(d.to, T!PointerPressed(d.to.tui, SelectionTool, <<Head(ids)>>))
           ELSE r \in {Done(d.to)}
  <2> DEFINE picked == UNION {IF Len(ids) = 1 THEN T!VerifyExact(n, ids)
                              ELSE T!VerifyAmbiguous(n, ids) : n \in T!Nominate(a.tui, ids)}
             drawn == UNION {Render(Bump([a EXCEPT !.tui = s])) : s \in picked}
  <2>1. \/ r = Done(a) \/ \E s \in T!Nominate(a.tui, ids) \cup {a.tui} : r = Done([a EXCEPT !.tui = s])
        \/ \E d \in drawn :
             IF d.session = "running"
             THEN r \in Event(d.to, T!PointerPressed(d.to.tui, SelectionTool, <<Head(ids)>>))
             ELSE r \in {Done(d.to)}
    <3> HIDE DEF drawn
    <3> QED BY DEF PickAt, drawn
  <2>2. \A d \in drawn : \E s \in picked : d \in Render(Bump([a EXCEPT !.tui = s]))
    <3> HIDE DEF picked
    <3> QED OBVIOUS
  <2>3. \A s \in picked : \E n \in T!Nominate(a.tui, ids) :
          s \in T!VerifyExact(n, ids) \cup T!VerifyAmbiguous(n, ids)
    OBVIOUS
  <2> HIDE DEF picked, drawn
  <2> QED BY <2>1, <2>2, <2>3
<1> QED BY <1>3, <1>4, <1>5, <1>6

LEMMA PickedSettles == ASSUME Rested, Picked PROVE RestInv'
<1>1. PICK ids \in T!IdLists \ {<<>>} : Continues(PickAt(app, ids))
  BY DEF Picked
<1>2. Room(app, 2, 1) /\ Calm(app)
  BY InputHasRoom DEF Rested, Picked
<1> QED BY <1>1, <1>2, PickAtSettles, ContinuesSettles

LEMMA PointerSettles ==
    ASSUME Rested, PointerPressed \/ PointerReleased
    PROVE  RestInv'
<1>0. <<>> \in T!IdLists
  BY DEF T!IdLists
<1>1. PICK sessions :
        /\ Continues(Event(app, sessions))
        /\ \/ \E tool \in Tools : sessions = T!PointerPressed(app.tui, tool, <<>>)
           \/ sessions = T!DragFinished(app.tui) \/ sessions = T!PointerReleased(app.tui)
  BY DEF PointerPressed, PointerReleased
<1>2. \A s \in sessions : T!AxesAgree(s) /\ Moves(app.tui, s, app.tui.phase)
  <2> SUFFICES ASSUME NEW s \in sessions
               PROVE  T!AxesAgree(s) /\ Moves(app.tui, s, app.tui.phase)
    OBVIOUS
  <2>0. T!AxesAgree(app.tui)
    BY DEF Rested, Room
  <2>1. ASSUME NEW tool \in Tools, s \in T!PointerPressed(app.tui, tool, <<>>)
        PROVE  T!AxesAgree(s) /\ Moves(app.tui, s, app.tui.phase)
    BY <1>0, <2>0, <2>1, FocusCaptureFits, PointerMoves
  <2>2. CASE s \in T!DragFinished(app.tui) \cup T!PointerReleased(app.tui)
    BY <1>0, <2>0, <2>2, FocusCaptureFits, PointerMoves
  <2> QED BY <1>1, <2>1, <2>2
<1> QED BY <1>1, <1>2, EventKeepsCalm, ContinuesSettles DEF Rested

LEMMA FocusLostSettles == ASSUME Rested, FocusLost PROVE RestInv'
<1>0. <<>> \in T!IdLists
  BY DEF T!IdLists
<1>1. Continues(Event(app, T!FocusLost(app.tui)))
  BY DEF FocusLost
<1>2. \A s \in T!FocusLost(app.tui) :
        T!AxesAgree(s) /\ Moves(app.tui, s, Unpreviewed(app.tui.phase))
  BY <1>0, FocusCaptureFits, BlurMoves DEF Rested, Room
<1> QED BY <1>1, <1>2, AsideSettles, ContinuesSettles DEF Rested

LEMMA PointerMovedSettles == ASSUME Rested, PointerMoved PROVE RestInv'
<1> DEFINE results == Then(Event(app, T!PointerMoved(app.tui, <<>>)),
                    LAMBDA a : IF a.tui.mode.at = "ModelessReady"
                               THEN Event(a, T!StartDrag(a.tui, a.tui.capture)) ELSE {Done(a)})
<1>0. <<>> \in T!IdLists /\ 1 \in T!Revisions
  BY BoundsAreNumbers DEF T!IdLists, T!Revisions
<1>1. ASSUME NEW r \in results PROVE Kept(r)
  <2>1. PICK e \in Event(app, T!PointerMoved(app.tui, <<>>)) :
          IF e.session = "running"
          THEN r \in Event(e.to, T!StartDrag(e.to.tui, e.to.tui.capture)) \cup {Done(e.to)}
          ELSE r = e
    BY <1>1 DEF Then
  <2>2. \A s \in T!PointerMoved(app.tui, <<>>) :
          T!AxesAgree(s) /\ Moves(app.tui, s, app.tui.phase)
    BY <1>0, FocusCaptureFits, PointerMoves DEF Rested, Room
  <2>3. Kept(e)
    BY <2>2, EventKeepsCalm DEF Rested
  <2>4. CASE e.session = "running"
    <3>1. PICK c, sessions : c = e.to /\ sessions = T!StartDrag(c.tui, c.tui.capture)
      OBVIOUS
    <3>2. Room(c, 0, 0) /\ Calm(c) /\ (r \in Event(c, sessions) \/ r = Done(c))
      BY <2>1, <2>3, <2>4, <3>1 DEF Kept
    <3>3. \A s \in sessions : T!AxesAgree(s) /\ Moves(c.tui, s, c.tui.phase)
      BY <1>0, <3>1, <3>2, CommandFits, PointerMoves DEF Room
    <3>4. CASE r \in Event(c, sessions)
      BY ONLY <3>2, <3>3, <3>4, EventKeepsCalm
    <3>5. CASE r = Done(c)
      BY <3>2, <3>5, DoneSteps DEF Kept
    <3> QED BY <3>2, <3>4, <3>5
  <2> QED BY <2>1, <2>3, <2>4
<1>2. Continues(results)
  BY DEF PointerMoved
<1> HIDE DEF results
<1> QED BY <1>1, <1>2, ContinuesSettles

LEMMA FocusGainedSettles == ASSUME Rested, FocusGained PROVE RestInv'
<1> DEFINE results == Then(Event(app, T!FocusIn(app.tui)),
                           LAMBDA a : Event(a, T!RecoveryCompleted(a.tui)))
<1>0. <<>> \in T!IdLists
  BY DEF T!IdLists
<1>1. ASSUME NEW r \in results PROVE Kept(r)
  <2>1. PICK e \in Event(app, T!FocusIn(app.tui)) :
          IF e.session = "running" THEN r \in Event(e.to, T!RecoveryCompleted(e.to.tui)) ELSE r = e
    BY <1>1 DEF Then
  <2>2. \A s \in T!FocusIn(app.tui) : T!AxesAgree(s) /\ Moves(app.tui, s, app.tui.phase)
    BY <1>0, FocusCaptureFits, PointerMoves DEF Rested, Room
  <2>3. Kept(e)
    BY <2>2, EventKeepsCalm DEF Rested
  <2>4. CASE e.session = "running"
    <3>1. PICK c, sessions : c = e.to /\ sessions = T!RecoveryCompleted(c.tui)
      OBVIOUS
    <3>2. Room(c, 0, 0) /\ Calm(c) /\ r \in Event(c, sessions)
      BY <2>1, <2>3, <2>4, <3>1 DEF Kept
    <3>3. \A s \in sessions : T!AxesAgree(s) /\ Moves(c.tui, s, c.tui.phase)
      BY <1>0, <3>1, <3>2, FocusCaptureFits, PointerMoves DEF Room
    <3> QED BY ONLY <3>2, <3>3, EventKeepsCalm
  <2> QED BY <2>1, <2>3, <2>4
<1>2. Continues(results)
  BY DEF FocusGained
<1> HIDE DEF results
<1> QED BY <1>1, <1>2, ContinuesSettles

\* A resize takes a preview back, as a blur does, and redraws in between.
LEMMA ResizedSettles == ASSUME Rested, Resized PROVE RestInv'
<1> DEFINE started == Then(Event(app, T!ResizeStarted(app.tui)), Render)
           results == Then(started, LAMBDA a : Event(a, T!ResizeCompleted(a.tui)))
           phase == Unpreviewed(app.tui.phase)
<1>0. Room(app, 0, 1) /\ Calm(app) /\ app.tui.generation < MaxGeneration
  <2>1. app.render.nextToken \in Nat /\ app.render.nextToken < MaxToken
    BY RoomIsRoom, 0 \in Nat, 0 \in 0..0 DEF Rested, Resized
  <2>2. app.render.nextToken + 1 <= MaxToken
    BY <2>1, BoundsAreNumbers
  <2> QED BY <2>2 DEF Rested, Room, Resized
<1>1. PICK before \in {"Idle", "Draft", "PreviewReady"} \cup T!Outcomes : At(app, before)
  BY <1>0 DEF Calm
<1>2. ASSUME NEW d \in started
      PROVE  /\ Room(d.to, 0, 0) /\ Same(app, d.to)
             /\ d.session \in {"running", "failed", "lost"}
             /\ d.session = "running" =>
                  d.to.tui.phase = phase /\ d.to.tui.canonical = app.tui.canonical
  <2>1. PICK e \in Event(app, T!ResizeStarted(app.tui)) :
          IF e.session = "running" THEN d \in Render(e.to) ELSE d = e
    BY <1>2 DEF Then
  <2>2. \A s \in T!ResizeStarted(app.tui) :
          /\ T!AxesAgree(s) /\ s.generation + 0 <= MaxGeneration
          /\ s.phase = phase /\ s.canonical = app.tui.canonical
    <3> SUFFICES ASSUME NEW s \in T!ResizeStarted(app.tui)
                 PROVE  /\ T!AxesAgree(s) /\ s.generation + 0 <= MaxGeneration
                        /\ s.phase = phase /\ s.canonical = app.tui.canonical
      OBVIOUS
    <3>1. T!AxesAgree(s)
      BY <1>0, LifecycleFits DEF Room
    <3>2. s.phase = phase /\ s.canonical = app.tui.canonical
      BY <1>0, ResizeMoves DEF Room
    <3>3. s.generation \in 0..MaxGeneration
      BY <3>1 DEF T!AxesAgree, T!Sessions
    <3> QED BY <3>1, <3>2, <3>3, BoundsAreNumbers
  <2>3. /\ Room(e.to, 0, 1) /\ Same(app, e.to) /\ e.session \in {"running", "failed"}
        /\ e.session = "running" => e.to.tui \in T!ResizeStarted(app.tui)
    BY <1>0, <2>2, EventSteps, 0 \in Nat, 1 \in Nat
  <2>4. CASE e.session = "running"
    <3>1. /\ Room(d.to, 0, 0) /\ Same(e.to, d.to) /\ d.to.tui = e.to.tui
          /\ d.session \in {"running", "lost"}
      BY <2>1, <2>3, <2>4, RenderSteps, 0 \in Nat
    <3> QED BY <2>2, <2>3, <2>4, <3>1 DEF Same
  <2>5. CASE e.session = "failed"
    BY <2>1, <2>3, <2>5, RoomLeft, 0 \in Nat, 1 \in Nat
  <2> QED BY <2>3, <2>4, <2>5
<1>3. Continues(results)
  BY DEF Resized
<1> HIDE DEF started, phase
<1>4. ASSUME NEW r \in results PROVE Kept(r)
  <2>1. PICK d \in started :
          IF d.session = "running" THEN r \in Event(d.to, T!ResizeCompleted(d.to.tui)) ELSE r = d
    BY <1>4 DEF Then
  <2>2. CASE d.session # "running"
    BY <1>2, <2>1, <2>2 DEF Kept
  <2>3. CASE d.session = "running"
    <3>1. PICK c, sessions : c = d.to /\ sessions = T!ResizeCompleted(c.tui)
      OBVIOUS
    <3>2. /\ Room(c, 0, 0) /\ Same(app, c) /\ r \in Event(c, sessions)
          /\ c.tui.phase = phase /\ c.tui.canonical = app.tui.canonical
      BY <1>2, <2>1, <2>3, <3>1
    <3>3. \A s \in sessions :
            /\ T!AxesAgree(s) /\ s.generation + 0 <= MaxGeneration
            /\ s.phase = phase /\ s.canonical = app.tui.canonical
            /\ s.lifecycle = "InteractiveReady"
      BY <3>1, <3>2, LifecycleFits, ResizeMoves DEF Room
    <3>4. 0 \in Nat
      OBVIOUS
    <3>5. \A s \in sessions : T!AxesAgree(s) /\ s.generation + 0 <= MaxGeneration
      BY <3>3
    <3>6. /\ Room(r.to, 0, 0) /\ Same(c, r.to) /\ r.session \in {"running", "failed"}
          /\ r.session = "running" => r.to.tui \in sessions
      BY ONLY <3>2, <3>4, <3>5, EventSteps
    <3>7. r.session = "running" => At(r.to, phase)
      BY <1>1, <3>2, <3>3, <3>6 DEF At, Same
    <3>8. At(r.to, phase) => Calm(r.to)
      BY <1>0, <1>1, <3>2, <3>6
      DEF Calm, At, Same, Drafting, phase, Unpreviewed, T!Previews, T!Outcomes
    <3> QED BY <3>6, <3>7, <3>8 DEF Kept
  <2> QED BY <2>2, <2>3
<1> HIDE DEF results
<1> QED BY <1>3, <1>4, ContinuesSettles

\* The end of the session, asked for or not.
LEMMA ExitHasRoom ==
    ASSUME NEW a, Room(a, 0, 0), NEW t, T!AxesAgree(t), NEW x, Agree(x)
    PROVE  Room([Restore(a) EXCEPT !.tui = t, !.render = x], 0, 0)
<1> DEFINE c == Restore(a)
           b == [c EXCEPT !.tui = t, !.render = x]
<1>1. Room(c, 0, 0)
  BY RestoreSteps, 0 \in Nat
<1> HIDE DEF c
<1>2. Same(c, b) /\ b.tui = t /\ b.render = x
  BY <1>1 DEF Room, IsSession, Fields, Same
<1> HIDE DEF b
<1>3. t.generation + 0 <= MaxGeneration /\ x.nextToken + 0 <= MaxToken
  BY BoundsAreNumbers DEF T!AxesAgree, T!Sessions, Agree, Fits, R!Attachments
<1>4. Room(b, 0, 0)
  BY <1>1, <1>2, <1>3, SameHasRoom, 0 \in Nat
<1> QED BY <1>4 DEF b, c

LEMMA ExitSettles ==
    ASSUME Rested, QuitPressed \/ SignalArrives \/ TerminalReset
    PROVE  RestInv'
<1>0. Room(app, 0, 0) /\ T!AxesAgree(app.tui) /\ Agree(app.render)
  BY DEF Rested, Room
<1>1. ASSUME NEW r \in Close(app)
      PROVE  Room(r.to, 0, 0) /\ r.session \in {"running", "failed", "lost"}
  <2>1. PICK t \in UNION {T!CleanupCompleted(s) : s \in T!CloseRequested(app.tui)},
             c \in R!Cleanup(app.render) :
          r = Answered([Restore(app) EXCEPT !.tui = t, !.render = c.to],
                       IF c.ok THEN "running" ELSE "failed")
    BY <1>1 DEF Close
  <2>2. PICK s \in T!CloseRequested(app.tui) : t \in T!CleanupCompleted(s)
    BY <2>1
  <2>3. T!AxesAgree(s)
    BY <1>0, LifecycleFits
  <2>4. T!AxesAgree(t)
    BY <2>2, <2>3, LifecycleFits
  <2>5. Agree(c.to)
    BY <1>0, CleanupAgrees
  <2> DEFINE b == [Restore(app) EXCEPT !.tui = t, !.render = c.to]
  <2>6. Room(b, 0, 0)
    BY <1>0, <2>4, <2>5, ExitHasRoom
  <2>7. r = Answered(b, IF c.ok THEN "running" ELSE "failed")
    BY <2>1
  <2> HIDE DEF b
  <2> QED BY <2>6, <2>7, AnsweredOf
<1>2. ASSUME NEW r \in Reset(app), app.tui.generation < MaxGeneration
      PROVE  Room(r.to, 0, 0) /\ r.session \in {"running", "failed", "lost"}
  <2>1. PICK t \in T!RuntimeFailure(app.tui), s \in R!LoseAttachment(app.render) :
          r = Done([Restore(app) EXCEPT !.tui = t, !.render = s.to])
    BY <1>2 DEF Reset
  <2>2. T!AxesAgree(t)
    BY <1>0, <1>2, LifecycleFits
  <2>3. Agree(s.to)
    BY <1>0, BrokenAgrees DEF R!LoseAttachment, R!Broken, Agree
  <2> DEFINE b == [Restore(app) EXCEPT !.tui = t, !.render = s.to]
  <2>4. Room(b, 0, 0)
    BY <1>0, <2>2, <2>3, ExitHasRoom
  <2>5. r = Done(b)
    BY <2>1
  <2> HIDE DEF b
  <2> QED BY <2>4, <2>5, DoneSteps
<1>3. CASE Returns(Close(app))
  BY <1>1, <1>3, ReturnsSettles
<1>4. CASE Returns(Reset(app)) /\ app.tui.generation < MaxGeneration
  BY <1>2, <1>4, ReturnsSettles
<1> QED BY <1>3, <1>4 DEF QuitPressed, SignalArrives, TerminalReset

LEMMA OtherProcessSettles == ASSUME Rested, OtherProcessCommits PROVE RestInv'
<1> DEFINE b == [app EXCEPT !.disk = @ + 1]
<1>1. /\ IsSession(b) /\ b.session = app.session /\ b.tui = app.tui
      /\ b.draft = app.draft /\ b.canonical = app.canonical /\ b.scene = app.scene
      /\ b.render = app.render /\ b.loaded = app.loaded /\ b.disk = app.disk + 1
  BY DEF Rested, Room, IsSession, Fields
<1>2. app' = b /\ app.disk < MaxRevision
  BY DEF OtherProcessCommits
<1> HIDE DEF b
<1>3. /\ app.disk + 1 \in Revisions /\ app.loaded <= app.disk + 1
  BY <1>2, BoundsAreNumbers DEF Rested, Room, Revisions
<1>4. Room(b, 0, 0)
  BY <1>1, <1>3 DEF Rested, Room
<1>5. Calm(b)
  BY <1>1 DEF Rested, Calm, At, Drafting
<1> QED BY <1>1, <1>2, <1>4, <1>5 DEF RestInv, Running, Room

\* The loop starts at rest: the first frame was drawn, so there is an answer.
LEMMA FirstFrameIsAnswered ==
    ASSUME NEW x, NEW frame, x.replies = <<>>, NEW s \in R!Submit(x, frame), s.ok,
           x.valid, x.inFlight = NoFrame, x.pending = NoFrame, "replies" \in DOMAIN x,
           "active" \in DOMAIN x, x.active = NoFrame
    PROVE  s.to.replies # <<>>
<1> DEFINE token == x.nextToken + 1
           next == [x EXCEPT !.nextToken = token]
           submission == [token |-> token, image |-> 0, frame |-> frame, cancelled |-> FALSE]
<1>1. s \in R!OrBroken(R!Start(next, submission))
  BY DEF R!Submit, R!Current
<1>2. s \in R!Start(next, submission)
  BY <1>1, EndsOrBreaks, ResultOf DEF R!Broken
<1>3. next.replies = <<>> /\ next.active = NoFrame /\ "replies" \in DOMAIN next
  OBVIOUS
<1> HIDE DEF next, submission
<1>4. PICK d \in R!DeleteActive(next) : d.ok /\ s \in R!Draw(d.to, submission)
  BY <1>2, ResultOf DEF R!Start
<1>5. d.to = next
  BY <1>3, <1>4, ResultOf DEF R!DeleteActive
<1> DEFINE drawn == [submission EXCEPT !.image = next.nextImage]
           shown == [next EXCEPT !.active = drawn, !.inFlight = drawn, !.nextImage = @ + 1,
                     !.images = @ \cup {drawn.image},
                     !.replies = Append(@, drawn.image)]
<1>6. s = R!Done(shown)
  BY <1>4, <1>5, ResultOf DEF R!Draw
<1>7. shown.replies = Append(<<>>, drawn.image)
  BY <1>3
<1> HIDE DEF drawn, shown
<1>8. Append(<<>>, drawn.image) # <<>>
  OBVIOUS
<1> QED BY <1>6, <1>7, <1>8, ResultOf

LEMMA RestStarts == Init => RestInv
<1> SUFFICES ASSUME Init PROVE RestInv
  OBVIOUS
<1> DEFINE frame == [generation |-> 0, scene |-> Scene(1, <<>>)]
<1>1. PICK first \in R!Submit(R!NewAttachment, frame) : first.ok /\
        \E shown \in R!Answer(first.to) :
         app = [session |-> "running", tui |-> T!NewSession(Graph[1], 1), render |-> shown.to,
                palette |-> FALSE, draft |-> NoDraft, canonical |-> Scene(1, <<>>),
                scene |-> Scene(1, <<>>), validated |-> <<>>, loaded |-> 1, disk |-> 1]
  BY DEF Init
<1>2. PICK shown \in R!Answer(first.to) :
         app = [session |-> "running", tui |-> T!NewSession(Graph[1], 1), render |-> shown.to,
                palette |-> FALSE, draft |-> NoDraft, canonical |-> Scene(1, <<>>),
                scene |-> Scene(1, <<>>), validated |-> <<>>, loaded |-> 1, disk |-> 1]
  BY <1>1
<1>3. 1 \in Revisions /\ 1 \in T!Revisions /\ Graph[1] \in Graphs
  BY BoundsAreNumbers, InteractiveAssumption DEF Revisions
<1>4. Scene(1, <<>>) \in Scenes /\ Scene(1, <<>>).revision = 1
  BY <1>3 DEF Scene, Scenes
<1>5. frame \in Frames
  <2>1. 0 \in 0..MaxGeneration
    BY BoundsAreNumbers
  <2> QED BY <1>4, <2>1, InteractiveAssumption
<1>6. /\ Agree(R!NewAttachment) /\ R!NewAttachment.nextToken < MaxToken
  BY AttachmentStarts, BoundsAreNumbers DEF R!NewAttachment
<1>7. Agree(first.to)
  BY <1>5, <1>6, SubmitAgrees
<1>8. first.to.replies # <<>>
  BY <1>1, FirstFrameIsAnswered DEF R!NewAttachment
<1>9. Agree(shown.to) /\ shown.to.nextToken + 0 <= MaxToken
  <2>1. Agree(shown.to)
    BY <1>7, <1>8, AnswerAgrees
  <2> QED BY <2>1, BoundsAreNumbers DEF Agree, Fits, R!Attachments
<1> DEFINE s == T!NewSession(Graph[1], 1)
<1>10. T!AxesAgree(s)
  BY <1>3, SessionStarts
<1>11. /\ s.generation = 0 /\ s.lifecycle = "InteractiveReady" /\ s.phase = "Idle"
       /\ s.canonical = 1
  BY DEF T!NewSession
<1> HIDE DEF s, frame
<1>12. /\ IsSession(app) /\ app.session = "running" /\ app.tui = s /\ app.render = shown.to
       /\ app.draft = NoDraft /\ app.canonical = Scene(1, <<>>) /\ app.scene = Scene(1, <<>>)
       /\ app.loaded = 1 /\ app.disk = 1
  BY <1>2, NoDraftIsADraft DEF IsSession, Fields, s
<1>13. 0 + 0 <= MaxGeneration
  BY BoundsAreNumbers
<1>14. Room(app, 0, 0)
  BY <1>3, <1>4, <1>9, <1>10, <1>11, <1>12, <1>13, NoDraftIsADraft DEF Room
<1>15. At(app, "Idle") /\ ~Drafting(app)
  BY <1>4, <1>11, <1>12, NoDraftIsADraft DEF At, Drafting
<1> QED BY <1>12, <1>14, <1>15, OutcomeIsCalm DEF RestInv, Running

LEMMA RestKept == RestInv /\ [Next]_vars => RestInv'
<1> SUFFICES ASSUME RestInv, [Next]_vars PROVE RestInv'
  OBVIOUS
<1>1. CASE UNCHANGED vars
  BY <1>1 DEF vars, RestInv, Running
<1>2. CASE Next
  <2>1. Rested
    BY <1>2 DEF RestInv, Rested, Next, Keyboard, Input, ArrowPressed, CameraMoved, PaletteOpened,
      PaletteDismissed, CommandChosen, OutcomeClosed, DraftCancelled, DraftTyped,
      PreviewPressed, CommitPressed, QuitPressed, ReplyArrives, Picked, PointerPressed,
      PointerMoved, PointerReleased, FocusLost, FocusGained, Resized, SignalArrives,
      TerminalReset, OtherProcessCommits
  <2> QED BY <1>2, <2>1, ArrowSettles, CameraSettles, PaletteSettles, CommandSettles,
      OutcomeSettles, DraftCancelledSettles, DraftTypedSettles, PreviewSettles,
      CommitSettles, ExitSettles, ReplySettles, PickedSettles, PointerSettles,
      PointerMovedSettles, FocusLostSettles, FocusGainedSettles, ResizedSettles,
      OtherProcessSettles
      DEF Next, Keyboard
<1> QED BY <1>1, <1>2

-----------------------------------------------------------------------------
(* The theorems *)

\* The evidence that goes with a frame describes the scene that is drawn.
THEOREM EvidenceFitsTheScene == Spec => []EvidenceIsOfTheScene
<1>1. LoopInv => EvidenceIsOfTheScene
  BY DEF LoopInv, Running, Settled, Show, EvidenceIsOfTheScene
<1> QED BY <1>1, LoopStarts, LoopKept, PTL DEF Spec

\* What is on the screen of a draft is the preview of its input.
THEOREM PreviewFitsTheDraft == Spec => []PreviewIsOfTheDraft
<1>1. LoopInv => PreviewIsOfTheDraft
  BY DEF LoopInv, Running, Settled, Sound, ShowsDraft, Over, PreviewIsOfTheDraft
<1> QED BY <1>1, LoopStarts, LoopKept, PTL DEF Spec

\* What is published was previewed from the same input, of a draft that was
\* current when its commit began; a fenced command replaces the very revision
\* its draft was opened on.
THEOREM PublishedWasPreviewed == Spec => CommitWasPreviewed
<1>1. LoopInv /\ [Next]_vars =>
        [CommitPressed /\ app'.disk # app.disk =>
           /\ app.draft.preview = <<app.draft.input>>
           /\ app.draft.source = app.disk
           /\ Fenced(app) => app'.disk = app.draft.source + 1]_vars
  BY CommitPressedFits DEF LoopInv, CommitPressed, Input, OfTheDraft
<1> QED BY <1>1, LoopStarts, LoopKept, PTL DEF Spec, CommitWasPreviewed

\* Between inputs the state machine, the scene and the draft agree, every part
\* keeps its promises, and a session that has ended well has left nothing behind.
THEOREM EverythingSettles == Spec => []SettledBetweenInputs
<1>1. RestInv /\ LoopInv => SettledBetweenInputs
  <2> SUFFICES ASSUME RestInv, LoopInv PROVE SettledBetweenInputs
    OBVIOUS
  <2>1. CASE Running
    <3>1. Room(app, 0, 0) /\ Calm(app) /\ app.session = "running"
      BY <2>1 DEF RestInv, Running
    <3>2. PartsKept
      BY <3>1 DEF Room, PartsKept, T!AxesAgree, Agree, Fits
    <3>3. CleanClose
      BY <3>1 DEF CleanClose
    <3>4. ~(Drafting(app) /\ app.palette)
      BY <2>1 DEF LoopInv, Settled, ShowsDraft
    <3> QED BY <3>1, <3>2, <3>3, <3>4 DEF SettledBetweenInputs, Calm, At, Room
  <2>2. CASE ~Running
    BY <2>2 DEF RestInv, Running, Left, SettledBetweenInputs, PartsKept, CleanClose,
                T!AxesAgree
  <2> QED BY <2>1, <2>2
<1> QED BY <1>1, LoopStarts, LoopKept, RestStarts, RestKept, PTL DEF Spec
==============================================================================
