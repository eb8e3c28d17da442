--------------------------- MODULE McpServerProofs ---------------------------
(***************************************************************************)
(* Proofs about the MCP server's loop, for any number of requests, any     *)
(* size of the queues and any cancellations: answers come once and in      *)
(* order, and a cancellation that was taken in time stops its request.     *)
(*                                                                         *)
(* The argument follows one id.  Until it is handled a request is in one   *)
(* place, with the reader or once in the queue, and nothing else in the    *)
(* queue has its id.  While the thread of a pattern runs it is the active  *)
(* one, and its completion is the last event with its id.                  *)
(***************************************************************************)
EXTENDS McpServer, SequenceTheorems, TLAPS

Events ==
  [type : {"request", "progress", "completed"}, id : Ids] \cup [type : {"bad", "end"}, id : {None}]
ControlEvents == [type : {"cancel"}, id : Ids] \cup [type : {"error"}, id : {None}]
ReaderMessages ==
  [type : {"request"}, id : Ids] \cup [type : {"bad", "end"}, id : {None}]
    \cup ControlEvents \cup {Reading, Stopped}

Typed ==
  /\ call \in [Ids -> Calls \cup {None}]
  /\ reader \in ReaderMessages
  /\ events \in Seq(Events) /\ control \in Seq(ControlEvents)
  /\ queued \in SUBSET Ids /\ pending \in SUBSET Ids /\ cancelled \in SUBSET Ids
  /\ loop \in {"drain", "receive", "complete"} \cup Returned
  /\ active \in Ids \cup {None}
  /\ flag \in [Ids -> BOOLEAN]
  /\ worker \in [Ids -> {"none", "running", "reporting", "finished", "done"}]
  /\ told \in [Ids -> Nat]

\* A request that is read and not yet handled.
Fresh(id) == told[id] = 0 /\ worker[id] = "none" /\ active # id
Unseen(id) == \A i \in DOMAIN events : events[i].id # id

\* An id is unknown, with the reader, or was passed on.
Addressed ==
  /\ \A id \in Ids : call[id] = None => Fresh(id) /\ Unseen(id) /\ id \notin cancelled
  /\ reader.type = "request" =>
        call[reader.id] # None /\ Fresh(reader.id) /\ Unseen(reader.id)
  /\ reader.type = "cancel" => call[reader.id] # None
  /\ \A i \in DOMAIN control : control[i].type = "cancel" => call[control[i].id] # None

\* What an event in the queue says of the request it is about.
Sound(i) ==
  LET id == events[i].id
  IN  /\ id # None => call[id] # None /\ told[id] = 0
      /\ events[i].type = "request" =>
           Fresh(id) /\ \A j \in DOMAIN events \ {i} : events[j].id # id
      /\ events[i].type = "progress" => worker[id] # "none"
      /\ events[i].type = "completed" =>
           worker[id] = "done" /\ \A j \in DOMAIN events : j > i => events[j].id # id

QueueIsSound == \A i \in DOMAIN events : Sound(i)

\* A thread that is not done is the active one's, while the loop runs.
Threads ==
  /\ \A id \in Ids :
        /\ worker[id] # "none" => call[id] = "pattern"
        /\ HoldsHost(id) \/ worker[id] = "finished" =>
             told[id] = 0 /\ (loop \notin Returned => active = id)
  /\ active # None => worker[active] # "none" /\ told[active] = 0
  /\ loop = "complete" => active # None /\ worker[active] = "done" /\ Unseen(active)

AnsweredOnce ==
  \A id \in Ids :
    told[id] \in {0, 1} /\ (told[id] = 1 => call[id] \notin {None, "notice"})

\* A pattern that waits is queued, and its cancellation is kept.
WaitingIsKept ==
  \A id \in Ids :
    /\ call[id] = "pattern" /\ Fresh(id) => id \in queued
    /\ id \in cancelled /\ call[id] = "pattern" /\ Fresh(id) => id \in pending

McpInv ==
  Typed /\ Addressed /\ QueueIsSound /\ Threads /\ AnsweredOnce /\ WaitingIsKept /\ CancelIsHonoured

-----------------------------------------------------------------------------

LEMMA SendAppends ==
    ASSUME NEW S, NEW q \in Seq(S), NEW m \in S
    PROVE  /\ Send(q, m) \in Seq(S)
           /\ \A i \in DOMAIN Send(q, m) :
                \/ i \in DOMAIN q /\ Send(q, m)[i] = q[i]
                \/ i = Len(q) + 1 /\ Send(q, m)[i] = m
           /\ \A i \in DOMAIN q : i \in DOMAIN Send(q, m) /\ i < Len(q) + 1
<1>1. /\ Append(q, m) \in Seq(S) /\ Len(Append(q, m)) = Len(q) + 1
      /\ \A i \in 1 .. Len(q) : Append(q, m)[i] = q[i]
      /\ Append(q, m)[Len(q) + 1] = m
  BY AppendProperties
<1>2. Len(q) \in Nat /\ DOMAIN q = 1 .. Len(q)
      /\ DOMAIN Append(q, m) = 1 .. Len(Append(q, m))
  BY <1>1, LenProperties
<1> QED BY <1>1, <1>2 DEF Send

LEMMA TailShifts ==
    ASSUME NEW S, NEW q \in Seq(S), q # <<>>
    PROVE  /\ Tail(q) \in Seq(S) /\ 1 \in DOMAIN q /\ Head(q) = q[1] /\ q[1] \in S
           /\ \A i \in DOMAIN Tail(q) :
                i \in Nat /\ i > 0 /\ i + 1 \in DOMAIN q /\ Tail(q)[i] = q[i + 1]
<1>1. /\ Head(q) = q[1] /\ Tail(q) \in Seq(S) /\ Len(Tail(q)) = Len(q) - 1
      /\ \A i \in 1 .. Len(Tail(q)) : Tail(q)[i] = q[i + 1]
  BY HeadTailProperties
<1>2. Len(q) \in Nat /\ DOMAIN q = 1 .. Len(q) /\ Len(q) # 0
      /\ DOMAIN Tail(q) = 1 .. Len(Tail(q))
  BY <1>1, LenProperties, EmptySeq
<1>3. 1 \in DOMAIN q /\ q[1] \in S
  BY <1>2, ElementOfSeq
<1> QED BY <1>1, <1>2, <1>3

LEMMA OnwardGoes ==
    \A next, still : Onward(next, still) \in {next, "ok", "readError"}
BY DEF Onward

\* What the loop writes, and where it goes on.
LEMMA WritesGo ==
    ASSUME Typed, Writes
    PROVE  /\ loop' \in {"drain"} \cup Returned
           /\ flag' \in [Ids -> BOOLEAN] /\ \A id \in Ids : flag[id] => flag'[id]
BY OnwardGoes DEF Writes, GoOn, BreakOff, CancelFlag, Typed, Returned

LEMMA InputKeepsType ==
    ASSUME Typed,
           \/ \E id \in Ids, kind \in Calls : ReadRequest(id, kind)
           \/ ReadOther \/ PushRead \/ StopReading
    PROVE  Typed'
<1> USE DEF Typed, threadVars
<1>1. ASSUME NEW id \in Ids, NEW kind \in Calls, ReadRequest(id, kind) PROVE Typed'
  <2>1. reader' \in ReaderMessages
    BY <1>1 DEF ReadRequest, Reads, Message, ReaderMessages
  <2>2. call' \in [Ids -> Calls \cup {None}] /\ queued' \in SUBSET Ids
    BY <1>1 DEF ReadRequest
  <2> QED BY <1>1, <2>1, <2>2 DEF ReadRequest
<1>2. CASE ReadOther
  <2>1. reader' \in ReaderMessages
    BY <1>2 DEF ReadOther, Reads, Message, ReaderMessages, ControlEvents
  <2> QED BY <1>2, <2>1 DEF ReadOther
<1>3. CASE PushRead
  <2>2. reader' \in ReaderMessages
    BY <1>3 DEF PushRead, ReaderMessages
  <2>3. CASE reader.type \in Controls
    <3>1. reader \in ControlEvents
      BY <1>3, <2>3 DEF PushRead, ReaderMessages, ControlEvents, Controls
    <3>2. control' \in Seq(ControlEvents)
      BY <1>3, <2>3, <3>1, SendAppends DEF PushRead
    <3> QED BY <1>3, <2>2, <2>3, <3>2 DEF PushRead
  <2>4. CASE reader.type \notin Controls
    <3>1. reader \in Events
      BY <1>3, <2>4 DEF PushRead, ReaderMessages, ControlEvents, Events, Controls
    <3>2. events' \in Seq(Events)
      BY <1>3, <2>4, <3>1, SendAppends DEF PushRead
    <3> QED BY <1>3, <2>2, <2>4, <3>2 DEF PushRead
  <2> QED BY <2>3, <2>4
<1>4. CASE StopReading
  BY <1>4 DEF StopReading, ReaderMessages
<1> QED BY <1>1, <1>2, <1>3, <1>4

LEMMA WorkerKeepsType == ASSUME Typed, NEW id \in Ids, Worker(id) PROVE Typed'
<1> USE DEF Typed, inputVars
<1>1. CASE Report(id)
  BY <1>1 DEF Report
<1>2. CASE SendProgress(id)
  <2>1. Message("progress", id) \in Events
    BY DEF Message, Events
  <2>2. events' \in Seq(Events)
    BY <1>2, <2>1, SendAppends DEF SendProgress
  <2> QED BY <1>2, <2>2 DEF SendProgress
<1>3. CASE Finish(id)
  BY <1>3 DEF Finish, threadVars
<1>4. CASE SendCompleted(id)
  <2>1. Message("completed", id) \in Events
    BY DEF Message, Events
  <2>2. events' \in Seq(Events)
    BY <1>4, <2>1, SendAppends DEF SendCompleted
  <2> QED BY <1>4, <2>2 DEF SendCompleted
<1> QED BY <1>1, <1>2, <1>3, <1>4 DEF Worker

\* The event the loop takes from the queue.
LEMMA Received ==
    ASSUME Typed, NEW type, Receive(type)
    PROVE  /\ events' \in Seq(Events) /\ 1 \in DOMAIN events /\ Head(events) = events[1]
           /\ events[1] \in Events /\ events[1].type = type
           /\ type \notin {"bad", "end"} => Head(events).id \in Ids
           /\ \A i \in DOMAIN events' :
                i \in Nat /\ i > 0 /\ i + 1 \in DOMAIN events /\ events'[i] = events[i + 1]
BY TailShifts DEF Receive, Typed, Events

LEMMA ReceivedId ==
    ASSUME Typed, NEW type, Receive(type), type \notin {"bad", "end"}
    PROVE  Head(events).id \in Ids /\ events' \in Seq(Events)
BY Received

LEMMA LoopKeepsType == ASSUME Typed, Threads, Loop PROVE Typed'
<1> USE DEF Typed, inputVars, threadVars
<1>0. {"drain", "receive", "complete"} \cup Returned
        = {"drain", "receive", "complete", "ok", "readError", "writeError"}
  BY DEF Returned
<1>1. CASE TakeControl
  <2>1. control' \in Seq(ControlEvents) /\ Head(control) \in ControlEvents
    BY <1>1, TailShifts DEF TakeControl
  <2>2. flag' \in [Ids -> BOOLEAN]
    BY <1>1 DEF TakeControl, CancelFlag
  <2>3. Head(control).type = "cancel" => Head(control).id \in Ids
    BY <2>1 DEF ControlEvents
  <2>4. pending' \in SUBSET Ids
    BY <1>1, <2>3 DEF TakeControl
  <2>5. cancelled' \in SUBSET Ids
    BY <1>1, <2>3 DEF TakeControl
  <2> QED BY <1>1, <2>1, <2>2, <2>4, <2>5 DEF TakeControl
<1>2. CASE Drained \/ TimeOut
  BY <1>0, <1>2, OnwardGoes DEF Drained, TimeOut
<1>3. CASE HandleRequest
  <2> DEFINE id == Head(events).id
  <2>0. id \in Ids /\ events' \in Seq(Events)
    <3>1. Receive("request")
      BY <1>3 DEF HandleRequest
    <3> QED BY <3>1, ReceivedId
  <2> HIDE DEF id
  <2>1. ASSUME StartPattern(id) PROVE Typed'
    BY <1>0, <1>3, <2>0, <2>1, OnwardGoes DEF StartPattern, GoOn, HandleRequest
  <2>2. ASSUME Answer(id), queued' \in SUBSET Ids, UNCHANGED <<active, worker, pending>>
        PROVE  Typed'
    <3>1. told' \in [Ids -> Nat]
      BY <2>0, <2>2 DEF Answer
    <3> QED BY <1>0, <1>3, <2>0, <2>2, <3>1, WritesGo DEF Answer, HandleRequest
  <2>3. ASSUME GoOn(active), UNCHANGED <<active, worker, pending, queued, flag, told>>
        PROVE  Typed'
    BY <1>0, <1>3, <2>0, <2>3, OnwardGoes DEF GoOn, HandleRequest
  <2> QED BY <1>3, <2>0, <2>1, <2>2, <2>3
          DEF HandleRequest, RefusePattern, RefuseTool, RunTool, id
<1>4. CASE HandleBad
  BY <1>4, Received, WritesGo DEF HandleBad
<1>5. CASE HandleProgress
  BY <1>0, <1>5, Received, OnwardGoes DEF HandleProgress, GoOn, BreakOff, CancelFlag
<1>6. CASE HandleEnd
  BY <1>0, <1>6, Received DEF HandleEnd
<1>7. CASE HandleCompleted
  BY <1>0, <1>7, Received, OnwardGoes DEF HandleCompleted
<1>8. CASE TakeLateControl
  <2>1. control' \in Seq(ControlEvents)
    BY <1>8, TailShifts DEF TakeLateControl
  <2>2. flag' \in [Ids -> BOOLEAN]
    BY <1>8 DEF TakeLateControl, CancelFlag
  <2> QED BY <1>8, <2>1, <2>2 DEF TakeLateControl
<1>9. CASE AnswerCompleted
  <2>1. told' \in [Ids -> Nat]
    BY <1>9 DEF AnswerCompleted, Threads
  <2> QED BY <1>0, <1>9, <2>1, OnwardGoes DEF AnswerCompleted, GoOn
<1> QED BY <1>1, <1>2, <1>3, <1>4, <1>5, <1>6, <1>7, <1>8, <1>9 DEF Loop

-----------------------------------------------------------------------------
(* One request, one place: the reader's side.                              *)

InOrder == Addressed /\ QueueIsSound /\ Threads /\ AnsweredOnce

\* Of each part of the order, what it depends on.
LEMMA ReadKeepsOrder ==
    ASSUME Typed, InOrder, NEW id \in Ids, NEW kind \in Calls, ReadRequest(id, kind)
    PROVE  InOrder'
<1> USE DEF Typed, InOrder, threadVars
<1>1. /\ call[id] = None /\ kind # None /\ reader' = [type |-> "request", id |-> id]
      /\ call' = [call EXCEPT ![id] = kind]
      /\ UNCHANGED <<events, control, loop, active, worker, told, cancelled>>
  BY McpAssumption DEF ReadRequest, Reads, Message
<1>2. Fresh(id) /\ Unseen(id)
  BY <1>1 DEF Addressed
<1>3. \A x \in Ids : call'[x] = None => call[x] = None /\ x # id
  BY <1>1
<1>4. Addressed'
  <2>1. \A i \in DOMAIN control : control[i].type = "cancel" => control[i].id \in Ids
    BY DEF ControlEvents
  <2> QED BY <1>1, <1>2, <1>3, <2>1 DEF Addressed, Fresh, Unseen
<1>5. QueueIsSound'
  <2>1. \A i \in DOMAIN events : events[i].id # None => events[i].id \in Ids
    BY DEF Events
  <2> QED BY <1>1, <1>3, <2>1 DEF QueueIsSound, Sound, Fresh
<1>6. Threads'
  BY <1>1, <1>2 DEF Threads, HoldsHost, Fresh, Unseen
<1>7. AnsweredOnce'
  BY <1>1, <1>2 DEF AnsweredOnce, Fresh
<1> QED BY <1>4, <1>5, <1>6, <1>7

LEMMA ReaderKeepsOrder ==
    ASSUME Typed, InOrder, ReadOther \/ StopReading
    PROVE  InOrder'
<1> USE DEF Typed, InOrder, threadVars
<1>1. UNCHANGED <<call, events, control, loop, active, worker, told, cancelled>>
  BY DEF ReadOther, StopReading
<1>2. reader'.type # "request" /\ (reader'.type = "cancel" => call[reader'.id] # None)
  BY DEF ReadOther, StopReading, Reads, Message, Stopped
<1> QED BY <1>1, <1>2 DEF Addressed, QueueIsSound, Sound, Threads, AnsweredOnce, Fresh,
        Unseen, HoldsHost

LEMMA PushKeepsOrder ==
    ASSUME Typed, InOrder, PushRead
    PROVE  InOrder'
<1> USE DEF Typed, InOrder, threadVars
<1>0. /\ UNCHANGED <<call, loop, active, worker, told, cancelled>>
      /\ reader \in ReaderMessages \ {Reading, Stopped}
      /\ reader' \in {Reading, Stopped}
  BY DEF PushRead
<1>1. reader'.type \notin {"request", "cancel"}
  BY <1>0 DEF Reading, Stopped, Message
<1>2. AnsweredOnce'
  BY <1>0 DEF AnsweredOnce
<1>3. CASE reader.type \in Controls
  <2>1. events' = events /\ control' = Send(control, reader)
    BY <1>3 DEF PushRead
  <2>2. reader \in ControlEvents
    BY <1>0, <1>3 DEF ReaderMessages, ControlEvents, Controls
  <2>3. \A i \in DOMAIN control' : control'[i].type = "cancel" => call[control'[i].id] # None
    BY <2>1, <2>2, SendAppends DEF Addressed
  <2> QED BY <1>0, <1>1, <1>2, <2>1, <2>3 DEF Addressed, QueueIsSound, Sound, Threads,
          Fresh, Unseen, HoldsHost
<1>4. CASE reader.type \notin Controls
  <2>1. control' = control /\ events' = Send(events, reader)
    BY <1>4 DEF PushRead
  <2>2. reader \in Events /\ (reader.type = "request" \/ reader.id = None)
    BY <1>0, <1>4 DEF ReaderMessages, ControlEvents, Controls, Events
  <2>3. reader.type \in {"request", "bad", "end"}
    BY <1>0, <1>4 DEF ReaderMessages, ControlEvents, Controls
  <2>4. \A i \in DOMAIN events' :
          \/ i \in DOMAIN events /\ events'[i] = events[i]
          \/ i = Len(events) + 1 /\ events'[i] = reader
    BY <2>1, <2>2, SendAppends
  <2>5. \A id \in Ids : Unseen(id) /\ id # reader.id => Unseen(id)'
    BY <2>4 DEF Unseen
  <2>6. Addressed'
    <3>1. \A id \in Ids : call[id] = None => id # reader.id
      BY <2>2, McpAssumption DEF Addressed
    <3> QED BY <1>0, <1>1, <2>1, <2>5, <3>1 DEF Addressed, Fresh
  <2>7. Threads'
    <3>1. active # None => active # reader.id
      BY <2>2 DEF Addressed, Fresh
    <3> QED BY <1>0, <2>5, <3>1 DEF Threads, HoldsHost
  <2>8. QueueIsSound'
    <3> SUFFICES ASSUME NEW i \in DOMAIN events' PROVE Sound(i)'
      BY DEF QueueIsSound
    <3>1. Len(events) \in Nat /\ DOMAIN events = 1 .. Len(events)
      BY LenProperties
    <3>2. CASE i \in DOMAIN events /\ events'[i] = events[i]
      <4>1. events[i].id # None => events[i].id # reader.id
        <5>1. reader.type = "request" => Unseen(reader.id)
          BY DEF Addressed
        <5> QED BY <2>2, <3>2, <5>1 DEF Unseen
      <4>2. Sound(i) /\ events[i] \in Events
        BY <3>2 DEF QueueIsSound
      <4>3. \A j \in DOMAIN events' : events'[j].id = events[i].id /\ events[i].id # None
              => j \in DOMAIN events /\ events'[j] = events[j]
        BY <2>4, <4>1
      <4>4. events[i].type \in {"request", "completed"} => events[i].id # None
        BY <4>2, McpAssumption DEF Events
      <4> QED BY <1>0, <3>2, <4>2, <4>3, <4>4 DEF Sound, Fresh
    <3>3. CASE i = Len(events) + 1 /\ events'[i] = reader
      <4>1. reader.type = "request" => call[reader.id] # None /\ Fresh(reader.id)
                                        /\ Unseen(reader.id)
        BY DEF Addressed
      <4>2. \A j \in DOMAIN events' \ {i} : j \in DOMAIN events /\ events'[j] = events[j]
        BY <2>4, <3>3
      <4> QED BY <1>0, <2>2, <2>3, <3>3, <4>1, <4>2 DEF Sound, Fresh, Unseen
    <3> QED BY <2>4, <3>2, <3>3
  <2> QED BY <1>2, <2>6, <2>7, <2>8
<1> QED BY <1>3, <1>4

-----------------------------------------------------------------------------
(* The thread's side: its completion is the last event with its id.        *)

\* An event about an id, after whatever the queue says of it already.
LEMMA SendKeepsQueue ==
    ASSUME Typed, QueueIsSound, NEW id \in Ids, NEW type \in {"progress", "completed"},
           events' = Send(events, Message(type, id)),
           UNCHANGED <<call, active, told>>,
           call[id] # None, told[id] = 0,
           worker[id] \notin {"none", "done"}, worker'[id] # "none",
           type = "completed" => worker'[id] = "done",
           \A x \in Ids \ {id} : worker'[x] = worker[x]
    PROVE  QueueIsSound'
<1> DEFINE sent == Message(type, id)
<1>0. sent \in Events /\ sent.id = id /\ sent.type = type
  BY DEF Message, Events
<1> HIDE DEF sent
<1>1. \A i \in DOMAIN events' :
        \/ i \in DOMAIN events /\ events'[i] = events[i]
        \/ i = Len(events) + 1 /\ events'[i] = sent
  BY <1>0, SendAppends DEF Typed, sent
<1>2. Len(events) \in Nat /\ DOMAIN events = 1 .. Len(events)
  BY LenProperties DEF Typed
<1>3. id # None
  BY McpAssumption
<1> SUFFICES ASSUME NEW i \in DOMAIN events' PROVE Sound(i)'
  BY DEF QueueIsSound
<1>4. CASE i \in DOMAIN events /\ events'[i] = events[i]
  <2>1. Sound(i) /\ events[i] \in Events
    BY <1>4 DEF QueueIsSound, Typed
  <2>2. events[i].type \in {"request", "completed"} => events[i].id \in Ids \ {id}
    BY <2>1 DEF Sound, Fresh, Events
  <2>3. events[i].type = "progress" => worker'[events[i].id] # "none"
    <3>1. events[i].type = "progress" => events[i].id \in Ids
      BY <2>1 DEF Events
    <3> QED BY <2>1, <3>1 DEF Sound
  <2>4. \A j \in DOMAIN events' :
          events'[j] = sent \/ (j \in DOMAIN events /\ events'[j] = events[j])
    BY <1>1
  <2> QED BY <1>0, <1>4, <2>1, <2>2, <2>3, <2>4 DEF Sound, Fresh
<1>5. CASE i = Len(events) + 1 /\ events'[i] = sent
  <2>1. \A j \in DOMAIN events' : ~(j > i)
    BY <1>1, <1>2, <1>5
  <2> QED BY <1>0, <1>3, <1>5, <2>1 DEF Sound
<1> QED BY <1>1, <1>4, <1>5

LEMMA WorkerKeepsOrder ==
    ASSUME Typed, InOrder, NEW id \in Ids, Worker(id)
    PROVE  InOrder'
<1> USE DEF Typed, InOrder, inputVars, threadVars
<1>1. /\ UNCHANGED <<call, reader, control, loop, active, told, cancelled>>
      /\ worker[id] \in {"running", "reporting", "finished"}
      /\ worker'[id] \in {"running", "reporting", "finished", "done"}
      /\ \A x \in Ids \ {id} : worker'[x] = worker[x]
  BY DEF Worker, Report, SendProgress, Finish, SendCompleted
<1>2. call[id] = "pattern" /\ call[id] # None /\ told[id] = 0
      /\ (loop \notin Returned => active = id)
  BY <1>1, McpAssumption DEF Threads, HoldsHost, Calls
<1>3. \A x \in Ids : x # id => worker'[x] = worker[x] /\ (Fresh(x) => Fresh(x)')
  BY <1>1 DEF Fresh
<1>4. ~Fresh(id)
  BY <1>1 DEF Fresh
<1>5. \/ events' = events
      \/ events' = Send(events, Message("progress", id)) /\ worker[id] = "reporting"
      \/ events' = Send(events, Message("completed", id)) /\ worker'[id] = "done"
  BY DEF Worker, Report, SendProgress, Finish, SendCompleted
<1>6. \A x \in Ids \ {id} : Unseen(x) => Unseen(x)'
  <2>1. \A type \in {"progress", "completed"} :
          /\ Message(type, id) \in Events
          /\ Message(type, id).id = id
    BY DEF Message, Events
  <2>2. \A m \in Events : \A i \in DOMAIN Send(events, m) :
          Send(events, m)[i] = m \/ (i \in DOMAIN events /\ Send(events, m)[i] = events[i])
    BY SendAppends
  <2>3. \A i \in DOMAIN events' :
          events'[i].id = id \/ (i \in DOMAIN events /\ events'[i] = events[i])
    BY <1>5, <2>1, <2>2
  <2> QED BY <2>3 DEF Unseen
<1>7. AnsweredOnce'
  BY <1>1 DEF AnsweredOnce
<1>8. Addressed'
  <2>1. reader.type = "request" => reader.id \in Ids \ {id}
    BY <1>4 DEF Addressed, ReaderMessages, ControlEvents, Reading, Stopped, Message
  <2> QED BY <1>1, <1>2, <1>3, <1>6, <2>1 DEF Addressed
<1>9. Threads'
  <2>1. loop = "complete" => active # id
    BY <1>1 DEF Threads
  <2>2. loop # "complete"
    BY <1>2, <2>1 DEF Returned
  <2> QED BY <1>1, <1>2, <1>3, <2>2 DEF Threads, HoldsHost
<1>10. QueueIsSound'
  <2>1. CASE events' = events
    <3> SUFFICES ASSUME NEW i \in DOMAIN events PROVE Sound(i)'
      BY <2>1 DEF QueueIsSound
    <3>1. Sound(i) /\ events[i] \in Events
      BY DEF QueueIsSound
    <3>2. events[i].type \notin {"bad", "end"} => events[i].id \in Ids
      BY <3>1 DEF Events
    <3>3. events[i].type \in {"request", "completed"} => events[i].id # id
      BY <1>1, <3>1 DEF Sound, Fresh
    <3> QED BY <1>1, <1>3, <2>1, <3>1, <3>2, <3>3 DEF Sound
  <2>2. CASE events' = Send(events, Message("progress", id))
    BY <1>1, <1>2, <2>2, SendKeepsQueue
  <2>3. CASE events' = Send(events, Message("completed", id)) /\ worker'[id] = "done"
    BY <1>1, <1>2, <2>3, SendKeepsQueue
  <2> QED BY <1>5, <2>1, <2>2, <2>3
<1> QED BY <1>7, <1>8, <1>9, <1>10

-----------------------------------------------------------------------------
(* The loop's side.                                                        *)

\* Taking an event leaves the others sound, if what changes is of an id that
\* is not in the queue any more.
LEMMA TakeKeepsQueue ==
    ASSUME Typed, QueueIsSound, NEW type, Receive(type), UNCHANGED call,
           NEW Y \in SUBSET Ids, \A y \in Y : Unseen(y)',
           \A x \in Ids \ Y : /\ told'[x] = told[x] /\ worker'[x] = worker[x]
                              /\ active # x => active' # x
    PROVE  QueueIsSound'
<1> SUFFICES ASSUME NEW i \in DOMAIN events' PROVE Sound(i)'
  BY DEF QueueIsSound
<1>1. /\ i \in Nat /\ i + 1 \in DOMAIN events /\ events'[i] = events[i + 1]
      /\ \A j \in DOMAIN events' :
           j \in Nat /\ j + 1 \in DOMAIN events /\ events'[j] = events[j + 1]
  BY Received
<1>2. Sound(i + 1) /\ events[i + 1] \in Events
  BY <1>1 DEF QueueIsSound, Typed
<1>3. events'[i].id \notin Y
  BY DEF Unseen
<1>4. events'[i].type \in {"bad", "end"} => events'[i].id = None
  BY <1>1, <1>2 DEF Events
<1>5. events'[i].type \notin {"bad", "end"} => events'[i].id \in Ids
  BY <1>1, <1>2 DEF Events
<1>6. PICK id : id = events[i + 1].id
  OBVIOUS
<1>7. /\ events'[i].type = events[i + 1].type /\ events'[i].id = id
      /\ id \in Ids \ Y \/ (id = None /\ events'[i].type \in {"bad", "end"})
  BY <1>1, <1>3, <1>4, <1>5, <1>6
<1>8. id # None => id \in Ids /\ call[id] # None /\ told[id] = 0 /\ told'[id] = 0
                   /\ worker'[id] = worker[id] /\ (active # id => active' # id)
  BY <1>2, <1>6, <1>7, McpAssumption DEF Sound
<1>9. events'[i].type = "request" =>
        Fresh(id)' /\ \A j \in DOMAIN events' \ {i} : events'[j].id # id
  <2>1. \A j \in DOMAIN events' \ {i} : j + 1 \in DOMAIN events \ {i + 1}
    BY <1>1
  <2>2. events'[i].type = "request" =>
          Fresh(id) /\ \A j \in DOMAIN events \ {i + 1} : events[j].id # id
    BY <1>2, <1>6, <1>7 DEF Sound
  <2>3. events'[i].type = "request" => id # None
    BY <1>7, McpAssumption
  <2> QED BY <1>1, <1>8, <2>1, <2>2, <2>3 DEF Fresh
<1>10. events'[i].type = "completed" =>
        worker'[id] = "done" /\ \A j \in DOMAIN events' : j > i => events'[j].id # id
  <2>1. \A j \in DOMAIN events' : j > i => j + 1 > i + 1 /\ j + 1 \in DOMAIN events
    BY <1>1
  <2>2. events'[i].type = "completed" =>
          worker[id] = "done" /\ \A j \in DOMAIN events : j > i + 1 => events[j].id # id
    BY <1>2, <1>6, <1>7 DEF Sound
  <2>3. events'[i].type = "completed" => id # None
    BY <1>7, McpAssumption
  <2> QED BY <1>1, <1>8, <2>1, <2>2, <2>3
<1>11. events'[i].type = "progress" => worker'[id] # "none"
  <2>1. events'[i].type = "progress" => id # None /\ worker[id] # "none"
    BY <1>2, <1>6, <1>7, McpAssumption DEF Sound
  <2> QED BY <1>8, <2>1
<1> QED BY <1>7, <1>8, <1>9, <1>10, <1>11 DEF Sound, Fresh

LEMMA TakeAbout ==
    ASSUME Typed, QueueIsSound, NEW type, Receive(type), UNCHANGED call,
           NEW y \in Ids, Unseen(y)',
           \A x \in Ids \ {y} : /\ told'[x] = told[x] /\ worker'[x] = worker[x]
                                /\ active # x => active' # x
    PROVE  QueueIsSound'
<1> DEFINE Y == {y}
<1>1. Y \in SUBSET Ids /\ \A x \in Y : Unseen(x)'
  OBVIOUS
<1>2. \A x \in Ids \ Y : told'[x] = told[x] /\ worker'[x] = worker[x]
                         /\ (active # x => active' # x)
  OBVIOUS
<1> HIDE DEF Y
<1> QED BY <1>1, <1>2, TakeKeepsQueue

LEMMA TakeQuietly ==
    ASSUME Typed, QueueIsSound, NEW type, Receive(type), UNCHANGED <<call, told, worker, active>>
    PROVE  QueueIsSound'
<1> DEFINE Y == {}
<1>1. Y \in SUBSET Ids /\ \A y \in Y : Unseen(y)'
  OBVIOUS
<1>2. \A x \in Ids \ Y : told'[x] = told[x] /\ worker'[x] = worker[x]
                         /\ (active # x => active' # x)
  OBVIOUS
<1> HIDE DEF Y
<1> QED BY <1>1, <1>2, TakeKeepsQueue

\* The queue without its head.
LEMMA TakeKeepsUnseen ==
    ASSUME Typed, NEW type, Receive(type)
    PROVE  \A x : Unseen(x) => Unseen(x)'
BY Received DEF Unseen

\* Steps of the loop that handle nothing about an id.
LEMMA ControlKeepsOrder ==
    ASSUME Typed, InOrder, TakeControl \/ Drained \/ TimeOut \/ TakeLateControl
    PROVE  InOrder'
<1> USE DEF Typed, InOrder, inputVars, threadVars
<1>1. UNCHANGED <<call, reader, events, told, worker, active>>
  BY DEF TakeControl, Drained, TimeOut, TakeLateControl
<1>2. /\ loop \in {"drain", "receive", "complete"}
      /\ loop' = "complete" => loop = "complete"
  BY OnwardGoes DEF TakeControl, Drained, TimeOut, TakeLateControl
<1>3. control' = control \/ (control # <<>> /\ control' = Tail(control))
  BY DEF TakeControl, Drained, TimeOut, TakeLateControl
<1>4. \A i \in DOMAIN control' : control'[i].type = "cancel" => call[control'[i].id] # None
  <2>1. CASE control' = control
    BY <2>1 DEF Addressed
  <2>2. CASE control # <<>> /\ control' = Tail(control)
    <3>1. \A i \in DOMAIN Tail(control) :
            i + 1 \in DOMAIN control /\ Tail(control)[i] = control[i + 1]
      BY <2>2, TailShifts
    <3> QED BY <2>2, <3>1 DEF Addressed
  <2> QED BY <1>3, <2>1, <2>2
<1>5. \A id \in Ids : id \in cancelled' => id \in cancelled \/ call[id] # None
  <2>1. ASSUME TakeControl
        PROVE  Head(control) = control[1] /\ 1 \in DOMAIN control
               /\ cancelled' \in {cancelled, cancelled \cup {Head(control).id}}
               /\ (Head(control).type # "cancel" => cancelled' = cancelled)
    BY <2>1, TailShifts DEF TakeControl
  <2> QED BY <2>1 DEF Addressed, Drained, TimeOut, TakeLateControl
<1>6. Addressed'
  BY <1>1, <1>4, <1>5 DEF Addressed, Fresh, Unseen
<1> QED BY <1>1, <1>2, <1>6 DEF QueueIsSound, Sound, Threads, AnsweredOnce, Fresh, Unseen,
        HoldsHost, Returned

LEMMA EventKeepsOrder ==
    ASSUME Typed, InOrder, HandleBad \/ HandleProgress \/ HandleEnd \/ HandleCompleted
    PROVE  InOrder'
<1> USE DEF Typed, InOrder, inputVars, threadVars
<1>1. UNCHANGED <<call, reader, control, told, worker, active, cancelled>>
  BY DEF HandleBad, HandleProgress, HandleEnd, HandleCompleted
<1>2. PICK type : Receive(type)
  BY DEF HandleBad, HandleProgress, HandleEnd, HandleCompleted
<1>3. loop = "receive" /\ \A x : Unseen(x) => Unseen(x)'
  BY <1>2, TakeKeepsUnseen DEF Receive
<1>4. QueueIsSound'
  BY <1>1, <1>2, TakeQuietly
<1>5. loop' = "complete" => active # None /\ worker[active] = "done" /\ Unseen(active)'
  <2>1. loop' = "complete" => HandleCompleted /\ active = Head(events).id
    <3>1. CASE HandleCompleted
      BY <3>1, OnwardGoes DEF HandleCompleted
    <3>2. CASE HandleBad \/ HandleProgress \/ HandleEnd
      BY <3>2, OnwardGoes DEF HandleBad, HandleProgress, HandleEnd, Writes, GoOn, BreakOff
    <3> QED BY <3>1, <3>2
  <2>2. ASSUME HandleCompleted, active = Head(events).id
        PROVE  active # None /\ worker[active] = "done" /\ Unseen(active)'
    <3>1. Receive("completed")
      BY <2>2 DEF HandleCompleted
    <3>2. /\ 1 \in DOMAIN events /\ Head(events) = events[1] /\ events[1].type = "completed"
          /\ \A i \in DOMAIN events' :
               i \in Nat /\ i > 0 /\ i + 1 \in DOMAIN events /\ events'[i] = events[i + 1]
      BY <3>1, Received
    <3>7. Head(events).id \in Ids
      BY <3>1, ReceivedId
    <3>3. Sound(1)
      BY <3>2 DEF QueueIsSound
    <3>4. worker[active] = "done" /\ \A j \in DOMAIN events : j > 1 => events[j].id # active
      BY <2>2, <3>2, <3>3 DEF Sound
    <3>5. \A i \in DOMAIN events' : i + 1 > 1
      BY <3>2
    <3>6. Unseen(active)'
      BY <1>1, <3>2, <3>4, <3>5 DEF Unseen
    <3> QED BY <2>2, <3>4, <3>6, <3>7, McpAssumption
  <2> QED BY <2>1, <2>2
<1>6. Addressed'
  BY <1>1, <1>3 DEF Addressed, Fresh
<1>7. Threads'
  BY <1>1, <1>3, <1>5 DEF Threads, HoldsHost, Returned
<1> QED BY <1>1, <1>4, <1>6, <1>7 DEF AnsweredOnce

\* A request that is handled is started or answered, once.
LEMMA RequestKeepsOrder ==
    ASSUME Typed, InOrder, HandleRequest
    PROVE  InOrder'
<1> USE DEF Typed, InOrder, inputVars, threadVars
<1>1. /\ Receive("request") /\ loop = "receive"
      /\ UNCHANGED <<call, reader, control, cancelled>>
  BY DEF HandleRequest, Receive
<1>2. PICK id \in Ids : id = Head(events).id
  BY <1>1, ReceivedId
<1>3. /\ 1 \in DOMAIN events /\ events[1].id = id /\ events[1].type = "request"
      /\ \A i \in DOMAIN events' :
           i \in Nat /\ i > 0 /\ i + 1 \in DOMAIN events /\ events'[i] = events[i + 1]
  BY <1>1, <1>2, Received
<1>4. Sound(1) /\ id # None
  BY <1>2, <1>3, McpAssumption DEF QueueIsSound
<1>5. Fresh(id) /\ call[id] # None /\ Unseen(id)'
  <2>1. \A i \in DOMAIN events' : i + 1 \in DOMAIN events \ {1}
    BY <1>3
  <2> QED BY <1>3, <1>4, <2>1 DEF Sound, Unseen
<1>6. \A x : Unseen(x) => Unseen(x)'
  BY <1>1, TakeKeepsUnseen
<1>7. reader.type = "request" => reader.id # id
  BY <1>3 DEF Addressed, Unseen
<1>8. reader.type = "request" => reader.id \in Ids
  BY DEF ReaderMessages, ControlEvents, Reading, Stopped, Message
<1>9. CASE StartPattern(id) /\ call[id] = "pattern"
  <2>1. /\ active = None /\ active' = id /\ told' = told /\ worker'[id] = "running"
        /\ \A x \in Ids \ {id} : worker'[x] = worker[x]
        /\ loop' # "complete"
    BY <1>9, OnwardGoes DEF StartPattern, GoOn
  <2>2. \A x \in Ids \ {id} : Fresh(x) => Fresh(x)'
    BY <2>1 DEF Fresh
  <2>3. QueueIsSound'
    <3>1. \A x \in Ids \ {id} : told'[x] = told[x] /\ worker'[x] = worker[x]
                               /\ (active # x => active' # x)
      BY <2>1
    <3>2. UNCHANGED call
      BY <1>1
    <3> QED BY <1>1, <1>5, <3>1, <3>2, TakeAbout
  <2>4. Addressed'
    BY <1>1, <1>5, <1>6, <1>7, <1>8, <2>2 DEF Addressed
  <2>5. Threads'
    <3>1. \A x \in Ids : ~HoldsHost(x) /\ worker[x] # "finished"
      BY <1>1, <2>1, McpAssumption DEF Threads, Returned
    <3> QED BY <1>1, <1>4, <1>5, <1>9, <2>1, <3>1 DEF Threads, HoldsHost, Fresh
  <2> QED BY <1>1, <2>1, <2>3, <2>4, <2>5 DEF AnsweredOnce
<1>10. CASE Answer(id) /\ UNCHANGED <<active, worker>>
            /\ call[id] \in {"pattern", "tool", "invalid", "list"}
  <2>1. /\ told'[id] = 1 /\ \A x \in Ids \ {id} : told'[x] = told[x]
        /\ loop' # "complete"
    BY <1>5, <1>10, WritesGo DEF Answer, Fresh, Returned
  <2>2. \A x \in Ids \ {id} : Fresh(x) => Fresh(x)'
    BY <1>10, <2>1 DEF Fresh
  <2>3. QueueIsSound'
    <3>1. \A x \in Ids \ {id} : told'[x] = told[x] /\ worker'[x] = worker[x]
                               /\ (active # x => active' # x)
      BY <1>10, <2>1
    <3>2. UNCHANGED call
      BY <1>1
    <3> QED BY <1>1, <1>5, <3>1, <3>2, TakeAbout
  <2>4. Addressed'
    BY <1>1, <1>5, <1>6, <1>7, <1>8, <2>2 DEF Addressed
  <2>5. Threads'
    <3>1. UNCHANGED <<call, active, worker>> /\ worker[id] = "none" /\ active # id
      BY <1>1, <1>5, <1>10 DEF Fresh
    <3>2. \A x \in Ids : HoldsHost(x)' \/ worker'[x] = "finished" =>
            (HoldsHost(x) \/ worker[x] = "finished") /\ x # id
      BY <3>1 DEF HoldsHost
    <3>3. active \in Ids \cup {None}
      OBVIOUS
    <3> QED BY <1>1, <2>1, <3>1, <3>2, <3>3 DEF Threads, Returned
  <2>6. AnsweredOnce'
    BY <1>1, <1>5, <1>10, <2>1, McpAssumption DEF AnsweredOnce, Calls
  <2> QED BY <2>3, <2>4, <2>5, <2>6
<1>11. CASE GoOn(active) /\ UNCHANGED <<active, worker, told>>
  <2>0. loop' = Onward("drain", active)
    BY <1>11 DEF GoOn
  <2>1. loop' # "complete"
    BY <2>0, OnwardGoes
  <2>2. QueueIsSound'
    BY <1>1, <1>11, TakeQuietly
  <2>3. Addressed' /\ Threads'
    BY <1>1, <1>6, <1>11, <2>1 DEF Addressed, Threads, HoldsHost, Fresh, Returned
  <2> QED BY <1>1, <1>11, <2>2, <2>3 DEF AnsweredOnce
<1> QED BY <1>2, <1>9, <1>10, <1>11
        DEF HandleRequest, RefusePattern, RefuseTool, RunTool

LEMMA CompletionKeepsOrder ==
    ASSUME Typed, InOrder, AnswerCompleted
    PROVE  InOrder'
<1> USE DEF Typed, InOrder, inputVars, threadVars
<1>1. /\ UNCHANGED <<call, reader, control, events, worker, cancelled>>
      /\ loop = "complete" /\ loop' # "complete" /\ active' = None
      /\ told' = [told EXCEPT ![active] = @ + 1]
  <2>1. loop' = Onward("drain", None) \/ loop' = "writeError"
    BY DEF AnswerCompleted, GoOn
  <2> QED BY <2>1, OnwardGoes DEF AnswerCompleted
<1>2. PICK id \in Ids : id = active
  BY <1>1 DEF Threads
<1>3. /\ worker[id] = "done" /\ told[id] = 0 /\ Unseen(id) /\ call[id] = "pattern"
  BY <1>1, <1>2 DEF Threads
<1>4. told'[id] = 1 /\ \A x \in Ids \ {id} : told'[x] = told[x]
  BY <1>1, <1>2, <1>3
<1>5. \A x \in Ids : Fresh(x) => x # id /\ Fresh(x)'
  BY <1>1, <1>2, <1>4, McpAssumption DEF Fresh
<1>6. Addressed'
  <2>1. reader.type = "request" => reader.id \in Ids
    BY DEF ReaderMessages, ControlEvents, Reading, Stopped, Message
  <2> QED BY <1>1, <1>5, <2>1 DEF Addressed, Unseen
<1>7. QueueIsSound'
  <2> SUFFICES ASSUME NEW i \in DOMAIN events PROVE Sound(i)'
    BY <1>1 DEF QueueIsSound
  <2>1. Sound(i) /\ events[i] \in Events /\ events[i].id # id
    BY <1>3 DEF QueueIsSound, Unseen
  <2>2. events[i].id # None => events[i].id \in Ids
    BY <2>1 DEF Events
  <2>3. events[i].type = "request" => events[i].id \in Ids
    BY <2>1 DEF Events
  <2> QED BY <1>1, <1>4, <1>5, <2>1, <2>2, <2>3 DEF Sound
<1>8. Threads'
  BY <1>1, <1>2, <1>3, <1>4 DEF Threads, HoldsHost, Returned
<1>9. AnsweredOnce'
  BY <1>1, <1>3, <1>4, McpAssumption DEF AnsweredOnce, Calls
<1> QED BY <1>6, <1>7, <1>8, <1>9

LEMMA StepKeepsOrder == ASSUME Typed, InOrder, [Next]_vars PROVE InOrder'
<1>1. CASE UNCHANGED vars
  BY <1>1 DEF vars, inputVars, threadVars, InOrder, Addressed, QueueIsSound, Sound, Threads,
     AnsweredOnce, Fresh, Unseen, HoldsHost
<1>2. CASE Loop
  BY <1>2, ControlKeepsOrder, EventKeepsOrder, RequestKeepsOrder, CompletionKeepsOrder
     DEF Loop
<1> QED BY <1>1, <1>2, ReadKeepsOrder, ReaderKeepsOrder, PushKeepsOrder, WorkerKeepsOrder
        DEF Next

-----------------------------------------------------------------------------
(* Cancellations are kept for the requests that wait.                      *)

\* A request that waits after the loop has handled one waited before, and is
\* another one.
LEMMA HandledIsNotFresh ==
    ASSUME Typed, InOrder, NEW id \in Ids, id = Head(events).id, HandleRequest
    PROVE  /\ Fresh(id) /\ UNCHANGED <<call, cancelled>>
           /\ queued \ {id} \subseteq queued' /\ pending \ {id} \subseteq pending'
           /\ \A x \in Ids : call[x] = "pattern" /\ Fresh(x)' => x # id /\ Fresh(x)
           /\ \A x \in Ids \ {id} :
                (HoldsHost(x)' => HoldsHost(x)) /\ (flag[x] => flag'[x])
           /\ HoldsHost(id)' => call[id] = "pattern" /\ flag'[id] = (id \in pending)
<1> USE DEF Typed
<1>1. 1 \in DOMAIN events /\ Head(events) = events[1] /\ events[1].type = "request"
  BY Received DEF HandleRequest
<1>2. Fresh(id)
  BY <1>1 DEF InOrder, QueueIsSound, Sound
<1>3. CASE call[id] = "pattern" /\ StartPattern(id)
  BY <1>2, <1>3, McpAssumption DEF HandleRequest, StartPattern, Fresh, HoldsHost, inputVars
<1>4. CASE /\ Answer(id) /\ UNCHANGED <<active, worker, pending>>
           /\ queued \ {id} \subseteq queued'
  <2>1. told'[id] = 1 /\ \A x \in Ids \ {id} : told'[x] = told[x]
    BY <1>2, <1>4 DEF Answer, Fresh
  <2>2. \A x \in Ids : flag[x] => flag'[x]
    BY <1>4, WritesGo DEF Answer
  <2> QED BY <1>2, <1>4, <2>1, <2>2 DEF HandleRequest, Fresh, HoldsHost
<1>5. CASE call[id] = "notice" /\ UNCHANGED <<active, worker, pending, queued, flag, told>>
  BY <1>2, <1>5 DEF HandleRequest, Fresh, HoldsHost
<1> QED BY <1>3, <1>4, <1>5 DEF HandleRequest, RefusePattern, RefuseTool, RunTool

LEMMA StepKeepsWaiting ==
    ASSUME Typed, InOrder, WaitingIsKept, [Next]_vars
    PROVE  WaitingIsKept'
<1> USE DEF Typed, inputVars, threadVars
<1>1. CASE UNCHANGED vars
  BY <1>1 DEF vars, WaitingIsKept, Fresh
<1>2. ASSUME NEW id \in Ids, NEW kind \in Calls, ReadRequest(id, kind) PROVE WaitingIsKept'
  <2>1. /\ UNCHANGED <<told, worker, active, pending, cancelled>>
        /\ call[id] = None /\ call' = [call EXCEPT ![id] = kind]
        /\ queued \subseteq queued' /\ (kind = "pattern" => id \in queued')
    BY <1>2 DEF ReadRequest, Reads
  <2>2. id \notin cancelled
    BY <2>1 DEF InOrder, Addressed
  <2>3. \A x \in Ids \ {id} : call'[x] = call[x]
    BY <2>1
  <2>4. call'[id] = kind
    BY <2>1
  <2> QED BY <2>1, <2>2, <2>3, <2>4 DEF WaitingIsKept, Fresh
<1>3. CASE ReadOther \/ PushRead \/ StopReading
  BY <1>3 DEF ReadOther, PushRead, StopReading, WaitingIsKept, Fresh
<1>4. ASSUME NEW id \in Ids, Worker(id) PROVE WaitingIsKept'
  BY <1>4 DEF Worker, Report, SendProgress, Finish, SendCompleted, WaitingIsKept, Fresh
<1>5. CASE TakeControl
  <2>1. /\ UNCHANGED <<call, told, worker, active, queued>> /\ pending \subseteq pending'
        /\ \A x \in Ids : x \in cancelled' \ cancelled /\ active # x /\ x \in queued
             => x \in pending'
    BY <1>5 DEF TakeControl, Kept
  <2> QED BY <2>1 DEF WaitingIsKept, Fresh
<1>6. CASE \/ Drained \/ TimeOut \/ HandleBad \/ HandleProgress \/ HandleEnd
           \/ HandleCompleted \/ TakeLateControl
  <2>1. UNCHANGED <<call, told, worker, active, queued, pending, cancelled>>
    BY <1>6 DEF Drained, TimeOut, HandleBad, HandleProgress, HandleEnd, HandleCompleted,
       TakeLateControl
  <2> QED BY <2>1 DEF WaitingIsKept, Fresh
<1>7. CASE HandleRequest
  <2>0. Receive("request")
    BY <1>7 DEF HandleRequest
  <2>1. PICK id \in Ids : id = Head(events).id
    BY <2>0, ReceivedId
  <2> QED BY <1>7, <2>1, HandledIsNotFresh DEF WaitingIsKept
<1>8. CASE AnswerCompleted
  <2>1. /\ UNCHANGED <<call, worker, queued, pending, cancelled>> /\ loop = "complete"
        /\ told' = [told EXCEPT ![active] = @ + 1]
    BY <1>8 DEF AnswerCompleted
  <2>2. active \in Ids /\ worker[active] = "done"
    BY <2>1 DEF InOrder, Threads
  <2>3. \A x \in Ids : Fresh(x)' => Fresh(x)
    BY <2>1, <2>2 DEF Fresh
  <2> QED BY <2>1, <2>3 DEF WaitingIsKept
<1> QED BY <1>1, <1>2, <1>3, <1>4, <1>5, <1>6, <1>7, <1>8 DEF Next, Loop

LEMMA StepKeepsHonour ==
    ASSUME Typed, InOrder, WaitingIsKept, CancelIsHonoured, [Next]_vars
    PROVE  CancelIsHonoured'
<1> USE DEF Typed, inputVars, threadVars
<1>1. CASE UNCHANGED vars
  BY <1>1 DEF vars, CancelIsHonoured, HoldsHost
<1>2. CASE \/ \E id \in Ids, kind \in Calls : ReadRequest(id, kind)
           \/ ReadOther \/ PushRead \/ StopReading
  BY <1>2 DEF ReadRequest, ReadOther, PushRead, StopReading, CancelIsHonoured, HoldsHost
<1>3. ASSUME NEW id \in Ids, Worker(id) PROVE CancelIsHonoured'
  BY <1>3 DEF Worker, Report, SendProgress, Finish, SendCompleted, CancelIsHonoured, HoldsHost
<1>4. CASE TakeControl
  <2>1. /\ worker' = worker /\ loop \notin Returned
        /\ \A x \in Ids : flag[x] => flag'[x]
        /\ \A x \in Ids : x \in cancelled' \ cancelled /\ active = x => flag'[x]
    BY <1>4, McpAssumption DEF TakeControl, CancelFlag, Returned
  <2>2. \A x \in Ids : HoldsHost(x) => active = x
    BY <2>1 DEF InOrder, Threads
  <2>3. cancelled' \subseteq Ids
    BY <1>4, LoopKeepsType DEF Loop, InOrder
  <2> QED BY <2>1, <2>2, <2>3 DEF CancelIsHonoured, HoldsHost
<1>5. CASE Drained \/ TimeOut \/ HandleEnd \/ HandleCompleted
  BY <1>5 DEF Drained, TimeOut, HandleEnd, HandleCompleted, CancelIsHonoured, HoldsHost
<1>6. CASE HandleBad \/ HandleProgress \/ TakeLateControl \/ AnswerCompleted
  <2>1. UNCHANGED <<worker, cancelled>> /\ \A x \in Ids : flag[x] => flag'[x]
    BY <1>6, WritesGo DEF HandleBad, HandleProgress, TakeLateControl, AnswerCompleted,
       BreakOff, CancelFlag
  <2> QED BY <2>1 DEF CancelIsHonoured, HoldsHost
<1>7. CASE HandleRequest
  <2>0. Receive("request")
    BY <1>7 DEF HandleRequest
  <2>1. PICK id \in Ids : id = Head(events).id
    BY <2>0, ReceivedId
  <2>2. id \in cancelled /\ HoldsHost(id)' => flag'[id]
    BY <1>7, <2>1, HandledIsNotFresh DEF WaitingIsKept
  <2>3. \A x \in cancelled \ {id} : HoldsHost(x)' => flag'[x]
    BY <1>7, <2>1, HandledIsNotFresh DEF CancelIsHonoured
  <2> QED BY <1>7, <2>2, <2>3 DEF HandleRequest, CancelIsHonoured
<1> QED BY <1>1, <1>2, <1>3, <1>4, <1>5, <1>6, <1>7 DEF Next, Loop

-----------------------------------------------------------------------------

LEMMA InitEstablishesMcpInv == Init => McpInv
<1> SUFFICES ASSUME Init PROVE McpInv
  OBVIOUS
<1> USE DEF Init
<1>1. Typed
  BY DEF Typed, ReaderMessages
<1>2. InOrder
  BY McpAssumption DEF InOrder, Addressed, QueueIsSound, Threads, AnsweredOnce, Fresh, Unseen,
     HoldsHost, Reading, Message
<1> QED BY <1>1, <1>2, McpAssumption DEF McpInv, InOrder, WaitingIsKept, CancelIsHonoured,
        HoldsHost, Calls

LEMMA StepKeepsMcpInv == McpInv /\ [Next]_vars => McpInv'
<1> SUFFICES ASSUME McpInv, [Next]_vars PROVE McpInv'
  OBVIOUS
<1>1. Typed /\ InOrder /\ WaitingIsKept /\ CancelIsHonoured
  BY DEF McpInv, InOrder
<1>2. Typed'
  <2>1. CASE UNCHANGED vars
    BY <1>1, <2>1 DEF vars, inputVars, threadVars, Typed
  <2> QED BY <1>1, <2>1, InputKeepsType, WorkerKeepsType, LoopKeepsType DEF Next, InOrder
<1> QED BY <1>1, <1>2, StepKeepsOrder, StepKeepsWaiting, StepKeepsHonour DEF McpInv, InOrder

LEMMA McpInvHolds == Spec => []McpInv
BY InitEstablishesMcpInv, StepKeepsMcpInv, PTL DEF Spec

\* However requests, progress and completions are queued, one boolean pattern
\* runs at a time, an id is answered once, when its thread is done with the
\* host, and nothing about it is still to come (McpServer::run).
THEOREM AnswersComeInOrder == Spec => []AnswersInOrder
<1>1. McpInv => AnswersInOrder
  <2> SUFFICES ASSUME McpInv PROVE AnswersInOrder
    OBVIOUS
  <2> USE DEF McpInv, Typed
  <2>1. TypeOK
    BY DEF TypeOK, Events
  <2>2. ASSUME NEW id \in Ids
        PROVE  /\ told[id] <= (IF id \in Answerable THEN 1 ELSE 0)
               /\ told[id] = 1 => /\ worker[id] \in {"none", "done"}
                                  /\ \A i \in DOMAIN events : events[i].id # id
               /\ worker[id] \in {"running", "reporting", "finished"} /\ loop \notin Returned =>
                    active = id
    <3>1. told[id] <= (IF id \in Answerable THEN 1 ELSE 0)
      BY DEF AnsweredOnce, Answerable
    <3>2. told[id] = 1 => worker[id] \in {"none", "done"}
      BY DEF Threads, HoldsHost
    <3>3. told[id] = 1 => \A i \in DOMAIN events : events[i].id # id
      BY McpAssumption DEF QueueIsSound, Sound
    <3> QED BY <3>1, <3>2, <3>3 DEF Threads, HoldsHost
  <2> QED BY <2>1, <2>2 DEF AnswersInOrder
<1> QED BY <1>1, McpInvHolds, PTL

\* A cancellation the head of the loop takes before its request is answered,
\* and has room for, reaches the request's thread, if it ever gets one.
THEOREM CancellationsAreHonoured == Spec => []CancelIsHonoured
<1>1. McpInv => CancelIsHonoured
  BY DEF McpInv
<1> QED BY <1>1, McpInvHolds, PTL
==============================================================================
