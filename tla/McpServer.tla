------------------------------ MODULE McpServer ------------------------------
(***************************************************************************)
(* The MCP server's loop (crates/mcp/src/server.rs, McpServer::run): a     *)
(* reader thread, the loop itself, and one thread for a boolean pattern,   *)
(* the only command that is cancellable and reports progress.  They share  *)
(* two bounded queues, the set of ids that are queued, the flag that       *)
(* cancels the active request, the shutdown token and the host's mutex.    *)
(*                                                                         *)
(* The client is external: it sends requests and cancellations in any      *)
(* order, ends its input, or breaks either pipe.  It uses an id once, as   *)
(* JSON-RPC asks of it, and sends finitely many cancellations and bad      *)
(* frames (an endless stream of them would hold the loop at its head or    *)
(* its queue full).  A call stands for its method and arguments: "list" is *)
(* also initialize and every unknown method, "notice" a tool call without  *)
(* an id.                                                                  *)
(***************************************************************************)
EXTENDS Naturals, Sequences, FiniteSets

CONSTANTS
  Ids, None,
  Capacity,     \* of each of the two queues
  MaxPending,   \* MAX_PENDING_CANCELLATIONS
  MaxProgress,  \* MAX_PROGRESS_NOTIFICATIONS
  MaxNoise      \* bound on the cancellations and bad frames the client sends

Calls == {"pattern", "invalid", "tool", "list", "notice"}

ASSUME McpAssumption ==
  /\ None \notin Ids \cup Calls /\ Capacity \in Nat \ {0}
  /\ {MaxPending, MaxProgress, MaxNoise} \subseteq Nat

VARIABLES
  call,       \* what was read with an id, None before
  noise,      \* cancellations and bad frames read
  reader,     \* the message the reader thread is about to send, if any
  events,     \* the queue of RunEvents
  control,    \* the queue of ControlEvents
  queued,     \* queued_request_ids
  loop,       \* where the loop is, and how it returned
  active,     \* the request whose thread runs
  pending,    \* pending_cancellations
  finished,   \* input_finished: FALSE, or how the input ended
  flag,       \* the cancel flag of a request's thread
  shutdown,
  worker,     \* the thread of a request
  progress,   \* progress messages a thread has made
  told,       \* answers written for an id
  cancelled   \* ids whose cancellation the head of the loop took in time

inputVars == <<call, noise, reader, queued>>
threadVars == <<worker, progress>>
vars == <<call, noise, reader, events, control, queued, loop, active, pending, finished,
          flag, shutdown, worker, progress, told, cancelled>>

Answerable == {id \in Ids : call[id] \notin {None, "notice"}}
Message(type, id) == [type |-> type, id |-> id]
Reading == Message("reading", None)
Stopped == Message("stopped", None)

Init ==
  /\ call = [id \in Ids |-> None] /\ noise = 0 /\ reader = Reading
  /\ events = <<>> /\ control = <<>> /\ queued = {}
  /\ loop = "drain" /\ active = None /\ pending = {} /\ finished = "no"
  /\ flag = [id \in Ids |-> FALSE] /\ shutdown = FALSE
  /\ worker = [id \in Ids |-> "none"] /\ progress = [id \in Ids |-> 0]
  /\ told = [id \in Ids |-> 0] /\ cancelled = {}

-----------------------------------------------------------------------------
(* The reader thread.                                                      *)

Reads(message) == reader = Reading /\ ~shutdown /\ reader' = message

\* An id is queued before its request is sent.
ReadRequest(id, kind) ==
  /\ call[id] = None
  /\ Reads(Message("request", id))
  /\ call' = [call EXCEPT ![id] = kind]
  /\ queued' = IF kind \in {"pattern", "invalid", "tool"} THEN queued \cup {id} ELSE queued
  /\ UNCHANGED <<noise, events, control, loop, active, pending, finished, flag, shutdown,
                 threadVars, told, cancelled>>

\* A frame that is no request, the end of the input, a cancellation, an error.
ReadOther ==
  /\ \/ (Reads(Message("end", None)) \/ Reads(Message("error", None))) /\ UNCHANGED noise
     \/ /\ noise < MaxNoise /\ noise' = noise + 1
        /\ \/ Reads(Message("bad", None))
           \/ \E id \in Ids : call[id] # None /\ Reads(Message("cancel", id))
  /\ UNCHANGED <<call, queued, events, control, loop, active, pending, finished, flag,
                 shutdown, threadVars, told, cancelled>>

Controls == {"cancel", "error"}

\* send_until_shutdown: tries again until there is room or the session is over.
Send(queue, message) == IF Len(queue) < Capacity THEN Append(queue, message) ELSE queue
MaySend(queue) == Len(queue) < Capacity \/ shutdown

PushRead ==
  /\ reader \notin {Reading, Stopped}
  /\ IF reader.type \in Controls
     THEN MaySend(control) /\ control' = Send(control, reader) /\ UNCHANGED events
     ELSE MaySend(events) /\ events' = Send(events, reader) /\ UNCHANGED control
  /\ reader' = IF reader.type \in {"end", "error"} THEN Stopped ELSE Reading
  /\ UNCHANGED <<call, noise, queued, loop, active, pending, finished, flag, shutdown,
                 threadVars, told, cancelled>>

\* The shutdown token is polled between frames and while waiting for input.
StopReading ==
  /\ reader = Reading /\ shutdown
  /\ reader' = Stopped
  /\ UNCHANGED <<call, noise, queued, events, control, loop, active, pending, finished, flag,
                 shutdown, threadVars, told, cancelled>>

-----------------------------------------------------------------------------
(* The thread of a boolean pattern, with the host's mutex while it runs.   *)

HoldsHost(id) == worker[id] \in {"running", "reporting"}

Report(id) ==
  /\ worker[id] = "running" /\ progress[id] < MaxProgress
  /\ worker' = [worker EXCEPT ![id] = "reporting"]
  /\ progress' = [progress EXCEPT ![id] = @ + 1]
  /\ UNCHANGED <<inputVars, events, control, loop, active, pending, finished, flag,
                 shutdown, told, cancelled>>

SendProgress(id) ==
  /\ worker[id] = "reporting" /\ MaySend(events)
  /\ events' = Send(events, Message("progress", id))
  /\ worker' = [worker EXCEPT ![id] = "running"]
  /\ UNCHANGED <<inputVars, control, loop, active, pending, finished, flag, shutdown,
                 progress, told, cancelled>>

\* The command ends, cancelled or not, and releases the mutex.
Finish(id) ==
  /\ worker[id] = "running"
  /\ worker' = [worker EXCEPT ![id] = "finished"]
  /\ UNCHANGED <<inputVars, events, control, loop, active, pending, finished, flag,
                 shutdown, progress, told, cancelled>>

SendCompleted(id) ==
  /\ worker[id] = "finished" /\ MaySend(events)
  /\ events' = Send(events, Message("completed", id))
  /\ worker' = [worker EXCEPT ![id] = "done"]
  /\ UNCHANGED <<inputVars, control, loop, active, pending, finished, flag, shutdown,
                 progress, told, cancelled>>

-----------------------------------------------------------------------------
(* The loop.                                                               *)

Returned == {"ok", "readError", "writeError"}

\* Where the loop goes on once nothing is left to do for an input that ended.
Onward(next, stillActive) ==
  CASE finished # "no" /\ stillActive = None /\ finished = "end"   -> "ok"
    [] finished # "no" /\ stillActive = None /\ finished = "error" -> "readError"
    [] OTHER -> next

CancelFlag(id) == IF id = None THEN flag ELSE [flag EXCEPT ![id] = TRUE]

\* Mutant of Kept: a cancellation reaches the active request only.
NeverKept(id) == FALSE

Kept(id) == active # id /\ id \in queued /\ Cardinality(pending) < MaxPending

\* The head of the loop takes the control messages one by one.  A cancellation
\* of a request that still waits is kept for it.
TakeControl ==
  /\ loop = "drain" /\ control # <<>>
  /\ LET id == Head(control).id
         isCancel == Head(control).type = "cancel"
         inTime == told[id] = 0 /\ (id = active \/ Cardinality(pending) < MaxPending)
     IN  /\ flag' = IF isCancel => id = active THEN CancelFlag(active) ELSE flag
         /\ pending' = IF isCancel /\ Kept(id) THEN pending \cup {id} ELSE pending
         /\ cancelled' = IF isCancel /\ inTime THEN cancelled \cup {id} ELSE cancelled
         /\ finished' = IF isCancel THEN finished ELSE "error"
  /\ control' = Tail(control)
  /\ UNCHANGED <<inputVars, events, loop, active, shutdown, threadVars, told>>

Drained ==
  /\ loop = "drain" /\ control = <<>>
  /\ loop' = Onward("receive", active)
  /\ UNCHANGED <<inputVars, events, control, active, pending, finished, flag, shutdown,
                 threadVars, told, cancelled>>

\* recv_timeout: ten milliseconds without an event.
TimeOut ==
  /\ loop = "receive" /\ events = <<>>
  /\ loop' = "drain"
  /\ UNCHANGED <<inputVars, events, control, active, pending, finished, flag, shutdown,
                 threadVars, told, cancelled>>

Receive(type) == loop = "receive" /\ events # <<>> /\ Head(events).type = type
                 /\ events' = Tail(events)

\* Mutant of BreakOff: the reader is left in its read.
BreakOffKeepingReader ==
  /\ loop' = "writeError"
  /\ flag' = CancelFlag(active)
  /\ UNCHANGED shutdown

\* abort_active_run, when the output is gone.
BreakOff ==
  /\ loop' = "writeError"
  /\ shutdown' = TRUE
  /\ flag' = CancelFlag(active)

GoOn(stillActive) == loop' = Onward("drain", stillActive) /\ UNCHANGED shutdown

Writes == (GoOn(active) /\ UNCHANGED flag) \/ BreakOff

Answer(id) == told' = [told EXCEPT ![id] = @ + 1] /\ Writes

\* Mutant of StartPattern: a second pattern is started beside the first.
StartBeside(id) ==
  /\ active' = id
  /\ worker' = [worker EXCEPT ![id] = "running"]
  /\ queued' = queued \ {id}
  /\ flag' = [flag EXCEPT ![id] = id \in pending]
  /\ pending' = pending \ {id}
  /\ GoOn(id)
  /\ UNCHANGED told

StartPattern(id) ==
  /\ active = None
  /\ active' = id
  /\ worker' = [worker EXCEPT ![id] = "running"]
  /\ queued' = queued \ {id}
  /\ flag' = [flag EXCEPT ![id] = id \in pending]
  /\ pending' = pending \ {id}
  /\ GoOn(id)
  /\ UNCHANGED told

RefusePattern(id) ==
  /\ active # None
  /\ queued' = queued \ {id}
  /\ Answer(id)
  /\ UNCHANGED <<active, worker, pending>>

\* A refused tool call stays in queued_request_ids.
RefuseTool(id) ==
  /\ active # None
  /\ Answer(id)
  /\ UNCHANGED <<active, worker, pending, queued>>

\* The host's mutex is taken for the command.
RunTool(id) ==
  /\ active = None
  /\ \A other \in Ids : ~HoldsHost(other)
  /\ queued' = queued \ {id}
  /\ Answer(id)
  /\ UNCHANGED <<active, worker, pending>>

HandleRequest ==
  /\ Receive("request")
  /\ LET id == Head(events).id
     IN  \/ call[id] = "pattern" /\ (StartPattern(id) \/ RefusePattern(id))
         \/ call[id] = "tool" /\ (RefuseTool(id) \/ RunTool(id))
         \/ /\ call[id] \in {"invalid", "list"} /\ Answer(id)
            /\ UNCHANGED <<active, worker, pending, queued>>
         \/ /\ call[id] = "notice" /\ GoOn(active)
            /\ UNCHANGED <<active, worker, pending, queued, flag, told>>
  /\ UNCHANGED <<call, noise, reader, control, finished, progress, cancelled>>

HandleBad ==
  /\ Receive("bad") /\ Writes
  /\ UNCHANGED <<inputVars, control, active, pending, finished, threadVars, told, cancelled>>

\* Only progress of the active request is written.
HandleProgress ==
  /\ Receive("progress")
  /\ \/ GoOn(active) /\ UNCHANGED flag
     \/ Head(events).id = active /\ BreakOff
  /\ UNCHANGED <<inputVars, control, active, pending, finished, threadVars, told, cancelled>>

HandleEnd ==
  /\ Receive("end")
  /\ finished' = "end"
  /\ loop' = IF active = None THEN "ok" ELSE "drain"
  /\ UNCHANGED <<inputVars, control, active, pending, flag, shutdown, threadVars, told,
                 cancelled>>

HandleCompleted ==
  /\ Receive("completed")
  /\ loop' = IF active = Head(events).id THEN "complete" ELSE Onward("drain", active)
  /\ UNCHANGED <<inputVars, control, active, pending, finished, flag, shutdown, threadVars,
                 told, cancelled>>

\* Before it answers, the loop takes what came meanwhile, and a cancellation of
\* any other request is dropped here.
TakeLateControl ==
  /\ loop = "complete" /\ control # <<>>
  /\ LET message == Head(control)
     IN  /\ flag' = IF message.type = "error" \/ message.id = active
                    THEN CancelFlag(active) ELSE flag
         /\ finished' = IF message.type = "error" THEN "error" ELSE finished
  /\ control' = Tail(control)
  /\ UNCHANGED <<inputVars, events, loop, active, pending, shutdown, threadVars, told,
                 cancelled>>

AnswerCompleted ==
  /\ loop = "complete" /\ control = <<>>
  /\ active' = None
  /\ told' = [told EXCEPT ![active] = @ + 1]
  /\ GoOn(None) \/ (loop' = "writeError" /\ shutdown' = TRUE)
  /\ UNCHANGED <<inputVars, events, control, pending, finished, flag, threadVars, cancelled>>

Loop ==
  \/ TakeControl \/ Drained \/ TimeOut \/ HandleRequest \/ HandleBad
  \/ HandleProgress \/ HandleEnd \/ HandleCompleted \/ TakeLateControl \/ AnswerCompleted

Worker(id) == Report(id) \/ SendProgress(id) \/ Finish(id) \/ SendCompleted(id)

Next ==
  \/ \E id \in Ids, kind \in Calls : ReadRequest(id, kind)
  \/ ReadOther \/ PushRead \/ StopReading
  \/ \E id \in Ids : Worker(id)
  \/ Loop

\* Threads are scheduled, a command ends (the supervisor sees to it), and a
\* write returns; nothing is asked of the client.
Fairness ==
  /\ WF_vars(PushRead) /\ WF_vars(StopReading) /\ WF_vars(Loop)
  /\ \A id \in Ids : WF_vars(Worker(id))

Spec == Init /\ [][Next]_vars /\ Fairness

-----------------------------------------------------------------------------
(* Properties.                                                             *)

TypeOK ==
  /\ \A i \in DOMAIN events :
       events[i].type \in {"request", "bad", "end", "progress", "completed"}
  /\ loop \in {"drain", "receive", "complete"} \cup Returned
  /\ active \in Ids \cup {None} /\ queued \cup pending \cup cancelled \subseteq Ids

\* However requests, progress and completions of two threads are queued, one
\* boolean pattern runs at a time, an id is answered once, after its thread is
\* done with the host, and no progress of it is still to come (the client
\* matches answers and progress by id alone).
AnswersInOrder ==
  /\ TypeOK
  /\ \A id \in Ids :
       /\ told[id] <= (IF id \in Answerable THEN 1 ELSE 0)
       /\ told[id] = 1 =>
            /\ worker[id] \in {"none", "done"}
            /\ \A i \in DOMAIN events : events[i].id # id
       /\ worker[id] \in {"running", "reporting", "finished"} /\ loop \notin Returned =>
            active = id

\* A cancellation that the head of the loop takes before its request is
\* answered, and there was room for, stops the request, whether it runs already
\* or is still queued (queued_request_ids, pending_cancellations).
CancelIsHonoured ==
  \A id \in cancelled : HoldsHost(id) => flag[id]

\* Every request with an id is answered, in full queues and after the end of
\* the input too, unless reading or writing fails.  When the input ends or a
\* pipe breaks the threads come to their end, so that run returns: neither
\* queue nor mutex leaves anybody waiting.
EverybodyIsServed ==
  /\ \A id \in Ids :
       id \in Answerable ~> (told[id] = 1 \/ loop \in {"readError", "writeError"})
  /\ (shutdown \/ reader = Stopped) ~>
       (/\ loop \in Returned /\ reader = Stopped
        /\ \A id \in Ids : worker[id] \in {"none", "done"})
=============================================================================
