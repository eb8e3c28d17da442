----------------------------- MODULE Supervisor -----------------------------
(***************************************************************************)
(* One request to a disposable worker process (crates/protocol, supervisor *)
(* and worker).                                                            *)
(*                                                                         *)
(* The worker is not trusted: it writes any messages at any time, floods a *)
(* stream, leaves a descendant that holds its pipes, exits with any status *)
(* or never.  Reader threads move what it writes to a channel, in chunks   *)
(* of any size.  The supervisor shakes hands, sends the request, receives  *)
(* until a terminal message, the deadline or a cancellation, then ends the *)
(* process tree, lets the readers settle and looks for trailing data       *)
(* before it accepts the result and releases the stage.                    *)
(***************************************************************************)
EXTENDS Naturals, Sequences, FiniteSets, SequencesExt

CONSTANTS
    Wire,       \* what the worker can write
    Events,     \* what else can happen to the request
    MaxWrites   \* bound: messages a worker writes

\* "ready" also stands for progress, "foreign" for every message of another
\* request, another schema or the wrong direction, "bytes" for bytes without
\* a line end, "flood" for more than the stream's limit.
Kind == {"ready", "artifact", "completed", "failed", "cancelled", "foreign",
         "malformed", "bytes", "flood"}

ASSUME WireAssumption == Wire \subseteq Kind
ASSUME EventsAssumption == Events \subseteq {"stderr", "fork", "file", "cancel"}
ASSUME MaxWritesAssumption == MaxWrites \in Nat

VARIABLES
    leader,         \* the worker process
    holder,         \* a descendant holds the worker's pipes
    written,        \* history: all the worker tree wrote to stdout
    pipe, flooded,  \* what is unread in stdout, whether stderr has a flood
    stdout, stderr, \* the reader threads
    overflow,       \* one of them met more than its limit
    inbound,        \* chunks on their way to the supervisor
    pending, carry, \* the parser's messages, and whether bytes are left over
    phase, verdict, \* where the supervisor is, what it is about to report
    late,           \* the deadline of the phase has expired
    cancel, asked,  \* the host's cancel flag, whether Cancel was sent
    headers,        \* artifact messages recorded for the request
    stage, files    \* the request's stage, files written since it was emptied

worker == <<leader, holder, written>>
streams == <<pipe, flooded, stdout, stderr, overflow>>
parser == <<inbound, pending, carry>>
control == <<phase, verdict, late, cancel, asked, headers>>
staging == <<stage, files>>
vars == <<worker, streams, parser, control, staging>>

Phase == {"handshake", "waiting", "cancelling", "discard", "kill", "readers",
          "drain", "reject", "done"}
Message == Kind \ {"malformed", "bytes", "flood"}
Verdict == {"none", "completed", "acknowledged", "terminated", "trailing"}

TypeOK ==
    /\ leader \in {"running", "exited", "signalled"}
    /\ holder \in BOOLEAN
    /\ written \in Seq(Kind) /\ pipe \in Seq(Kind)
    /\ flooded \in BOOLEAN /\ overflow \in BOOLEAN
    /\ stdout \in {"reading", "finished"} /\ stderr \in {"reading", "finished"}
    /\ inbound \in Seq(Seq(Kind)) /\ pending \in Seq(Message) /\ carry \in BOOLEAN
    /\ phase \in Phase /\ verdict \in Verdict
    /\ late \in BOOLEAN /\ cancel \in BOOLEAN /\ asked \in BOOLEAN
    /\ headers \in Nat
    /\ stage \in {"held", "emptied", "dropped", "left", "released"}
    /\ files \in BOOLEAN

Init ==
    /\ leader = "running" /\ holder = FALSE /\ written = <<>>
    /\ pipe = <<>> /\ flooded = FALSE
    /\ stdout = "reading" /\ stderr = "reading" /\ overflow = FALSE
    /\ inbound = <<>> /\ pending = <<>> /\ carry = FALSE
    /\ phase = "handshake" /\ verdict = "none" /\ late = FALSE
    /\ cancel = FALSE /\ asked = FALSE /\ headers = 0
    /\ stage = "held" /\ files = FALSE

-----------------------------------------------------------------------------
(* The worker process and what it leaves running.                          *)

Alive == leader = "running" \/ holder

Write(m) ==
    /\ Alive /\ Len(written) < MaxWrites
    /\ written' = Append(written, m)
    /\ pipe' = IF stdout = "reading" THEN Append(pipe, m) ELSE pipe
    /\ UNCHANGED <<leader, holder, flooded, stdout, stderr, overflow, parser,
                   control, staging>>

FloodStderr ==
    /\ Alive /\ ~flooded /\ "stderr" \in Events
    /\ flooded' = TRUE
    /\ UNCHANGED <<worker, pipe, stdout, stderr, overflow, parser, control, staging>>

\* The stage is a directory the worker writes its artifacts to; what it has
\* written when the stage is emptied goes with it.
WriteFile ==
    /\ Alive /\ stage = "emptied" /\ ~files /\ "file" \in Events
    /\ files' = TRUE
    /\ UNCHANGED <<worker, streams, parser, control, stage>>

Fork ==
    /\ leader = "running" /\ ~holder /\ "fork" \in Events
    /\ holder' = TRUE
    /\ UNCHANGED <<leader, written, streams, parser, control, staging>>

\* The exit code is not looked at by anything that decides an outcome.
Exit(end) ==
    /\ leader = "running"
    /\ leader' = end
    /\ UNCHANGED <<holder, written, streams, parser, control, staging>>

HolderExits ==
    /\ holder
    /\ holder' = FALSE
    /\ UNCHANGED <<leader, written, streams, parser, control, staging>>

Worker ==
    \/ \E m \in Wire : Write(m)
    \/ FloodStderr \/ WriteFile \/ Fork \/ HolderExits
    \/ \E end \in {"exited", "signalled"} : Exit(end)

-----------------------------------------------------------------------------
(* The reader threads.                                                     *)

\* A chunk that exceeds the limit is dropped and the reader stops.
ReadStdout(n) ==
    /\ stdout = "reading" /\ n \in 1 .. Len(pipe)
    /\ LET chunk == SubSeq(pipe, 1, n)
           over == Contains(chunk, "flood")
       IN  /\ overflow' = (overflow \/ over)
           /\ stdout' = IF over THEN "finished" ELSE "reading"
           /\ inbound' = IF over THEN inbound ELSE Append(inbound, chunk)
    /\ pipe' = SubSeq(pipe, n + 1, Len(pipe))
    /\ UNCHANGED <<worker, flooded, stderr, pending, carry, control, staging>>

StdoutEnds ==
    /\ stdout = "reading" /\ ~Alive /\ pipe = <<>>
    /\ stdout' = "finished"
    /\ UNCHANGED <<worker, pipe, flooded, stderr, overflow, parser, control, staging>>

ReadStderr ==
    /\ stderr = "reading" /\ flooded
    /\ overflow' = TRUE
    /\ flooded' = FALSE
    /\ UNCHANGED <<worker, pipe, stdout, stderr, parser, control, staging>>

StderrEnds ==
    /\ stderr = "reading" /\ ~Alive /\ ~flooded
    /\ stderr' = "finished"
    /\ UNCHANGED <<worker, pipe, flooded, stdout, overflow, parser, control, staging>>

Readers ==
    \/ \E n \in 1 .. MaxWrites : ReadStdout(n)
    \/ StdoutEnds \/ ReadStderr \/ StderrEnds

Settled == stdout = "finished" /\ stderr = "finished"

-----------------------------------------------------------------------------
(* Receiving: newline-framed messages out of chunks.                       *)

\* The supervisor goes on to end the request; the stage is discarded first
\* unless the worker has completed.
EndWith(v) ==
    /\ verdict' = v
    /\ phase' = IF v = "completed" THEN "kill" ELSE "discard"
    /\ late' = FALSE
    /\ UNCHANGED <<cancel, asked>>

Receiving == phase \in {"handshake", "waiting", "cancelling"}

\* Bytes left over make the next line malformed.
Malformed(chunk) ==
    \/ Contains(chunk, "malformed")
    \/ \E i \in DOMAIN chunk :
          /\ chunk[i] # "bytes"
          /\ IF i = 1 THEN carry ELSE chunk[i - 1] = "bytes"

TakeChunk ==
    /\ ~overflow /\ ~late /\ pending = <<>> /\ inbound # <<>>
    /\ inbound' = Tail(inbound)

\* A chunk is n lines, and the bytes left over after them.
SplitsAt(chunk, n) == \A i \in DOMAIN chunk : chunk[i] # "bytes" <=> i <= n

Parse ==
    /\ Receiving \/ phase = "drain"
    /\ TakeChunk /\ ~Malformed(Head(inbound))
    /\ \E n \in 0 .. Len(Head(inbound)) :
          SplitsAt(Head(inbound), n) /\ pending' = SubSeq(Head(inbound), 1, n)
    /\ carry' = (Last(Head(inbound)) = "bytes")
    /\ UNCHANGED <<worker, streams, control, staging>>

\* A malformed line drops its whole chunk and fails the request.
ParseFails ==
    /\ Receiving
    /\ TakeChunk /\ Malformed(Head(inbound))
    /\ carry' = FALSE
    /\ EndWith("terminated")
    /\ UNCHANGED <<worker, streams, pending, headers, staging>>

Take(m) ==
    /\ ~overflow /\ ~late
    /\ pending # <<>> /\ Head(pending) = m
    /\ pending' = Tail(pending)
    /\ UNCHANGED <<worker, streams, inbound, carry, staging>>

\* Nothing will come any more: the channel is drained and its reader gone.
Closed ==
    /\ ~overflow /\ ~late
    /\ pending = <<>> /\ inbound = <<>> /\ stdout = "finished"

-----------------------------------------------------------------------------
(* The request: handshake, wait for a terminal message, cancel.            *)

Stay(next) ==
    /\ phase' = next
    /\ UNCHANGED <<verdict, late, cancel, asked>>

\* consume_worker_ready; sending the request can fail.
Handshake ==
    /\ phase = "handshake"
    /\ \E m \in Message :
          /\ Take(m)
          /\ UNCHANGED headers
          /\ \/ m = "ready" /\ Stay("waiting")
             \/ EndWith("terminated")

\* receive_request_envelope
ReceiveReply ==
    /\ phase = "waiting"
    /\ \/ Take("ready") /\ Stay("waiting") /\ UNCHANGED headers
       \/ Take("artifact") /\ Stay("waiting") /\ headers' = headers + 1
       \/ Take("completed") /\ EndWith("completed") /\ UNCHANGED headers
       \/ /\ \E m \in {"failed", "cancelled", "foreign"} : Take(m)
          /\ EndWith("terminated") /\ UNCHANGED headers

\* cancel_with_deadline, under a deadline of its own; sending can fail.
SendCancel ==
    /\ phase = "waiting" /\ cancel
    /\ \/ /\ phase' = "cancelling" /\ late' = FALSE /\ asked' = TRUE
          /\ UNCHANGED <<verdict, cancel>>
       \/ EndWith("terminated")
    /\ UNCHANGED <<worker, streams, parser, headers, staging>>

\* Mutant of ReceiveAcknowledgement: a completion that crosses the
\* cancellation is taken.
TakeCrossingCompletion ==
    /\ phase = "cancelling"
    /\ \/ \E m \in {"ready", "artifact"} : Take(m) /\ Stay("cancelling")
       \/ Take("cancelled") /\ EndWith("acknowledged")
       \/ Take("completed") /\ EndWith("completed")
       \/ /\ \E m \in {"failed", "foreign"} : Take(m)
          /\ EndWith("terminated")
    /\ UNCHANGED headers

ReceiveAcknowledgement ==
    /\ phase = "cancelling"
    /\ \/ \E m \in {"ready", "artifact"} : Take(m) /\ Stay("cancelling")
       \/ Take("cancelled") /\ EndWith("acknowledged")
       \/ /\ \E m \in {"completed", "failed", "foreign"} : Take(m)
          /\ EndWith("terminated")
    /\ UNCHANGED headers

\* Mutant of GiveUp: a cancellation has no deadline of its own.
GiveUpUnlessCancelling ==
    /\ Receiving
    /\ (late /\ phase # "cancelling") \/ overflow \/ Closed
    /\ EndWith("terminated")
    /\ UNCHANGED <<worker, streams, parser, headers, staging>>

\* The deadline, an overflow or the end of the stream.
GiveUp ==
    /\ Receiving
    /\ late \/ overflow \/ Closed
    /\ EndWith("terminated")
    /\ UNCHANGED <<worker, streams, parser, headers, staging>>

\* The host raises its flag at any time; the request looks at it before each
\* receive, so that a receive already under way still counts, and not at all
\* once it is ending.
RaiseCancel ==
    /\ ~cancel /\ phase \in {"handshake", "waiting"} /\ "cancel" \in Events
    /\ cancel' = TRUE
    /\ UNCHANGED <<worker, streams, parser, phase, verdict, late, asked, headers,
                   staging>>

Expire ==
    /\ ~late
    /\ Receiving \/ phase = "drain"
    /\ late' = TRUE
    /\ UNCHANGED <<worker, streams, parser, phase, verdict, cancel, asked, headers,
                   staging>>
-----------------------------------------------------------------------------
(* Ending the request: discard the stage, end the process tree, settle the *)
(* readers, look for trailing data.                                        *)

\* Stage::discard removes the entries it finds and then the directory, which
\* fails if there are entries again.
EmptyStage ==
    /\ phase \in {"discard", "reject"} /\ stage = "held"
    /\ stage' = "emptied"
    /\ UNCHANGED <<worker, streams, parser, control, files>>

RemoveStage ==
    /\ phase \in {"discard", "reject"} /\ stage = "emptied"
    /\ stage' = IF files THEN "left" ELSE "dropped"
    /\ phase' = IF phase = "discard" THEN "kill" ELSE "done"
    /\ headers' = 0
    /\ UNCHANGED <<worker, streams, parser, verdict, late, cancel, asked, files>>

\* Mutant of Reject: the stage of a refused completion is not discarded.
RejectKeepingStage(v) ==
    /\ verdict' = v
    /\ phase' = "done"
    /\ UNCHANGED <<worker, streams, pending, late, cancel, asked, headers, staging>>

\* The request ends without its result.
Reject(v) ==
    /\ verdict' = v
    /\ phase' = IF stage = "held" THEN "reject" ELSE "done"
    /\ UNCHANGED <<worker, streams, pending, late, cancel, asked, headers, staging>>

\* SubprocessWorkerHost::terminate, after a bounded wait for the streams
\* (settle_terminal_streams) that may end at any time.
Kill ==
    /\ phase = "kill"
    /\ leader' = IF leader = "running" THEN "signalled" ELSE leader
    /\ holder' = FALSE
    /\ phase' = "readers"
    /\ UNCHANGED <<written, streams, parser, verdict, late, cancel, asked, headers,
                   staging>>

KillFails ==
    /\ phase = "kill"
    /\ Reject("terminated")
    /\ UNCHANGED <<inbound, carry>>

\* Mutant of ReadersSettled: the readers are not awaited.
ReadersNotAwaited ==
    /\ phase = "readers" /\ ~overflow
    /\ phase' = IF verdict \in {"completed", "acknowledged"} THEN "drain" ELSE "done"
    /\ UNCHANGED <<worker, streams, parser, verdict, late, cancel, asked, headers,
                   staging>>

ReadersSettled ==
    /\ phase = "readers" /\ Settled /\ ~overflow
    /\ phase' = IF verdict \in {"completed", "acknowledged"} THEN "drain" ELSE "done"
    /\ UNCHANGED <<worker, streams, parser, verdict, late, cancel, asked, headers,
                   staging>>

\* An overflow that came with the end, or readers that do not settle.
ReadersRefuse ==
    /\ phase = "readers" /\ (overflow \/ ~Settled)
    /\ Reject("terminated")
    /\ UNCHANGED <<inbound, carry>>

\* verify_no_trailing_frames: a message, a malformed line, or the signal the
\* worker died of.
FindTrailing ==
    /\ phase = "drain"
    /\ \/ pending # <<>> /\ ~late /\ UNCHANGED <<inbound, carry>>
       \/ TakeChunk /\ Malformed(Head(inbound)) /\ carry' = FALSE
       \/ Closed /\ leader = "signalled" /\ UNCHANGED <<inbound, carry>>
    /\ Reject("trailing")

DrainExpires ==
    /\ phase = "drain" /\ late
    /\ Reject("terminated")
    /\ UNCHANGED <<inbound, carry>>

\* Mutant of Accept: what is still in the channel is not looked at.
AcceptUndrained ==
    /\ phase = "drain" /\ ~late /\ leader # "signalled"
    /\ phase' = "done"
    /\ stage' = IF verdict = "completed" THEN "released" ELSE stage
    /\ UNCHANGED <<worker, streams, parser, verdict, late, cancel, asked, headers,
                   files>>

\* The result is accepted; a completed request hands over its stage.
Accept ==
    /\ phase = "drain" /\ Closed /\ leader # "signalled"
    /\ phase' = "done"
    /\ stage' = IF verdict = "completed" THEN "released" ELSE stage
    /\ UNCHANGED <<worker, streams, parser, verdict, late, cancel, asked, headers,
                   files>>

Supervise ==
    \/ Handshake \/ ReceiveReply \/ SendCancel \/ ReceiveAcknowledgement \/ GiveUp
    \/ Parse \/ ParseFails
    \/ EmptyStage \/ RemoveStage \/ Kill \/ KillFails
    \/ ReadersSettled \/ ReadersRefuse
    \/ FindTrailing \/ DrainExpires \/ Accept

Next == Worker \/ Readers \/ RaiseCancel \/ Expire \/ Supervise

Spec == Init /\ [][Next]_vars

\* The supervisor runs and time passes; nothing is assumed of the worker,
\* the readers or the host's flag.
FairSpec == Spec /\ WF_vars(Supervise) /\ WF_vars(Expire)

-----------------------------------------------------------------------------
(* Properties.                                                             *)

Outcome == IF phase = "done" THEN verdict ELSE "none"

\* When a completion or an acknowledgement is accepted nothing of the worker
\* runs any more, both readers have seen the end of their stream within its
\* limit, and no message is on its way: a flood or a message that races the
\* terminal message is never missed (finish_terminal, verify_clean_exit).
AcceptedIsQuiet ==
    Outcome \in {"completed", "acknowledged"} =>
        /\ ~Alive
        /\ Settled /\ ~overflow /\ ~flooded
        /\ pipe = <<>> /\ inbound = <<>> /\ pending = <<>>

\* A completion is accepted only from a worker that wrote nothing wrong
\* before it and no message after it, with exactly the artifacts it reported,
\* however its output was cut into chunks (receive_request_envelope,
\* verify_no_trailing_frames).
CompletionIsFaithful ==
    /\ TypeOK
    /\ Outcome = "completed" =>
        \E i \in DOMAIN written :
            /\ written[i] = "completed" /\ written[1] = "ready"
            /\ \A j \in 1 .. i - 1 : written[j] \in {"ready", "artifact"}
            /\ \A j \in i + 1 .. Len(written) : written[j] = "bytes"
            /\ headers = Cardinality({j \in 1 .. i - 1 : written[j] = "artifact"})

\* Once the cancellation is sent a completion that crosses it is not
\* accepted (cancel_with_deadline) ...
NoCompletionAfterCancel == asked => Outcome # "completed"

\* ... and it counts as acknowledged only if the worker said so.
CancelWins ==
    /\ NoCompletionAfterCancel
    /\ Outcome = "acknowledged" => asked /\ Contains(written, "cancelled")

\* A request that fails on any path, also after its completion, keeps neither
\* its stage nor an artifact, and only an accepted completion has its stage
\* released (discard_stage, take_stage).  The directory itself can be left
\* behind by a worker that writes to it while it is discarded.
FailureKeepsNothing ==
    /\ stage = "released" <=> Outcome = "completed"
    /\ Outcome \in {"acknowledged", "terminated", "trailing"} =>
          stage \in {"dropped", "left"} /\ headers = 0

\* Every request ends, whatever the worker does and however often a message
\* arrives just before the deadline.
RequestEnds == <>(phase = "done")

=============================================================================
