-------------------------- MODULE SupervisorProofs --------------------------
(***************************************************************************)
(* Proofs about one supervised request, for every set of messages a worker *)
(* can write and every number of them: a result is accepted only after the *)
(* worker tree and its readers have come to an end.                        *)
(***************************************************************************)
EXTENDS Supervisor, FiniteSetTheorems, TLAPS

Accepting == {"completed", "acknowledged"}

\* A reader that has finished has nothing more to see, unless it met a flood.
ReadersAtEnd ==
    /\ stderr = "finished" => ~flooded /\ ~Alive
    /\ stdout = "finished" => overflow \/ (~Alive /\ pipe = <<>>)

\* What the supervisor knows in each phase: nothing yet while it receives,
\* that the readers settled below their limit when it drains, that there is
\* no result when it rejects.
PhaseKnows ==
    /\ Receiving => verdict = "none"
    /\ phase = "drain" => Settled /\ ~overflow
    /\ phase = "reject" => verdict \notin Accepting

QuietInv == ReadersAtEnd /\ PhaseKnows /\ AcceptedIsQuiet

\* A cancellation is sent after the handshake, and only before a verdict.
AskedInv ==
    /\ Receiving => verdict = "none"
    /\ phase \in {"handshake", "waiting"} => ~asked
    /\ asked => verdict # "completed"

-----------------------------------------------------------------------------

\* Nothing the worker does disturbs the invariant: a finished reader has seen
\* the end of the worker.
LEMMA WorkerKeepsQuiet == QuietInv /\ Worker => QuietInv'
<1> SUFFICES ASSUME QuietInv, Worker PROVE QuietInv'
  OBVIOUS
<1> USE DEF QuietInv, ReadersAtEnd, PhaseKnows, AcceptedIsQuiet, Outcome, Settled,
            Alive, Receiving, Accepting, control, parser
<1>1. ASSUME NEW k \in Wire, Write(k) PROVE QuietInv'
  BY <1>1 DEF Write, staging
<1>2. CASE FloodStderr
  BY <1>2 DEF FloodStderr, worker, staging
<1>3. CASE WriteFile
  BY <1>3 DEF WriteFile, worker, streams
<1>4. CASE Fork
  BY <1>4 DEF Fork, streams, staging
<1>5. CASE HolderExits
  BY <1>5 DEF HolderExits, streams, staging
<1>6. ASSUME NEW e \in {"exited", "signalled"}, Exit(e) PROVE QuietInv'
  BY <1>6 DEF Exit, streams, staging
<1> QED BY <1>1, <1>2, <1>3, <1>4, <1>5, <1>6 DEF Worker

\* A reader finishes at the end of its stream or at its limit.
LEMMA ReadersKeepQuiet == QuietInv /\ Readers => QuietInv'
<1> SUFFICES ASSUME QuietInv, Readers PROVE QuietInv'
  OBVIOUS
<1> USE DEF QuietInv, ReadersAtEnd, PhaseKnows, AcceptedIsQuiet, Outcome, Settled,
            Alive, Receiving, Accepting, control, worker
<1>1. ASSUME NEW n \in 1 .. MaxWrites, ReadStdout(n) PROVE QuietInv'
  BY <1>1 DEF ReadStdout
<1>2. CASE StdoutEnds
  BY <1>2 DEF StdoutEnds, parser
<1>3. CASE ReadStderr
  BY <1>3 DEF ReadStderr, parser
<1>4. CASE StderrEnds
  BY <1>4 DEF StderrEnds, parser
<1> QED BY <1>1, <1>2, <1>3, <1>4 DEF Readers

\* While it receives, the supervisor accepts nothing: it waits on, or goes on
\* to end the request with what it is about to report.
LEMMA ReceivingKeepsQuiet ==
    ASSUME QuietInv,
           \/ Handshake \/ ReceiveReply \/ SendCancel \/ ReceiveAcknowledgement
           \/ GiveUp \/ Parse \/ ParseFails \/ RaiseCancel \/ Expire
    PROVE  QuietInv'
<1> USE DEF QuietInv, ReadersAtEnd, PhaseKnows, AcceptedIsQuiet, Outcome, Settled,
            Alive, Receiving, Accepting, worker, streams
<1>1. CASE Handshake
  BY <1>1 DEF Handshake, Take, Stay, EndWith
<1>2. CASE ReceiveReply
  BY <1>2 DEF ReceiveReply, Take, Stay, EndWith
<1>3. CASE SendCancel
  BY <1>3 DEF SendCancel, EndWith, parser
<1>4. CASE ReceiveAcknowledgement
  BY <1>4 DEF ReceiveAcknowledgement, Take, Stay, EndWith
<1>5. CASE GiveUp
  BY <1>5 DEF GiveUp, EndWith, parser
<1>6. CASE Parse
  BY <1>6 DEF Parse, TakeChunk, control
<1>7. CASE ParseFails
  BY <1>7 DEF ParseFails, TakeChunk, EndWith
<1>8. CASE RaiseCancel
  BY <1>8 DEF RaiseCancel, parser
<1>9. CASE Expire
  BY <1>9 DEF Expire, parser
<1> QED BY <1>1, <1>2, <1>3, <1>4, <1>5, <1>6, <1>7, <1>8, <1>9

\* Ending a request reaches the drain only with settled readers, and the
\* result only from the drain.
LEMMA EndingKeepsQuiet ==
    ASSUME QuietInv,
           \/ EmptyStage \/ RemoveStage \/ Kill \/ KillFails
           \/ ReadersSettled \/ ReadersRefuse \/ FindTrailing \/ DrainExpires
           \/ Accept
    PROVE  QuietInv'
<1> USE DEF QuietInv, ReadersAtEnd, PhaseKnows, AcceptedIsQuiet, Outcome, Settled,
            Alive, Receiving, Accepting
<1>1. CASE EmptyStage
  BY <1>1 DEF EmptyStage, worker, streams, parser, control
<1>2. CASE RemoveStage
  BY <1>2 DEF RemoveStage, worker, streams, parser
<1>3. CASE Kill
  BY <1>3 DEF Kill, streams, parser
<1>4. CASE KillFails
  BY <1>4 DEF KillFails, Reject, worker, streams
<1>5. CASE ReadersSettled
  BY <1>5 DEF ReadersSettled, worker, streams, parser
<1>6. CASE ReadersRefuse
  BY <1>6 DEF ReadersRefuse, Reject, worker, streams
<1>7. CASE FindTrailing
  BY <1>7 DEF FindTrailing, Reject, worker, streams
<1>8. CASE DrainExpires
  BY <1>8 DEF DrainExpires, Reject, worker, streams
<1>9. CASE Accept
  BY <1>9 DEF Accept, Closed, worker, streams, parser
<1> QED BY <1>1, <1>2, <1>3, <1>4, <1>5, <1>6, <1>7, <1>8, <1>9

LEMMA QuietIsKept == QuietInv /\ [Next]_vars => QuietInv'
<1>1. QuietInv /\ Next => QuietInv'
  BY WorkerKeepsQuiet, ReadersKeepQuiet, ReceivingKeepsQuiet, EndingKeepsQuiet
     DEF Next, Supervise
<1>2. QuietInv /\ UNCHANGED vars => QuietInv'
  BY DEF QuietInv, ReadersAtEnd, PhaseKnows, AcceptedIsQuiet, Outcome, Settled,
         Alive, Receiving, vars, worker, streams, parser, control
<1> QED BY <1>1, <1>2

\* finish_terminal and verify_clean_exit: when a result is accepted, no
\* process of the worker runs, both streams have been read to their end
\* within their limits, and no message is left, whatever the worker wrote.
THEOREM AcceptedQuietly == Spec => []AcceptedIsQuiet
<1>1. Init => QuietInv
  BY DEF Init, QuietInv, ReadersAtEnd, PhaseKnows, AcceptedIsQuiet, Outcome,
         Receiving
<1>2. QuietInv => AcceptedIsQuiet
  BY DEF QuietInv
<1> QED BY <1>1, <1>2, QuietIsKept, PTL DEF Spec

-----------------------------------------------------------------------------

\* The verdict is settled once, and a cancellation is sent only before it.
LEMMA AskedIsKept == AskedInv /\ [Next]_vars => AskedInv'
<1> SUFFICES ASSUME AskedInv, [Next]_vars PROVE AskedInv'
  OBVIOUS
<1> USE DEF AskedInv, Receiving
<1>1. CASE Worker
  BY <1>1 DEF Worker, Write, FloodStderr, WriteFile, Fork, HolderExits, Exit, control
<1>2. CASE Readers
  BY <1>2 DEF Readers, ReadStdout, StdoutEnds, ReadStderr, StderrEnds, control
<1>3. CASE Handshake \/ ReceiveReply
  BY <1>3 DEF Handshake, ReceiveReply, Take, Stay, EndWith
<1>4. CASE SendCancel \/ ReceiveAcknowledgement
  BY <1>4 DEF SendCancel, ReceiveAcknowledgement, Take, Stay, EndWith
<1>5. CASE GiveUp \/ ParseFails
  BY <1>5 DEF GiveUp, ParseFails, TakeChunk, EndWith
<1>6. CASE Parse \/ RaiseCancel \/ Expire
  BY <1>6 DEF Parse, RaiseCancel, Expire, TakeChunk, control
<1>7. CASE EmptyStage \/ RemoveStage \/ Kill
  BY <1>7 DEF EmptyStage, RemoveStage, Kill, control
<1>8. CASE KillFails \/ ReadersRefuse \/ FindTrailing \/ DrainExpires
  BY <1>8 DEF KillFails, ReadersRefuse, FindTrailing, DrainExpires, Reject
<1>9. CASE ReadersSettled \/ Accept
  BY <1>9 DEF ReadersSettled, Accept
<1>10. CASE UNCHANGED vars
  BY <1>10 DEF vars, control
<1> QED BY <1>1, <1>2, <1>3, <1>4, <1>5, <1>6, <1>7, <1>8, <1>9, <1>10
        DEF Next, Supervise

\* cancel_with_deadline: a completion that crosses the cancellation is not
\* accepted, however the messages, the deadline and the flag interleave.
THEOREM CompletionNeverCrosses == Spec => []NoCompletionAfterCancel
<1>1. Init => AskedInv
  BY DEF Init, AskedInv, Receiving
<1>2. AskedInv => NoCompletionAfterCancel
  BY DEF AskedInv, NoCompletionAfterCancel, Outcome
<1> QED BY <1>1, <1>2, AskedIsKept, PTL DEF Spec

-----------------------------------------------------------------------------

\* What has become of the stage and the recorded artifacts when the request
\* is about to report v.
KeptFor(v) == v = "completed" /\ stage = "held"
DiscardedFor(v) ==
    /\ v \in {"acknowledged", "terminated", "trailing"}
    /\ stage \in {"dropped", "left"} /\ headers = 0

\* The stage in each phase of the request.
StageInv ==
    /\ phase \in Phase
    /\ Receiving => stage = "held" /\ verdict = "none"
    /\ phase \in {"discard", "reject"} =>
          /\ stage \in {"held", "emptied"}
          /\ verdict \in {"acknowledged", "terminated", "trailing"}
    /\ phase \in {"kill", "readers", "drain"} => KeptFor(verdict) \/ DiscardedFor(verdict)
    /\ phase = "done" =>
          \/ verdict = "completed" /\ stage = "released"
          \/ DiscardedFor(verdict)

\* Every path to the end of a failed request goes through the discarding of
\* its stage, before the worker is ended or after its result is refused.
LEMMA StageIsKept == StageInv /\ [Next]_vars => StageInv'
<1> SUFFICES ASSUME StageInv, [Next]_vars PROVE StageInv'
  OBVIOUS
<1> USE DEF StageInv, Receiving, Phase, KeptFor, DiscardedFor
<1>1. CASE Worker
  BY <1>1 DEF Worker, Write, FloodStderr, WriteFile, Fork, HolderExits, Exit,
              control, staging
<1>2. CASE Readers
  BY <1>2 DEF Readers, ReadStdout, StdoutEnds, ReadStderr, StderrEnds, control, staging
<1>3. CASE Handshake \/ ReceiveReply
  BY <1>3 DEF Handshake, ReceiveReply, Take, Stay, EndWith, staging
<1>4. CASE SendCancel \/ ReceiveAcknowledgement
  BY <1>4 DEF SendCancel, ReceiveAcknowledgement, Take, Stay, EndWith, staging
<1>5. CASE GiveUp \/ ParseFails
  BY <1>5 DEF GiveUp, ParseFails, TakeChunk, EndWith, staging
<1>6. CASE Parse \/ RaiseCancel \/ Expire
  BY <1>6 DEF Parse, RaiseCancel, Expire, TakeChunk, control, staging
<1>7. CASE EmptyStage \/ RemoveStage
  BY <1>7 DEF EmptyStage, RemoveStage, control
<1>8. CASE Kill \/ ReadersSettled \/ Accept
  BY <1>8 DEF Kill, ReadersSettled, Accept, staging
<1>9. CASE KillFails \/ ReadersRefuse \/ FindTrailing \/ DrainExpires
  BY <1>9 DEF KillFails, ReadersRefuse, FindTrailing, DrainExpires, Reject, staging
<1>10. CASE UNCHANGED vars
  BY <1>10 DEF vars, control, staging
<1> QED BY <1>1, <1>2, <1>3, <1>4, <1>5, <1>6, <1>7, <1>8, <1>9, <1>10
        DEF Next, Supervise

\* discard_stage and take_stage: a failed request keeps neither stage nor
\* artifact, and only an accepted completion releases its stage.
THEOREM FailureIsDiscarded == Spec => []FailureKeepsNothing
<1>1. Init => StageInv
  BY DEF Init, StageInv, Receiving, Phase
<1>2. StageInv => FailureKeepsNothing
  BY DEF StageInv, FailureKeepsNothing, Outcome, Receiving, Phase, KeptFor, DiscardedFor
<1> QED BY <1>1, <1>2, StageIsKept, PTL DEF Spec
-----------------------------------------------------------------------------
(* A completion is what the worker wrote.                                  *)

\* What a reader hands on: some messages or bytes, and never a flood.
Chunk == {c \in Seq(Kind \ {"flood"}) : c # <<>>}

TypeInv == TypeOK /\ inbound \in Seq(Chunk)

\* cut[k] messages were written before the k-th chunk on its way, and the
\* last entry of cut is what was written before the pipe.
Cuts(cut) ==
    /\ cut \in [1 .. Len(inbound) + 1 -> Nat]
    /\ \A k \in DOMAIN inbound :
          /\ cut[k + 1] = cut[k] + Len(inbound[k])
          /\ cut[k + 1] <= Len(written)
          /\ \A j \in DOMAIN inbound[k] : written[cut[k] + j] = inbound[k][j]
    /\ Len(written) = cut[Len(inbound) + 1] + Len(pipe)
    /\ \A j \in DOMAIN pipe : written[cut[Len(inbound) + 1] + j] = pipe[j]

\* Of the c messages parsed, t are taken and the next ones pending; after
\* them there were only bytes.
Parsed(t, c) ==
    /\ t + Len(pending) <= c
    /\ \A j \in DOMAIN pending : written[t + j] = pending[j]
    /\ \A j \in t + Len(pending) + 1 .. c : written[j] = "bytes"
    /\ carry <=> t + Len(pending) < c

\* The parser, the channel and the pipe hold what was written after the
\* first t messages, without a gap and in order.
InOrder(t) == \E cut : Cuts(cut) /\ cut[1] <= Len(written) /\ Parsed(t, cut[1])

Artifacts(t) == Cardinality({j \in 1 .. t : written[j] = "artifact"})

\* The worker was ready and has reported since.
Opened(t) ==
    /\ t >= 1 /\ written[1] = "ready"
    /\ \A j \in 1 .. t : written[j] \in {"ready", "artifact"}

\* What the supervisor has heard in the first t messages.
Heard(t) ==
    /\ phase = "handshake" => t = 0 /\ headers = 0
    /\ phase = "waiting" => Opened(t) /\ headers = Artifacts(t)
    /\ verdict = "completed" =>
          /\ t >= 2 /\ written[t] = "completed"
          /\ Opened(t - 1) /\ headers = Artifacts(t - 1)

\* Nothing is lost or reordered on the way to a completion.
ChannelInv ==
    ~overflow /\ verdict \in {"none", "completed"} =>
        \E t \in 0 .. Len(written) : InOrder(t) /\ Heard(t)

\* A cancellation is acknowledged by the worker after it was sent.
AcknowledgedInv ==
    /\ phase = "cancelling" => asked
    /\ verdict = "acknowledged" => asked /\ Contains(written, "cancelled")

\* A subsequence from the start has its elements where it takes them from.
LEMMA SubSeqType ==
    ASSUME NEW S, NEW T, NEW s \in Seq(T), NEW n \in 0 .. Len(s),
           \A j \in 1 .. n : s[j] \in S
    PROVE  SubSeq(s, 1, n) \in Seq(S)
<1>1. Len(SubSeq(s, 1, n)) = n /\ \A j \in 1 .. n : SubSeq(s, 1, n)[j] = s[j]
  OBVIOUS
<1>2. SubSeq(s, 1, n) \in Seq(T)
  OBVIOUS
<1>3. SubSeq(s, 1, n) = [j \in 1 .. n |-> SubSeq(s, 1, n)[j]]
  BY <1>1, <1>2
<1> QED BY <1>1, <1>3

-----------------------------------------------------------------------------

LEMMA TypeStarts == Init => TypeInv
<1> SUFFICES ASSUME Init PROVE TypeInv
  OBVIOUS
<1>1. <<>> \in Seq(Kind) /\ <<>> \in Seq(Message) /\ <<>> \in Seq(Seq(Kind))
      /\ <<>> \in Seq(Chunk)
  OBVIOUS
<1> QED BY <1>1 DEF Init, TypeInv, TypeOK, Phase, Verdict

\* The worker writes messages of the wire.
LEMMA WorkerKeepsType == TypeInv /\ Worker => TypeInv'
<1> SUFFICES ASSUME TypeInv, Worker PROVE TypeInv'
  OBVIOUS
<1> USE DEF TypeInv, TypeOK, control, parser
<1>1. ASSUME NEW k \in Wire, Write(k) PROVE TypeInv'
  BY <1>1, WireAssumption DEF Write, staging
<1>2. CASE FloodStderr
  BY <1>2 DEF FloodStderr, worker, staging
<1>3. CASE WriteFile
  BY <1>3 DEF WriteFile, worker, streams
<1>4. CASE Fork
  BY <1>4 DEF Fork, streams, staging
<1>5. CASE HolderExits
  <2>1. holder' \in BOOLEAN /\ UNCHANGED <<leader, written, streams, parser, control, staging>>
    BY <1>5 DEF HolderExits
  <2> QED BY <2>1 DEF streams, staging
<1>6. ASSUME NEW e \in {"exited", "signalled"}, Exit(e) PROVE TypeInv'
  BY <1>6 DEF Exit, streams, staging
<1> QED BY <1>1, <1>2, <1>3, <1>4, <1>5, <1>6 DEF Worker

\* The first n messages in the pipe, without a flood, make a chunk.
LEMMA ReadChunk ==
    ASSUME pipe \in Seq(Kind), NEW n \in 1 .. Len(pipe)
    PROVE  /\ SubSeq(pipe, 1, n) \in Seq(Kind) /\ Len(SubSeq(pipe, 1, n)) = n
           /\ \A j \in 1 .. n : SubSeq(pipe, 1, n)[j] = pipe[j]
           /\ SubSeq(pipe, n + 1, Len(pipe)) \in Seq(Kind)
           /\ Len(SubSeq(pipe, n + 1, Len(pipe))) = Len(pipe) - n
           /\ \A j \in 1 .. Len(pipe) - n :
                 SubSeq(pipe, n + 1, Len(pipe))[j] = pipe[n + j]
           /\ ~Contains(SubSeq(pipe, 1, n), "flood") => SubSeq(pipe, 1, n) \in Chunk
<1>1. /\ SubSeq(pipe, 1, n) \in Seq(Kind) /\ Len(SubSeq(pipe, 1, n)) = n
      /\ \A j \in 1 .. n : SubSeq(pipe, 1, n)[j] = pipe[j]
  OBVIOUS
<1>2. /\ SubSeq(pipe, n + 1, Len(pipe)) \in Seq(Kind)
      /\ Len(SubSeq(pipe, n + 1, Len(pipe))) = Len(pipe) - n
  OBVIOUS
<1>3. \A j \in 1 .. Len(pipe) - n : SubSeq(pipe, n + 1, Len(pipe))[j] = pipe[n + j]
  OBVIOUS
<1>4. ASSUME ~Contains(SubSeq(pipe, 1, n), "flood")
      PROVE  SubSeq(pipe, 1, n) \in Chunk
  <2> DEFINE c == SubSeq(pipe, 1, n)
  <2>1. c \in Seq(Kind) /\ Len(c) = n /\ \A i \in 1 .. n : c[i] # "flood"
    BY <1>1, <1>4 DEF Contains
  <2> HIDE DEF c
  <2>2. c \in Seq(Kind \ {"flood"})
    <3>1. \A i \in 1 .. Len(c) : c[i] \in Kind \ {"flood"}
      BY <2>1
    <3>2. c = [i \in 1 .. Len(c) |-> c[i]] /\ Len(c) \in Nat
      BY <2>1
    <3> QED BY <3>1, <3>2
  <2>3. c # <<>>
    BY <2>1
  <2> QED BY <2>2, <2>3 DEF Chunk, c
<1> QED BY <1>1, <1>2, <1>3, <1>4

LEMMA ReadersKeepType == TypeInv /\ Readers => TypeInv'
<1> SUFFICES ASSUME TypeInv, Readers PROVE TypeInv'
  OBVIOUS
<1> USE DEF TypeInv, TypeOK, control, worker, staging
<1>1. ASSUME NEW n \in 1 .. MaxWrites, ReadStdout(n) PROVE TypeInv'
  <2> DEFINE c == SubSeq(pipe, 1, n)
             r == SubSeq(pipe, n + 1, Len(pipe))
  <2>1. n \in 1 .. Len(pipe) /\ pipe \in Seq(Kind)
    BY <1>1 DEF ReadStdout
  <2>2. c \in Seq(Kind) /\ r \in Seq(Kind) /\ (~Contains(c, "flood") => c \in Chunk)
    BY <2>1, ReadChunk
  <2>3. /\ pipe' = r
        /\ inbound' = IF Contains(c, "flood") THEN inbound ELSE Append(inbound, c)
        /\ overflow' = (overflow \/ Contains(c, "flood"))
        /\ stdout' \in {"reading", "finished"}
        /\ UNCHANGED <<worker, flooded, stderr, pending, carry, control, staging>>
    BY <1>1 DEF ReadStdout
  <2>4. overflow' \in BOOLEAN
    BY <2>3 DEF Contains
  <2> HIDE DEF c, r
  <2>5. inbound' \in Seq(Seq(Kind)) /\ inbound' \in Seq(Chunk)
    BY <2>2, <2>3
  <2> QED BY <2>2, <2>3, <2>4, <2>5
<1>2. CASE StdoutEnds
  BY <1>2 DEF StdoutEnds, parser
<1>3. CASE ReadStderr
  BY <1>3 DEF ReadStderr, parser
<1>4. CASE StderrEnds
  BY <1>4 DEF StderrEnds, parser
<1> QED BY <1>1, <1>2, <1>3, <1>4 DEF Readers

\* A chunk that is not malformed: its lines, and the bytes left over.
LEMMA ParsedChunk ==
    ASSUME TypeInv, TakeChunk, NEW c, c = Head(inbound), ~Malformed(c),
           NEW n \in 0 .. Len(c), SplitsAt(c, n)
    PROVE  /\ inbound # <<>> /\ inbound[1] = c /\ c \in Seq(Kind) /\ Len(c) >= 1
           /\ SubSeq(c, 1, n) \in Seq(Message) /\ Len(SubSeq(c, 1, n)) = n
           /\ \A j \in 1 .. n : SubSeq(c, 1, n)[j] = c[j]
           /\ \A j \in n + 1 .. Len(c) : c[j] = "bytes"
           /\ (Last(c) = "bytes") <=> n < Len(c)
           /\ carry => n = 0
<1>1. /\ inbound # <<>> /\ inbound[1] = c /\ c \in Chunk
  BY DEF TakeChunk, TypeInv
<1>2. /\ c \in Seq(Kind) /\ Len(c) \in Nat /\ Len(c) >= 1 /\ DOMAIN c = 1 .. Len(c)
      /\ \A i \in 1 .. Len(c) : c[i] \in Kind \ {"flood"}
  <2>1. c \in Seq(Kind \ {"flood"}) /\ c # <<>>
    BY <1>1 DEF Chunk
  <2> QED BY <2>1
<1>3. \A i \in 1 .. Len(c) : c[i] # "malformed"
  BY <1>2 DEF Malformed, Contains
<1>4. \A i \in 1 .. Len(c) : c[i] # "bytes" <=> i <= n
  BY <1>2 DEF SplitsAt
<1>5. \A j \in 1 .. n : c[j] \in Message
  BY <1>2, <1>3, <1>4 DEF Message
<1>6. Len(SubSeq(c, 1, n)) = n /\ \A j \in 1 .. n : SubSeq(c, 1, n)[j] = c[j]
  BY <1>2
<1>7. SubSeq(c, 1, n) \in Seq(Message)
  BY <1>5, <1>2, SubSeqType
<1>8. carry => n = 0
  BY <1>2, <1>4 DEF Malformed
<1>9. (Last(c) = "bytes") <=> n < Len(c)
  BY <1>2, <1>4 DEF Last
<1> QED BY <1>1, <1>2, <1>4, <1>6, <1>7, <1>8, <1>9
LEMMA ReceivingKeepsType ==
    ASSUME TypeInv,
           \/ Handshake \/ ReceiveReply \/ SendCancel \/ ReceiveAcknowledgement
           \/ GiveUp \/ Parse \/ ParseFails \/ RaiseCancel \/ Expire
    PROVE  TypeInv'
<1> DEFINE ControlOK ==
             /\ phase \in Phase /\ verdict \in Verdict
             /\ late \in BOOLEAN /\ cancel \in BOOLEAN /\ asked \in BOOLEAN
<1>c. ControlOK /\ headers \in Nat
  BY DEF TypeInv, TypeOK
<1>e. ASSUME NEW v \in Verdict, EndWith(v) PROVE ControlOK'
  BY <1>e, <1>c DEF EndWith, Phase
<1>s. ASSUME NEW p \in Phase, Stay(p) PROVE ControlOK'
  BY <1>s, <1>c DEF Stay
<1>r. ASSUME ControlOK', headers' \in Nat, pending' \in Seq(Message),
             UNCHANGED <<worker, streams, inbound, carry, staging>>
      PROVE  TypeInv'
  BY <1>r DEF TypeInv, TypeOK, worker, streams, staging
<1>1. ASSUME NEW m, Take(m)
      PROVE  /\ pending' \in Seq(Message)
             /\ UNCHANGED <<worker, streams, inbound, carry, staging>>
  BY <1>1 DEF Take, TypeInv, TypeOK
<1>d. pending \in Seq(Message)
  BY DEF TypeInv, TypeOK
<1>v. /\ {"none", "completed", "acknowledged", "terminated", "trailing"} \subseteq Verdict
      /\ {"handshake", "waiting", "cancelling"} \subseteq Phase
  BY DEF Verdict, Phase
<1>2. CASE Handshake
  <2>1. PICK m \in Message :
          /\ Take(m) /\ headers' = headers
          /\ Stay("waiting") \/ EndWith("terminated")
    BY <1>2 DEF Handshake
  <2> HIDE DEF ControlOK
  <2> QED BY <2>1, <1>1, <1>c, <1>e, <1>s, <1>r, <1>v
<1>3. CASE ReceiveReply
  <2>1. PICK m :
          /\ Take(m) /\ headers' \in {headers, headers + 1}
          /\ Stay("waiting") \/ EndWith("completed") \/ EndWith("terminated")
    BY <1>3 DEF ReceiveReply
  <2> HIDE DEF ControlOK
  <2> QED BY <2>1, <1>1, <1>c, <1>e, <1>s, <1>r, <1>v
<1>4. CASE SendCancel
  <2>1. ControlOK'
    BY <1>4, <1>c, <1>e, <1>v DEF SendCancel
  <2> QED BY <1>4, <2>1, <1>c, <1>d, <1>r DEF SendCancel, parser
<1>5. CASE ReceiveAcknowledgement
  <2>1. PICK m :
          /\ Take(m) /\ headers' = headers
          /\ Stay("cancelling") \/ EndWith("acknowledged") \/ EndWith("terminated")
    BY <1>5 DEF ReceiveAcknowledgement
  <2> HIDE DEF ControlOK
  <2> QED BY <2>1, <1>1, <1>c, <1>e, <1>s, <1>r, <1>v
<1>6. CASE GiveUp
  <2>1. ControlOK'
    BY <1>6, <1>e, <1>v DEF GiveUp
  <2> QED BY <1>6, <2>1, <1>c, <1>d, <1>r DEF GiveUp, parser
<1>7. ASSUME TakeChunk
      PROVE  inbound' \in Seq(Seq(Kind)) /\ inbound' \in Seq(Chunk)
  BY <1>7 DEF TakeChunk, TypeInv, TypeOK
<1>8. CASE Parse
  <2> DEFINE c == Head(inbound)
  <2>1. TakeChunk /\ ~Malformed(c)
    BY <1>8 DEF Parse
  <2>2. PICK n \in 0 .. Len(c) : SplitsAt(c, n) /\ pending' = SubSeq(c, 1, n)
    BY <1>8 DEF Parse
  <2>3. pending' \in Seq(Message)
    BY <2>1, <2>2, ParsedChunk
  <2>4. carry' \in BOOLEAN /\ UNCHANGED <<worker, streams, control, staging>>
    BY <1>8 DEF Parse
  <2> QED BY <2>1, <2>3, <2>4, <1>7
             DEF TypeInv, TypeOK, worker, streams, control, staging
<1>9. CASE ParseFails
  <2>1. ControlOK' /\ inbound' \in Seq(Seq(Kind)) /\ inbound' \in Seq(Chunk)
    BY <1>9, <1>7, <1>e, <1>v DEF ParseFails
  <2>2. carry' = FALSE /\ UNCHANGED <<worker, streams, pending, headers, staging>>
    BY <1>9 DEF ParseFails
  <2> QED BY <2>1, <2>2 DEF TypeInv, TypeOK, worker, streams, staging
<1>10. CASE RaiseCancel
  BY <1>10 DEF RaiseCancel, TypeInv, TypeOK, worker, streams, parser, staging
<1>11. CASE Expire
  BY <1>11 DEF Expire, TypeInv, TypeOK, worker, streams, parser, staging
<1> QED BY <1>2, <1>3, <1>4, <1>5, <1>6, <1>8, <1>9, <1>10, <1>11

LEMMA EndingKeepsType ==
    ASSUME TypeInv,
           \/ EmptyStage \/ RemoveStage \/ Kill \/ KillFails
           \/ ReadersSettled \/ ReadersRefuse \/ FindTrailing \/ DrainExpires
           \/ Accept
    PROVE  TypeInv'
<1> USE DEF TypeInv, TypeOK, Phase, Verdict
<1>1. CASE EmptyStage
  BY <1>1 DEF EmptyStage, worker, streams, parser, control
<1>2. CASE RemoveStage
  BY <1>2 DEF RemoveStage, worker, streams, parser
<1>3. CASE Kill
  <2>1. leader' \in {"running", "exited", "signalled"} /\ holder' \in BOOLEAN
    BY <1>3 DEF Kill
  <2> QED BY <1>3, <2>1 DEF Kill, streams, parser, staging
<1>4. CASE KillFails
  BY <1>4 DEF KillFails, Reject, worker, streams, staging
<1>5. CASE ReadersSettled
  BY <1>5 DEF ReadersSettled, worker, streams, parser, staging
<1>6. CASE ReadersRefuse
  BY <1>6 DEF ReadersRefuse, Reject, worker, streams, staging
<1>7. CASE FindTrailing
  <2>1. CASE TakeChunk
    <3>1. inbound' \in Seq(Seq(Kind)) /\ inbound' \in Seq(Chunk)
      BY <2>1 DEF TakeChunk
    <3>2. carry' \in BOOLEAN /\ Reject("trailing")
      BY <1>7 DEF FindTrailing
    <3> QED BY <3>1, <3>2 DEF Reject, worker, streams, staging
  <2>2. CASE UNCHANGED <<inbound, carry>> /\ Reject("trailing")
    BY <2>2 DEF Reject, worker, streams, staging
  <2> QED BY <1>7, <2>1, <2>2 DEF FindTrailing
<1>8. CASE DrainExpires
  BY <1>8 DEF DrainExpires, Reject, worker, streams, staging
<1>9. CASE Accept
  BY <1>9 DEF Accept, worker, streams, parser
<1> QED BY <1>1, <1>2, <1>3, <1>4, <1>5, <1>6, <1>7, <1>8, <1>9

LEMMA TypeIsKept == TypeInv /\ [Next]_vars => TypeInv'
<1>1. TypeInv /\ UNCHANGED vars => TypeInv'
  BY DEF TypeInv, TypeOK, vars, worker, streams, parser, control, staging
<1> QED BY <1>1, WorkerKeepsType, ReadersKeepType, ReceivingKeepsType, EndingKeepsType
        DEF Next, Supervise

-----------------------------------------------------------------------------

\* The way of the messages does not depend on anything but what is written,
\* in the pipe, in the channel and in the parser.
LEMMA WayUnchanged ==
    ASSUME NEW t \in 0 .. Len(written), InOrder(t),
           UNCHANGED <<written, pipe, inbound, pending, carry>>
    PROVE  t \in 0 .. Len(written') /\ InOrder(t)'
<1>1. PICK cut : Cuts(cut) /\ cut[1] <= Len(written) /\ Parsed(t, cut[1])
  BY DEF InOrder
<1>2. Cuts(cut)'
  BY <1>1 DEF Cuts
<1>3. Parsed(t, cut[1])'
  BY <1>1 DEF Parsed
<1> QED BY <1>1, <1>2, <1>3 DEF InOrder

\* The artifacts among the first messages stay what they were.
LEMMA WrittenStays ==
    ASSUME written \in Seq(Kind), NEW m \in Kind, written' = Append(written, m),
           NEW t \in 0 .. Len(written)
    PROVE  /\ \A j \in 1 .. Len(written) : written'[j] = written[j]
           /\ Len(written') = Len(written) + 1 /\ written'[Len(written) + 1] = m
           /\ Artifacts(t)' = Artifacts(t)
<1>1. /\ \A j \in 1 .. Len(written) : written'[j] = written[j]
      /\ Len(written') = Len(written) + 1 /\ written'[Len(written) + 1] = m
  OBVIOUS
<1>2. {j \in 1 .. t : written'[j] = "artifact"} = {j \in 1 .. t : written[j] = "artifact"}
  BY <1>1
<1> QED BY <1>1, <1>2 DEF Artifacts

\* What the worker writes goes to the end of the pipe.
LEMMA WriteInOrder ==
    ASSUME TypeInv, NEW m \in Wire, Write(m), stdout = "reading",
           NEW t \in 0 .. Len(written), InOrder(t)
    PROVE  t \in 0 .. Len(written') /\ InOrder(t)'
<1>1. /\ written \in Seq(Kind) /\ pipe \in Seq(Kind) /\ inbound \in Seq(Seq(Kind))
      /\ pending \in Seq(Message)
  BY DEF TypeInv, TypeOK
<1>2. /\ written' = Append(written, m) /\ pipe' = Append(pipe, m) /\ m \in Kind
      /\ UNCHANGED <<inbound, pending, carry>>
  BY WireAssumption DEF Write, parser
<1>3. /\ \A j \in 1 .. Len(written) : written'[j] = written[j]
      /\ Len(written') = Len(written) + 1 /\ written'[Len(written) + 1] = m
  BY <1>1, <1>2
<1>4. PICK cut : Cuts(cut) /\ cut[1] <= Len(written) /\ Parsed(t, cut[1])
  BY DEF InOrder
<1> DEFINE l == Len(inbound)
<1>5. /\ l \in Nat /\ DOMAIN inbound = 1 .. l /\ Len(written) \in Nat
      /\ Len(pipe) \in Nat /\ DOMAIN pipe = 1 .. Len(pipe)
      /\ DOMAIN pipe' = 1 .. Len(pipe) + 1 /\ Len(pipe') = Len(pipe) + 1
      /\ \A j \in 1 .. Len(pipe) : pipe'[j] = pipe[j]
      /\ pipe'[Len(pipe) + 1] = m
  BY <1>1, <1>2
<1>6. /\ cut \in [1 .. l + 1 -> Nat]
      /\ Len(written) = cut[l + 1] + Len(pipe)
      /\ \A j \in DOMAIN pipe : written[cut[l + 1] + j] = pipe[j]
  BY <1>4 DEF Cuts
<1>a. Len(written) = cut[l + 1] + Len(pipe) /\ Len(pipe) \in Nat
  BY <1>5, <1>6
<1>7. ASSUME NEW k \in 1 .. l + 1 PROVE cut[k] \in Nat
  BY <1>6
<1>8. cut[1] \in Nat /\ cut[l + 1] \in Nat
  BY <1>5, <1>7
<1>9. ASSUME NEW k \in DOMAIN inbound
      PROVE  /\ cut[k + 1] = cut[k] + Len(inbound[k])
             /\ cut[k + 1] <= Len(written')
             /\ \A j \in DOMAIN inbound[k] : written'[cut[k] + j] = inbound[k][j]
  <2>1. /\ cut[k + 1] = cut[k] + Len(inbound[k]) /\ cut[k + 1] <= Len(written)
        /\ \A j \in DOMAIN inbound[k] : written[cut[k] + j] = inbound[k][j]
    BY <1>4 DEF Cuts
  <2>2. inbound[k] \in Seq(Kind)
    BY <1>1
  <2>3. k \in 1 .. l + 1 /\ k + 1 \in 1 .. l + 1
    BY <1>5
  <2>4. cut[k] \in Nat /\ cut[k + 1] \in Nat
    BY <2>3, <1>7
  <2>5. ASSUME NEW j \in DOMAIN inbound[k] PROVE cut[k] + j \in 1 .. Len(written)
    <3>1. j \in 1 .. Len(inbound[k]) /\ Len(inbound[k]) \in Nat
      BY <2>2
    <3> QED BY <3>1, <2>1, <2>4, <1>5
  <2>6. cut[k + 1] <= Len(written')
    BY <2>1, <2>4, <1>3, <1>5
  <2> QED BY <2>1, <2>5, <2>6, <1>3
<1>10. ASSUME NEW j \in DOMAIN pipe'
       PROVE  written'[cut[l + 1] + j] = pipe'[j]
  <2>1. CASE j \in 1 .. Len(pipe)
    <3>1. cut[l + 1] + j \in 1 .. Len(written)
      BY <1>a, <1>8, <2>1
    <3>2. written[cut[l + 1] + j] = pipe[j]
      BY <1>5, <1>6, <2>1
    <3> QED BY <3>1, <3>2, <1>3, <1>5, <2>1
  <2>2. CASE j = Len(pipe) + 1
    <3>1. cut[l + 1] + j = Len(written) + 1
      BY <1>a, <1>8, <2>2
    <3> QED BY <3>1, <1>3, <1>5, <2>2
  <2> QED BY <2>1, <2>2, <1>5
<1>11. Len(written') = cut[l + 1] + Len(pipe')
  BY <1>3, <1>5, <1>a, <1>8
<1>12. Cuts(cut)'
  <2> HIDE DEF l
  <2>1. Len(inbound') = l /\ DOMAIN inbound' = DOMAIN inbound
    BY <1>2 DEF l
  <2> QED BY <2>1, <1>2, <1>6, <1>9, <1>10, <1>11 DEF Cuts
<1>13. Parsed(t, cut[1])'
  <2> DEFINE n == Len(pending)
  <2>1. n \in Nat /\ DOMAIN pending = 1 .. n /\ t \in Nat
    BY <1>1, <1>5
  <2>2. /\ t + n <= cut[1]
        /\ \A j \in DOMAIN pending : written[t + j] = pending[j]
        /\ \A j \in t + n + 1 .. cut[1] : written[j] = "bytes"
        /\ carry <=> t + n < cut[1]
    BY <1>4 DEF Parsed
  <2>3. Len(pending') = n /\ pending' = pending /\ carry' = carry
    BY <1>2
  <2> HIDE DEF n
  <2>4. \A j \in DOMAIN pending' : written'[t + j] = pending'[j]
    <3>1. \A j \in 1 .. n : t + j \in 1 .. Len(written)
      BY <2>1, <2>2, <1>4, <1>5, <1>8
    <3> QED BY <3>1, <2>1, <2>2, <2>3, <1>3
  <2>5. \A j \in t + n + 1 .. cut[1] : written'[j] = "bytes"
    <3>1. \A j \in t + n + 1 .. cut[1] : j \in 1 .. Len(written)
      BY <2>1, <1>4, <1>5, <1>8
    <3> QED BY <3>1, <2>2, <1>3
  <2> QED BY <2>2, <2>3, <2>4, <2>5 DEF Parsed
<1>14. cut[1] <= Len(written') /\ t \in 0 .. Len(written')
  BY <1>3, <1>4, <1>5, <1>8
<1> QED BY <1>12, <1>13, <1>14 DEF InOrder

\* A reader moves the front of the pipe to the end of the channel.
LEMMA ReadInOrder ==
    ASSUME TypeInv, NEW n \in 1 .. MaxWrites, ReadStdout(n), ~overflow',
           NEW t \in 0 .. Len(written), InOrder(t)
    PROVE  t \in 0 .. Len(written') /\ InOrder(t)'
<1> DEFINE c == SubSeq(pipe, 1, n)
           r == SubSeq(pipe, n + 1, Len(pipe))
<1>1. /\ written \in Seq(Kind) /\ pipe \in Seq(Kind) /\ inbound \in Seq(Seq(Kind))
      /\ pending \in Seq(Message) /\ n \in 1 .. Len(pipe)
  BY DEF TypeInv, TypeOK, ReadStdout
<1>2. /\ c \in Seq(Kind) /\ Len(c) = n /\ \A j \in 1 .. n : c[j] = pipe[j]
      /\ r \in Seq(Kind) /\ Len(r) = Len(pipe) - n
      /\ \A j \in 1 .. Len(pipe) - n : r[j] = pipe[n + j]
  BY <1>1, ReadChunk
<1>3. /\ pipe' = r /\ inbound' = Append(inbound, c)
      /\ UNCHANGED <<written, pending, carry>>
  BY DEF ReadStdout, worker
<1> HIDE DEF c, r
<1>4. PICK cut : Cuts(cut) /\ cut[1] <= Len(written) /\ Parsed(t, cut[1])
  BY DEF InOrder
<1> DEFINE l == Len(inbound)
<1>e. PICK grown :
        grown = [k \in 1 .. l + 2 |-> IF k <= l + 1 THEN cut[k] ELSE cut[l + 1] + n]
  OBVIOUS
<1>5. /\ cut \in [1 .. l + 1 -> Nat]
      /\ Len(written) = cut[l + 1] + Len(pipe)
      /\ \A j \in DOMAIN pipe : written[cut[l + 1] + j] = pipe[j]
  BY <1>4 DEF Cuts
<1>6. /\ l \in Nat /\ DOMAIN inbound = 1 .. l /\ Len(inbound') = l + 1
      /\ DOMAIN inbound' = 1 .. l + 1
      /\ inbound'[l + 1] = c /\ \A k \in 1 .. l : inbound'[k] = inbound[k]
      /\ Len(written) \in Nat /\ Len(pipe) \in Nat /\ DOMAIN pipe = 1 .. Len(pipe)
      /\ DOMAIN c = 1 .. n /\ DOMAIN r = 1 .. Len(pipe) - n
  BY <1>1, <1>2, <1>3
<1>7. ASSUME NEW k \in 1 .. l + 1 PROVE cut[k] \in Nat
  BY <1>5
<1>8. cut[1] \in Nat /\ cut[l + 1] \in Nat
  BY <1>6, <1>7
<1>9. /\ grown \in [1 .. l + 2 -> Nat]
      /\ \A k \in 1 .. l + 1 : grown[k] = cut[k]
      /\ grown[l + 2] = cut[l + 1] + n
  <2>1. \A k \in 1 .. l + 2 :
           (IF k <= l + 1 THEN cut[k] ELSE cut[l + 1] + n) \in Nat
    BY <1>6, <1>7, <1>8
  <2>2. l + 2 \in 1 .. l + 2 /\ ~(l + 2 <= l + 1)
        /\ \A k \in 1 .. l + 1 : k \in 1 .. l + 2 /\ k <= l + 1
    BY <1>6
  <2> QED BY <2>1, <2>2, <1>e
<1>10. ASSUME NEW k \in 1 .. l + 1
       PROVE  /\ grown[k + 1] = grown[k] + Len(inbound'[k])
              /\ grown[k + 1] <= Len(written)
              /\ \A j \in DOMAIN inbound'[k] : written[grown[k] + j] = inbound'[k][j]
  <2>1. CASE k \in 1 .. l
    <3>1. k \in 1 .. l + 1 /\ k + 1 \in 1 .. l + 1
      BY <1>6, <2>1
    <3>2. /\ cut[k + 1] = cut[k] + Len(inbound[k])
          /\ cut[k + 1] <= Len(written)
          /\ \A j \in DOMAIN inbound[k] : written[cut[k] + j] = inbound[k][j]
      BY <1>4, <1>6, <2>1 DEF Cuts
    <3>3. grown[k] = cut[k] /\ grown[k + 1] = cut[k + 1] /\ inbound'[k] = inbound[k]
      BY <1>6, <1>9, <2>1, <3>1
    <3> QED BY <3>2, <3>3
  <2>2. CASE k = l + 1
    <3>1. k + 1 = l + 2 /\ k \in 1 .. l + 1
      BY <1>6, <2>2
    <3>2. grown[k] = cut[l + 1] /\ grown[k + 1] = cut[l + 1] + n /\ inbound'[k] = c
      BY <1>6, <1>9, <2>2, <3>1
    <3>3. Len(c) = n
      BY <1>2
    <3>4. cut[l + 1] + n <= Len(written)
      BY <1>1, <1>5, <1>6, <1>8
    <3>5. \A j \in 1 .. n : j \in 1 .. Len(pipe)
      BY <1>1, <1>6
    <3>6. \A j \in 1 .. n : written[cut[l + 1] + j] = c[j]
      BY <3>5, <1>2, <1>5, <1>6
    <3> QED BY <3>2, <3>3, <3>4, <3>6, <1>6
  <2> QED BY <2>1, <2>2, <1>6
<1>11. Len(written) = grown[l + 2] + (Len(pipe) - n)
  BY <1>1, <1>5, <1>6, <1>8, <1>9
<1>12. ASSUME NEW j \in 1 .. Len(pipe) - n
       PROVE  written[grown[l + 2] + j] = r[j]
  <2>1. n + j \in DOMAIN pipe
    BY <1>1, <1>6
  <2>2. cut[l + 1] + (n + j) = grown[l + 2] + j
    BY <1>1, <1>8, <1>9
  <2> QED BY <2>1, <2>2, <1>2, <1>5
<1>13. Cuts(grown)'
  <2>1. l + 1 + 1 = l + 2
    BY <1>6
  <2> HIDE DEF l
  <2>2. Len(inbound') = l + 1 /\ DOMAIN inbound' = 1 .. l + 1
    BY <1>6
  <2>3. /\ pipe' = r /\ Len(pipe') = Len(pipe) - n /\ DOMAIN pipe' = 1 .. Len(pipe) - n
        /\ written' = written
    BY <1>2, <1>3, <1>6
  <2>4. grown \in [1 .. Len(inbound') + 1 -> Nat]
    BY <2>1, <2>2, <1>9
  <2>5. /\ Len(written') = grown[Len(inbound') + 1] + Len(pipe')
        /\ \A j \in DOMAIN pipe' : written'[grown[Len(inbound') + 1] + j] = pipe'[j]
    BY <2>1, <2>2, <2>3, <1>11, <1>12
  <2>6. \A k \in DOMAIN inbound' :
          /\ grown[k + 1] = grown[k] + Len(inbound'[k])
          /\ grown[k + 1] <= Len(written')
          /\ \A j \in DOMAIN inbound'[k] : written'[grown[k] + j] = inbound'[k][j]
    BY <2>2, <2>3, <1>10
  <2> QED BY <2>4, <2>5, <2>6 DEF Cuts
<1>14. grown[1] = cut[1]
  BY <1>6, <1>9
<1>15. Parsed(t, cut[1])'
  BY <1>3, <1>4 DEF Parsed
<1> QED BY <1>3, <1>4, <1>13, <1>14, <1>15 DEF InOrder
\* The parser takes the first chunk: its lines are pending, unless bytes were
\* left over before them.
LEMMA ParseInOrder ==
    ASSUME TypeInv, Parse, NEW t \in 0 .. Len(written), InOrder(t)
    PROVE  t \in 0 .. Len(written') /\ InOrder(t)'
<1>1. PICK c : c = Head(inbound)
  OBVIOUS
<1>2. /\ TakeChunk /\ ~Malformed(c) /\ inbound' = Tail(inbound) /\ pending = <<>>
      /\ carry' = (Last(c) = "bytes")
      /\ UNCHANGED <<written, pipe>>
  BY <1>1 DEF Parse, TakeChunk, worker, streams
<1>3. PICK n \in 0 .. Len(c) : SplitsAt(c, n) /\ pending' = SubSeq(c, 1, n)
  BY <1>1 DEF Parse
<1>4. /\ inbound # <<>> /\ inbound[1] = c /\ c \in Seq(Kind) /\ Len(c) >= 1
      /\ Len(pending') = n /\ DOMAIN pending' = 1 .. n
      /\ \A j \in 1 .. n : pending'[j] = c[j]
      /\ \A j \in n + 1 .. Len(c) : c[j] = "bytes"
      /\ carry' <=> n < Len(c)
      /\ carry => n = 0
  <2>1. /\ inbound # <<>> /\ inbound[1] = c /\ c \in Seq(Kind) /\ Len(c) >= 1
        /\ SubSeq(c, 1, n) \in Seq(Message) /\ Len(SubSeq(c, 1, n)) = n
        /\ \A j \in 1 .. n : SubSeq(c, 1, n)[j] = c[j]
        /\ \A j \in n + 1 .. Len(c) : c[j] = "bytes"
        /\ (Last(c) = "bytes") <=> n < Len(c)
        /\ carry => n = 0
    BY <1>1, <1>2, <1>3, ParsedChunk
  <2>2. DOMAIN pending' = 1 .. n
    BY <2>1, <1>3
  <2> QED BY <2>1, <2>2, <1>2, <1>3
<1>5. PICK cut : Cuts(cut) /\ cut[1] <= Len(written) /\ Parsed(t, cut[1])
  BY DEF InOrder
<1> DEFINE l == Len(inbound)
<1>6. PICK rest : rest = [k \in 1 .. l |-> cut[k + 1]]
  OBVIOUS
<1>7. /\ l \in Nat /\ l >= 1 /\ DOMAIN inbound = 1 .. l /\ 1 \in DOMAIN inbound
      /\ Len(inbound') = l - 1 /\ DOMAIN inbound' = 1 .. l - 1
      /\ \A k \in 1 .. l - 1 : inbound'[k] = inbound[k + 1]
      /\ Len(written) \in Nat /\ Len(c) \in Nat /\ DOMAIN c = 1 .. Len(c) /\ t \in Nat
  <2>1. inbound \in Seq(Seq(Kind)) /\ written \in Seq(Kind)
    BY DEF TypeInv, TypeOK
  <2> QED BY <2>1, <1>2, <1>4
<1>8. /\ cut \in [1 .. l + 1 -> Nat]
      /\ Len(written) = cut[l + 1] + Len(pipe)
      /\ \A j \in DOMAIN pipe : written[cut[l + 1] + j] = pipe[j]
  BY <1>5 DEF Cuts
<1>9. /\ rest \in [1 .. l -> Nat] /\ rest[1] = cut[2] /\ rest[l] = cut[l + 1]
      /\ cut[1] \in Nat /\ cut[2] \in Nat
      /\ \A k \in 1 .. l : rest[k] = cut[k + 1]
  <2>1. \A k \in 1 .. l : k + 1 \in 1 .. l + 1
    BY <1>7
  <2>2. 1 \in 1 .. l + 1 /\ 1 \in 1 .. l /\ l \in 1 .. l /\ 1 + 1 = 2
    BY <1>7
  <2> QED BY <2>1, <2>2, <1>6, <1>8
<1>10. Cuts(rest)'
  <2>1. ASSUME NEW k \in 1 .. l - 1
        PROVE  /\ rest[k + 1] = rest[k] + Len(inbound'[k])
               /\ rest[k + 1] <= Len(written)
               /\ \A j \in DOMAIN inbound'[k] : written[rest[k] + j] = inbound'[k][j]
    <3>1. k \in 1 .. l /\ k + 1 \in 1 .. l
      BY <1>7
    <3>2. /\ cut[k + 1 + 1] = cut[k + 1] + Len(inbound[k + 1])
          /\ cut[k + 1 + 1] <= Len(written)
          /\ \A j \in DOMAIN inbound[k + 1] : written[cut[k + 1] + j] = inbound[k + 1][j]
      BY <3>1, <1>5, <1>7 DEF Cuts
    <3> QED BY <3>1, <3>2, <1>7, <1>9
  <2>2. l - 1 + 1 = l
    BY <1>7
  <2> HIDE DEF l
  <2>3. Len(inbound') = l - 1 /\ DOMAIN inbound' = 1 .. l - 1 /\ Len(inbound') + 1 = l
    BY <2>2, <1>7
  <2>4. /\ Len(written') = rest[l] + Len(pipe')
        /\ \A j \in DOMAIN pipe' : written'[rest[l] + j] = pipe'[j]
    BY <1>2, <1>8, <1>9
  <2>5. written' = written /\ rest \in [1 .. l -> Nat]
    BY <1>2, <1>9
  <2> QED BY <2>1, <2>3, <2>4, <2>5 DEF Cuts
<1>11. /\ cut[2] = cut[1] + Len(c) /\ cut[2] <= Len(written)
       /\ \A j \in DOMAIN c : written[cut[1] + j] = c[j]
  <2>1. 1 + 1 = 2
    OBVIOUS
  <2> QED BY <2>1, <1>4, <1>5, <1>7 DEF Cuts
<1>12. /\ t <= cut[1] /\ \A j \in t + 1 .. cut[1] : written[j] = "bytes"
       /\ carry <=> t < cut[1]
  <2>1. Len(pending) = 0 /\ t + 0 = t
    BY <1>2, <1>7
  <2> QED BY <2>1, <1>5 DEF Parsed
<1>13. Parsed(t, cut[2])'
  <2>1. t + n <= cut[2] /\ (carry' <=> t + n < cut[2])
    BY <1>3, <1>4, <1>7, <1>9, <1>11, <1>12
  <2>2. ASSUME NEW j \in 1 .. n PROVE written[t + j] = pending'[j]
    <3>1. t = cut[1] /\ j \in DOMAIN c
      BY <1>4, <1>7, <1>9, <1>12
    <3> QED BY <3>1, <1>4, <1>11
  <2>3. ASSUME NEW j \in t + n + 1 .. cut[2] PROVE written[j] = "bytes"
    <3>1. CASE j <= cut[1]
      BY <3>1, <1>3, <1>7, <1>9, <1>12
    <3>2. CASE j > cut[1]
      <4>1. PICK i \in n + 1 .. Len(c) : j = cut[1] + i
        <5>1. j >= t + n + 1 /\ j <= cut[2] /\ j \in Int /\ n \in Nat
          BY <1>3, <1>7, <1>9
        <5>2. j - cut[1] >= n + 1
          BY <5>1, <3>2, <1>4, <1>7, <1>9, <1>12
        <5>3. j - cut[1] <= Len(c) /\ j = cut[1] + (j - cut[1])
          BY <5>1, <1>7, <1>9, <1>11
        <5> QED BY <5>1, <5>2, <5>3, <1>7, <1>9
      <4>2. i \in DOMAIN c
        BY <1>3, <1>7
      <4> QED BY <4>1, <4>2, <1>4, <1>11
    <3> QED BY <3>1, <3>2, <1>7, <1>9
  <2> QED BY <2>1, <2>2, <2>3, <1>2, <1>4 DEF Parsed
<1> QED BY <1>2, <1>9, <1>10, <1>11, <1>13 DEF InOrder

\* The message that is taken is the next one that was written.
LEMMA TakeInOrder ==
    ASSUME TypeInv, NEW m, Take(m), NEW t \in 0 .. Len(written), InOrder(t)
    PROVE  /\ t + 1 \in 0 .. Len(written') /\ written' = written
           /\ written[t + 1] = m /\ InOrder(t + 1)'
<1>1. /\ pending # <<>> /\ Head(pending) = m /\ pending' = Tail(pending)
      /\ UNCHANGED <<written, pipe, inbound, carry>>
  BY DEF Take, worker, streams
<1>2. PICK cut : Cuts(cut) /\ cut[1] <= Len(written) /\ Parsed(t, cut[1])
  BY DEF InOrder
<1> DEFINE n == Len(pending)
<1>3. /\ n \in Nat /\ n >= 1 /\ DOMAIN pending = 1 .. n /\ pending[1] = m
      /\ Len(pending') = n - 1 /\ DOMAIN pending' = 1 .. n - 1
      /\ \A j \in 1 .. n - 1 : pending'[j] = pending[j + 1]
      /\ t \in Nat /\ Len(written) \in Nat
  <2>1. pending \in Seq(Message) /\ written \in Seq(Kind)
    BY DEF TypeInv, TypeOK
  <2> QED BY <2>1, <1>1
<1>4. cut[1] \in Nat
  <2>1. cut \in [1 .. Len(inbound) + 1 -> Nat] /\ Len(inbound) \in Nat
    BY <1>2 DEF Cuts, TypeInv, TypeOK
  <2> QED BY <2>1
<1>5. /\ t + n <= cut[1]
      /\ \A j \in DOMAIN pending : written[t + j] = pending[j]
      /\ \A j \in t + n + 1 .. cut[1] : written[j] = "bytes"
      /\ carry <=> t + n < cut[1]
  BY <1>2 DEF Parsed
<1>6. written[t + 1] = m
  BY <1>3, <1>5
<1>7. t + 1 + (n - 1) = t + n
  BY <1>3
<1>8. \A j \in 1 .. n - 1 : written[t + 1 + j] = pending'[j]
  <2> SUFFICES ASSUME NEW j \in 1 .. n - 1 PROVE written[t + 1 + j] = pending'[j]
    OBVIOUS
  <2>1. j + 1 \in 1 .. n /\ t + (j + 1) = t + 1 + j
    BY <1>3
  <2> QED BY <2>1, <1>3, <1>5
<1>9. Parsed(t + 1, cut[1])'
  <2> HIDE DEF n
  <2> QED BY <1>1, <1>3, <1>5, <1>7, <1>8 DEF Parsed
<1>10. Cuts(cut)'
  BY <1>1, <1>2 DEF Cuts
<1>11. t + 1 <= Len(written)
  BY <1>2, <1>3, <1>4, <1>5
<1> QED BY <1>1, <1>2, <1>3, <1>6, <1>9, <1>10, <1>11 DEF InOrder

\* Counting the artifacts one message at a time.
LEMMA CountOne ==
    ASSUME NEW t \in Nat
    PROVE  /\ Artifacts(t) \in Nat
           /\ Artifacts(t + 1) = Artifacts(t) + IF written[t + 1] = "artifact" THEN 1 ELSE 0
<1> DEFINE A == {j \in 1 .. t : written[j] = "artifact"}
           B == {j \in 1 .. t + 1 : written[j] = "artifact"}
<1>1. IsFiniteSet(A)
  <2>1. IsFiniteSet(1 .. t)
    BY FS_Interval
  <2> QED BY <2>1, A \subseteq 1 .. t, FS_Subset
<1>2. t + 1 \notin A
  OBVIOUS
<1>3. B = IF written[t + 1] = "artifact" THEN A \cup {t + 1} ELSE A
  OBVIOUS
<1>4. Cardinality(A) \in Nat
  BY <1>1, FS_CardinalityType
<1>5. Cardinality(A \cup {t + 1}) = Cardinality(A) + 1
  BY <1>1, <1>2, FS_AddElement
<1> QED BY <1>3, <1>4, <1>5 DEF Artifacts

LEMMA CountNone == Artifacts(0) = 0
<1>1. {j \in 1 .. 0 : written[j] = "artifact"} = {}
  OBVIOUS
<1> QED BY <1>1, FS_EmptySet DEF Artifacts
-----------------------------------------------------------------------------

FaithInv == TypeInv /\ QuietInv /\ StageInv /\ ChannelInv

\* A request that goes on as it was, or that will not report a completion,
\* keeps the invariant.
LEMMA ChannelUndisturbed ==
    ASSUME ChannelInv, overflow => overflow',
           \/ verdict' \notin {"none", "completed"}
           \/ /\ UNCHANGED <<written, pipe, inbound, pending, carry, verdict, headers>>
              /\ phase' = phase \/ phase' \notin {"handshake", "waiting"}
    PROVE  ChannelInv'
<1> SUFFICES ASSUME ~overflow', verdict' \in {"none", "completed"}
             PROVE  \E t \in 0 .. Len(written') : InOrder(t)' /\ Heard(t)'
  BY DEF ChannelInv
<1>1. PICK t \in 0 .. Len(written) : InOrder(t) /\ Heard(t)
  BY DEF ChannelInv
<1>2. t \in 0 .. Len(written') /\ InOrder(t)'
  BY <1>1, WayUnchanged
<1>3. Heard(t)'
  BY <1>1 DEF Heard, Opened, Artifacts
<1> QED BY <1>2, <1>3

\* What was heard stays heard while the worker writes on.
LEMMA HeardWhileWriting ==
    ASSUME written \in Seq(Kind), NEW m \in Kind, written' = Append(written, m),
           UNCHANGED <<phase, verdict, headers>>,
           NEW t \in 0 .. Len(written), Heard(t)
    PROVE  Heard(t)'
<1>1. /\ t \in Nat /\ Len(written) \in Nat
      /\ \A j \in 1 .. Len(written) : written'[j] = written[j]
      /\ \A j \in 1 .. t : written'[j] = written[j]
      /\ Artifacts(t)' = Artifacts(t)
  BY WrittenStays
<1>2. Opened(t) => Opened(t)'
  BY <1>1 DEF Opened
<1>3. ASSUME t >= 2
      PROVE  /\ Artifacts(t - 1)' = Artifacts(t - 1)
             /\ Opened(t - 1) => Opened(t - 1)'
             /\ written'[t] = written[t]
  <2>1. PICK s \in 0 .. Len(written) : s = t - 1
    BY <1>1, <1>3
  <2>2. Artifacts(s)' = Artifacts(s)
    BY WrittenStays
  <2>3. Opened(s) => Opened(s)'
    BY <1>1, <2>1 DEF Opened
  <2> QED BY <2>1, <2>2, <2>3, <1>1, <1>3
<1> QED BY <1>1, <1>2, <1>3 DEF Heard

LEMMA WorkerKeepsChannel == FaithInv /\ Worker => ChannelInv'
<1> SUFFICES ASSUME FaithInv, Worker PROVE ChannelInv'
  OBVIOUS
<1>0. ChannelInv
  BY DEF FaithInv
<1>1. ASSUME NEW m \in Wire, Write(m) PROVE ChannelInv'
  <2> SUFFICES ASSUME ~overflow', verdict' \in {"none", "completed"}
               PROVE  \E t \in 0 .. Len(written') : InOrder(t)' /\ Heard(t)'
    BY DEF ChannelInv
  <2>1. ~overflow /\ UNCHANGED <<phase, verdict, headers>> /\ Alive
        /\ written' = Append(written, m)
    BY <1>1 DEF Write, control
  <2>2. PICK t \in 0 .. Len(written) : InOrder(t) /\ Heard(t)
    BY <1>0, <2>1 DEF ChannelInv
  <2>3. stdout = "reading"
    BY <2>1 DEF FaithInv, TypeInv, TypeOK, QuietInv, ReadersAtEnd
  <2>4. t \in 0 .. Len(written') /\ InOrder(t)'
    BY <1>1, <2>2, <2>3, WriteInOrder DEF FaithInv
  <2>5. Heard(t)'
    BY <2>1, <2>2, HeardWhileWriting, WireAssumption DEF FaithInv, TypeInv, TypeOK
  <2> QED BY <2>4, <2>5
<1>2. CASE FloodStderr
  BY <1>0, <1>2, ChannelUndisturbed DEF FloodStderr, worker, parser, control
<1>3. CASE WriteFile
  BY <1>0, <1>3, ChannelUndisturbed DEF WriteFile, worker, streams, parser, control
<1>4. CASE Fork
  BY <1>0, <1>4, ChannelUndisturbed DEF Fork, streams, parser, control
<1>5. CASE HolderExits
  BY <1>0, <1>5, ChannelUndisturbed DEF HolderExits, streams, parser, control
<1>6. ASSUME NEW e \in {"exited", "signalled"}, Exit(e) PROVE ChannelInv'
  BY <1>0, <1>6, ChannelUndisturbed DEF Exit, streams, parser, control
<1> QED BY <1>1, <1>2, <1>3, <1>4, <1>5, <1>6 DEF Worker

LEMMA ReadersKeepChannel == FaithInv /\ Readers => ChannelInv'
<1> SUFFICES ASSUME FaithInv, Readers PROVE ChannelInv'
  OBVIOUS
<1>0. ChannelInv
  BY DEF FaithInv
<1>1. ASSUME NEW n \in 1 .. MaxWrites, ReadStdout(n) PROVE ChannelInv'
  <2> SUFFICES ASSUME ~overflow', verdict' \in {"none", "completed"}
               PROVE  \E t \in 0 .. Len(written') : InOrder(t)' /\ Heard(t)'
    BY DEF ChannelInv
  <2>1. ~overflow /\ UNCHANGED <<written, phase, verdict, headers>>
    BY <1>1 DEF ReadStdout, worker, control
  <2>2. PICK t \in 0 .. Len(written) : InOrder(t) /\ Heard(t)
    BY <1>0, <2>1 DEF ChannelInv
  <2>3. t \in 0 .. Len(written') /\ InOrder(t)'
    BY <1>1, <2>2, ReadInOrder DEF FaithInv
  <2>4. Heard(t)'
    BY <2>1, <2>2 DEF Heard, Opened, Artifacts
  <2> QED BY <2>3, <2>4
<1>2. CASE StdoutEnds
  BY <1>0, <1>2, ChannelUndisturbed DEF StdoutEnds, worker, parser, control
<1>3. CASE ReadStderr
  BY <1>0, <1>3, ChannelUndisturbed DEF ReadStderr, worker, parser, control
<1>4. CASE StderrEnds
  BY <1>0, <1>4, ChannelUndisturbed DEF StderrEnds, worker, parser, control
<1> QED BY <1>1, <1>2, <1>3, <1>4 DEF Readers

\* A message that is taken is heard, and the next one is up.
LEMMA TakenIsHeard ==
    ASSUME FaithInv, NEW m, Take(m), Receiving
    PROVE  \E t \in 0 .. Len(written) :
              /\ InOrder(t) /\ Heard(t) /\ written[t + 1] = m
              /\ t + 1 \in 0 .. Len(written') /\ InOrder(t + 1)'
              /\ UNCHANGED <<written, overflow>>
              /\ Artifacts(t + 1) = Artifacts(t) + IF m = "artifact" THEN 1 ELSE 0
<1>1. ~overflow /\ verdict = "none"
  BY DEF Take, FaithInv, QuietInv, PhaseKnows
<1>2. PICK t \in 0 .. Len(written) : InOrder(t) /\ Heard(t)
  BY <1>1 DEF FaithInv, ChannelInv
<1>3. /\ t + 1 \in 0 .. Len(written') /\ written' = written
      /\ written[t + 1] = m /\ InOrder(t + 1)'
  BY <1>2, TakeInOrder DEF FaithInv
<1>4. overflow' = overflow
  BY DEF Take, streams
<1>5. Artifacts(t + 1) = Artifacts(t) + IF m = "artifact" THEN 1 ELSE 0
  <2>1. t \in Nat
    BY DEF FaithInv, TypeInv, TypeOK
  <2> QED BY <2>1, <1>3, CountOne
<1> QED BY <1>2, <1>3, <1>4, <1>5

LEMMA ReceivingKeepsChannel ==
    ASSUME FaithInv,
           \/ Handshake \/ ReceiveReply \/ SendCancel \/ ReceiveAcknowledgement
           \/ GiveUp \/ Parse \/ ParseFails \/ RaiseCancel \/ Expire
    PROVE  ChannelInv'
<1>0. ChannelInv
  BY DEF FaithInv
<1>u. ASSUME EndWith("terminated") \/ EndWith("acknowledged"), overflow' = overflow
      PROVE  ChannelInv'
  BY <1>0, <1>u, ChannelUndisturbed DEF EndWith
<1>1. CASE Handshake
  <2>1. PICK m \in Message :
          /\ Take(m) /\ headers' = headers
          /\ (m = "ready" /\ Stay("waiting")) \/ EndWith("terminated")
    BY <1>1 DEF Handshake
  <2>2. phase = "handshake" /\ Receiving
    BY <1>1 DEF Handshake, Receiving
  <2>3. PICK t \in 0 .. Len(written) :
              /\ InOrder(t) /\ Heard(t) /\ written[t + 1] = m
              /\ t + 1 \in 0 .. Len(written') /\ InOrder(t + 1)'
              /\ UNCHANGED <<written, overflow>>
              /\ Artifacts(t + 1) = Artifacts(t) + IF m = "artifact" THEN 1 ELSE 0
    BY <2>1, <2>2, TakenIsHeard
  <2>4. CASE EndWith("terminated")
    BY <2>3, <2>4, <1>u
  <2>5. CASE m = "ready" /\ Stay("waiting")
    <3>1. t = 0 /\ headers = 0
      BY <2>2, <2>3 DEF Heard
    <3>2. /\ phase' = "waiting" /\ verdict' = "none"
      BY <2>2, <2>5 DEF Stay, FaithInv, QuietInv, PhaseKnows
    <3>3. Artifacts(1) = 0 /\ written[1] = "ready"
      BY <2>3, <2>5, <3>1, CountNone
    <3>4. Opened(1)' /\ Artifacts(1)' = 0
      BY <2>3, <3>3 DEF Opened, Artifacts
    <3>5. Heard(1)'
      BY <3>1, <3>2, <3>4, <2>1 DEF Heard
    <3> QED BY <3>1, <3>5, <2>3 DEF ChannelInv
  <2> QED BY <2>1, <2>4, <2>5
<1>2. CASE ReceiveReply
  <2>1. PICK m :
          /\ Take(m)
          /\ \/ m = "ready" /\ Stay("waiting") /\ headers' = headers
             \/ m = "artifact" /\ Stay("waiting") /\ headers' = headers + 1
             \/ m = "completed" /\ EndWith("completed") /\ headers' = headers
             \/ EndWith("terminated")
    BY <1>2 DEF ReceiveReply
  <2>2. phase = "waiting" /\ Receiving
    BY <1>2 DEF ReceiveReply, Receiving
  <2>3. PICK t \in 0 .. Len(written) :
              /\ InOrder(t) /\ Heard(t) /\ written[t + 1] = m
              /\ t + 1 \in 0 .. Len(written') /\ InOrder(t + 1)'
              /\ UNCHANGED <<written, overflow>>
              /\ Artifacts(t + 1) = Artifacts(t) + IF m = "artifact" THEN 1 ELSE 0
    BY <2>1, <2>2, TakenIsHeard
  <2>4. t \in Nat /\ Opened(t) /\ headers = Artifacts(t) /\ Artifacts(t) \in Nat
    BY <2>2, <2>3, CountOne DEF Heard
  <2>5. CASE EndWith("terminated")
    BY <2>3, <2>5, <1>u
  <2>6. CASE m \in {"ready", "artifact"} /\ Stay("waiting")
             /\ headers' = headers + IF m = "artifact" THEN 1 ELSE 0
    <3>1. phase' = "waiting" /\ verdict' = "none"
      BY <2>2, <2>6 DEF Stay, FaithInv, QuietInv, PhaseKnows
    <3>2. Opened(t + 1)
      BY <2>3, <2>4, <2>6 DEF Opened
    <3>3. Opened(t + 1)' /\ Artifacts(t + 1)' = Artifacts(t + 1)
      BY <3>2, <2>3 DEF Opened, Artifacts
    <3>4. headers' = Artifacts(t + 1)
      BY <2>3, <2>4, <2>6
    <3>5. t + 1 # 0
      BY <2>4
    <3>6. Heard(t + 1)'
      BY <3>1, <3>3, <3>4, <3>5 DEF Heard
    <3> QED BY <3>6, <2>3 DEF ChannelInv
  <2>7. CASE m = "completed" /\ EndWith("completed") /\ headers' = headers
    <3>1. phase' = "kill" /\ verdict' = "completed"
      BY <2>7 DEF EndWith
    <3>2. t + 1 >= 2 /\ t + 1 - 1 = t
      BY <2>4 DEF Opened
    <3>3. Opened(t)' /\ headers' = Artifacts(t)' /\ written'[t + 1] = "completed"
      BY <2>3, <2>4, <2>7 DEF Opened, Artifacts
    <3>4. Heard(t + 1)'
      BY <3>1, <3>2, <3>3 DEF Heard
    <3> QED BY <3>4, <2>3 DEF ChannelInv
  <2>8. headers \in Nat
    BY DEF FaithInv, TypeInv, TypeOK
  <2> QED BY <2>1, <2>5, <2>6, <2>7, <2>8
<1>3. CASE SendCancel
  <2>1. CASE EndWith("terminated")
    BY <2>1, <1>3, <1>u DEF SendCancel, streams
  <2>2. CASE phase' = "cancelling" /\ verdict' = verdict
    BY <1>0, <2>2, <1>3, ChannelUndisturbed DEF SendCancel, worker, streams, parser
  <2> QED BY <1>3, <2>1, <2>2 DEF SendCancel
<1>4. CASE ReceiveAcknowledgement
  <2>1. PICK m :
          /\ Take(m) /\ headers' = headers
          /\ Stay("cancelling") \/ EndWith("acknowledged") \/ EndWith("terminated")
    BY <1>4 DEF ReceiveAcknowledgement
  <2>2. phase = "cancelling" /\ Receiving
    BY <1>4 DEF ReceiveAcknowledgement, Receiving
  <2>3. PICK t \in 0 .. Len(written) :
              /\ InOrder(t) /\ Heard(t) /\ written[t + 1] = m
              /\ t + 1 \in 0 .. Len(written') /\ InOrder(t + 1)'
              /\ UNCHANGED <<written, overflow>>
              /\ Artifacts(t + 1) = Artifacts(t) + IF m = "artifact" THEN 1 ELSE 0
    BY <2>1, <2>2, TakenIsHeard
  <2>4. CASE EndWith("acknowledged") \/ EndWith("terminated")
    BY <2>3, <2>4, <1>u
  <2>5. CASE Stay("cancelling")
    <3>1. phase' = "cancelling" /\ verdict' = "none"
      BY <2>2, <2>5 DEF Stay, FaithInv, QuietInv, PhaseKnows
    <3>2. Heard(t + 1)'
      BY <3>1 DEF Heard
    <3> QED BY <3>2, <2>3 DEF ChannelInv
  <2> QED BY <2>1, <2>4, <2>5
<1>5. CASE GiveUp
  BY <1>5, <1>u DEF GiveUp, streams
<1>6. CASE Parse
  <2> SUFFICES ASSUME ~overflow', verdict' \in {"none", "completed"}
               PROVE  \E t \in 0 .. Len(written') : InOrder(t)' /\ Heard(t)'
    BY DEF ChannelInv
  <2>1. UNCHANGED <<written, overflow, phase, verdict, headers>>
    BY <1>6 DEF Parse, worker, streams, control
  <2>2. PICK t \in 0 .. Len(written) : InOrder(t) /\ Heard(t)
    BY <1>0, <2>1 DEF ChannelInv
  <2>3. t \in 0 .. Len(written') /\ InOrder(t)'
    BY <1>6, <2>2, ParseInOrder DEF FaithInv
  <2>4. Heard(t)'
    BY <2>1, <2>2 DEF Heard, Opened, Artifacts
  <2> QED BY <2>3, <2>4
<1>7. CASE ParseFails
  BY <1>7, <1>u DEF ParseFails, streams
<1>8. CASE RaiseCancel
  BY <1>0, <1>8, ChannelUndisturbed DEF RaiseCancel, worker, streams, parser
<1>9. CASE Expire
  BY <1>0, <1>9, ChannelUndisturbed DEF Expire, worker, streams, parser
<1> QED BY <1>1, <1>2, <1>3, <1>4, <1>5, <1>6, <1>7, <1>8, <1>9

\* After the last message nothing is taken any more, and the artifacts are
\* forgotten only without a completion.
LEMMA EndingKeepsChannel ==
    ASSUME FaithInv,
           \/ EmptyStage \/ RemoveStage \/ Kill \/ KillFails
           \/ ReadersSettled \/ ReadersRefuse \/ FindTrailing \/ DrainExpires
           \/ Accept
    PROVE  ChannelInv'
<1>0. ChannelInv
  BY DEF FaithInv
<1>r. ASSUME Reject("terminated") \/ Reject("trailing") PROVE ChannelInv'
  BY <1>0, <1>r, ChannelUndisturbed DEF Reject, streams
<1>1. CASE EmptyStage
  BY <1>0, <1>1, ChannelUndisturbed DEF EmptyStage, worker, streams, parser, control
<1>2. CASE RemoveStage
  <2>1. verdict' \notin {"none", "completed"} /\ overflow' = overflow
    BY <1>2 DEF RemoveStage, FaithInv, StageInv, streams
  <2> QED BY <1>0, <2>1, ChannelUndisturbed
<1>3. CASE Kill
  BY <1>0, <1>3, ChannelUndisturbed DEF Kill, streams, parser
<1>4. CASE KillFails \/ ReadersRefuse \/ FindTrailing \/ DrainExpires
  BY <1>4, <1>r DEF KillFails, ReadersRefuse, FindTrailing, DrainExpires
<1>5. CASE ReadersSettled
  BY <1>0, <1>5, ChannelUndisturbed DEF ReadersSettled, worker, streams, parser
<1>6. CASE Accept
  BY <1>0, <1>6, ChannelUndisturbed DEF Accept, worker, streams, parser
<1> QED BY <1>1, <1>2, <1>3, <1>4, <1>5, <1>6
LEMMA FaithStarts == Init => FaithInv
<1> SUFFICES ASSUME Init PROVE FaithInv
  OBVIOUS
<1>1. QuietInv
  BY DEF Init, QuietInv, ReadersAtEnd, PhaseKnows, AcceptedIsQuiet, Outcome, Receiving
<1>2. StageInv
  BY DEF Init, StageInv, Receiving, Phase
<1>3. ChannelInv
  <2>1. written = <<>> /\ pipe = <<>> /\ inbound = <<>> /\ pending = <<>> /\ ~carry
        /\ phase = "handshake" /\ headers = 0 /\ verdict = "none"
    BY DEF Init
  <2>2. PICK cut : cut = [k \in 1 .. 1 |-> 0]
    OBVIOUS
  <2>3. cut \in [1 .. 1 -> Nat] /\ cut[1] = 0
    BY <2>2
  <2>4. Cuts(cut)
    BY <2>1, <2>3 DEF Cuts
  <2>5. Parsed(0, cut[1])
    BY <2>1, <2>3 DEF Parsed
  <2>6. Heard(0)
    BY <2>1 DEF Heard
  <2>7. cut[1] <= Len(written) /\ 0 \in 0 .. Len(written)
    BY <2>1, <2>3
  <2>8. InOrder(0)
    BY <2>4, <2>5, <2>7 DEF InOrder
  <2> QED BY <2>6, <2>7, <2>8 DEF ChannelInv
<1> QED BY <1>1, <1>2, <1>3, TypeStarts DEF FaithInv

LEMMA FaithIsKept == FaithInv /\ [Next]_vars => FaithInv'
<1>1. FaithInv /\ [Next]_vars => TypeInv' /\ QuietInv' /\ StageInv'
  BY TypeIsKept, QuietIsKept, StageIsKept DEF FaithInv
<1>2. FaithInv /\ UNCHANGED vars => ChannelInv'
  BY ChannelUndisturbed DEF FaithInv, vars, worker, streams, parser, control
<1>3. FaithInv /\ Next => ChannelInv'
  BY WorkerKeepsChannel, ReadersKeepChannel, ReceivingKeepsChannel, EndingKeepsChannel
     DEF Next, Supervise
<1> QED BY <1>1, <1>2, <1>3 DEF FaithInv

\* Of an accepted completion everything that was written has been parsed.
LEMMA AcceptedIsFaithful == FaithInv => CompletionIsFaithful
<1> SUFFICES ASSUME FaithInv, Outcome = "completed"
             PROVE  \E i \in DOMAIN written :
                       /\ written[i] = "completed" /\ written[1] = "ready"
                       /\ \A j \in 1 .. i - 1 : written[j] \in {"ready", "artifact"}
                       /\ \A j \in i + 1 .. Len(written) : written[j] = "bytes"
                       /\ headers = Cardinality({j \in 1 .. i - 1 : written[j] = "artifact"})
  BY DEF CompletionIsFaithful, FaithInv, TypeInv
<1>1. /\ verdict = "completed" /\ ~overflow
      /\ pipe = <<>> /\ inbound = <<>> /\ pending = <<>>
  BY DEF Outcome, FaithInv, QuietInv, AcceptedIsQuiet
<1>2. PICK t \in 0 .. Len(written) : InOrder(t) /\ Heard(t)
  BY <1>1 DEF FaithInv, ChannelInv
<1>3. /\ t >= 2 /\ written[t] = "completed"
      /\ Opened(t - 1) /\ headers = Artifacts(t - 1)
  BY <1>1, <1>2 DEF Heard
<1>4. written \in Seq(Kind) /\ Len(written) \in Nat /\ DOMAIN written = 1 .. Len(written)
  BY DEF FaithInv, TypeInv, TypeOK
<1>5. t \in DOMAIN written
  BY <1>2, <1>3, <1>4
<1>6. PICK cut : Cuts(cut) /\ cut[1] <= Len(written) /\ Parsed(t, cut[1])
  BY <1>2 DEF InOrder
<1>7. cut[1] = Len(written)
  <2>1. Len(inbound) + 1 = 1 /\ Len(pipe) = 0
    BY <1>1
  <2>2. cut \in [1 .. 1 -> Nat] /\ Len(written) = cut[1] + 0
    BY <2>1, <1>6 DEF Cuts
  <2> QED BY <2>2
<1>8. \A j \in t + 1 .. Len(written) : written[j] = "bytes"
  <2>1. Len(pending) = 0 /\ t + 0 = t
    BY <1>1, <1>5, <1>4
  <2> QED BY <2>1, <1>6, <1>7 DEF Parsed
<1> QED BY <1>3, <1>5, <1>8 DEF Opened, Artifacts

\* receive_request_envelope and verify_no_trailing_frames: a completion is
\* accepted only from a worker that was ready first, wrote nothing but
\* progress and artifacts before it and no message after it, with exactly the
\* artifacts it reported, however the output was cut into chunks and whenever
\* it came.
THEOREM CompletionsAreFaithful == Spec => []CompletionIsFaithful
<1> QED BY FaithStarts, FaithIsKept, AcceptedIsFaithful, PTL DEF Spec

-----------------------------------------------------------------------------

CancelInv == FaithInv /\ AskedInv /\ AcknowledgedInv

\* Whatever leaves the verdict alone, or settles on another one, keeps what is
\* known of an acknowledgement: what is written stays written.
LEMMA AcknowledgementStays ==
    ASSUME AcknowledgedInv, asked => asked',
           \A e : Contains(written, e) => Contains(written', e),
           phase' = "cancelling" => asked' \/ phase = "cancelling",
           verdict' = "acknowledged" => verdict = "acknowledged"
    PROVE  AcknowledgedInv'
BY DEF AcknowledgedInv

LEMMA AcknowledgedIsKept == CancelInv /\ [Next]_vars => AcknowledgedInv'
<1> SUFFICES ASSUME CancelInv, [Next]_vars PROVE AcknowledgedInv'
  OBVIOUS
<1>0. AcknowledgedInv /\ FaithInv
  BY DEF CancelInv
<1>s. ASSUME written' = written PROVE \A e : Contains(written, e) => Contains(written', e)
  BY <1>s
<1>u. ASSUME UNCHANGED <<written, asked, phase, verdict>> PROVE AcknowledgedInv'
  BY <1>0, <1>u DEF AcknowledgedInv
<1>r. ASSUME Reject("terminated") \/ Reject("trailing") PROVE AcknowledgedInv'
  BY <1>0, <1>r, <1>s, AcknowledgementStays DEF Reject, worker
<1>1. CASE Worker
  <2>1. ASSUME NEW m \in Wire, Write(m) PROVE AcknowledgedInv'
    <3>1. written' = Append(written, m) /\ UNCHANGED <<asked, phase, verdict>>
      BY <2>1 DEF Write, control
    <3>2. written \in Seq(Kind) /\ m \in Kind
      BY <1>0, WireAssumption DEF FaithInv, TypeInv, TypeOK
    <3>3. \A e : Contains(written, e) => Contains(written', e)
      BY <3>1, <3>2 DEF Contains
    <3> QED BY <1>0, <3>1, <3>3, AcknowledgementStays
  <2>2. CASE FloodStderr \/ WriteFile \/ Fork \/ HolderExits
    BY <2>2, <1>u DEF FloodStderr, WriteFile, Fork, HolderExits, worker, control
  <2>3. ASSUME NEW e \in {"exited", "signalled"}, Exit(e) PROVE AcknowledgedInv'
    BY <2>3, <1>u DEF Exit, control
  <2> QED BY <1>1, <2>1, <2>2, <2>3 DEF Worker
<1>2. CASE Readers
  BY <1>2, <1>u DEF Readers, ReadStdout, StdoutEnds, ReadStderr, StderrEnds, worker, control
<1>3. CASE Handshake \/ ReceiveReply
  <2>1. /\ UNCHANGED <<written, asked>> /\ verdict' # "acknowledged"
        /\ phase' # "cancelling"
    BY <1>3, <1>0 DEF Handshake, ReceiveReply, Take, Stay, EndWith, Receiving, worker,
                      FaithInv, QuietInv, PhaseKnows
  <2> QED BY <1>0, <2>1, <1>s, AcknowledgementStays
<1>4. CASE SendCancel
  <2>1. /\ written' = written /\ (asked => asked') /\ (phase' = "cancelling" => asked')
        /\ verdict' # "acknowledged"
    <3>1. written' = written /\ verdict = "none"
      BY <1>4, <1>0 DEF SendCancel, Receiving, worker, FaithInv, QuietInv, PhaseKnows
    <3>2. \/ phase' = "cancelling" /\ asked' /\ verdict' = verdict
          \/ phase' = "discard" /\ asked' = asked /\ verdict' = "terminated"
      BY <1>4 DEF SendCancel, EndWith
    <3> QED BY <3>1, <3>2
  <2> QED BY <1>0, <2>1, <1>s, AcknowledgementStays
<1>5. CASE ReceiveAcknowledgement
  <2>1. PICK m :
          /\ Take(m)
          /\ \/ Stay("cancelling")
             \/ m = "cancelled" /\ EndWith("acknowledged")
             \/ EndWith("terminated")
    BY <1>5 DEF ReceiveAcknowledgement
  <2>2. phase = "cancelling" /\ Receiving /\ asked /\ verdict = "none"
    BY <1>5, <1>0 DEF ReceiveAcknowledgement, Receiving, AcknowledgedInv, FaithInv,
                      QuietInv, PhaseKnows
  <2>3. asked' = asked /\ written' = written
    BY <2>1 DEF Take, Stay, EndWith, worker
  <2>4. CASE Stay("cancelling") \/ EndWith("terminated")
    BY <1>0, <2>2, <2>3, <2>4, <1>s, AcknowledgementStays DEF Stay, EndWith
  <2>5. CASE m = "cancelled" /\ EndWith("acknowledged")
    <3>1. PICK t \in 0 .. Len(written) :
              written[t + 1] = m /\ t + 1 \in 0 .. Len(written')
      BY <1>0, <2>1, <2>2, TakenIsHeard
    <3>2. t + 1 \in 1 .. Len(written)
      BY <1>0, <2>3, <3>1 DEF FaithInv, TypeInv, TypeOK
    <3>3. Contains(written, "cancelled")
      BY <2>5, <3>1, <3>2 DEF Contains
    <3>4. verdict' = "acknowledged" /\ phase' = "discard"
      BY <2>5 DEF EndWith
    <3> QED BY <2>2, <2>3, <3>3, <3>4 DEF AcknowledgedInv
  <2> QED BY <2>1, <2>4, <2>5
<1>6. CASE GiveUp \/ ParseFails
  <2>1. /\ UNCHANGED <<written, asked>> /\ verdict' = "terminated" /\ phase' = "discard"
    BY <1>6 DEF GiveUp, ParseFails, EndWith, worker
  <2> QED BY <1>0, <2>1, <1>s, AcknowledgementStays
<1>7. CASE Parse \/ RaiseCancel \/ Expire \/ EmptyStage
  BY <1>7, <1>u DEF Parse, RaiseCancel, Expire, EmptyStage, worker, control
<1>8. CASE RemoveStage \/ Kill \/ ReadersSettled \/ Accept
  <2>1. /\ UNCHANGED <<written, asked, verdict>> /\ phase' # "cancelling"
    BY <1>8 DEF RemoveStage, Kill, ReadersSettled, Accept, worker
  <2> QED BY <1>0, <2>1, <1>s, AcknowledgementStays
<1>9. CASE KillFails \/ ReadersRefuse \/ FindTrailing \/ DrainExpires
  BY <1>9, <1>r DEF KillFails, ReadersRefuse, FindTrailing, DrainExpires
<1>10. CASE UNCHANGED vars
  BY <1>10, <1>u DEF vars, worker, control
<1> QED BY <1>1, <1>2, <1>3, <1>4, <1>5, <1>6, <1>7, <1>8, <1>9, <1>10
        DEF Next, Supervise

\* cancel_with_deadline: once the cancellation is sent, no completion is
\* accepted, and it counts as acknowledged only if the worker wrote so.
THEOREM CancellationWins == Spec => []CancelWins
<1>1. Init => CancelInv
  BY FaithStarts DEF Init, CancelInv, AskedInv, AcknowledgedInv, Receiving
<1>2. CancelInv /\ [Next]_vars => CancelInv'
  BY FaithIsKept, AskedIsKept, AcknowledgedIsKept DEF CancelInv
<1>3. CancelInv => CancelWins
  BY DEF CancelInv, AskedInv, AcknowledgedInv, CancelWins, NoCompletionAfterCancel, Outcome
<1> QED BY <1>1, <1>2, <1>3, PTL DEF Spec
=============================================================================
