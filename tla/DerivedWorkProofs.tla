-------------------------- MODULE DerivedWorkProofs --------------------------
(***************************************************************************)
(* Proofs about derived geometry, for any number of hosts, stages and      *)
(* generations: what is committed or kept for recovery is of the base it   *)
(* names, and the stage of a committed request is not copied with it.      *)
(*                                                                         *)
(* The argument is a squeeze.  A request starts from a revision, its       *)
(* worker reads a later one or the same, and the log only grows: when the  *)
(* fence finds the first still current, the second is it.  What carries    *)
(* the revision read from the worker to the commit is a file in a stage    *)
(* that nobody else writes, because a stage has one owner.                 *)
(***************************************************************************)
EXTENDS DerivedWork, SequenceTheorems, TLAPS

Phases == {"idle", "create", "read", "open", "write", "accept", "verify", "publish",
           "accepted", "compare", "append", "publishing", "stale", "failed"}
Files == {"none", "empty", "partial", "verified", "final"}
Contents == [file : Files, base : Nat]
Calls == [at : Phases, source : Nat, stage : Stage \cup {None}, own : Nat, base : Nat,
          pin : Nat]
Trees == [no : Nat, work : [Stage -> Contents]]
Entries == [stage : Stage \cup {None}, source : Nat, found : Contents]
CacheEntries == [source : Nat, stage : Stage, base : Nat]
Retentions == [stage : Stage, source : Nat, current : Nat, base : Nat]
Publications == [by : Host \cup {None}, work : [Stage -> Contents], entries : Seq(Entries)]

\* A request has its stage from the creation of it to its end.
Working(h) == call[h].at \notin {"idle", "create", "failed"}

TypeOK ==
    /\ log \in Seq(Entries)
    /\ root \in Trees /\ prev \in Trees
    /\ lock \in Publications \cup {None}
    /\ spare \in SUBSET Stage
    /\ cache \in [Host -> CacheEntries \cup {None}]
    /\ retained \in [Host -> Retentions \cup {None}]
    /\ call \in [Host -> Calls]
    /\ \A h \in Host : Working(h) => call[h].stage \in Stage

Owns(h, s) ==
    \/ Working(h) /\ call[h].stage = s
    \/ cache[h] # None /\ cache[h].stage = s

IsKept(s) == \E h \in Host : retained[h] # None /\ retained[h].stage = s
IsCommitted(s) == \E i \in DOMAIN log : log[i].stage = s

\* A stage is one host's at most, and nobody's once its result is committed or
\* kept.  The cache forgets a stage before its result is appended.
Ownership ==
    /\ \A h, k \in Host, s \in Stage : Owns(h, s) /\ Owns(k, s) => h = k
    /\ \A h \in Host, s \in Stage :
          Owns(h, s) => s \notin spare /\ ~IsKept(s) /\ ~IsCommitted(s)
    /\ \A s \in spare : ~IsKept(s) /\ ~IsCommitted(s)
    /\ \A h \in Host : call[h].at \in {"append", "publishing", "stale"} => cache[h] = None

\* A request starts from a revision that is not later than the one its worker
\* reads, and neither is later than the log.
HasBase(h) == call[h].at \notin {"idle", "create", "read", "failed"}

Squeezed ==
    /\ Revision >= 1
    /\ \A h \in Host :
          /\ call[h].at # "idle" => call[h].source \in 1 .. Revision
          /\ HasBase(h) => call[h].base \in call[h].source .. Revision
          /\ call[h].at = "stale" => call[h].source # Revision
          /\ cache[h] # None =>
                cache[h].source \in 1 .. Revision /\ cache[h].base \in cache[h].source .. Revision

\* Generations are consecutive, and no handle is into a later one than the root.
Numbered ==
    /\ root.no = prev.no + 1
    /\ \A h \in Host : call[h].pin <= root.no

\* A verified copy is of the base its request names; the stage of a request
\* that is being appended is gone, if its generation is still the root.
Holding(h) ==
    /\ call[h].at = "publish" /\ Found(h).file = "verified" => Found(h).base = call[h].base
    /\ call[h].at \in {"append", "publishing"} /\ call[h].pin = root.no
         => root.work[call[h].stage] = NoStage

StagesHold == \A h \in Host : Holding(h)

\* A publication under way brings one result of the current revision, or none.
PublicationHolds ==
    lock # None =>
        /\ lock.by \in Host =>
              /\ call[lock.by].at = "publishing"
              /\ lock.entries =
                    <<Result(call[lock.by].stage, Revision, Holds("final", Revision))>>
              /\ call[lock.by].pin = root.no => lock.work[call[lock.by].stage] = NoStage
        /\ lock.by = None => lock.entries \in {<<Transaction>>, <<>>}

WorkInv == TypeOK /\ Ownership /\ Squeezed /\ Numbered /\ StagesHold /\ PublicationHolds
           /\ ResultsAreOfTheirBase

-----------------------------------------------------------------------------

\* Writing a stage changes it in the generation of the handle and nothing else.
LEMMA WriteChanges ==
    ASSUME root \in Trees, prev \in Trees,
           NEW n, NEW s \in Stage, NEW c \in Contents, Write(n, s, c)
    PROVE  /\ root' \in Trees /\ root'.no = root.no
           /\ prev' \in Trees /\ prev'.no = prev.no
           /\ root'.work = IF n = root.no THEN [root.work EXCEPT ![s] = c] ELSE root.work
           /\ prev'.work = IF n = prev.no THEN [prev.work EXCEPT ![s] = c] ELSE prev.work
BY DEF Write, InTree, Trees

LEMMA WriteAt ==
    ASSUME root \in Trees, prev \in Trees,
           NEW n, NEW s \in Stage, NEW c \in Contents, Write(n, s, c)
    PROVE  /\ root'.no = root.no /\ prev'.no = prev.no
           /\ \A t \in Stage :
                /\ root'.work[t] = IF t = s /\ n = root.no THEN c ELSE root.work[t]
                /\ prev'.work[t] = IF t = s /\ n = prev.no THEN c ELSE prev.work[t]
<1>1. root.work \in [Stage -> Contents] /\ prev.work \in [Stage -> Contents]
  BY DEF Trees
<1>2. /\ root'.no = root.no /\ prev'.no = prev.no
      /\ root'.work = IF n = root.no THEN [root.work EXCEPT ![s] = c] ELSE root.work
      /\ prev'.work = IF n = prev.no THEN [prev.work EXCEPT ![s] = c] ELSE prev.work
  BY WriteChanges
<1> QED BY <1>1, <1>2

LEMMA ContentsTyped ==
    /\ NoStage \in Contents /\ Empty \in Contents
    /\ \A b \in Nat : \A f \in Files : Holds(f, b) \in Contents
BY DEF NoStage, Empty, Holds, Half, Contents, Files

\* What a handle finds is the contents of a stage.
LEMMA FoundTyped ==
    ASSUME TypeOK, NEW h \in Host, Working(h)
    PROVE  /\ Found(h) \in Contents
           /\ \A s \in Stage : root.work[s] \in Contents
BY ContentsTyped DEF Found, At, TypeOK, Trees

LEMMA RequestKeepsType ==
    ASSUME TypeOK, NEW h \in Host,
           \/ Request(h) \/ CreateStage(h) \/ ReadBase(h) \/ OpenOutput(h)
           \/ FinishOutput(h) \/ WorkerFails(h)
    PROVE  TypeOK'
<1> USE DEF TypeOK, Working, trees
<1>0. Revision \in Nat
  BY DEF Revision
<1>1. CASE Request(h)
  BY <1>0, <1>1 DEF Request, Idle, Calls, Phases
<1>2. CASE CreateStage(h)
  <2>1. PICK s \in spare : /\ spare' = spare \ {s}
                           /\ Write(root.no, s, Empty)
                           /\ call' = [call EXCEPT ![h].at = "read", ![h].stage = s,
                                                   ![h].own = root.no]
    BY <1>2 DEF CreateStage
  <2>2. root' \in Trees /\ prev' \in Trees /\ root.no \in Nat
    BY <2>1, WriteChanges, ContentsTyped DEF Trees
  <2>3. s \in Stage /\ call[h] \in Calls
    BY <2>1
  <2>5. [call[h] EXCEPT !.at = "read", !.stage = s, !.own = root.no] \in Calls
    BY <2>2, <2>3 DEF Calls, Phases
  <2>6. call' \in [Host -> Calls]
    BY <2>1, <2>5
  <2>4. \A k \in Host : Working(k)' => call'[k].stage \in Stage
    BY <2>1 DEF Calls
  <2> QED BY <1>2, <2>1, <2>2, <2>6, <2>4 DEF CreateStage
<1>3. CASE ReadBase(h)
  <2>1. /\ call' = [call EXCEPT ![h].at = "open", ![h].base = Revision]
        /\ UNCHANGED <<log, root, prev, lock, spare, cache, retained>>
        /\ call[h].at = "read"
    BY <1>3 DEF ReadBase
  <2>2. [call[h] EXCEPT !.at = "open", !.base = Revision] \in Calls
    BY <1>0 DEF Calls, Phases
  <2>3. call' \in [Host -> Calls]
    BY <2>1, <2>2
  <2>4. \A k \in Host : Working(k)' => call'[k].stage \in Stage
    BY <2>1 DEF Calls
  <2> QED BY <2>1, <2>3, <2>4
<1>4. CASE OpenOutput(h)
  <2>1. /\ Write(root.no, call[h].stage, Holds("partial", Half))
        /\ call' = [call EXCEPT ![h].at = "write", ![h].pin = root.no]
        /\ UNCHANGED <<log, lock, spare, cache, retained>> /\ call[h].at = "open"
    BY <1>4 DEF OpenOutput
  <2>2. call[h] \in Calls /\ call[h].stage \in Stage /\ root.no \in Nat
    BY <2>1 DEF Trees
  <2>3. Holds("partial", Half) \in Contents
    BY ContentsTyped DEF Files, Half
  <2>4. root' \in Trees /\ prev' \in Trees
    BY <2>1, <2>2, <2>3, WriteChanges
  <2>5. [call[h] EXCEPT !.at = "write", !.pin = root.no] \in Calls
    BY <2>2 DEF Calls, Phases
  <2>6. call' \in [Host -> Calls]
    BY <2>1, <2>5
  <2>7. \A k \in Host : Working(k)' => call'[k].stage \in Stage
    BY <2>1, <2>2
  <2> QED BY <2>1, <2>4, <2>6, <2>7
<1>5. CASE FinishOutput(h)
  <2> DEFINE written == IF Found(h) = NoStage THEN NoStage
                        ELSE Holds("partial", call[h].base)
  <2>1. /\ Write(call[h].pin, call[h].stage, written)
        /\ call' = [call EXCEPT ![h].at = "accept"]
        /\ UNCHANGED <<log, lock, spare, cache, retained>> /\ call[h].at = "write"
    BY <1>5 DEF FinishOutput, Goto
  <2>2. call[h] \in Calls /\ call[h].stage \in Stage /\ call[h].base \in Nat
    BY <2>1 DEF Calls
  <2>3. written \in Contents
    BY <2>2, ContentsTyped DEF Files
  <2> HIDE DEF written
  <2>4. root' \in Trees /\ prev' \in Trees
    BY <2>1, <2>2, <2>3, WriteChanges
  <2>5. [call[h] EXCEPT !.at = "accept"] \in Calls
    BY <2>2 DEF Calls, Phases
  <2>6. call' \in [Host -> Calls]
    BY <2>1, <2>5
  <2>7. \A k \in Host : Working(k)' => call'[k].stage \in Stage
    BY <2>1, <2>2
  <2> QED BY <2>1, <2>4, <2>6, <2>7
<1>6. CASE WorkerFails(h)
  <2>1. /\ Write(call[h].own, call[h].stage, NoStage) /\ call' = [call EXCEPT ![h] = Idle]
        /\ UNCHANGED <<log, lock, spare, cache, retained>>
        /\ call[h].at \in {"read", "open", "write"}
    BY <1>6 DEF WorkerFails, End
  <2>2. call[h].stage \in Stage /\ Idle \in Calls
    BY <2>1 DEF Idle, Calls, Phases
  <2>3. root' \in Trees /\ prev' \in Trees
    BY <2>1, <2>2, WriteChanges, ContentsTyped
  <2>4. call' \in [Host -> Calls]
    BY <2>1, <2>2
  <2>5. \A k \in Host : Working(k)' => call'[k].stage \in Stage
    BY <2>1 DEF Idle
  <2> QED BY <2>1, <2>3, <2>4, <2>5
<1> QED BY <1>1, <1>2, <1>3, <1>4, <1>5, <1>6

LEMMA AcceptanceKeepsType ==
    ASSUME TypeOK, NEW h \in Host,
           \/ OpenAccepted(h) \/ VerifyStaged(h) \/ RejectStaged(h)
           \/ ServeCached(h) \/ PublishVerified(h) \/ EndPreview(h)
    PROVE  TypeOK'
<1> USE DEF TypeOK, Working
<1>0. /\ call[h] \in Calls /\ root.no \in Nat /\ Idle \in Calls
      /\ Working(h) => Found(h).base \in Nat /\ \A s \in Stage : root.work[s] \in Contents
  BY FoundTyped DEF Trees, Idle, Calls, Phases, Contents
<1>1. CASE OpenAccepted(h)
  <2>1. root' \in Trees /\ prev' \in Trees
    BY <1>0, <1>1, WriteChanges, ContentsTyped DEF OpenAccepted
  <2>2. [call[h] EXCEPT !.at = "verify", !.pin = root.no, !.own = 0] \in Calls
    BY <1>0 DEF Calls, Phases
  <2> QED BY <1>1, <2>1, <2>2 DEF OpenAccepted
<1>2. CASE VerifyStaged(h)
  <2>1. root' \in Trees /\ prev' \in Trees
    BY <1>0, <1>2, WriteChanges, ContentsTyped DEF VerifyStaged, Files
  <2>2. [call[h] EXCEPT !.at = "publish"] \in Calls
    BY <1>0 DEF Calls, Phases
  <2> QED BY <1>2, <2>1, <2>2 DEF VerifyStaged, Goto
<1>3. CASE RejectStaged(h)
  <2>1. root' \in Trees /\ prev' \in Trees
    BY <1>0, <1>3, WriteChanges, ContentsTyped DEF RejectStaged, Clear
  <2> QED BY <1>0, <1>3, <2>1 DEF RejectStaged, End, Idle
<1>4. CASE ServeCached(h)
  <2>1. root' \in Trees /\ prev' \in Trees
    BY <1>0, <1>4, WriteChanges, ContentsTyped DEF ServeCached, Clear
  <2>2. cache[h] \in CacheEntries
    BY <1>4 DEF ServeCached, Hit
  <2>3. [call[h] EXCEPT !.at = "accepted", !.stage = cache[h].stage,
                        !.base = cache[h].base, !.pin = 0] \in Calls
    BY <1>0, <2>2 DEF Calls, Phases, CacheEntries
  <2> QED BY <1>4, <2>1, <2>2, <2>3 DEF ServeCached, Accept, CacheEntries
<1>5. CASE PublishVerified(h)
  <2>1. root' \in Trees /\ prev' \in Trees
    BY <1>0, <1>5, WriteChanges, ContentsTyped DEF PublishVerified, Link, Files
  <2>2. call[h].stage \in Stage /\ Found(h).base \in Nat
    BY <1>0, <1>5 DEF PublishVerified
  <2>3. [call[h] EXCEPT !.at = "accepted", !.stage = call[h].stage,
                        !.base = Found(h).base, !.pin = 0] \in Calls
    BY <1>0, <2>2 DEF Calls, Phases
  <2>4. [source |-> call[h].source, stage |-> call[h].stage, base |-> Found(h).base]
           \in CacheEntries
    BY <1>0, <2>2 DEF CacheEntries, Calls
  <2>5. cache' \in [Host -> CacheEntries \cup {None}]
    BY <1>5, <2>4 DEF PublishVerified
  <2> QED BY <1>5, <2>1, <2>2, <2>3, <2>5 DEF PublishVerified, Accept
<1>6. CASE EndPreview(h)
  <2>1. root' \in Trees /\ prev' \in Trees
    BY <1>0, <1>6, WriteChanges, ContentsTyped DEF EndPreview
  <2> QED BY <1>0, <1>6, <2>1 DEF EndPreview, End, Uncache, Idle
<1> QED BY <1>1, <1>2, <1>3, <1>4, <1>5, <1>6

LEMMA PromotionKeepsType ==
    ASSUME TypeOK, NEW h \in Host,
           \/ OpenPromoted(h) \/ ConsumeStage(h) \/ RefuseStale(h) \/ PromotionFails(h)
           \/ RetainOutdated(h) \/ Reconcile(h) \/ RefuseAppend(h) \/ Crash(h)
    PROVE  TypeOK'
<1> USE DEF TypeOK, Working, trees
<1>a. call[h] \in Calls /\ root.no \in Nat /\ Revision \in Nat
  BY DEF Trees, Revision
<1>b. Idle \in Calls
  BY DEF Idle, Calls, Phases
<1>c. \A a \in Phases : [call[h] EXCEPT !.at = a] \in Calls
  BY <1>a DEF Calls
<1>0. /\ call[h] \in Calls /\ root.no \in Nat /\ Idle \in Calls /\ Revision \in Nat
      /\ \A a \in Phases : [call[h] EXCEPT !.at = a] \in Calls
  BY <1>a, <1>b, <1>c
<1>1. CASE OpenPromoted(h)
  <2>1. [call[h] EXCEPT !.at = "compare", !.pin = root.no] \in Calls
    BY <1>a DEF Calls, Phases
  <2> QED BY <1>1, <2>1 DEF OpenPromoted
<1>2. CASE ConsumeStage(h)
  <2>1. root' \in Trees /\ prev' \in Trees
    BY <1>2, WriteChanges, ContentsTyped DEF ConsumeStage
  <2>2. [call[h] EXCEPT !.at = "append"] \in Calls
    BY <1>0 DEF Phases
  <2> QED BY <1>2, <2>1, <2>2 DEF ConsumeStage, Goto, Uncache
<1>3. ASSUME Retain(h), Working(h) PROVE retained' \in [Host -> Retentions \cup {None}]
  <2>1. [stage |-> call[h].stage, source |-> call[h].source, current |-> Revision,
         base |-> call[h].base] \in Retentions
    BY <1>0, <1>3 DEF Retentions, Calls
  <2> QED BY <1>3, <2>1 DEF Retain
<1>4. CASE RefuseStale(h)
  <2>1. root' \in Trees /\ prev' \in Trees
    BY <1>4, WriteChanges, ContentsTyped DEF RefuseStale
  <2>2. retained' \in [Host -> Retentions \cup {None}]
    BY <1>3, <1>4 DEF RefuseStale
  <2> QED BY <1>0, <1>4, <2>1, <2>2 DEF RefuseStale, End, Uncache, Idle
<1>5. CASE PromotionFails(h)
  BY <1>0, <1>5 DEF PromotionFails, End, Idle
<1>6. CASE RetainOutdated(h)
  <2>1. retained' \in [Host -> Retentions \cup {None}]
    BY <1>3, <1>6 DEF RetainOutdated, Outdated
  <2> QED BY <1>0, <1>6, <2>1 DEF RetainOutdated, End, Idle
<1>7. CASE Reconcile(h)
  BY <1>0, <1>7 DEF Reconcile, End, Idle
<1>8. CASE RefuseAppend(h)
  <2>1. PICK a \in {"failed", "stale"} : call' = [call EXCEPT ![h].at = a]
    BY <1>8 DEF RefuseAppend, Goto
  <2>2. [call[h] EXCEPT !.at = a] \in Calls
    BY <1>0 DEF Phases
  <2> QED BY <1>8, <2>1, <2>2 DEF RefuseAppend
<1>9. CASE Crash(h)
  BY <1>0, <1>9 DEF Crash, End, Uncache, Idle
<1> QED BY <1>1, <1>2, <1>4, <1>5, <1>6, <1>7, <1>8, <1>9

LEMMA PublicationKeepsType ==
    ASSUME TypeOK, 
           \/ \E h \in Host : CopyForAppend(h)
           \/ CopyForOthers \/ Rotate \/ AbortPublication
    PROVE  TypeOK'
<1> USE DEF TypeOK, Working, trees
<1>0. Idle \in Calls /\ Revision \in Nat /\ Transaction \in Entries
  BY ContentsTyped DEF Idle, Calls, Phases, Revision, Transaction, Result, Entries
<1>1. ASSUME NEW h \in Host, CopyForAppend(h) PROVE TypeOK'
  <2> DEFINE result == Result(call[h].stage, Revision, Holds("final", call[h].base))
  <2>1. call[h] \in Calls
    OBVIOUS
  <2>2. result \in Entries
    BY <1>0, <1>1, <2>1, ContentsTyped DEF CopyForAppend, Result, Entries, Calls, Files
  <2>3. lock' = [by |-> h, work |-> root.work, entries |-> <<result>>]
    BY <1>1 DEF CopyForAppend, Copy
  <2>4. lock' \in Publications
    BY <2>2, <2>3 DEF Publications, Trees
  <2>5. [call[h] EXCEPT !.at = "publishing"] \in Calls
    BY <2>1 DEF Calls, Phases
  <2> QED BY <1>1, <2>4, <2>5 DEF CopyForAppend, Copy, Goto
<1>2. CASE CopyForOthers
  <2>1. PICK entries \in {<<Transaction>>, <<>>} : Copy(None, entries)
    BY <1>2 DEF CopyForOthers
  <2>2. <<Transaction>> \in Seq(Entries) /\ <<>> \in Seq(Entries)
    BY <1>0
  <2>4. entries \in Seq(Entries)
    BY <2>1, <2>2
  <2>3. lock' \in Publications
    BY <2>1, <2>4 DEF Copy, Publications, Trees
  <2> QED BY <1>2, <2>1, <2>3 DEF CopyForOthers, Copy
<1>3. ASSUME NEW at \in {"idle", "failed"}, PublisherGoesTo(at), lock # None
      PROVE  /\ call' \in [Host -> Calls]
             /\ \A k \in Host : Working(k)' => call'[k].stage \in Stage
  <2>1. CASE lock.by = None
    BY <1>3, <2>1 DEF PublisherGoesTo
  <2>2. CASE lock.by # None
    <3>1. lock.by \in Host /\ call[lock.by] \in Calls
      BY <1>3, <2>2 DEF Publications
    <3> DEFINE next == IF at = "idle" THEN Idle ELSE [call[lock.by] EXCEPT !.at = at]
    <3>2. next \in Calls /\ next.at \in {"idle", "failed"}
      BY <1>0, <3>1 DEF Calls, Phases, Idle
    <3>3. call' = [call EXCEPT ![lock.by] = next]
      BY <1>3, <2>2 DEF PublisherGoesTo
    <3> HIDE DEF next
    <3> QED BY <3>1, <3>2, <3>3
  <2> QED BY <2>1, <2>2
<1>4. CASE Rotate
  <2>1. lock \in Publications /\ lock.work \in [Stage -> Contents] /\ lock.entries \in Seq(Entries)
    BY <1>4 DEF Rotate, Publications
  <2>2. root' \in Trees /\ prev' \in Trees
    BY <1>4, <2>1 DEF Rotate, Trees
  <2>3. log' \in Seq(Entries)
    BY <1>4, <2>1, ConcatProperties DEF Rotate
  <2> QED BY <1>3, <1>4, <2>2, <2>3 DEF Rotate
<1>5. CASE AbortPublication
  BY <1>3, <1>5 DEF AbortPublication
<1> QED BY <1>1, <1>2, <1>4, <1>5

LEMMA StepKeepsType == TypeOK /\ [Next]_vars => TypeOK'
<1> SUFFICES ASSUME TypeOK, [Next]_vars PROVE TypeOK'
  OBVIOUS
<1>1. CASE UNCHANGED vars
  BY <1>1 DEF TypeOK, Working, vars, trees
<1>2. CASE Next
  BY <1>2, RequestKeepsType, AcceptanceKeepsType, PromotionKeepsType, PublicationKeepsType
     DEF Next
<1> QED BY <1>1, <1>2

-----------------------------------------------------------------------------
(* Ownership of stages.                                                    *)

\* A step of one host that leaves the log and what is kept alone, and brings
\* the host no stage it did not own, leaves every stage its one owner.
LEMMA OwnersStay ==
    ASSUME TypeOK, TypeOK', Ownership, NEW h \in Host,
           log' = log, spare' = spare,
           \A k \in Host \ {h} :
              call'[k] = call[k] /\ cache'[k] = cache[k] /\ retained'[k] = retained[k],
           retained'[h] \in {retained[h], None},
           \A s \in Stage : Owns(h, s)' => Owns(h, s),
           call'[h].at \in {"append", "publishing", "stale"} => cache'[h] = None
    PROVE  Ownership'
<1>1. \A k \in Host, s \in Stage : Owns(k, s)' => Owns(k, s)
  BY DEF Owns, Working
<1>2. \A s \in Stage : IsKept(s)' => IsKept(s)
  BY DEF IsKept
<1>3. \A s \in Stage : IsCommitted(s)' <=> IsCommitted(s)
  BY DEF IsCommitted
<1>4. spare' \in SUBSET Stage /\ spare \in SUBSET Stage
  BY DEF TypeOK
<1>5. \A k \in Host : call'[k].at \in {"append", "publishing", "stale"} => cache'[k] = None
  BY DEF Ownership
<1> QED BY <1>1, <1>2, <1>3, <1>4, <1>5 DEF Ownership

LEMMA RequestKeepsOwners ==
    ASSUME TypeOK, TypeOK', Ownership, NEW h \in Host,
           \/ Request(h) \/ CreateStage(h) \/ ReadBase(h) \/ OpenOutput(h)
           \/ FinishOutput(h) \/ WorkerFails(h)
    PROVE  Ownership'
<1>0. call \in [Host -> Calls] /\ cache \in [Host -> CacheEntries \cup {None}]
  BY DEF TypeOK
<1>1. CASE Request(h)
  BY <1>0, <1>1, OwnersStay DEF Request, Owns, Working, Calls, Idle
<1>2. CASE CreateStage(h)
  <2>1. PICK s \in spare : /\ spare' = spare \ {s}
                           /\ call' = [call EXCEPT ![h].at = "read", ![h].stage = s,
                                                   ![h].own = root.no]
    BY <1>2 DEF CreateStage
  <2>2. log' = log /\ cache' = cache /\ retained' = retained /\ s \in Stage
    BY <1>2, <2>1 DEF CreateStage, TypeOK
  <2>3. \A k \in Host, t \in Stage : Owns(k, t)' => Owns(k, t) \/ (k = h /\ t = s)
    BY <1>0, <2>1, <2>2 DEF Owns, Working, Calls
  <2>4. \A t \in Stage : (IsKept(t)' <=> IsKept(t)) /\ (IsCommitted(t)' <=> IsCommitted(t))
    BY <2>2 DEF IsKept, IsCommitted
  <2>5. \A k \in Host : call'[k].at \in {"append", "publishing", "stale"} => cache'[k] = None
    BY <1>0, <2>1, <2>2 DEF Ownership, Calls
  <2> QED BY <2>1, <2>2, <2>3, <2>4, <2>5 DEF Ownership, TypeOK
<1>3. CASE ReadBase(h)
  BY <1>0, <1>3, OwnersStay DEF ReadBase, Owns, Working, Calls
<1>4. CASE OpenOutput(h)
  BY <1>0, <1>4, OwnersStay DEF OpenOutput, Owns, Working, Calls
<1>5. CASE FinishOutput(h)
  BY <1>0, <1>5, OwnersStay DEF FinishOutput, Goto, Owns, Working, Calls
<1>6. CASE WorkerFails(h)
  BY <1>0, <1>6, OwnersStay DEF WorkerFails, End, Idle, Owns, Working, Calls
<1> QED BY <1>1, <1>2, <1>3, <1>4, <1>5, <1>6

LEMMA AcceptanceKeepsOwners ==
    ASSUME TypeOK, TypeOK', Ownership, NEW h \in Host,
           \/ OpenAccepted(h) \/ VerifyStaged(h) \/ RejectStaged(h)
           \/ ServeCached(h) \/ PublishVerified(h) \/ EndPreview(h)
    PROVE  Ownership'
<1>0. call \in [Host -> Calls] /\ cache \in [Host -> CacheEntries \cup {None}]
  BY DEF TypeOK
<1>1. CASE OpenAccepted(h)
  BY <1>0, <1>1, OwnersStay DEF OpenAccepted, Owns, Working, Calls
<1>2. CASE VerifyStaged(h)
  BY <1>0, <1>2, OwnersStay DEF VerifyStaged, Goto, Owns, Working, Calls
<1>3. CASE RejectStaged(h)
  BY <1>0, <1>3, OwnersStay DEF RejectStaged, End, Idle, Owns, Working, Calls
<1>4. CASE ServeCached(h)
  BY <1>0, <1>4, OwnersStay DEF ServeCached, Hit, Accept, Owns, Working, Calls
<1>5. CASE PublishVerified(h)
  <2>1. \A s \in Stage : Owns(h, s)' => Owns(h, s)
    BY <1>0, <1>5 DEF PublishVerified, Accept, Owns, Working, Calls
  <2> QED BY <1>0, <1>5, <2>1, OwnersStay DEF PublishVerified, Accept, Calls
<1>6. CASE EndPreview(h)
  BY <1>0, <1>6, OwnersStay DEF EndPreview, Uncache, End, Idle, Owns, Working, Calls
<1> QED BY <1>1, <1>2, <1>3, <1>4, <1>5, <1>6

\* A stage whose result is kept for recovery is its host's no more.
LEMMA RetainKeepsOwners ==
    ASSUME TypeOK, TypeOK', Ownership, NEW h \in Host,
           Working(h), Retain(h), End(h), cache'[h] = None,
           \A k \in Host \ {h} : cache'[k] = cache[k],
           log' = log, spare' = spare
    PROVE  Ownership' /\ ~IsCommitted(call[h].stage)
<1>0. /\ call \in [Host -> Calls] /\ retained \in [Host -> Retentions \cup {None}]
      /\ spare \in SUBSET Stage /\ call[h].stage \in Stage
  BY DEF TypeOK
<1> DEFINE s == call[h].stage
<1>1. Owns(h, s)
  BY DEF Owns
<1>2. \A k \in Host, t \in Stage : Owns(k, t)' => k # h /\ Owns(k, t)
  BY <1>0 DEF End, Idle, Owns, Working
<1>3. \A t \in Stage : IsKept(t)' => IsKept(t) \/ t = s
  BY <1>0 DEF IsKept, Retain
<1>4. \A t \in Stage : IsCommitted(t)' <=> IsCommitted(t)
  BY DEF IsCommitted
<1>5. \A k \in Host : call'[k].at \in {"append", "publishing", "stale"} => cache'[k] = None
  BY <1>0 DEF Ownership, End, Idle
<1> QED BY <1>0, <1>1, <1>2, <1>3, <1>4, <1>5 DEF Ownership

LEMMA PromotionKeepsOwners ==
    ASSUME TypeOK, TypeOK', Ownership, NEW h \in Host,
           \/ OpenPromoted(h) \/ ConsumeStage(h) \/ RefuseStale(h) \/ PromotionFails(h)
           \/ RetainOutdated(h) \/ Reconcile(h) \/ RefuseAppend(h) \/ Crash(h)
           \/ CopyForAppend(h)
    PROVE  Ownership'
<1>0. /\ call \in [Host -> Calls] /\ cache \in [Host -> CacheEntries \cup {None}]
      /\ retained \in [Host -> Retentions \cup {None}]
  BY DEF TypeOK
<1>1. CASE OpenPromoted(h)
  BY <1>0, <1>1, OwnersStay DEF OpenPromoted, Owns, Working, Calls
<1>2. CASE ConsumeStage(h)
  BY <1>0, <1>2, OwnersStay DEF ConsumeStage, Uncache, Goto, Owns, Working, Calls
<1>3. CASE RefuseStale(h)
  BY <1>0, <1>3, RetainKeepsOwners DEF RefuseStale, Uncache, Working
<1>4. CASE PromotionFails(h)
  BY <1>0, <1>4, OwnersStay DEF PromotionFails, End, Idle, Owns, Working, Calls
<1>5. CASE RetainOutdated(h)
  BY <1>0, <1>5, RetainKeepsOwners DEF RetainOutdated, Outdated, Working, Ownership
<1>6. CASE Reconcile(h)
  BY <1>0, <1>6, OwnersStay DEF Reconcile, End, Idle, Owns, Working, Calls
<1>7. CASE RefuseAppend(h)
  <2>1. PICK a \in {"failed", "stale"} : call' = [call EXCEPT ![h].at = a]
    BY <1>7 DEF RefuseAppend, Goto
  <2>2. cache' = cache /\ cache[h] = None
    BY <1>7 DEF RefuseAppend, Ownership
  <2> QED BY <1>0, <1>7, <2>1, <2>2, OwnersStay DEF RefuseAppend, Owns, Working, Calls
<1>8. CASE Crash(h)
  BY <1>0, <1>8, OwnersStay DEF Crash, End, Uncache, Idle, Owns, Working, Calls
<1>9. CASE CopyForAppend(h)
  <2>1. cache' = cache /\ cache[h] = None
    BY <1>9 DEF CopyForAppend, Copy, Ownership
  <2> QED BY <1>0, <1>9, <2>1, OwnersStay DEF CopyForAppend, Copy, Goto, Owns, Working, Calls
<1> QED BY <1>1, <1>2, <1>3, <1>4, <1>5, <1>6, <1>7, <1>8, <1>9

-----------------------------------------------------------------------------
(* The publication: the log grows by one result of the current revision,   *)
(* by somebody else's transaction, or not at all.                          *)

\* What a publication does to the log and to the calls.
Appends(entry) ==
    /\ Len(log') = Len(log) + 1
    /\ \A i \in DOMAIN log : i \in DOMAIN log' /\ log'[i] = log[i]
    /\ \A i \in DOMAIN log' : i \in DOMAIN log \/ (i = Len(log) + 1 /\ log'[i] = entry)

LEMMA RotationAppends ==
    ASSUME TypeOK, PublicationHolds, Squeezed, Rotate
    PROVE  \/ call' = call /\ log' = log
           \/ call' = call /\ Appends(Transaction)
           \/ \E p \in Host :
                /\ call[p].at = "publishing"
                /\ \E next \in Calls :
                     next.at \in {"idle", "failed"} /\ next.source \in {0, call[p].source}
                     /\ (next.at = "failed" => next.source = call[p].source)
                     /\ next.pin \in {0, call[p].pin}
                     /\ call' = [call EXCEPT ![p] = next]
                /\ Appends(Result(call[p].stage, Revision, Holds("final", Revision)))
<1>1. lock \in Publications /\ log' = log \o lock.entries /\ Transaction \in Entries
  BY ContentsTyped DEF Rotate, TypeOK, Transaction, Result, Entries
<1>2. ASSUME NEW e \in Entries, log' = log \o <<e>> PROVE Appends(e)
  <2>1. <<e>> \in Seq(Entries) /\ Len(<<e>>) = 1 /\ <<e>>[1] = e /\ log \in Seq(Entries)
    BY DEF TypeOK
  <2>2. /\ Len(log') = Len(log) + 1
        /\ \A i \in 1 .. Len(log) + 1 :
              log'[i] = IF i <= Len(log) THEN log[i] ELSE <<e>>[i - Len(log)]
        /\ log' \in Seq(Entries)
    BY <1>2, <2>1, ConcatProperties
  <2>3. DOMAIN log = 1 .. Len(log) /\ DOMAIN log' = 1 .. Len(log) + 1 /\ Len(log) \in Nat
    BY <2>1, <2>2
  <2> QED BY <2>1, <2>2, <2>3 DEF Appends
<1>3. CASE lock.by = None
  <2>1. call' = call
    BY <1>3 DEF Rotate, PublisherGoesTo
  <2>2. CASE lock.entries = <<>>
    <3>1. log' = log
      BY <1>1, <2>2, ConcatEmptySeq DEF TypeOK
    <3> QED BY <2>1, <3>1
  <2>3. CASE lock.entries = <<Transaction>>
    BY <1>1, <1>2, <2>1, <2>3
  <2> QED BY <1>3, <2>2, <2>3 DEF PublicationHolds, Rotate
<1>4. CASE lock.by \in Host
  <2> DEFINE p == lock.by
             result == Result(call[p].stage, Revision, Holds("final", Revision))
  <2>1. p \in Host /\ call[p] \in Calls /\ call[p].at = "publishing"
        /\ lock.entries = <<result>>
    BY <1>4 DEF PublicationHolds, Rotate, TypeOK
  <2>2. result \in Entries
    BY <2>1, ContentsTyped DEF Result, Entries, Calls, Revision, TypeOK, Files
  <2>3. Appends(result)
    BY <1>1, <1>2, <2>1, <2>2
  <2>4. PICK at \in {"idle", "failed"} : PublisherGoesTo(at)
    BY DEF Rotate
  <2>5. p # None
    BY <1>4, WorkAssumption
  <2> DEFINE next == IF at = "idle" THEN Idle ELSE [call[p] EXCEPT !.at = at]
  <2>6. call' = [call EXCEPT ![p] = next]
    BY <2>4, <2>5 DEF PublisherGoesTo
  <2>7. Idle \in Calls
    BY DEF Idle, Calls, Phases
  <2>8. /\ next \in Calls /\ next.at \in {"idle", "failed"}
        /\ next.source \in {0, call[p].source}
        /\ next.at = "failed" => next.source = call[p].source
        /\ next.pin \in {0, call[p].pin}
    BY <2>1, <2>7 DEF Calls, Phases, Idle
  <2> HIDE DEF next
  <2> QED BY <2>1, <2>3, <2>6, <2>8
<1> QED BY <1>1, <1>3, <1>4 DEF Publications

LEMMA PublicationKeepsOwners ==
    ASSUME TypeOK, TypeOK', Ownership, PublicationHolds, Squeezed,
           CopyForOthers \/ Rotate \/ AbortPublication
    PROVE  Ownership'
<1>0. /\ call \in [Host -> Calls] /\ cache \in [Host -> CacheEntries \cup {None}]
      /\ None \notin Stage
  BY WorkAssumption DEF TypeOK
<1>1. CASE CopyForOthers
  BY <1>1 DEF CopyForOthers, Copy, Ownership, Owns, Working, IsKept, IsCommitted
<1>2. CASE Rotate
  <2>0. cache' = cache /\ retained' = retained /\ spare' = spare
    BY <1>2 DEF Rotate
  <2>1. CASE call' = call /\ log' = log
    BY <2>0, <2>1 DEF Ownership, Owns, Working, IsKept, IsCommitted
  <2>2. CASE call' = call /\ Appends(Transaction)
    <3>1. \A t \in Stage : IsCommitted(t)' => IsCommitted(t)
      BY <1>0, <2>2 DEF IsCommitted, Appends, Transaction, Result
    <3>2. \A k \in Host, t \in Stage : Owns(k, t)' <=> Owns(k, t)
      BY <2>0, <2>2 DEF Owns, Working
    <3>3. \A t \in Stage : IsKept(t)' <=> IsKept(t)
      BY <2>0 DEF IsKept
    <3> QED BY <2>0, <2>2, <3>1, <3>2, <3>3 DEF Ownership, TypeOK
  <2>3. ASSUME NEW p \in Host, NEW next \in Calls,
               call[p].at = "publishing", next.at \in {"idle", "failed"},
               call' = [call EXCEPT ![p] = next],
               Appends(Result(call[p].stage, Revision, Holds("final", Revision)))
        PROVE  Ownership'
    <3> DEFINE s == call[p].stage
    <3>1. s \in Stage /\ Owns(p, s) /\ cache[p] = None
      BY <2>3 DEF TypeOK, Working, Owns, Ownership
    <3>2. \A t \in Stage : IsCommitted(t)' => IsCommitted(t) \/ t = s
      BY <1>0, <2>3 DEF IsCommitted, Appends, Result
    <3>3. \A k \in Host, t \in Stage : Owns(k, t)' => Owns(k, t) /\ k # p
      BY <1>0, <2>0, <2>3, <3>1 DEF Owns, Working
    <3>4. \A t \in Stage : IsKept(t)' <=> IsKept(t)
      BY <2>0 DEF IsKept
    <3>5. \A k \in Host : call'[k].at \in {"append", "publishing", "stale"} => cache'[k] = None
      BY <1>0, <2>0, <2>3 DEF Ownership
    <3> QED BY <2>0, <3>1, <3>2, <3>3, <3>4, <3>5 DEF Ownership, TypeOK
  <2> QED BY <1>2, <2>1, <2>2, <2>3, RotationAppends
<1>3. CASE AbortPublication
  <2>0. /\ cache' = cache /\ retained' = retained /\ spare' = spare /\ log' = log
        /\ PublisherGoesTo("failed") /\ lock # None /\ lock \in Publications
    BY <1>3 DEF AbortPublication, TypeOK
  <2>1. CASE call' = call
    BY <2>0, <2>1 DEF Ownership, Owns, Working, IsKept, IsCommitted
  <2>2. CASE call' # call
    <3>1. lock.by \in Host /\ call' = [call EXCEPT ![lock.by].at = "failed"]
      BY <2>0, <2>2 DEF PublisherGoesTo, Publications
    <3> QED BY <1>0, <2>0, <3>1, OwnersStay DEF Owns, Working, Calls
  <2> QED BY <2>1, <2>2
<1> QED BY <1>1, <1>2, <1>3

LEMMA StepKeepsOwners ==
    TypeOK /\ TypeOK' /\ Ownership /\ PublicationHolds /\ Squeezed /\ [Next]_vars => Ownership'
<1> SUFFICES ASSUME TypeOK, TypeOK', Ownership, PublicationHolds, Squeezed, [Next]_vars
             PROVE  Ownership'
  OBVIOUS
<1>1. CASE UNCHANGED vars
  BY <1>1 DEF Ownership, Owns, Working, IsKept, IsCommitted, vars
<1>2. CASE Next
  BY <1>2, RequestKeepsOwners, AcceptanceKeepsOwners, PromotionKeepsOwners,
     PublicationKeepsOwners DEF Next
<1> QED BY <1>1, <1>2

-----------------------------------------------------------------------------
(* The squeeze.                                                            *)

\* What Squeezed asks of one host, at a revision.
InOrder(h, revision) ==
    /\ call[h].at # "idle" => call[h].source \in 1 .. revision
    /\ HasBase(h) => call[h].base \in call[h].source .. revision
    /\ call[h].at = "stale" => call[h].source # revision
    /\ cache[h] # None =>
          cache[h].source \in 1 .. revision /\ cache[h].base \in cache[h].source .. revision

\* While the log stays, a host that keeps its own order is enough.
LEMMA OrderStays ==
    ASSUME Squeezed, NEW h \in Host, log' = log,
           \A k \in Host \ {h} : call'[k] = call[k] /\ cache'[k] = cache[k],
           InOrder(h, Revision)'
    PROVE  Squeezed'
<1>1. \A k \in Host \ {h} : InOrder(k, Revision)'
  BY DEF Squeezed, InOrder, HasBase, Revision
<1> QED BY <1>1 DEF Squeezed, InOrder, Revision

LEMMA RequestKeepsOrder ==
    ASSUME TypeOK, Squeezed, StagesHold, NEW h \in Host,
           \/ Request(h) \/ CreateStage(h) \/ ReadBase(h) \/ OpenOutput(h)
           \/ FinishOutput(h) \/ WorkerFails(h)
           \/ OpenAccepted(h) \/ VerifyStaged(h) \/ RejectStaged(h)
           \/ ServeCached(h) \/ PublishVerified(h) \/ EndPreview(h)
    PROVE  Squeezed'
<1>0. /\ call \in [Host -> Calls] /\ cache \in [Host -> CacheEntries \cup {None}]
      /\ Revision \in Nat
  BY DEF TypeOK, Revision
<1>a. Revision >= 1 /\ InOrder(h, Revision)
  BY DEF Squeezed, InOrder
<1> SUFFICES InOrder(h, Revision)'
  BY <1>0, OrderStays DEF Request, CreateStage, ReadBase, OpenOutput, FinishOutput,
     WorkerFails, OpenAccepted, VerifyStaged, RejectStaged, ServeCached, PublishVerified,
     EndPreview, Goto, End, Uncache, Accept
<1> USE DEF InOrder, HasBase, Calls, Revision
<1>1. CASE Request(h)
  BY <1>0, <1>a, <1>1 DEF Request
<1>2. CASE CreateStage(h)
  <2>0. PICK s \in spare :
           call' = [call EXCEPT ![h].at = "read", ![h].stage = s, ![h].own = root.no]
    BY <1>2 DEF CreateStage
  <2>2. call'[h] = [call[h] EXCEPT !.at = "read", !.stage = s, !.own = root.no]
    BY <1>0, <2>0
  <2>1. call'[h].at = "read" /\ call'[h].source = call[h].source
    BY <1>0, <2>2
  <2> QED BY <1>a, <1>2, <2>1 DEF CreateStage
<1>3. CASE ReadBase(h)
  BY <1>0, <1>a, <1>3 DEF ReadBase
<1>4. CASE OpenOutput(h)
  BY <1>0, <1>a, <1>4 DEF OpenOutput
<1>5. CASE FinishOutput(h)
  BY <1>0, <1>a, <1>5 DEF FinishOutput, Goto
<1>6. CASE WorkerFails(h)
  BY <1>0, <1>a, <1>6 DEF WorkerFails, End, Idle
<1>7. CASE OpenAccepted(h)
  BY <1>0, <1>a, <1>7 DEF OpenAccepted
<1>8. CASE VerifyStaged(h)
  BY <1>0, <1>a, <1>8 DEF VerifyStaged, Goto
<1>9. CASE RejectStaged(h)
  BY <1>0, <1>a, <1>9 DEF RejectStaged, End, Idle
<1>10. CASE ServeCached(h)
  BY <1>0, <1>a, <1>10 DEF ServeCached, Hit, Accept, CacheEntries
<1>11. CASE PublishVerified(h)
  <2>1. Found(h).base = call[h].base
    BY <1>11 DEF PublishVerified, Link, StagesHold, Holding
  <2> QED BY <1>0, <1>a, <1>11, <2>1 DEF PublishVerified, Accept
<1>12. CASE EndPreview(h)
  BY <1>0, <1>a, <1>12 DEF EndPreview, Uncache, End, Idle
<1> QED BY <1>1, <1>2, <1>3, <1>4, <1>5, <1>6, <1>7, <1>8, <1>9, <1>10, <1>11, <1>12

LEMMA PromotionKeepsOrder ==
    ASSUME TypeOK, Squeezed, NEW h \in Host,
           \/ OpenPromoted(h) \/ ConsumeStage(h) \/ RefuseStale(h) \/ PromotionFails(h)
           \/ RetainOutdated(h) \/ Reconcile(h) \/ RefuseAppend(h) \/ Crash(h)
           \/ CopyForAppend(h)
    PROVE  Squeezed'
<1>0. /\ call \in [Host -> Calls] /\ cache \in [Host -> CacheEntries \cup {None}]
      /\ Revision \in Nat
  BY DEF TypeOK, Revision
<1>a. Revision >= 1 /\ InOrder(h, Revision)
  BY DEF Squeezed, InOrder
<1> SUFFICES InOrder(h, Revision)'
  BY <1>0, OrderStays DEF OpenPromoted, ConsumeStage, RefuseStale, PromotionFails,
     RetainOutdated, Reconcile, RefuseAppend, Crash, CopyForAppend, Copy, Goto, End, Uncache
<1> USE DEF InOrder, HasBase, Calls, Revision
<1>1. CASE OpenPromoted(h)
  BY <1>0, <1>a, <1>1 DEF OpenPromoted
<1>2. CASE ConsumeStage(h)
  BY <1>0, <1>a, <1>2 DEF ConsumeStage, Uncache, Goto
<1>3. CASE RefuseStale(h)
  BY <1>0, <1>a, <1>3 DEF RefuseStale, Uncache, End, Idle
<1>4. CASE PromotionFails(h)
  BY <1>0, <1>a, <1>4 DEF PromotionFails, End, Idle
<1>5. CASE RetainOutdated(h)
  BY <1>0, <1>a, <1>5 DEF RetainOutdated, End, Idle
<1>6. CASE Reconcile(h)
  BY <1>0, <1>a, <1>6 DEF Reconcile, End, Idle
<1>7. CASE RefuseAppend(h)
  <2>1. PICK a \in {"failed", "stale"} :
           call' = [call EXCEPT ![h].at = a] /\ (a = "stale" => ~Fenced(h))
    BY <1>7 DEF RefuseAppend, Goto
  <2> QED BY <1>0, <1>a, <1>7, <2>1 DEF RefuseAppend, Fenced
<1>8. CASE Crash(h)
  BY <1>0, <1>a, <1>8 DEF Crash, Uncache, End, Idle
<1>9. CASE CopyForAppend(h)
  BY <1>0, <1>a, <1>9 DEF CopyForAppend, Copy, Goto
<1> QED BY <1>1, <1>2, <1>3, <1>4, <1>5, <1>6, <1>7, <1>8, <1>9

LEMMA PublicationKeepsOrder ==
    ASSUME TypeOK, Squeezed, PublicationHolds, CopyForOthers \/ Rotate \/ AbortPublication
    PROVE  Squeezed'
<1>0. /\ call \in [Host -> Calls] /\ cache \in [Host -> CacheEntries \cup {None}]
      /\ Revision \in Nat
  BY DEF TypeOK, Revision
<1>1. CASE CopyForOthers
  BY <1>1 DEF CopyForOthers, Copy, Squeezed, HasBase, Revision
<1>2. CASE Rotate
  <2>0. cache' = cache
    BY <1>2 DEF Rotate
  <2>1. CASE call' = call /\ log' = log
    BY <2>0, <2>1 DEF Squeezed, HasBase, Revision
  <2>2. CASE call' = call /\ Revision' = Revision + 1
    <3> SUFFICES ASSUME NEW k \in Host PROVE InOrder(k, Revision)'
      BY <1>0, <2>2 DEF Squeezed, InOrder
    <3>1. InOrder(k, Revision) /\ call[k] \in Calls
      BY <1>0 DEF Squeezed, InOrder
    <3> QED BY <1>0, <2>0, <2>2, <3>1 DEF InOrder, HasBase, Calls, CacheEntries
  <2>3. ASSUME NEW p \in Host, NEW next \in Calls, call[p].at = "publishing",
               next.at \in {"idle", "failed"},
               next.at = "failed" => next.source = call[p].source,
               call' = [call EXCEPT ![p] = next], Revision' = Revision + 1
        PROVE  Squeezed'
    <3> SUFFICES ASSUME NEW k \in Host PROVE InOrder(k, Revision)'
      BY <1>0, <2>3 DEF Squeezed, InOrder
    <3>1. InOrder(k, Revision) /\ call[k] \in Calls
      BY <1>0 DEF Squeezed, InOrder
    <3>2. CASE k = p
      BY <1>0, <2>0, <2>3, <3>1, <3>2 DEF InOrder, HasBase, Calls, CacheEntries
    <3>3. CASE k # p
      BY <1>0, <2>0, <2>3, <3>1, <3>3 DEF InOrder, HasBase, Calls, CacheEntries
    <3> QED BY <3>2, <3>3
  <2> QED BY <1>2, <2>1, <2>2, <2>3, RotationAppends DEF Appends, Revision
<1>3. CASE AbortPublication
  <2>0. /\ cache' = cache /\ log' = log /\ PublisherGoesTo("failed")
        /\ lock # None /\ lock \in Publications
    BY <1>3 DEF AbortPublication, TypeOK
  <2>1. CASE call' = call
    BY <2>0, <2>1 DEF Squeezed, HasBase, Revision
  <2>2. CASE call' # call
    <3>1. PICK p \in Host : p = lock.by /\ call' = [call EXCEPT ![p].at = "failed"]
      BY <2>0, <2>2 DEF PublisherGoesTo, Publications
    <3>2. call[p].at = "publishing" /\ InOrder(p, Revision)
      BY <2>0, <3>1 DEF PublicationHolds, Squeezed, InOrder
    <3>3. InOrder(p, Revision)'
      BY <1>0, <2>0, <3>1, <3>2 DEF InOrder, HasBase, Calls, Revision
    <3> QED BY <1>0, <2>0, <3>1, <3>3, OrderStays
  <2> QED BY <2>1, <2>2
<1> QED BY <1>1, <1>2, <1>3

LEMMA StepKeepsOrder ==
    TypeOK /\ Squeezed /\ StagesHold /\ PublicationHolds /\ [Next]_vars => Squeezed'
<1> SUFFICES ASSUME TypeOK, Squeezed, StagesHold, PublicationHolds, [Next]_vars
             PROVE  Squeezed'
  OBVIOUS
<1>1. CASE UNCHANGED vars
  BY <1>1 DEF Squeezed, HasBase, Revision, vars
<1>2. CASE Next
  BY <1>2, RequestKeepsOrder, PromotionKeepsOrder, PublicationKeepsOrder DEF Next
<1> QED BY <1>1, <1>2

-----------------------------------------------------------------------------
(* Generations and what their stages hold.                                 *)

\* The steps of a host that write to the stage it has, and those that write to
\* none: creating a stage is the one step of neither kind.
Writing(h) ==
    \/ OpenOutput(h) \/ FinishOutput(h) \/ WorkerFails(h) \/ OpenAccepted(h)
    \/ VerifyStaged(h) \/ RejectStaged(h) \/ ServeCached(h) \/ PublishVerified(h)
    \/ EndPreview(h) \/ ConsumeStage(h) \/ RefuseStale(h)

Still(h) ==
    \/ Request(h) \/ ReadBase(h) \/ OpenPromoted(h) \/ PromotionFails(h)
    \/ RetainOutdated(h) \/ Reconcile(h) \/ RefuseAppend(h) \/ Crash(h)
    \/ CopyForAppend(h)

LEMMA WritesItsStage ==
    ASSUME TypeOK, NEW h \in Host, Writing(h)
    PROVE  /\ Working(h) /\ call[h].stage \in Stage
           /\ call[h].at # "publishing"
           /\ \A k \in Host \ {h} : call'[k] = call[k]
           /\ log' = log /\ lock' = lock
           /\ \E n, c : c \in Contents /\ Write(n, call[h].stage, c)
<1> USE DEF Writing, OpenOutput, FinishOutput, WorkerFails, OpenAccepted, VerifyStaged,
            RejectStaged, ServeCached, PublishVerified, EndPreview, ConsumeStage, RefuseStale
<1>1. Working(h) /\ call[h].stage \in Stage /\ call[h] \in Calls
  BY DEF TypeOK, Working
<1>2. call[h].at # "publishing" /\ log' = log /\ lock' = lock
  OBVIOUS
<1>3. \A k \in Host \ {h} : call'[k] = call[k]
  BY DEF TypeOK, Goto, End, Accept
<1>4. Found(h).base \in Nat /\ root.work[call[h].stage] \in Contents /\ call[h].base \in Nat
  BY <1>1, FoundTyped DEF Contents, Calls
<1>5. \E n, c : c \in Contents /\ Write(n, call[h].stage, c)
  BY <1>4, ContentsTyped DEF Files, Half, Clear, Link
<1> QED BY <1>1, <1>2, <1>3, <1>5

LEMMA StillWritesNothing == \A h \in Host : Still(h) => UNCHANGED <<log, trees>>
BY DEF Still, Request, ReadBase, OpenPromoted, PromotionFails, RetainOutdated, Reconcile,
   RefuseAppend, Crash, CopyForAppend, Copy

LEMMA StepKeepsNumbers == TypeOK /\ Numbered /\ PublicationHolds /\ Squeezed /\ [Next]_vars
                            => Numbered'
<1> SUFFICES ASSUME TypeOK, Numbered, PublicationHolds, Squeezed, [Next]_vars PROVE Numbered'
  OBVIOUS
<1>0. call \in [Host -> Calls] /\ root \in Trees /\ prev \in Trees /\ root.no \in Nat
  BY DEF TypeOK, Trees
<1>1. CASE UNCHANGED vars
  BY <1>1 DEF Numbered, vars, trees
\* A request moves its handle to the root, closes it or leaves it.
<1>2. ASSUME NEW h \in Host, root'.no = root.no, prev'.no = prev.no,
             \A k \in Host \ {h} : call'[k] = call[k],
             call'[h].pin \in {0, root.no, call[h].pin}
      PROVE  Numbered'
  BY <1>0, <1>2 DEF Numbered
<1>3. ASSUME NEW n, NEW s \in Stage, NEW c \in Contents, Write(n, s, c)
      PROVE  root'.no = root.no /\ prev'.no = prev.no
  BY <1>0, <1>3, WriteChanges
<1>5. ASSUME NEW h \in Host, Still(h) PROVE Numbered'
  <2>1. root' = root /\ prev' = prev
    BY <1>5, StillWritesNothing DEF trees
  <2>2. /\ \A k \in Host \ {h} : call'[k] = call[k]
        /\ call'[h].pin \in {0, root.no, call[h].pin}
    BY <1>0, <1>5 DEF Still, Request, ReadBase, OpenPromoted, PromotionFails,
       RetainOutdated, Reconcile, RefuseAppend, Crash, CopyForAppend, Goto, End, Idle, Calls
  <2> QED BY <1>2, <2>1, <2>2
<1>6. ASSUME NEW h \in Host, CreateStage(h) PROVE Numbered'
  <2>1. PICK s \in spare : Write(root.no, s, Empty) /\
           call' = [call EXCEPT ![h].at = "read", ![h].stage = s, ![h].own = root.no]
    BY <1>6 DEF CreateStage
  <2>2. root'.no = root.no /\ prev'.no = prev.no
    BY <1>3, <2>1, ContentsTyped DEF TypeOK
  <2>3. call'[h] = [call[h] EXCEPT !.at = "read", !.stage = s, !.own = root.no]
    BY <1>0, <2>1
  <2>4. call'[h].pin = call[h].pin
    BY <1>0, <2>3 DEF Calls
  <2> QED BY <1>0, <1>2, <2>1, <2>2, <2>4
<1>7. ASSUME NEW h \in Host, Writing(h) PROVE Numbered'
  <2>1. root'.no = root.no /\ prev'.no = prev.no
    BY <1>3, <1>7, WritesItsStage
  <2>2. /\ \A k \in Host \ {h} : call'[k] = call[k]
        /\ call'[h].pin \in {0, root.no, call[h].pin}
    BY <1>0, <1>7 DEF Writing, OpenOutput, FinishOutput, WorkerFails, OpenAccepted,
       VerifyStaged, RejectStaged, ServeCached, PublishVerified, EndPreview, ConsumeStage,
       RefuseStale, Goto, End, Accept, Idle, Calls
  <2> QED BY <1>2, <2>1, <2>2
<1>8. CASE CopyForOthers
  BY <1>8 DEF CopyForOthers, Copy, trees, Numbered
<1>9. CASE Rotate
  <2>1. root'.no = root.no + 1 /\ prev'.no = root.no
    BY <1>9 DEF Rotate
  <2> QED BY <1>0, <1>9, <2>1, RotationAppends DEF Numbered, Calls
<1>10. CASE AbortPublication
  <2>1. call' = call \/ call' = [call EXCEPT ![lock.by].at = "failed"]
    BY <1>10 DEF AbortPublication, PublisherGoesTo
  <2> QED BY <1>0, <1>10, <2>1 DEF AbortPublication, trees, Numbered, Calls
<1> QED BY <1>1, <1>5, <1>6, <1>7, <1>8, <1>9, <1>10 DEF Next, Still, Writing

\* What a host holds stays while its call and its stage do.
LEMMA OthersHold ==
    ASSUME TypeOK, StagesHold,
           NEW k \in Host, call'[k] = call[k],
           NEW n, NEW s \in Stage, NEW c \in Contents, Write(n, s, c),
           Working(k) => call[k].stage # s
    PROVE  Holding(k)'
<1>1. CASE Working(k)
  <2>1. call[k].stage \in Stage /\ call[k].stage # s
    BY <1>1 DEF TypeOK
  <2>2. /\ root'.no = root.no /\ root'.work[call[k].stage] = root.work[call[k].stage]
        /\ prev'.no = prev.no /\ prev'.work[call[k].stage] = prev.work[call[k].stage]
    BY <2>1, WriteAt DEF TypeOK
  <2> QED BY <2>2 DEF StagesHold, Holding, Found, At
<1>2. CASE ~Working(k)
  BY <1>2 DEF Holding, Working
<1> QED BY <1>1, <1>2

LEMMA StepKeepsStages ==
    TypeOK /\ Ownership /\ Numbered /\ StagesHold /\ PublicationHolds /\ Squeezed
        /\ [Next]_vars => StagesHold'
<1> SUFFICES ASSUME TypeOK, Ownership, Numbered, StagesHold, PublicationHolds, Squeezed,
                    [Next]_vars
             PROVE  StagesHold'
  OBVIOUS
<1>0. call \in [Host -> Calls] /\ root \in Trees /\ prev \in Trees /\ root.no \in Nat
  BY DEF TypeOK, Trees
<1>1. CASE UNCHANGED vars
  BY <1>1 DEF StagesHold, Holding, Found, At, vars, trees
<1>2. ASSUME NEW h \in Host, Still(h) PROVE StagesHold'
  <2>1. root' = root /\ prev' = prev
    BY <1>2, StillWritesNothing DEF trees
  <2>2. \A k \in Host \ {h} : call'[k] = call[k]
    BY <1>0, <1>2 DEF Still, Request, ReadBase, OpenPromoted, PromotionFails,
       RetainOutdated, Reconcile, RefuseAppend, Crash, CopyForAppend, Goto, End
  <2>3. \A k \in Host \ {h} : Holding(k)'
    BY <2>1, <2>2 DEF StagesHold, Holding, Found, At
  <2>4. CASE CopyForAppend(h)
    <3>1. /\ call[h].at = "append" /\ call'[h].at = "publishing"
          /\ call'[h].pin = call[h].pin /\ call'[h].stage = call[h].stage
      BY <1>0, <2>4 DEF CopyForAppend, Goto, Calls
    <3>2. Holding(h)'
      BY <2>1, <3>1 DEF StagesHold, Holding
    <3> QED BY <2>3, <3>2 DEF StagesHold
  <2>5. CASE ~CopyForAppend(h)
    <3>1. call'[h].at \notin {"publish", "append", "publishing"}
      BY <1>0, <1>2, <2>5 DEF Still, Request, ReadBase, OpenPromoted, PromotionFails,
         RetainOutdated, Reconcile, RefuseAppend, Crash, Goto, End, Idle, Calls
    <3>2. Holding(h)'
      BY <3>1 DEF Holding
    <3> QED BY <2>3, <3>2 DEF StagesHold
  <2> QED BY <2>4, <2>5
<1>3. ASSUME NEW h \in Host, CreateStage(h) PROVE StagesHold'
  <2>1. PICK s \in spare : Write(root.no, s, Empty) /\
           call' = [call EXCEPT ![h].at = "read", ![h].stage = s, ![h].own = root.no]
    BY <1>3 DEF CreateStage
  <2>2. call'[h] = [call[h] EXCEPT !.at = "read", !.stage = s, !.own = root.no]
    BY <1>0, <2>1
  <2>3. Holding(h)'
    BY <1>0, <2>2 DEF Holding, Calls
  <2>4. s \in Stage /\ \A k \in Host \ {h} : call'[k] = call[k]
    BY <1>0, <2>1 DEF TypeOK
  <2>5. \A k \in Host : Working(k) => call[k].stage # s
    BY <2>1, <2>4 DEF Ownership, Owns
  <2>6. \A k \in Host \ {h} : Holding(k)'
    BY <2>1, <2>4, <2>5, OthersHold, ContentsTyped
  <2> QED BY <2>3, <2>6 DEF StagesHold
<1>4. ASSUME NEW h \in Host, Writing(h) PROVE StagesHold'
  <2> DEFINE s == call[h].stage
  <2>1. /\ Working(h) /\ s \in Stage
        /\ \A k \in Host \ {h} : call'[k] = call[k]
    BY <1>4, WritesItsStage
  <2>2. PICK n, c : c \in Contents /\ Write(n, s, c)
    BY <1>4, WritesItsStage
  <2>3. \A k \in Host \ {h} : Working(k) => call[k].stage # s
    BY <2>1 DEF Ownership, Owns
  <2>4. \A k \in Host \ {h} : Holding(k)'
    BY <2>1, <2>2, <2>3, OthersHold
  <2>5. CASE VerifyStaged(h)
    <3>1. /\ Found(h) = Holds("partial", call[h].base)
          /\ Write(call[h].pin, s, Holds("verified", call[h].base))
      BY <2>5 DEF VerifyStaged, Authentic, Holds
    <3>2. call'[h] = [call[h] EXCEPT !.at = "publish"]
      BY <1>0, <2>5 DEF VerifyStaged, Goto
    <3>3. call[h] \in Calls /\ call[h].base \in Nat
      BY <1>0 DEF Calls
    <3>4. Holds("verified", call[h].base) \in Contents
      BY <3>3, ContentsTyped DEF Files
    <3>5. /\ root'.no = root.no /\ prev'.no = prev.no
          /\ call[h].pin = root.no => root'.work[s] = Holds("verified", call[h].base)
          /\ call[h].pin = prev.no => prev'.work[s] = Holds("verified", call[h].base)
      BY <2>1, <3>1, <3>4, WriteAt DEF TypeOK
    <3>6. At(call[h].pin, s)' \in {Holds("verified", call[h].base), NoStage}
      BY <3>2, <3>3, <3>5 DEF At, Calls
    <3>7. Found(h)' \in {Holds("verified", call[h].base), NoStage}
      BY <3>2, <3>3, <3>5 DEF Found, At, Calls
    <3>8. Holding(h)'
      BY <3>2, <3>3, <3>7 DEF Holding, Holds, NoStage, Calls
    <3> QED BY <2>4, <3>8 DEF StagesHold
  <2>6. CASE ConsumeStage(h)
    <3>1. Write(call[h].pin, s, NoStage) /\ call'[h] = [call[h] EXCEPT !.at = "append"]
      BY <1>0, <2>6 DEF ConsumeStage, Goto
    <3>2. root'.no = root.no /\ (call[h].pin = root.no => root'.work[s] = NoStage)
      BY <2>1, <3>1, ContentsTyped, WriteAt DEF TypeOK
    <3>3. Holding(h)'
      BY <1>0, <3>1, <3>2 DEF Holding, Calls
    <3> QED BY <2>4, <3>3 DEF StagesHold
  <2>7. CASE ~VerifyStaged(h) /\ ~ConsumeStage(h)
    <3>1. call'[h].at \notin {"publish", "append", "publishing"}
      BY <1>0, <1>4, <2>7 DEF Writing, OpenOutput, FinishOutput, WorkerFails, OpenAccepted,
         RejectStaged, ServeCached, PublishVerified, EndPreview, RefuseStale, Goto, End,
         Accept, Idle, Calls
    <3>2. Holding(h)'
      BY <3>1 DEF Holding
    <3> QED BY <2>4, <3>2 DEF StagesHold
  <2> QED BY <2>5, <2>6, <2>7
<1>5. CASE CopyForOthers
  BY <1>5 DEF CopyForOthers, Copy, trees, StagesHold, Holding, Found, At
<1>6. CASE Rotate
  <2>1. root'.no = root.no + 1 /\ prev' = root
    BY <1>6 DEF Rotate
  <2>2. \A k \in Host : call'[k] = call[k] \/ call'[k].at \in {"idle", "failed"}
    BY <1>0, <1>6, RotationAppends
  <2>3. ASSUME NEW k \in Host, call'[k] = call[k] PROVE Holding(k)'
    <3>1. call[k].pin \in Nat /\ call[k].pin <= root.no
      BY <1>0 DEF Numbered, Calls
    <3>2. call[k].pin # root'.no
      BY <1>0, <2>1, <3>1
    <3>3. Found(k)' = IF call[k].pin = root.no THEN root.work[call[k].stage] ELSE NoStage
      BY <2>1, <2>3, <3>2 DEF Found, At
    <3> QED BY <2>3, <3>2, <3>3 DEF StagesHold, Holding, Found, At, NoStage, Holds
  <2>4. ASSUME NEW k \in Host, call'[k].at \in {"idle", "failed"} PROVE Holding(k)'
    BY <2>4 DEF Holding
  <2> QED BY <2>2, <2>3, <2>4 DEF StagesHold
<1>7. CASE AbortPublication
  <2>1. call' = call \/ call' = [call EXCEPT ![lock.by].at = "failed"]
    BY <1>7 DEF AbortPublication, PublisherGoesTo
  <2>2. \A k \in Host : call'[k] = call[k] \/ call'[k].at = "failed"
    BY <1>0, <2>1 DEF Calls
  <2>3. root' = root /\ prev' = prev
    BY <1>7 DEF AbortPublication, trees
  <2> QED BY <2>2, <2>3 DEF StagesHold, Holding, Found, At
<1> QED BY <1>1, <1>2, <1>3, <1>4, <1>5, <1>6, <1>7 DEF Next, Still, Writing

-----------------------------------------------------------------------------
(* What the publication under way brings, and what it leaves.              *)

\* A publication that is not a host's own is out of its reach.
LEMMA PublicationStays ==
    ASSUME TypeOK, PublicationHolds, NEW h \in Host, call[h].at # "publishing",
           lock' = lock, log' = log, root'.no = root.no,
           \A k \in Host \ {h} : call'[k] = call[k]
    PROVE  PublicationHolds'
<1>1. lock # None /\ lock.by \in Host => call'[lock.by] = call[lock.by]
  BY DEF PublicationHolds
<1> QED BY <1>1 DEF PublicationHolds, Revision

\* The squeeze, of one request.
LEMMA RequestIsSqueezed ==
    ASSUME TypeOK, Squeezed, NEW h \in Host, HasBase(h)
    PROVE  /\ call[h].source \in Nat /\ call[h].base \in Nat /\ Revision \in Nat
           /\ 1 <= call[h].source /\ call[h].source <= call[h].base
           /\ call[h].base <= Revision
<1>1. call[h] \in Calls /\ Revision \in Nat
  BY DEF TypeOK, Revision
<1>2. call[h].source \in Nat /\ call[h].base \in Nat
  BY <1>1 DEF Calls
<1>3. call[h].source \in 1 .. Revision /\ call[h].base \in call[h].source .. Revision
  BY DEF Squeezed, HasBase
<1> QED BY <1>1, <1>2, <1>3

LEMMA StepKeepsPublication ==
    TypeOK /\ Ownership /\ Numbered /\ StagesHold /\ PublicationHolds /\ Squeezed
        /\ [Next]_vars => PublicationHolds'
<1> SUFFICES ASSUME TypeOK, Ownership, Numbered, StagesHold, PublicationHolds, Squeezed,
                    [Next]_vars
             PROVE  PublicationHolds'
  OBVIOUS
<1>0. call \in [Host -> Calls] /\ root \in Trees /\ prev \in Trees
  BY DEF TypeOK
<1>1. CASE UNCHANGED vars
  BY <1>1 DEF PublicationHolds, Revision, vars, trees
<1>2. ASSUME NEW h \in Host, Still(h) PROVE PublicationHolds'
  <2>0. root' = root /\ log' = log
    BY <1>2, StillWritesNothing DEF trees
  <2>1. CASE CopyForAppend(h)
    <3> DEFINE result == Result(call[h].stage, Revision, Holds("final", call[h].base))
    <3>1. /\ lock' = [by |-> h, work |-> root.work, entries |-> <<result>>]
          /\ call[h].at = "append" /\ call[h].source = Revision
          /\ call'[h] = [call[h] EXCEPT !.at = "publishing"]
      BY <1>0, <2>1 DEF CopyForAppend, Copy, Goto, Fenced
    <3>2. call[h].base = Revision
      <4>1. HasBase(h)
        BY <3>1 DEF HasBase
      <4> QED BY <3>1, <4>1, RequestIsSqueezed
    <3>3. call[h].pin = root.no => root.work[call[h].stage] = NoStage
      BY <3>1 DEF StagesHold, Holding
    <3>4. /\ call'[h].at = "publishing" /\ call'[h].stage = call[h].stage
          /\ call'[h].pin = call[h].pin
      BY <1>0, <3>1 DEF Calls
    <3>5. /\ lock'.by = h /\ lock'.work = root.work
          /\ lock'.entries = <<Result(call[h].stage, Revision, Holds("final", Revision))>>
      BY <3>1, <3>2
    <3>6. h # None
      BY WorkAssumption
    <3> QED BY <2>0, <3>3, <3>4, <3>5, <3>6 DEF PublicationHolds, Revision
  <2>2. CASE Crash(h)
    <3>1. CASE lock' = None
      BY <3>1 DEF PublicationHolds
    <3>2. CASE lock' = lock /\ lock # None /\ lock.by # h
      <4>1. \A k \in Host \ {h} : call'[k] = call[k]
        BY <1>0, <2>2 DEF Crash, End
      <4> QED BY <2>0, <3>2, <4>1 DEF PublicationHolds, Revision
    <3> QED BY <2>2, <3>1, <3>2 DEF Crash
  <2>3. CASE ~CopyForAppend(h) /\ ~Crash(h)
    <3>1. call[h].at # "publishing" /\ lock' = lock
      BY <1>0, <1>2, <2>3 DEF Still, Request, ReadBase, OpenPromoted, PromotionFails,
         RetainOutdated, Outdated, Reconcile, RefuseAppend, Idle
    <3>2. \A k \in Host \ {h} : call'[k] = call[k]
      BY <1>0, <1>2, <2>3 DEF Still, Request, ReadBase, OpenPromoted, PromotionFails,
         RetainOutdated, Reconcile, RefuseAppend, Goto, End
    <3> QED BY <2>0, <3>1, <3>2, PublicationStays
  <2> QED BY <2>1, <2>2, <2>3
<1>3. ASSUME NEW h \in Host, CreateStage(h) PROVE PublicationHolds'
  <2>1. PICK s \in spare : Write(root.no, s, Empty) /\
           call' = [call EXCEPT ![h].at = "read", ![h].stage = s, ![h].own = root.no]
    BY <1>3 DEF CreateStage
  <2>2. root'.no = root.no
    BY <1>0, <2>1, WriteAt, ContentsTyped DEF TypeOK
  <2>3. \A k \in Host \ {h} : call'[k] = call[k]
    BY <1>0, <2>1
  <2> QED BY <1>3, <2>2, <2>3, PublicationStays DEF CreateStage
<1>4. ASSUME NEW h \in Host, Writing(h) PROVE PublicationHolds'
  <2>1. root'.no = root.no
    BY <1>0, <1>4, WritesItsStage, WriteAt
  <2> QED BY <1>4, <2>1, WritesItsStage, PublicationStays
<1>5. CASE CopyForOthers
  BY <1>5, WorkAssumption DEF CopyForOthers, Copy, PublicationHolds
<1>6. CASE Rotate \/ AbortPublication
  BY <1>6 DEF Rotate, AbortPublication, PublicationHolds
<1> QED BY <1>1, <1>2, <1>3, <1>4, <1>5, <1>6 DEF Next, Still, Writing

\* A step that leaves the log and what is kept alone leaves them sound.
LEMMA ResultsStay ==
    ASSUME ResultsAreOfTheirBase, log' = log,
           \A h \in Host : retained'[h] \in {retained[h], None}
    PROVE  ResultsAreOfTheirBase'
BY DEF ResultsAreOfTheirBase, CommittedIsOfItsBase, RetainedIsStale

\* What is kept is of an earlier revision: the fence found a later one.
LEMMA RetainKeepsResults ==
    ASSUME TypeOK, TypeOK', Ownership, Squeezed, ResultsAreOfTheirBase, NEW h \in Host,
           HasBase(h), Working(h), call[h].source # Revision,
           Retain(h), log' = log
    PROVE  ResultsAreOfTheirBase'
<1>0. /\ call \in [Host -> Calls] /\ retained \in [Host -> Retentions \cup {None}]
      /\ call[h].stage \in Stage /\ Revision \in Nat
  BY DEF TypeOK, Revision
<1>1. ~IsCommitted(call[h].stage)
  BY <1>0 DEF Ownership, Owns
<1>2. call[h].source < Revision /\ call[h].base # Half
  BY RequestIsSqueezed DEF Half
<1>3. /\ retained'[h].stage = call[h].stage /\ retained'[h].source = call[h].source
      /\ retained'[h].current = Revision /\ retained'[h].base = call[h].base
      /\ \A k \in Host \ {h} : retained'[k] = retained[k]
  BY <1>0 DEF Retain
<1> QED BY <1>1, <1>2, <1>3 DEF ResultsAreOfTheirBase, CommittedIsOfItsBase,
        RetainedIsStale, IsCommitted

LEMMA StepKeepsResults ==
    WorkInv /\ TypeOK' /\ [Next]_vars => ResultsAreOfTheirBase'
<1> SUFFICES ASSUME WorkInv, TypeOK', [Next]_vars PROVE ResultsAreOfTheirBase'
  OBVIOUS
<1> USE DEF WorkInv
<1>0. call \in [Host -> Calls] /\ retained \in [Host -> Retentions \cup {None}]
  BY DEF TypeOK
<1>1. CASE UNCHANGED vars
  BY <1>1, ResultsStay DEF vars
<1>2. ASSUME NEW h \in Host, RefuseStale(h) PROVE ResultsAreOfTheirBase'
  BY <1>2, RetainKeepsResults DEF RefuseStale, HasBase, Working
<1>3. ASSUME NEW h \in Host, RetainOutdated(h) PROVE ResultsAreOfTheirBase'
  <2>1. call[h].source # Revision
    BY <1>3 DEF RetainOutdated, Outdated, Squeezed
  <2> QED BY <1>3, <2>1, RetainKeepsResults DEF RetainOutdated, Outdated, HasBase, Working
<1>4. ASSUME NEW h \in Host,
             Still(h) \/ Writing(h) \/ CreateStage(h),
             ~RefuseStale(h), ~RetainOutdated(h)
      PROVE  ResultsAreOfTheirBase'
  <2>1. log' = log
    BY <1>4, StillWritesNothing, WritesItsStage DEF CreateStage
  <2>2. \A k \in Host : retained'[k] \in {retained[k], None}
    BY <1>0, <1>4 DEF Still, Writing, CreateStage, Request, ReadBase, OpenPromoted,
       PromotionFails, Reconcile, RefuseAppend, Crash, CopyForAppend, Copy, OpenOutput,
       FinishOutput, WorkerFails, OpenAccepted, VerifyStaged, RejectStaged, ServeCached,
       PublishVerified, EndPreview, ConsumeStage
  <2> QED BY <2>1, <2>2, ResultsStay
<1>5. CASE CopyForOthers
  BY <1>5, ResultsStay DEF CopyForOthers, Copy
<1>6. CASE Rotate
  <2>0. retained' = retained /\ Len(log) \in Nat /\ DOMAIN log = 1 .. Len(log)
    BY <1>6 DEF Rotate, TypeOK
  <2>1. CASE log' = log
    BY <2>0, <2>1, ResultsStay
  <2>2. CASE Appends(Transaction)
    <3>1. \A k \in Host : retained[k] # None => retained[k].stage # None
      BY <1>0, WorkAssumption DEF Retentions
    <3> QED BY <2>0, <2>2, <3>1 DEF Appends, Transaction, Result, ResultsAreOfTheirBase,
            CommittedIsOfItsBase, RetainedIsStale
  <2>3. ASSUME NEW p \in Host, call[p].at = "publishing",
               Appends(Result(call[p].stage, Revision, Holds("final", Revision)))
        PROVE  ResultsAreOfTheirBase'
    <3> DEFINE s == call[p].stage
    <3>1. s \in Stage /\ Owns(p, s)
      BY <2>3 DEF TypeOK, Working, Owns
    <3>2. ~IsKept(s)
      BY <3>1 DEF Ownership
    <3>3. CommittedIsOfItsBase'
      <4> SUFFICES ASSUME NEW i \in DOMAIN log', log'[i].stage # None
                   PROVE  log'[i].source = i - 1 /\ log'[i].found = Holds("final", i - 1)
        BY DEF CommittedIsOfItsBase, Holds
      <4>1. CASE i \in DOMAIN log
        BY <2>3, <4>1 DEF Appends, ResultsAreOfTheirBase, CommittedIsOfItsBase
      <4>2. CASE i = Len(log) + 1
        <5>1. log'[i] = Result(s, Revision, Holds("final", Revision)) /\ Revision = i - 1
          BY <2>0, <2>3, <4>2 DEF Appends, Revision
        <5> QED BY <5>1 DEF Result
      <4> QED BY <2>3, <4>1, <4>2 DEF Appends
    <3>4. RetainedIsStale'
      BY <2>0, <2>3, <3>2 DEF Appends, Result, ResultsAreOfTheirBase, RetainedIsStale, IsKept
    <3> QED BY <3>3, <3>4 DEF ResultsAreOfTheirBase
  <2> QED BY <1>6, <2>1, <2>2, <2>3, RotationAppends
<1>7. CASE AbortPublication
  BY <1>7, ResultsStay DEF AbortPublication
<1> QED BY <1>1, <1>2, <1>3, <1>4, <1>5, <1>6, <1>7 DEF Next, Still, Writing

LEMMA InitEstablishesWorkInv == Init => WorkInv
<1> SUFFICES ASSUME Init PROVE WorkInv
  OBVIOUS
<1>0. /\ Transaction \in Entries /\ Idle \in Calls /\ NoStage \in Contents
      /\ Len(<<Transaction>>) = 1 /\ <<Transaction>>[1] = Transaction
      /\ None \notin Host /\ None \notin Stage
  BY ContentsTyped, WorkAssumption DEF Transaction, Result, Entries, Idle, Calls, Phases
<1>1. TypeOK
  BY <1>0 DEF Init, TypeOK, Trees, Working, Idle
<1>2. Ownership
  BY <1>0 DEF Init, Ownership, Owns, Working, IsKept, IsCommitted, Idle, Transaction, Result
<1>3. Squeezed /\ Numbered /\ StagesHold /\ PublicationHolds
  BY <1>0 DEF Init, Squeezed, HasBase, Revision, Numbered, StagesHold, Holding,
     PublicationHolds, Idle
<1>4. ResultsAreOfTheirBase
  BY <1>0 DEF Init, ResultsAreOfTheirBase, CommittedIsOfItsBase, RetainedIsStale, Transaction,
     Result
<1> QED BY <1>1, <1>2, <1>3, <1>4 DEF WorkInv

LEMMA StepKeepsWorkInv == WorkInv /\ [Next]_vars => WorkInv'
<1> SUFFICES ASSUME WorkInv, [Next]_vars PROVE WorkInv'
  OBVIOUS
<1>1. TypeOK'
  BY StepKeepsType DEF WorkInv
<1> QED BY <1>1, StepKeepsOwners, StepKeepsOrder, StepKeepsNumbers, StepKeepsStages,
        StepKeepsPublication, StepKeepsResults DEF WorkInv

LEMMA WorkInvHolds == Spec => []WorkInv
BY InitEstablishesWorkInv, StepKeepsWorkInv, PTL DEF Spec

\* Whatever is copied, renamed, served from a cache or given up between a
\* request and its commit, the committed bytes are of the revision the commit
\* was fenced on, and what is kept for recovery is past and uncommitted
\* (accept_staged_artifact, promote_occt_result_with_append,
\* retain_stale_last_valid_geometry).
THEOREM WorkIsOfItsBase == Spec => []ResultsAreOfTheirBase
<1>1. WorkInv => ResultsAreOfTheirBase
  BY DEF WorkInv
<1> QED BY <1>1, WorkInvHolds, PTL

\* The generation that commits a result holds nothing of the stage it came
\* from, if that stage was consumed in the generation that is copied.
THEOREM CommitsWithoutItsStage == Spec => StageIsConsumed
<1> DEFINE Consumed ==
      \A h \in Host :
          lock # None /\ lock.by = h /\ root' # root /\ call[h].pin = root.no
              => root'.work[call[h].stage] = NoStage
<1>1. ASSUME WorkInv, [Next]_vars PROVE Consumed
  <2> SUFFICES ASSUME NEW h \in Host, lock # None, lock.by = h, root' # root,
                      call[h].pin = root.no
               PROVE  root'.work[call[h].stage] = NoStage
    OBVIOUS
  <2>0. TypeOK /\ Ownership /\ StagesHold /\ PublicationHolds
    BY <1>1 DEF WorkInv
  <2>1. call[h].at = "publishing" /\ lock.work[call[h].stage] = NoStage
    BY <2>0 DEF PublicationHolds
  <2>2. root.work[call[h].stage] = NoStage
    BY <2>0, <2>1 DEF StagesHold, Holding
  <2>3. Working(h) /\ call[h].stage \in Stage
    BY <2>0, <2>1 DEF TypeOK, Working
  <2>4. ASSUME NEW n, NEW s \in Stage, NEW c \in Contents, Write(n, s, c),
               s # call[h].stage
        PROVE  root'.work[call[h].stage] = NoStage
    <3>1. root \in Trees /\ prev \in Trees
      BY <2>0 DEF TypeOK
    <3> QED BY <2>2, <2>3, <2>4, <3>1, WriteAt
  <2>5. CASE Rotate
    BY <2>1, <2>5 DEF Rotate
  <2>6. ASSUME NEW k \in Host, CreateStage(k) PROVE root'.work[call[h].stage] = NoStage
    <3>1. PICK s \in spare : Write(root.no, s, Empty)
      BY <2>6 DEF CreateStage
    <3>2. s \in Stage /\ s # call[h].stage
      BY <2>0, <2>3, <3>1 DEF TypeOK, Ownership, Owns
    <3> QED BY <2>4, <3>1, <3>2, ContentsTyped
  <2>7. ASSUME NEW k \in Host, Writing(k) PROVE root'.work[call[h].stage] = NoStage
    <3>1. Working(k) /\ call[k].at # "publishing"
      BY <2>0, <2>7, WritesItsStage
    <3>2. call[k].stage \in Stage /\ call[k].stage # call[h].stage
      BY <2>0, <2>1, <2>3, <3>1 DEF Ownership, Owns, TypeOK
    <3> QED BY <2>0, <2>4, <2>7, <3>1, <3>2, WritesItsStage
  <2>8. ASSUME NEW k \in Host, Still(k) PROVE FALSE
    BY <2>8, StillWritesNothing DEF trees
  <2>9. CASE CopyForOthers \/ AbortPublication \/ UNCHANGED vars
    BY <2>9 DEF CopyForOthers, Copy, AbortPublication, vars, trees
  <2> QED BY <1>1, <2>5, <2>6, <2>7, <2>8, <2>9 DEF Next, Still, Writing
<1>2. ASSUME WorkInv, [Next]_vars PROVE [Consumed]_vars
  BY <1>1, <1>2
<1> QED BY <1>2, WorkInvHolds, PTL DEF Spec, StageIsConsumed

==============================================================================
