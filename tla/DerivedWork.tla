----------------------------- MODULE DerivedWork -----------------------------
(***************************************************************************)
(* Derived geometry from request to commit (crates/host/src/lib.rs,        *)
(* crates/protocol/src/artifact.rs): the private stage of a request, the   *)
(* worker that writes into it, the host that verifies, publishes and       *)
(* promotes what is there.                                                 *)
(*                                                                         *)
(* A stage is a directory in the `.derived' of the bundle, that is inside  *)
(* the selected generation, and a publication of anybody copies the whole  *)
(* generation, stages of others included, and replaces it.  From then on   *)
(* one path names the copy while an open handle still names the original:  *)
(* the host's handles are pinned, the worker and every reopening go by     *)
(* path.  Generations are numbered; `root' and `prev' are the two whose    *)
(* directories exist, and a handle into an older one finds nothing.        *)
(*                                                                         *)
(* Every request recomputes the same feature from the same inputs.  What   *)
(* the worker computes depends on the revision whose geometry it reads,    *)
(* and the length of the log names a revision.                             *)
(***************************************************************************)
EXTENDS Naturals, Sequences

CONSTANTS
    Host,
    Stage,      \* names of stages, each given to one request
    None,
    MaxGen      \* bound on the number of generations

ASSUME WorkAssumption == None \notin Host \cup Stage /\ MaxGen \in Nat

VARIABLES
    log,        \* the derived results and other transactions committed
    root, prev, \* the selected generation and its predecessor
    lock,       \* the publication that holds the bundle lock and has copied
    spare,      \* names not yet given to a stage
    cache,      \* layer1_results of each host
    retained,   \* stale_last_valid_geometry of each host
    call        \* the request a host is in the middle of

trees == <<root, prev>>
vars == <<log, trees, lock, spare, cache, retained, call>>

\* What is in the directory of a stage: the `.partial' file, the private
\* verified copy, or the file under its final name, with the bytes computed
\* from the geometry of revision `base', or half of them.
Holds(file, base) == [file |-> file, base |-> base]
Half == 0
NoStage == Holds("none", Half)
Empty == Holds("empty", Half)

Revision == Len(log)
Result(stage, source, found) == [stage |-> stage, source |-> source, found |-> found]
Transaction == Result(None, 0, NoStage)
Committed == \E i \in DOMAIN log : log[i].stage # None

Idle == [at |-> "idle", source |-> 0, stage |-> None, own |-> 0, base |-> 0, pin |-> 0]

Init ==
    /\ log = <<Transaction>>
    /\ root = [no |-> 1, work |-> [s \in Stage |-> NoStage]]
    /\ prev = [no |-> 0, work |-> [s \in Stage |-> NoStage]]
    /\ lock = None
    /\ spare = Stage
    /\ cache = [h \in Host |-> None]
    /\ retained = [h \in Host |-> None]
    /\ call = [h \in Host |-> Idle]

-----------------------------------------------------------------------------
(* Paths and handles.                                                      *)

\* What a handle opened in generation n finds in stage s.
At(n, s) == IF n = root.no THEN root.work[s]
            ELSE IF n = prev.no THEN prev.work[s] ELSE NoStage

InTree(tree, n, s, stage) ==
    IF tree.no = n THEN [tree EXCEPT !.work[s] = stage] ELSE tree

Write(n, s, stage) ==
    /\ root' = InTree(root, n, s, stage)
    /\ prev' = InTree(prev, n, s, stage)

\* Stage::discard_staged: the directory itself stays.
Clear(n, s) == Write(n, s, IF At(n, s) = NoStage THEN NoStage ELSE Empty)

Found(h) == At(call[h].pin, call[h].stage)

Goto(h, at) == call' = [call EXCEPT ![h].at = at]
End(h) == call' = [call EXCEPT ![h] = Idle]
Uncache(h) == cache' = [cache EXCEPT ![h] = None]

-----------------------------------------------------------------------------
(* stage_occt_result_inner, and what the worker does meanwhile.            *)

\* Loading takes the bundle lock and answers with the current revision.
Request(h) ==
    /\ call[h] = Idle /\ lock = None
    /\ call' = [call EXCEPT ![h].at = "create", ![h].source = Revision]
    /\ UNCHANGED <<log, trees, lock, spare, cache, retained>>

CreateStage(h) ==
    /\ call[h].at = "create"
    /\ \E s \in spare :
         /\ spare' = spare \ {s}
         /\ Write(root.no, s, Empty)
         /\ call' = [call EXCEPT ![h].at = "read", ![h].stage = s, ![h].own = root.no]
    /\ UNCHANGED <<log, lock, cache, retained>>

\* The worker reads the geometry it starts from where it is by now.
ReadBase(h) ==
    /\ call[h].at = "read"
    /\ call' = [call EXCEPT ![h].at = "open", ![h].base = Revision]
    /\ UNCHANGED <<log, trees, lock, spare, cache, retained>>

OpenOutput(h) ==
    /\ call[h].at = "open" /\ root.work[call[h].stage] # NoStage
    /\ Write(root.no, call[h].stage, Holds("partial", Half))
    /\ call' = [call EXCEPT ![h].at = "write", ![h].pin = root.no]
    /\ UNCHANGED <<log, lock, spare, cache, retained>>

FinishOutput(h) ==
    /\ call[h].at = "write"
    /\ Write(call[h].pin, call[h].stage,
             IF Found(h) = NoStage THEN NoStage ELSE Holds("partial", call[h].base))
    /\ Goto(h, "accept")
    /\ UNCHANGED <<log, lock, spare, cache, retained>>

\* The worker fails, is cancelled or cannot open its output: the stage is
\* discarded through the handle of its creation.
WorkerFails(h) ==
    /\ call[h].at \in {"read", "open", "write"}
    /\ Write(call[h].own, call[h].stage, NoStage)
    /\ End(h)
    /\ UNCHANGED <<log, lock, spare, cache, retained>>

-----------------------------------------------------------------------------
(* accept_derived_result and accept_staged_artifact                        *)

\* Stage::open goes by the path and creates what is missing.
OpenAccepted(h) ==
    /\ call[h].at = "accept"
    /\ LET there == root.work[call[h].stage]
       IN  Write(root.no, call[h].stage, IF there = NoStage THEN Empty ELSE there)
    /\ call' = [call EXCEPT ![h].at = "verify", ![h].pin = root.no, ![h].own = 0]
    /\ UNCHANGED <<log, lock, spare, cache, retained>>

\* Mutant of Authentic: the digest of the header is not compared.
Present(h) == Found(h).file = "partial"

Authentic(h) == Found(h) = Holds("partial", call[h].base)

VerifyStaged(h) ==
    /\ call[h].at = "verify" /\ Authentic(h)
    /\ Write(call[h].pin, call[h].stage, Holds("verified", Found(h).base))
    /\ Goto(h, "publish")
    /\ UNCHANGED <<log, lock, spare, cache, retained>>

\* Digest, link or cached stage: every error empties the stage and leaves it.
RejectStaged(h) ==
    /\ call[h].at \in {"verify", "publish"}
    /\ Clear(call[h].pin, call[h].stage)
    /\ End(h)
    /\ UNCHANGED <<log, lock, spare, cache, retained>>

\* The key of the cache holds the revision, the inputs and the worker.
Hit(h) == cache[h] # None /\ cache[h].source = call[h].source
Served(h) == root.work[cache[h].stage] = Holds("final", cache[h].base)

Accept(h, stage, base) ==
    call' = [call EXCEPT ![h].at = "accepted", ![h].stage = stage, ![h].base = base,
                         ![h].pin = 0]

\* The artifact is the earlier one, in the stage of the earlier request.
ServeCached(h) ==
    /\ call[h].at = "publish" /\ Hit(h) /\ Served(h)
    /\ Clear(call[h].pin, call[h].stage)
    /\ Accept(h, cache[h].stage, cache[h].base)
    /\ UNCHANGED <<log, lock, spare, cache, retained>>

\* Stage::publish_verified links the private copy under its final name.
Link(h) ==
    /\ Found(h).file = "verified"
    /\ Write(call[h].pin, call[h].stage, Holds("final", Found(h).base))

PublishVerified(h) ==
    /\ call[h].at = "publish"
    /\ Hit(h) => ~Served(h) /\ root.work[cache[h].stage] # NoStage
    /\ Link(h)
    /\ cache' = [cache EXCEPT ![h] = [source |-> call[h].source,
                                     stage |-> call[h].stage, base |-> Found(h).base]]
    /\ Accept(h, call[h].stage, Found(h).base)
    /\ UNCHANGED <<log, lock, spare, retained>>

\* preview_occt_result removes the stage it was served by path.
EndPreview(h) ==
    /\ call[h].at = "accepted"
    /\ Write(root.no, call[h].stage, NoStage)
    /\ Uncache(h)
    /\ End(h)
    /\ UNCHANGED <<log, lock, spare, retained>>

-----------------------------------------------------------------------------
(* promote_occt_result_with_append                                         *)

\* Stage::open_existing goes by the path.
OpenPromoted(h) ==
    /\ call[h].at = "accepted" /\ root.work[call[h].stage] # NoStage
    /\ call' = [call EXCEPT ![h].at = "compare", ![h].pin = root.no]
    /\ UNCHANGED <<log, trees, lock, spare, cache, retained>>

Readable(h) == Found(h) = Holds("final", call[h].base)

Retain(h) ==
    retained' = [retained EXCEPT ![h] =
        [stage |-> call[h].stage, source |-> call[h].source, current |-> Revision,
         base |-> call[h].base]]

\* Mutant of ConsumeStage: the stage is left until the feature is committed.
KeepStage(h) ==
    /\ call[h].at = "compare" /\ lock = None
    /\ Readable(h) /\ call[h].source = Revision
    /\ Uncache(h)
    /\ Goto(h, "append")
    /\ UNCHANGED <<log, trees, lock, spare, retained>>

\* The request started from the current revision: the bytes are read, and the
\* stage goes before anything is copied.
ConsumeStage(h) ==
    /\ call[h].at = "compare" /\ lock = None
    /\ Readable(h) /\ call[h].source = Revision
    /\ Write(call[h].pin, call[h].stage, NoStage)
    /\ Uncache(h)
    /\ Goto(h, "append")
    /\ UNCHANGED <<log, lock, spare, retained>>

RefuseStale(h) ==
    /\ call[h].at = "compare" /\ lock = None
    /\ Readable(h) /\ call[h].source # Revision
    /\ Retain(h)
    /\ Write(call[h].pin, call[h].stage, NoStage)
    /\ Uncache(h)
    /\ End(h)
    /\ UNCHANGED <<log, lock, spare>>

\* The stage is not at its path, or cannot be read or removed: the request
\* ends, and the stage and its cache entry stay.
PromotionFails(h) ==
    /\ call[h].at \in {"accepted", "compare"}
    /\ End(h)
    /\ UNCHANGED <<log, trees, lock, spare, cache, retained>>

-----------------------------------------------------------------------------
(* The publication, under the bundle lock.                                 *)

\* Mutant of Fenced: the revision was compared before the stage was consumed.
Unfenced(h) == call[h].source \in Nat

Fenced(h) == call[h].source = Revision

Copy(by, entries) ==
    /\ lock = None /\ root.no < MaxGen
    /\ lock' = [by |-> by, work |-> root.work, entries |-> entries]
    /\ UNCHANGED <<log, trees, spare, cache, retained>>

CopyForAppend(h) ==
    /\ call[h].at = "append" /\ ~Committed /\ Fenced(h)
    /\ Copy(h, <<Result(call[h].stage, Revision, Holds("final", call[h].base))>>)
    /\ Goto(h, "publishing")

\* Anybody else's transaction; solving a sketch again, or adding a fit again,
\* changes nothing and publishes the same revision.
CopyForOthers ==
    /\ \E entries \in {<<Transaction>>, <<>>} : Copy(None, entries)
    /\ UNCHANGED call

PublisherGoesTo(at) ==
    call' = IF lock.by = None THEN call
            ELSE [call EXCEPT ![lock.by] = IF at = "idle" THEN Idle ELSE [@ EXCEPT !.at = at]]

\* The answer to a publication in place can be that its outcome is unknown.
Rotate ==
    /\ lock # None
    /\ prev' = root
    /\ root' = [no |-> root.no + 1, work |-> lock.work]
    /\ log' = log \o lock.entries
    /\ lock' = None
    /\ \E at \in {"idle", "failed"} : PublisherGoesTo(at)
    /\ UNCHANGED <<spare, cache, retained>>

AbortPublication ==
    /\ lock # None
    /\ lock' = None
    /\ PublisherGoesTo("failed")
    /\ UNCHANGED <<log, trees, spare, cache, retained>>

RefuseAppend(h) ==
    /\ call[h].at = "append" /\ lock = None
    /\ Committed \/ ~Fenced(h)
    /\ Goto(h, IF Fenced(h) THEN "failed" ELSE "stale")
    /\ UNCHANGED <<log, trees, lock, spare, cache, retained>>

\* Mutant of Outdated: whatever the append fails with, the result is stale.
AnyError(h) == call[h].at \in {"stale", "failed"}

\* Only the message of the fence says so.
Outdated(h) == call[h].at = "stale"

\* The bundle is opened once more.
RetainOutdated(h) ==
    /\ Outdated(h) /\ lock = None
    /\ Retain(h)
    /\ End(h)
    /\ UNCHANGED <<log, trees, lock, spare, cache>>

Reconcile(h) ==
    /\ call[h].at \in {"stale", "failed"}
    /\ End(h)
    /\ UNCHANGED <<log, trees, lock, spare, cache, retained>>

-----------------------------------------------------------------------------
\* A host dies: its stage, and what it was copying, are nobody's any more.
Crash(h) ==
    /\ End(h)
    /\ Uncache(h)
    /\ retained' = [retained EXCEPT ![h] = None]
    /\ lock' = IF lock # None /\ lock.by = h THEN None ELSE lock
    /\ UNCHANGED <<log, trees, spare>>

Next ==
    \/ \E h \in Host :
         \/ Request(h) \/ CreateStage(h) \/ ReadBase(h) \/ OpenOutput(h)
         \/ FinishOutput(h) \/ WorkerFails(h)
         \/ OpenAccepted(h) \/ VerifyStaged(h) \/ RejectStaged(h)
         \/ ServeCached(h) \/ PublishVerified(h) \/ EndPreview(h)
         \/ OpenPromoted(h) \/ ConsumeStage(h) \/ RefuseStale(h) \/ PromotionFails(h)
         \/ CopyForAppend(h) \/ RefuseAppend(h) \/ RetainOutdated(h) \/ Reconcile(h)
         \/ Crash(h)
    \/ CopyForOthers \/ Rotate \/ AbortPublication

Spec == Init /\ [][Next]_vars

-----------------------------------------------------------------------------
(* Properties.                                                             *)

\* Whatever was copied, renamed or served from the cache in between, the
\* bytes of a committed result are whole and were computed from the geometry
\* of the very revision the commit was fenced on (accept_staged_artifact,
\* promote_occt_result_with_append).
CommittedIsOfItsBase ==
    \A i \in DOMAIN log :
        log[i].stage # None =>
            /\ log[i].source = i - 1
            /\ log[i].found = Holds("final", i - 1)

\* Retained last-valid geometry is whole, is of a revision that is past, and
\* never what was committed (retain_stale_last_valid_geometry).
RetainedIsStale ==
    \A h \in Host :
        LET kept == retained[h]
        IN  kept # None =>
              /\ kept.source < kept.current /\ kept.base # Half
              /\ \A i \in DOMAIN log : log[i].stage # kept.stage

\* Every result, committed or kept for recovery, is of the base it names.
ResultsAreOfTheirBase == CommittedIsOfItsBase /\ RetainedIsStale

\* "The request stage is consumed before persistence copies the bundle, so
\* transient worker artifacts cannot become part of the new generation": true
\* of the committed request's own stage, if the generation that is copied is
\* the one the stage was consumed in.
StageIsConsumed ==
    [][ \A h \in Host :
          lock # None /\ lock.by = h /\ root' # root /\ call[h].pin = root.no
              => root'.work[call[h].stage] = NoStage ]_vars

=============================================================================
