----------------------------- MODULE HostCommits -----------------------------
(***************************************************************************)
(* Commands of several hosts on one bundle that read it, compute, and      *)
(* publish later (crates/host/src/lib.rs): bracket parameter drafts, undo  *)
(* and historical edits, and the restoring of a lost BREP file.            *)
(*                                                                         *)
(* Publishing is one step, as BundleStore promises of the layer below:     *)
(* checked and appended under the write lock, or not at all, or applied    *)
(* with the answer unknown.  Everything a host reads before that step is   *)
(* read without a lock, and another host may publish in between.           *)
(*                                                                         *)
(* One bracket; dimensions are model values and the BREP of given          *)
(* dimensions is always the same file.  A revision hash stands for the log *)
(* it was derived from, so the length of the log names it.  Previews are   *)
(* left out: they publish nothing.                                         *)
(***************************************************************************)
EXTENDS Naturals, Sequences, SequencesExt, FiniteSetsExt

CONSTANTS
  Host,
  DraftIds,
  Dims,     \* dimensions a bracket can be given
  Created,  \* those it is created with
  None,
  Operations, \* of "undo", "redo" and "historical-edit"
  MaxLog    \* bound on the length of the log

Payloads == [draft : DraftIds \cup {None}, dims : Dims, source : Nat,
             brep : Dims \cup {None}]
Keys == ({"bracket"} \X Dims) \cup (Operations \X Nat) \cup {None}
Entries == [type : {"bracket"}, by : Host \cup {None}, dims : Dims, key : Keys,
            payload : Payloads]

ASSUME HostAssumption ==
  /\ Created \in Dims /\ MaxLog \in Nat
  /\ None \notin Dims \cup DraftIds /\ None \notin Entries

VARIABLES
  log,      \* the sealed transaction log
  brep,     \* the dimensions of the committed BREP file, None when it is lost
  drafts,   \* bracket_drafts of each host
  call,     \* the command a host is in the middle of
  reply     \* the answer just given to a draft commit

vars == <<log, brep, drafts, call, reply>>

Idle == [at |-> "idle"]
NoReply == [out |-> "none"]

Event(ordinal, active, kept, position) ==
  [type |-> "event", ordinal |-> ordinal, active |-> active, kept |-> kept,
   position |-> position]
Feature == [type |-> "feature"]
Entry(by, dims, key, payload) ==
  [type |-> "bracket", by |-> by, dims |-> dims, key |-> key, payload |-> payload]

Payload(id, draft) ==
  [draft |-> id, dims |-> draft.dims, source |-> draft.source, brep |-> draft.brep]
DraftKey(dims) == <<"bracket", dims>>
HistoryKey(operation, ordinal) == <<operation, ordinal>>

-----------------------------------------------------------------------------
(* What a log says.                                                        *)

Positions(l, type) == {i \in DOMAIN l : l[i].type = type}
Ordinal(l) == Cardinality(Positions(l, "event"))
Active(l) == l[Max(Positions(l, "event"))].active
Brackets(l) == {l[i] : i \in Positions(l, "bracket")}

\* The bracket's kind in the feature graph, and what its BREP must digest to.
GraphDims(l) == l[Max(Positions(l, "bracket"))].dims

Init ==
  /\ LET first == [dims |-> Created, source |-> 0, brep |-> None]
     IN  log = <<Event(1, Created, None, None),
                 Entry(None, Created, DraftKey(Created), Payload(None, first))>>
  /\ brep = Created
  /\ drafts = [h \in Host |-> [id \in DraftIds |-> None]]
  /\ call = [h \in Host |-> Idle]
  /\ reply = NoReply

-----------------------------------------------------------------------------
(* The layer below, under the write lock.                                  *)

\* Mutant of Verdict: the event's ordinal is not compared with the log's.
VerdictOfRevision(key, payload, event) ==
  LET bound == {e \in Brackets(log) : e.key = key}
  IN  IF key # None /\ bound # {}
      THEN IF \E e \in bound : e.payload = payload THEN "same" ELSE "key"
      ELSE IF payload.source = Len(log) /\ payload.brep \in {brep, None}
           THEN "apply" ELSE "invalid"

\* A bound key answers before anything else is looked at.
Verdict(key, payload, event) ==
  LET bound == {e \in Brackets(log) : e.key = key}
  IN  IF key # None /\ bound # {}
      THEN IF \E e \in bound : e.payload = payload THEN "same" ELSE "key"
      ELSE IF /\ payload.source = Len(log)
              /\ payload.brep \in {brep, None}
              /\ event.ordinal = Ordinal(log) + 1
           THEN "apply" ELSE "invalid"

\* The history event goes before the bracket, and a bracket that the graph has
\* already is not appended.
Transaction(event, entry) ==
  IF entry = None \/ entry.dims = GraphDims(log) THEN <<event>> ELSE <<event, entry>>

Publish(event, entry) ==
  /\ log' = log \o Transaction(event, entry)
  /\ Len(log') <= MaxLog
  /\ brep' = IF entry = None THEN brep ELSE entry.dims

\* A feature of another command, and a Derived Result that is disposed of.
AppendFeature ==
  /\ Len(log) < MaxLog
  /\ log' = Append(log, Feature)
  /\ reply' = NoReply
  /\ UNCHANGED <<brep, drafts, call>>

LoseBrep ==
  /\ brep # None
  /\ brep' = None
  /\ reply' = NoReply
  /\ UNCHANGED <<log, drafts, call>>

-----------------------------------------------------------------------------
(* Bracket parameter drafts.                                               *)

Goto(h, next) ==
  /\ call' = [call EXCEPT ![h] = next]
  /\ reply' = NoReply
  /\ UNCHANGED <<log, brep, drafts>>

Start(h, next) == call[h] = Idle /\ Goto(h, next)

\* Only these answers say anything of the log.
Telling == {"ok", "stale", "changed"}

Answer(h, out) ==
  /\ reply' = IF out \in Telling
              THEN [out |-> out, to |-> h, id |-> call[h].id, draft |-> call[h].draft]
              ELSE NoReply
  /\ call' = [call EXCEPT ![h] = Idle]
  /\ drafts' = IF out = "ok" THEN [drafts EXCEPT ![h][call[h].id] = None] ELSE drafts

Refuse(h, out) == Answer(h, out) /\ UNCHANGED <<log, brep>>

\* open_bracket_parameter_draft: the log is read, then the BREP file.
OpenDraft(h, id, dims) ==
  /\ drafts[h][id] = None
  /\ Start(h, [at |-> "bind", id |-> id, dims |-> dims, seen |-> Len(log)])

BindDraft(h) ==
  /\ call[h].at = "bind"
  /\ LET c == call[h]
     IN  drafts' = IF brep = None THEN drafts
                   ELSE [drafts EXCEPT ![h][c.id] =
                           [dims |-> c.dims, source |-> c.seen, brep |-> brep]]
  /\ call' = [call EXCEPT ![h] = Idle]
  /\ reply' = NoReply
  /\ UNCHANGED <<log, brep>>

\* The caller holds the current sequence and fingerprint of the draft.
UpdateDraft(h, id, dims) ==
  /\ call[h] = Idle
  /\ drafts[h][id] # None
  /\ drafts[h][id].dims # dims
  /\ drafts' = [drafts EXCEPT ![h][id].dims = dims]
  /\ reply' = NoReply
  /\ UNCHANGED <<log, brep, call>>

DiscardDraft(h, id) ==
  /\ call[h] = Idle
  /\ drafts[h][id] # None
  /\ drafts' = [drafts EXCEPT ![h][id] = None]
  /\ reply' = NoReply
  /\ UNCHANGED <<log, brep, call>>

\* Mutant of Reconcilable: a retry is not recognised.
NeverReconcilable(l, id) == FALSE

Reconcilable(l, id) == \E e \in Brackets(l) : e.payload.draft = id

\* commit_bracket_parameter_draft first looks for the draft's id in the log.
CommitDraft(h, id) ==
  /\ drafts[h][id] # None
  /\ Start(h, [at |-> IF Reconcilable(log, id) THEN "match" ELSE "load",
               id |-> id, draft |-> drafts[h][id], seen |-> Len(log)])

\* reconcile_bracket_idempotency: only the last transaction of the log it read,
\* with the very dimensions and the BREP file as it is by now.
MatchCommitted(h) ==
  /\ call[h].at = "match"
  /\ LET c == call[h]
         last == log[c.seen]
         matching == /\ last.type = "bracket"
                     /\ last.key = DraftKey(c.draft.dims)
                     /\ last.dims = c.draft.dims
                     /\ c.draft.source \in {last.payload.source, c.seen}
                     /\ brep = c.draft.dims
     IN  Refuse(h, IF matching THEN "ok" ELSE "conflict")

LoadSource(h) ==
  /\ call[h].at = "load"
  /\ Goto(h, [call[h] EXCEPT !.at = "validate", !.seen = Len(log)])

\* validate_bracket_source, edit_l_bracket and the worker, all on the snapshot
\* that was loaded; the BREP file is read now.
ValidateSource(h) ==
  /\ call[h].at = "validate"
  /\ LET c == call[h]
         loaded == SubSeq(log, 1, c.seen)
         event == Event(Ordinal(loaded) + 1, c.draft.dims, Active(loaded), None)
     IN  IF c.seen # c.draft.source THEN Refuse(h, "stale")
         ELSE IF brep # c.draft.brep THEN Refuse(h, "changed")
         ELSE Goto(h, [at |-> "promote", id |-> c.id, draft |-> c.draft, event |-> event])

PromoteDraft(h) ==
  /\ call[h].at = "promote"
  /\ LET c == call[h]
         key == DraftKey(c.draft.dims)
         payload == Payload(c.id, c.draft)
         verdict == Verdict(key, payload, c.event)
         Failed(error) == [at |-> "reconcile", id |-> c.id, draft |-> c.draft, error |-> error]
     IN  \/ /\ verdict = "apply"
            /\ Publish(c.event, Entry(h, c.draft.dims, key, payload))
            /\ \E out \in {"ok", "unknown"} : Answer(h, out)
         \/ verdict = "same" /\ Refuse(h, "ok")
         \/ verdict \in {"key", "invalid"} /\ Goto(h, Failed(verdict))
         \/ Goto(h, Failed("io"))

\* reconcile_bracket_promotion: somebody may have published this very draft.
ReconcilePromotion(h) ==
  /\ call[h].at = "reconcile"
  /\ LET c == call[h]
         published == \E e \in Brackets(log) :
                         /\ e.key = DraftKey(c.draft.dims)
                         /\ e.payload = Payload(c.id, c.draft)
     IN  IF published /\ brep = c.draft.dims THEN Refuse(h, "ok")
         ELSE Goto(h, [c EXCEPT !.at = "classify"])

ClassifyError(h) ==
  /\ call[h].at = "classify"
  /\ LET c == call[h]
     IN  Refuse(h, CASE c.error = "io" -> "failed"
                     [] c.error = "key" -> "conflict"
                     [] c.error = "invalid" /\ Len(log) # c.draft.source -> "stale"
                     [] c.error = "invalid" /\ Len(log) = c.draft.source
                        /\ brep # c.draft.brep -> "changed"
                     [] OTHER -> "failed")

-----------------------------------------------------------------------------
(* Undo, redo, historical edits and Named Revisions.                        *)

Restorable == {log[i].active : i \in Positions(log, "event")} \ {Active(log)}

\* The event is computed from the first snapshot that is opened.
OpenHistory(h, operation, target) ==
  /\ operation # "historical-edit" => target \in Restorable
  /\ Start(h, [at |-> "history", operation |-> operation,
               event |-> Event(Ordinal(log) + 1, target, Active(log), Len(log))])

\* commit_history_event_with_geometry opens again, and takes the revision to
\* fence on, the geometry to recompute and the key from this second snapshot.
StageHistory(h) ==
  /\ call[h].at = "history"
  /\ LET c == call[h]
         staged == brep # None /\ c.event.active # Active(log)
         source == [dims |-> c.event.active, source |-> Len(log),
                    brep |-> IF staged THEN brep ELSE None]
     IN  Goto(h, [at |-> "publish", event |-> c.event, payload |-> Payload(None, source),
                  key |-> IF staged THEN HistoryKey(c.operation, Ordinal(log) + 1)
                          ELSE None])

\* create_named_revision opens once: event and fence are of one snapshot.
NameRevision(h) ==
  Start(h, [at |-> "publish", key |-> None,
            event |-> Event(Ordinal(log) + 1, Active(log), Active(log), Len(log)),
            payload |-> Payload(None, [dims |-> Active(log), source |-> Len(log),
                                       brep |-> None])])

\* A refused or unknown outcome is only reported.
PublishHistory(h) ==
  /\ call[h].at = "publish"
  /\ LET c == call[h]
         verdict == Verdict(c.key, c.payload, c.event)
         entry == IF c.key = None THEN None
                  ELSE Entry(h, c.event.active, c.key, c.payload)
     IN  \/ verdict = "apply" /\ Publish(c.event, entry)
         \/ verdict # "apply" /\ UNCHANGED <<log, brep>>
  /\ call' = [call EXCEPT ![h] = Idle]
  /\ reply' = NoReply
  /\ UNCHANGED drafts

-----------------------------------------------------------------------------
(* Restoring a lost BREP file, failures and crashes.                       *)

\* load_with_geometry_replay recomputes what the active snapshot says.
OpenReplay(h) ==
  /\ brep = None
  /\ Start(h, [at |-> "replay", seen |-> Len(log), dims |-> Active(log)])

\* Mutant of Authentic: the replayed bytes are not compared with the log's.
AnyBytes(dims) == dims \in Dims

Authentic(dims) == dims = GraphDims(log)

\* restore_derived_breps_if_revision; a crash between its renames loses the
\* file once more.
RestoreBrep(h) ==
  /\ call[h].at = "replay"
  /\ LET c == call[h]
     IN  brep' \in IF c.seen = Len(log) /\ Authentic(c.dims) THEN {c.dims, brep, None}
                   ELSE {brep}
  /\ call' = [call EXCEPT ![h] = Idle]
  /\ reply' = NoReply
  /\ UNCHANGED <<log, drafts>>

\* Opening the bundle or running the worker fails: the command is refused.
FailCall(h) ==
  /\ call[h] # Idle
  /\ IF call[h].at \in {"match", "load", "validate", "promote"}
     THEN Refuse(h, "failed")
     ELSE Goto(h, Idle)

Crash(h) ==
  /\ drafts' = [drafts EXCEPT ![h] = [id \in DraftIds |-> None]]
  /\ call' = [call EXCEPT ![h] = Idle]
  /\ reply' = NoReply
  /\ UNCHANGED <<log, brep>>

Next ==
  \/ AppendFeature
  \/ LoseBrep
  \/ \E h \in Host :
       \/ \E id \in DraftIds :
            \/ \E dims \in Dims : OpenDraft(h, id, dims) \/ UpdateDraft(h, id, dims)
            \/ DiscardDraft(h, id)
            \/ CommitDraft(h, id)
       \/ BindDraft(h) \/ MatchCommitted(h) \/ LoadSource(h) \/ ValidateSource(h)
       \/ PromoteDraft(h) \/ ReconcilePromotion(h) \/ ClassifyError(h)
       \/ \E operation \in Operations, dims \in Dims :
            OpenHistory(h, operation, dims)
       \/ StageHistory(h) \/ NameRevision(h) \/ PublishHistory(h)
       \/ OpenReplay(h) \/ RestoreBrep(h)
       \/ FailCall(h) \/ Crash(h)

Spec == Init /\ [][Next]_vars

-----------------------------------------------------------------------------
(* Properties.                                                             *)

TypeOK ==
  /\ brep \in Dims \cup {None}
  /\ \A h \in Host, id \in DraftIds :
       drafts[h][id] = None
         \/ drafts[h][id] \in [dims : Dims, source : DOMAIN log, brep : Dims]

\* Whatever unknown outcomes, retries, restarts and equal draft ids of two
\* hosts come together, a draft id is in the log at most once.
DraftAppliedOnce ==
  \A i, j \in Positions(log, "bracket") :
    log[i].payload.draft # None /\ log[i].payload.draft = log[j].payload.draft => i = j

\* "ok" is answered only for a draft whose dimensions a committed draft or the
\* creation has brought (or that changes nothing), and a draft told to be
\* discarded and opened again, because it is stale or its source has changed,
\* was never applied.
AnswersAreTrue ==
  reply # NoReply =>
    LET r == reply
        Logged == {e \in Brackets(log) : e.key = DraftKey(r.draft.dims)}
    IN  /\ r.out = "ok" => Logged # {} \/ r.draft.dims = r.draft.brep
        /\ r.out \in {"stale", "changed"} =>
             ~ \E e \in Logged : e.by = r.to /\ e.payload = Payload(r.id, r.draft)

\* A draft is applied once and answered for as what happened to it
\* (commit_bracket_parameter_draft and its three reconciliations).
DraftsAreFaithful == TypeOK /\ DraftAppliedOnce /\ AnswersAreTrue

Displaced(i) == Active(SubSeq(log, 1, i - 1))

\* A history event displaces the snapshot it was computed from: none is
\* applied over an edit that came after the command looked (the event is
\* built from one opened snapshot, the fence is taken from a second one).
EventsFollowTheirBase ==
  \A i \in Positions(log, "event") \ {1} :
    log[i].kept = Displaced(i) /\ log[i].ordinal = Ordinal(SubSeq(log, 1, i))

\* The BREP file, when there is one, is the geometry the log authenticates:
\* anything else and the bundle does not open.
BrepIsOfTheRevision == brep # None => brep = GraphDims(log)

=============================================================================
