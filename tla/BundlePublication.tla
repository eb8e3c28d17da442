------------------------- MODULE BundlePublication -------------------------
(***************************************************************************)
(* Publication of sealed Project Generations (crates/persistence).         *)
(*                                                                         *)
(* A bundle is three sibling directories: the selected generation `dest',  *)
(* its immediate predecessor `prev', and a `retired' generation that is    *)
(* only ever an intermediate of a rotation.  Every load and every append   *)
(* holds the advisory lock of the containing directory; a process that     *)
(* dies leaves the slots exactly as they are and the kernel drops its lock *)
(* A rename either happens or fails, the recursive removal of a retired    *)
(* generation can be interrupted half way, and syncing the parent can fail *)
(* after the new generation is already in place.                           *)
(*                                                                         *)
(* A sealed generation is identified with its transaction log: the         *)
(* manifest binds the digest of the hash-chained log, so two generations   *)
(* with the same log are the same Project Generation.                      *)
(***************************************************************************)
EXTENDS Naturals, Sequences

CONSTANTS
    Proc,       \* processes (TUI, CLI, MCP) that open the same bundle
    Txn,        \* transactions: entries, payload and idempotency key
    KeyOf,      \* idempotency key of each transaction, or NoKey
    NoKey,
    Load,       \* the request that only loads the bundle
    Absent,     \* nothing at this path / no value
    Torn,       \* a directory that does not authenticate
    PriorEpoch, \* a sealed generation of the prior schema epoch, v0
    NoProc,     \* nobody holds the lock
    MaxLog      \* bound: no request starts once the log is this long

ASSUME MarkersDistinct ==
    /\ Absent # Torn /\ Absent # PriorEpoch /\ Torn # PriorEpoch
    /\ Absent \notin Seq(Txn) /\ Torn \notin Seq(Txn) /\ PriorEpoch \notin Seq(Txn)
    /\ Load \notin Txn /\ Absent \notin Txn \cup {Load}
    /\ NoProc \notin Proc

ASSUME MaxLogAssumption == MaxLog \in Nat

VARIABLES
    dest, prev, retired,    \* the three slots on disk
    holder,                 \* the process that holds the bundle lock
    pc,                     \* where each process is
    req, fence,             \* its request and the revision it expects
    loaded, stage,          \* the generation it opened, the one it staged
    current,                \* the snapshot its host keeps between requests
    reply,                  \* outcome of its last request
    acked                   \* history: transactions answered "ok"

slots == <<dest, prev, retired>>
locals == <<req, fence, loaded, stage>>
outcomes == <<current, reply, acked>>
vars == <<slots, holder, pc, locals, outcomes>>

Generation == Seq(Txn)
Sealed(g) == g \notin {Absent, Torn, PriorEpoch}

Phase == {"idle", "wait", "open", "check", "create", "publish", "replace",
          "promote", "undoReplace", "undoRetire", "cleanup", "sync", "reopen"}

Outcome == {"none", "ok", "io", "unknown", "invalid", "stale", "missing"}

TypeOK ==
    /\ dest \in Generation \cup {Absent, Torn}
    /\ prev \in Generation \cup {Absent, Torn}
    /\ retired \in Generation \cup {Absent, Torn}
    /\ holder \in Proc \cup {NoProc}
    /\ pc \in [Proc -> Phase]
    /\ req \in [Proc -> Txn \cup {Load, Absent}]
    /\ fence \in [Proc -> Generation \cup {Absent}]
    /\ loaded \in [Proc -> Generation \cup {Absent}]
    /\ stage \in [Proc -> Generation \cup {Absent}]
    /\ current \in [Proc -> Generation \cup {Absent}]
    /\ reply \in [Proc -> Outcome]
    /\ acked \subseteq Txn

Init ==
    /\ dest = Absent /\ prev = Absent /\ retired = Absent
    /\ holder = NoProc
    /\ pc = [p \in Proc |-> "idle"]
    /\ req = [p \in Proc |-> Absent]
    /\ fence = [p \in Proc |-> Absent]
    /\ loaded = [p \in Proc |-> Absent]
    /\ stage = [p \in Proc |-> Absent]
    /\ current = [p \in Proc |-> Absent]
    /\ reply = [p \in Proc |-> "none"]
    /\ acked = {}

-----------------------------------------------------------------------------
(* The generation a load selects, and the rotation a load must finish.     *)

Selected == IF dest # Absent THEN dest ELSE prev

NeedsReconcile == dest # Absent /\ prev = Absent /\ retired # Absent

\* Mutant of Bound: compares whole transactions instead of their keys.
BoundToSame(log, t) == KeyOf[t] # NoKey /\ \E i \in DOMAIN log : log[i] = t

Bound(log, t) ==
    KeyOf[t] # NoKey /\ \E i \in DOMAIN log : KeyOf[log[i]] = KeyOf[t]

SameTransaction(log, t) == \E i \in DOMAIN log : log[i] = t

\* Mutant of FenceHolds: the expected revision is not compared.
FenceIgnored(p) == p \in Proc

FenceHolds(p) == fence[p] \in {Absent, loaded[p]}

Goto(p, l) == pc' = [pc EXCEPT ![p] = l]

\* Mutant of Drop: an early return that keeps the lock.
DropKeepingLock(p) ==
    /\ Goto(p, "idle")
    /\ UNCHANGED holder
    /\ req' = [req EXCEPT ![p] = Absent]
    /\ fence' = [fence EXCEPT ![p] = Absent]
    /\ loaded' = [loaded EXCEPT ![p] = Absent]
    /\ stage' = [stage EXCEPT ![p] = Absent]

\* The request of p ends with an outcome: the lock is released and every
\* local of the call is gone.
Drop(p) ==
    /\ Goto(p, "idle")
    /\ holder' = IF holder = p THEN NoProc ELSE holder
    /\ req' = [req EXCEPT ![p] = Absent]
    /\ fence' = [fence EXCEPT ![p] = Absent]
    /\ loaded' = [loaded EXCEPT ![p] = Absent]
    /\ stage' = [stage EXCEPT ![p] = Absent]

Fail(p, outcome) ==
    /\ Drop(p)
    /\ reply' = [reply EXCEPT ![p] = outcome]
    /\ UNCHANGED <<current, acked>>

Succeed(p, generation) ==
    /\ Drop(p)
    /\ reply' = [reply EXCEPT ![p] = "ok"]
    /\ current' = [current EXCEPT ![p] = generation]
    /\ acked' = IF req[p] = Load THEN acked ELSE acked \cup {req[p]}

-----------------------------------------------------------------------------
(* Requests and the lock.                                                  *)

Begin(p, r, f) ==
    /\ pc[p] = "idle"
    /\ Sealed(Selected) => Len(Selected) < MaxLog
    /\ r = Load => f = Absent
    /\ Goto(p, "wait")
    /\ req' = [req EXCEPT ![p] = r]
    /\ fence' = [fence EXCEPT ![p] = f]
    /\ reply' = [reply EXCEPT ![p] = "none"]
    /\ UNCHANGED <<slots, holder, loaded, stage, current, acked>>

\* Mutant of AcquireLock: the lock excludes nobody.
AcquireSharedLock(p) ==
    /\ pc[p] = "wait"
    /\ holder' = p
    /\ Goto(p, "open")
    /\ UNCHANGED <<slots, locals, outcomes>>

AcquireLock(p) ==
    /\ pc[p] = "wait" /\ holder = NoProc
    /\ holder' = p
    /\ Goto(p, "open")
    /\ UNCHANGED <<slots, locals, outcomes>>

-----------------------------------------------------------------------------
(* Opening: finish an interrupted rotation, then authenticate one slot.    *)

\* Mutant of ReconcileRotation: discards the retired generation.
ReconcileByDiscarding(p) ==
    /\ pc[p] \in {"open", "reopen"}
    /\ NeedsReconcile /\ Sealed(retired)
    /\ retired' = Absent
    /\ UNCHANGED <<dest, prev, holder, pc, locals, outcomes>>

ReconcileRotation(p) ==
    /\ pc[p] \in {"open", "reopen"}
    /\ NeedsReconcile /\ Sealed(retired)
    /\ prev' = retired
    /\ retired' = Absent
    /\ UNCHANGED <<dest, holder, pc, locals, outcomes>>

LoadSelected(p) ==
    /\ pc[p] = "open" /\ req[p] = Load
    /\ ~NeedsReconcile /\ Sealed(Selected)
    /\ Succeed(p, Selected)
    /\ UNCHANGED slots

OpenForAppend(p) ==
    /\ pc[p] = "open" /\ req[p] # Load
    /\ ~NeedsReconcile /\ Sealed(Selected)
    /\ loaded' = [loaded EXCEPT ![p] = Selected]
    /\ Goto(p, "check")
    /\ UNCHANGED <<slots, holder, req, fence, stage, outcomes>>

\* No generation at all: a load reports the missing path, the first append
\* creates the sealed empty generation before anything else.
OpenNothing(p) ==
    /\ pc[p] = "open"
    /\ dest = Absent /\ prev = Absent
    /\ UNCHANGED slots
    /\ \/ req[p] = Load /\ Fail(p, "missing")
       \/ /\ req[p] # Load
          /\ Goto(p, "create")
          /\ UNCHANGED <<holder, locals, outcomes>>

\* The slot to open, or the retired generation to restore, does not
\* authenticate: the bundle cannot be opened.
Unauthentic ==
    IF NeedsReconcile THEN ~Sealed(retired) ELSE Selected \in {Torn, PriorEpoch}

\* A read or the reconciling rename reports an I/O error, or what is there is
\* refused; once published, either leaves the publication unknown.
OpenFails(p) ==
    /\ pc[p] \in {"open", "reopen"}
    /\ \E outcome \in {"io"} \cup (IF Unauthentic THEN {"invalid"} ELSE {}) :
           Fail(p, IF pc[p] = "open" THEN outcome ELSE "unknown")
    /\ UNCHANGED slots

ReopenPublished(p) ==
    /\ pc[p] = "reopen"
    /\ ~NeedsReconcile /\ Sealed(Selected)
    /\ Succeed(p, Selected)
    /\ UNCHANGED slots

-----------------------------------------------------------------------------
(* Checks of an append against the generation opened under the lock.       *)

\* Mutant of AnswerBoundKey: any use of a bound key counts as a retry.
AnswerAnyBoundKey(p) ==
    /\ pc[p] = "check" /\ Bound(loaded[p], req[p])
    /\ UNCHANGED slots
    /\ Succeed(p, loaded[p])

AnswerBoundKey(p) ==
    /\ pc[p] = "check" /\ Bound(loaded[p], req[p])
    /\ UNCHANGED slots
    /\ \/ SameTransaction(loaded[p], req[p]) /\ Succeed(p, loaded[p])
       \/ ~SameTransaction(loaded[p], req[p]) /\ Fail(p, "invalid")

RefuseStaleFence(p) ==
    /\ pc[p] = "check" /\ ~Bound(loaded[p], req[p]) /\ ~FenceHolds(p)
    /\ Fail(p, "stale")
    /\ UNCHANGED slots

\* Validation of the entries refuses the transaction, or preparing the
\* staged generation fails and the staging directory is discarded.
RefuseTransaction(p) ==
    /\ pc[p] = "check" /\ ~Bound(loaded[p], req[p]) /\ FenceHolds(p)
    /\ \E outcome \in {"invalid", "io"} : Fail(p, outcome)
    /\ UNCHANGED slots

\* Mutant of StageTransaction: the host adopts the snapshot it stages.
StageAndAdopt(p) ==
    /\ pc[p] = "check" /\ ~Bound(loaded[p], req[p]) /\ FenceHolds(p)
    /\ stage' = [stage EXCEPT ![p] = Append(loaded[p], req[p])]
    /\ current' = [current EXCEPT ![p] = Append(loaded[p], req[p])]
    /\ Goto(p, "publish")
    /\ UNCHANGED <<slots, holder, req, fence, loaded, reply, acked>>

StageTransaction(p) ==
    /\ pc[p] = "check" /\ ~Bound(loaded[p], req[p]) /\ FenceHolds(p)
    /\ stage' = [stage EXCEPT ![p] = Append(loaded[p], req[p])]
    /\ Goto(p, "publish")
    /\ UNCHANGED <<slots, holder, req, fence, loaded, outcomes>>

StageEmpty(p) ==
    /\ pc[p] = "create"
    /\ stage' = [stage EXCEPT ![p] = <<>>]
    /\ Goto(p, "publish")
    /\ UNCHANGED <<slots, holder, req, fence, loaded, outcomes>>

StageEmptyFails(p) ==
    /\ pc[p] = "create"
    /\ Fail(p, "io")
    /\ UNCHANGED slots

-----------------------------------------------------------------------------
(* Publication of the staged generation.                                   *)

\* Nothing at the destination: first save, or a rotation interrupted
\* between the two renames.
PromoteFresh(p) ==
    /\ pc[p] = "publish" /\ dest = Absent
    /\ dest' = stage[p]
    /\ Goto(p, "sync")
    /\ UNCHANGED <<prev, retired, holder, locals, outcomes>>

PromoteFreshFails(p) ==
    /\ pc[p] = "publish" /\ dest = Absent
    /\ Fail(p, "io")
    /\ UNCHANGED slots

\* Mutant of Removing: the retired generation goes before the promotion.
RemovingEarly(p) ==
    \/ pc[p] \in {"replace", "cleanup"}
    \/ pc[p] = "publish" /\ dest # Absent

\* Recursive removal of a retired generation, before a rotation and after
\* a promotion: it can stop half way.
Removing(p) == pc[p] = "cleanup" \/ (pc[p] = "publish" /\ dest # Absent)

TearRetired(p) ==
    /\ Removing(p) /\ retired \notin {Absent, Torn}
    /\ retired' = Torn
    /\ UNCHANGED <<dest, prev, holder, pc, locals, outcomes>>

RemoveRetired(p) ==
    /\ Removing(p) /\ retired # Absent
    /\ retired' = Absent
    /\ UNCHANGED <<dest, prev, holder, pc, locals, outcomes>>

RemoveRetiredFails(p) ==
    /\ pc[p] = "publish" /\ dest # Absent /\ retired # Absent
    /\ Fail(p, "io")
    /\ UNCHANGED slots

RetirePrevious(p) ==
    /\ pc[p] = "publish" /\ dest # Absent /\ retired = Absent /\ prev # Absent
    /\ retired' = prev
    /\ prev' = Absent
    /\ Goto(p, "replace")
    /\ UNCHANGED <<dest, holder, locals, outcomes>>

RetirePreviousFails(p) ==
    /\ pc[p] = "publish" /\ dest # Absent /\ retired = Absent /\ prev # Absent
    /\ Fail(p, "io")
    /\ UNCHANGED slots

Replacing(p) ==
    \/ pc[p] = "replace"
    \/ pc[p] = "publish" /\ dest # Absent /\ retired = Absent /\ prev = Absent

ReplaceCurrent(p) ==
    /\ Replacing(p)
    /\ prev' = dest
    /\ dest' = Absent
    /\ Goto(p, "promote")
    /\ UNCHANGED <<retired, holder, locals, outcomes>>

ReplaceCurrentFails(p) ==
    /\ Replacing(p)
    /\ Goto(p, "undoRetire")
    /\ UNCHANGED <<slots, holder, locals, outcomes>>

\* A directory is never renamed onto a non-empty directory.
PromoteStaging(p) ==
    /\ pc[p] = "promote" /\ dest = Absent
    /\ dest' = stage[p]
    /\ Goto(p, "cleanup")
    /\ UNCHANGED <<prev, retired, holder, locals, outcomes>>

PromoteStagingFails(p) ==
    /\ pc[p] = "promote"
    /\ Goto(p, "undoReplace")
    /\ UNCHANGED <<slots, holder, locals, outcomes>>

\* Best-effort compensation: each rename can itself fail and is ignored.
UndoReplace(p) ==
    /\ pc[p] = "undoReplace"
    /\ Goto(p, "undoRetire")
    /\ UNCHANGED <<retired, holder, locals, outcomes>>
    /\ \/ dest = Absent /\ dest' = prev /\ prev' = Absent
       \/ UNCHANGED <<dest, prev>>

UndoRetire(p) ==
    /\ pc[p] = "undoRetire"
    /\ Fail(p, "io")
    /\ UNCHANGED dest
    /\ \/ retired # Absent /\ prev = Absent /\ prev' = retired /\ retired' = Absent
       \/ UNCHANGED <<prev, retired>>

\* The retired generation is gone, or its removal failed and is left for
\* the next publication.
EndCleanup(p) ==
    /\ pc[p] = "cleanup"
    /\ Goto(p, "sync")
    /\ UNCHANGED <<slots, holder, locals, outcomes>>

\* After the empty generation the append opens it and goes on; after a
\* transaction the published generation is reopened.
SyncParent(p) ==
    /\ pc[p] = "sync" /\ req[p] # Load
    /\ Goto(p, IF stage[p] = <<>> THEN "open" ELSE "reopen")
    /\ stage' = [stage EXCEPT ![p] = Absent]
    /\ UNCHANGED <<slots, holder, req, fence, loaded, outcomes>>

\* Mutant of SyncParentFails: reports the failed sync like any I/O error.
SyncParentFailsIo(p) ==
    /\ pc[p] = "sync" /\ req[p] # Load
    /\ Fail(p, "io")
    /\ UNCHANGED slots

SyncParentFails(p) ==
    /\ pc[p] = "sync" /\ req[p] # Load
    /\ Fail(p, "unknown")
    /\ UNCHANGED slots

-----------------------------------------------------------------------------
\* The process dies between any two steps.  Its staging directory is left
\* behind under a name no later publication uses.
Crash(p) ==
    /\ Drop(p)
    /\ current' = [current EXCEPT ![p] = Absent]
    /\ reply' = [reply EXCEPT ![p] = "none"]
    /\ UNCHANGED <<slots, acked>>

OpenStep(p) ==
    \/ ReconcileRotation(p) \/ LoadSelected(p) \/ OpenForAppend(p)
    \/ OpenNothing(p) \/ OpenFails(p) \/ ReopenPublished(p)

CheckStep(p) ==
    \/ AnswerBoundKey(p) \/ RefuseStaleFence(p) \/ RefuseTransaction(p)
    \/ StageTransaction(p) \/ StageEmpty(p) \/ StageEmptyFails(p)

PublishStep(p) ==
    \/ PromoteFresh(p) \/ PromoteFreshFails(p)
    \/ TearRetired(p) \/ RemoveRetired(p) \/ RemoveRetiredFails(p)
    \/ RetirePrevious(p) \/ RetirePreviousFails(p)
    \/ ReplaceCurrent(p) \/ ReplaceCurrentFails(p)
    \/ PromoteStaging(p) \/ PromoteStagingFails(p)
    \/ UndoReplace(p) \/ UndoRetire(p)
    \/ EndCleanup(p) \/ SyncParent(p) \/ SyncParentFails(p)

Step(p) == AcquireLock(p) \/ OpenStep(p) \/ CheckStep(p) \/ PublishStep(p)

Request(p) ==
    \E r \in Txn \cup {Load} : \E f \in {Absent, current[p]} : Begin(p, r, f)

Next == \E p \in Proc : Request(p) \/ Step(p) \/ Crash(p)

Spec == Init /\ [][Next]_vars

\* A process that is scheduled finishes its call unless it dies; a waiter
\* that finds the lock free again and again is eventually granted it.
Fairness == \A p \in Proc : WF_vars(Step(p)) /\ SF_vars(AcquireLock(p))

FairSpec == Spec /\ Fairness

-----------------------------------------------------------------------------
(* Properties.                                                             *)

Extends(g, q) == \E t \in Txn : g = Append(q, t)

\* Whatever step a process dies in, and whatever rename fails, the next
\* open finds an authenticated generation: the selected slot is never a
\* partial directory, and a rotation that must be finished has an authentic
\* retired generation to put back (publish_staged, open_locked).
AlwaysRecoverable ==
    /\ Selected # Torn
    /\ NeedsReconcile => Sealed(retired)

\* A transaction the caller was told is committed is in the generation every
\* later open selects, across crashes and failed publications.
AckedNeverLost ==
    \A t \in acked : Sealed(Selected) /\ SameTransaction(Selected, t)

\* While the current generation is in its slot, the generation it was built
\* from is kept: in the previous slot, or, when a rotation was interrupted,
\* in the retired slot from which the next open restores it.
PredecessorRetained ==
    dest \notin {Absent, <<>>} =>
        LET predecessor == IF prev # Absent THEN prev ELSE retired
        IN  Sealed(predecessor) /\ Extends(dest, predecessor)

\* Retrying with the same idempotency key after an unknown outcome, a crash
\* or from another process never applies the transaction twice, and a key is
\* never bound to two transactions.
KeyAppliedOnce ==
    Sealed(Selected) =>
        \A i, j \in DOMAIN Selected :
            KeyOf[Selected[i]] # NoKey /\ KeyOf[Selected[i]] = KeyOf[Selected[j]]
                => i = j

\* The snapshot a host serves from memory is a committed past of what is on
\* disk: a failed or unknown publication never leaves it ahead of the disk.
SnapshotIsCommitted ==
    \A p \in Proc : current[p] # Absent =>
        /\ Sealed(Selected)
        /\ Len(current[p]) <= Len(Selected)
        /\ SubSeq(Selected, 1, Len(current[p])) = current[p]

\* The selected generation changes only by one whole transaction, applied to
\* exactly the revision its request expects: no update is lost to a
\* concurrent writer and none lands on another revision than its fence.
FencedGrowth ==
    [][ Selected' # Selected =>
          \/ Selected = Absent /\ Selected' = <<>>
          \/ \E p \in Proc :
                /\ fence[p] \in {Absent, Selected}
                /\ Selected' = Append(Selected, req[p]) ]_vars

\* A call that answers with an error other than "publication unknown" has
\* left the selected generation as it found it, also when undoing the
\* rotation failed.
RefusedLeavesNoTrace ==
    [][ \A p \in Proc :
          /\ pc[p] # "idle" /\ pc'[p] = "idle"
          /\ reply'[p] \in {"io", "invalid", "stale"}
          /\ loaded[p] # Absent
          => Selected' = loaded[p] ]_vars

\* Every request ends, also when the process that held the lock died in the
\* middle of a publication.
EveryRequestEnds == \A p \in Proc : pc[p] # "idle" ~> pc[p] = "idle"

-----------------------------------------------------------------------------
(* The inductive invariant behind the properties: who may be inside the    *)
(* lock, what the slots look like between any two steps, and what the      *)
(* process inside the lock knows about them.                               *)

LockDiscipline == \A p \in Proc : pc[p] \notin {"idle", "wait"} <=> holder = p

SlotDiscipline ==
    /\ dest # Torn /\ prev # Torn
    /\ dest = Absent /\ prev = Absent => retired = Absent
    /\ retired = Torn => prev # Absent

\* What p published or is about to publish on top of what it opened.
Fresh(p) ==
    /\ loaded[p] \in Generation
    /\ stage[p] = Append(loaded[p], req[p])
    /\ ~Bound(loaded[p], req[p]) /\ FenceHolds(p)

PhaseOf(p) ==
    /\ IF pc[p] = "idle" THEN req[p] = Absent ELSE req[p] \in Txn \cup {Load}
    /\ pc[p] \in {"idle", "wait", "open", "create"} => loaded[p] = Absent
    /\ pc[p] \notin {"idle", "wait", "open"} => req[p] \in Txn
    /\ pc[p] = "check" =>
          loaded[p] = Selected /\ loaded[p] \in Generation /\ ~NeedsReconcile
    /\ pc[p] = "create" => dest = Absent /\ prev = Absent
    /\ pc[p] = "publish" =>
          \/ /\ stage[p] = <<>> /\ loaded[p] = Absent
             /\ dest = Absent /\ prev = Absent
          \/ Fresh(p) /\ loaded[p] = Selected /\ ~NeedsReconcile
    /\ pc[p] = "replace" =>
          /\ Fresh(p) /\ loaded[p] = dest
          /\ prev = Absent /\ retired \in Generation
    /\ pc[p] \in {"promote", "undoReplace"} =>
          /\ Fresh(p) /\ loaded[p] = prev
          /\ dest = Absent /\ retired # Torn
          /\ prev # <<>> => retired # Absent /\ Extends(prev, retired)
    /\ pc[p] = "undoRetire" => loaded[p] = Selected /\ loaded[p] \in Generation
    /\ pc[p] = "cleanup" => Fresh(p) /\ dest = stage[p] /\ prev = loaded[p]
    /\ pc[p] = "sync" =>
          \/ /\ stage[p] = <<>> /\ loaded[p] = Absent
             /\ dest = <<>> /\ prev = Absent
          \/ Fresh(p) /\ dest = stage[p] /\ prev = loaded[p]
    /\ pc[p] = "reopen" =>
          /\ loaded[p] \in Generation
          /\ dest = Append(loaded[p], req[p]) /\ prev = loaded[p]

PhaseDiscipline == \A p \in Proc : PhaseOf(p)

IInv ==
    /\ TypeOK
    /\ LockDiscipline
    /\ SlotDiscipline
    /\ PredecessorRetained
    /\ PhaseDiscipline

-----------------------------------------------------------------------------
(* Publication implements the abstract store: the log of the store is the  *)
(* selected generation, and a request takes effect with the rename that    *)
(* promotes its staged generation.                                         *)

TookEffect(p) == pc[p] \in {"cleanup", "reopen"} \/ (pc[p] = "sync" /\ stage[p] # <<>>)

Store == INSTANCE BundleStore WITH
            log <- Selected,
            done <- [p \in Proc |-> TookEffect(p)]

\* The slots, renames, compensations and recoveries together behave as one
\* log to which every transaction is applied atomically or not at all, with
\* answers that never contradict it.
ImplementsStore == Store!Spec
=============================================================================
