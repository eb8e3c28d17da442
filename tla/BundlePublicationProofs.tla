---------------------- MODULE BundlePublicationProofs -----------------------
(***************************************************************************)
(* Proofs about BundlePublication, for every set of processes and          *)
(* transactions.  The invariant IInv is inductive; what the runs check on  *)
(* an instance follows from it, power loss (BundleDurability) included.    *)
(* What is staged and migrated between publications (RootGap, Migration)   *)
(* has an invariant of its own.                                            *)
(***************************************************************************)
EXTENDS BundleDurability, Migration, TLAPS

\* A log that was appended to is a generation, is not the empty one, and
\* keeps what it held.
LEMMA AppendFacts ==
    ASSUME NEW s \in Seq(Txn), NEW t \in Txn
    PROVE  /\ Append(s, t) \in Seq(Txn)
           /\ Append(s, t) # <<>>
           /\ Len(Append(s, t)) = Len(s) + 1
           /\ \A i \in 1..Len(s) : Append(s, t)[i] = s[i]
           /\ Append(s, t)[Len(s) + 1] = t
  OBVIOUS

\* A sealed generation is none of the markers.
LEMMA SealedFacts ==
    ASSUME NEW g
    PROVE  /\ g \in Generation => g # Absent /\ g # Torn /\ Sealed(g)
           /\ g \in Generation \cup {Absent, Torn} /\ Sealed(g) => g \in Generation
  BY MarkersDistinct DEF Generation, Sealed

-----------------------------------------------------------------------------
(* The lock.                                                               *)

\* While p is inside the lock everybody else is outside.
LEMMA OthersOutside ==
    ASSUME LockDiscipline, NEW p \in Proc, NEW q \in Proc, q # p,
           holder \in {p, NoProc}
    PROVE  pc[q] \in {"idle", "wait"}
  BY MarkersDistinct DEF LockDiscipline

\* A process that stays inside keeps the lock.
LEMMA StaysInside ==
    ASSUME TypeOK, LockDiscipline, NEW p \in Proc, pc[p] \notin {"idle", "wait"},
           NEW l \in Phase \ {"idle", "wait"}, Goto(p, l), UNCHANGED holder
    PROVE  LockDiscipline'
  BY DEF TypeOK, LockDiscipline, Goto

\* What the processes outside rely on does not depend on the slots.
LEMMA OutsideKeeps ==
    ASSUME PhaseDiscipline, NEW q \in Proc, pc[q] \in {"idle", "wait"},
           pc'[q] = pc[q], req'[q] = req[q], loaded'[q] = loaded[q]
    PROVE  PhaseOf(q)'
  BY DEF PhaseDiscipline, PhaseOf

\* A step inside the lock has to be checked against its own process only.
LEMMA InsideStep ==
    ASSUME TypeOK, LockDiscipline, PhaseDiscipline,
           NEW p \in Proc, pc[p] \notin {"idle", "wait"},
           NEW l \in Phase \ {"idle", "wait"}, Goto(p, l),
           UNCHANGED <<holder, req>>, PhaseOf(p)',
           \A q \in Proc \ {p} : loaded'[q] = loaded[q]
    PROVE  LockDiscipline' /\ PhaseDiscipline'
<1>1. LockDiscipline'
  BY StaysInside
<1>2. holder = p
  BY DEF LockDiscipline
<1>3. ASSUME NEW q \in Proc, q # p PROVE PhaseOf(q)'
  <2>1. pc[q] \in {"idle", "wait"}
    BY <1>2, <1>3, OthersOutside
  <2>2. pc'[q] = pc[q] /\ req'[q] = req[q] /\ loaded'[q] = loaded[q]
    BY <1>3 DEF TypeOK, Goto
  <2>3. QED
    BY <2>1, <2>2, OutsideKeeps
<1>4. QED
  BY <1>1, <1>3 DEF PhaseDiscipline

\* A call that ends, or a process that dies, leaves the slots to the others.
LEMMA DropStep ==
    ASSUME TypeOK, LockDiscipline, PhaseDiscipline, NEW p \in Proc, Drop(p),
           pc[p] \notin {"idle", "wait"} \/ UNCHANGED slots
    PROVE  LockDiscipline' /\ PhaseDiscipline'
<1>1. LockDiscipline'
  BY MarkersDistinct DEF TypeOK, LockDiscipline, Drop, Goto
<1>2. PhaseOf(p)'
  BY DEF TypeOK, Drop, Goto, PhaseOf
<1>3. ASSUME NEW q \in Proc, q # p PROVE PhaseOf(q)'
  <2>1. pc'[q] = pc[q] /\ req'[q] = req[q] /\ loaded'[q] = loaded[q]
        /\ stage'[q] = stage[q] /\ fence'[q] = fence[q]
    BY <1>3 DEF TypeOK, Drop, Goto
  <2>2. CASE pc[q] \in {"idle", "wait"}
    BY <2>1, <2>2, OutsideKeeps
  <2>3. CASE pc[q] \notin {"idle", "wait"}
    <3>1. UNCHANGED slots
      BY <1>3, <2>3 DEF LockDiscipline
    <3>2. PhaseOf(q)
      BY DEF PhaseDiscipline
    <3>3. QED
      BY <2>1, <3>1, <3>2 DEF PhaseOf, slots, Fresh, FenceHolds, Selected, NeedsReconcile
  <2>4. QED
    BY <2>2, <2>3
<1>4. QED
  BY <1>1, <1>2, <1>3 DEF PhaseDiscipline

-----------------------------------------------------------------------------
(* Every action preserves the inductive invariant.                         *)

\* Slots that stay as they are keep their order.
LEMMA SlotsKept ==
    ASSUME SlotDiscipline, PredecessorRetained, UNCHANGED slots
    PROVE  SlotDiscipline' /\ PredecessorRetained'
  BY DEF SlotDiscipline, PredecessorRetained, slots, Sealed, Extends

LEMMA FailKeeps ==
    ASSUME IInv, NEW p \in Proc, NEW outcome \in Outcome, Fail(p, outcome),
           UNCHANGED slots
    PROVE  IInv'
<1>1. TypeOK'
  BY DEF IInv, TypeOK, Fail, Drop, Goto, slots, Phase
<1>2. LockDiscipline' /\ PhaseDiscipline'
  BY DropStep DEF IInv, Fail
<1>3. QED
  BY <1>1, <1>2, SlotsKept DEF IInv

LEMMA SucceedKeeps ==
    ASSUME IInv, NEW p \in Proc, NEW g \in Generation, Succeed(p, g),
           req[p] \in Txn \cup {Load}, UNCHANGED slots
    PROVE  IInv'
<1>1. TypeOK'
  BY DEF IInv, TypeOK, Succeed, Drop, Goto, slots, Phase, Outcome
<1>2. LockDiscipline' /\ PhaseDiscipline'
  BY DropStep DEF IInv, Succeed
<1>3. QED
  BY <1>1, <1>2, SlotsKept DEF IInv

LEMMA CrashKeeps ==
    ASSUME IInv, NEW p \in Proc, Crash(p)
    PROVE  IInv'
<1>1. TypeOK'
  BY DEF IInv, TypeOK, Crash, Drop, Goto, slots, Phase, Outcome
<1>2. LockDiscipline' /\ PhaseDiscipline'
  BY DropStep DEF IInv, Crash
<1>3. QED
  BY <1>1, <1>2, SlotsKept DEF IInv, Crash

LEMMA RequestKeeps ==
    ASSUME IInv, NEW p \in Proc, Request(p)
    PROVE  IInv'
<1>1. PICK r \in Txn \cup {Load}, f \in {Absent, current[p]} : Begin(p, r, f)
  BY DEF Request
<1>2. TypeOK'
  BY <1>1 DEF IInv, TypeOK, Begin, Goto, slots, Phase, Outcome
<1>3. LockDiscipline'
  BY <1>1 DEF IInv, TypeOK, LockDiscipline, Begin, Goto
<1>4. PhaseDiscipline'
  <2>1. PhaseOf(p)'
    BY <1>1 DEF IInv, TypeOK, PhaseDiscipline, PhaseOf, Begin, Goto
  <2>2. ASSUME NEW q \in Proc, q # p PROVE PhaseOf(q)'
    <3>1. /\ pc'[q] = pc[q] /\ req'[q] = req[q] /\ loaded'[q] = loaded[q]
          /\ stage'[q] = stage[q] /\ fence'[q] = fence[q] /\ UNCHANGED slots
      BY <1>1, <2>2 DEF IInv, TypeOK, Begin, Goto
    <3>2. PhaseOf(q)
      BY DEF IInv, PhaseDiscipline
    <3>3. QED
      BY <3>1, <3>2 DEF PhaseOf, slots, Fresh, FenceHolds, Selected, NeedsReconcile
  <2>3. QED
    BY <2>1, <2>2 DEF PhaseDiscipline
<1>5. QED
  BY <1>1, <1>2, <1>3, <1>4, SlotsKept DEF IInv, Begin

LEMMA AcquireLockKeeps ==
    ASSUME IInv, NEW p \in Proc, AcquireLock(p)
    PROVE  IInv'
<1>1. TypeOK'
  BY DEF IInv, TypeOK, AcquireLock, Goto, slots, locals, outcomes, Phase
<1>2. LockDiscipline'
  BY MarkersDistinct DEF IInv, TypeOK, LockDiscipline, AcquireLock, Goto
<1>3. PhaseDiscipline'
  <2>1. PhaseOf(p)'
    BY DEF IInv, TypeOK, PhaseDiscipline, PhaseOf, AcquireLock, Goto, locals
  <2>2. ASSUME NEW q \in Proc, q # p PROVE PhaseOf(q)'
    <3>1. pc[q] \in {"idle", "wait"}
      BY <2>2, OthersOutside DEF IInv, AcquireLock
    <3>2. pc'[q] = pc[q] /\ req'[q] = req[q] /\ loaded'[q] = loaded[q]
      BY <2>2 DEF IInv, TypeOK, AcquireLock, Goto, locals
    <3>3. QED
      BY <3>1, <3>2, OutsideKeeps DEF IInv
  <2>3. QED
    BY <2>1, <2>2 DEF PhaseDiscipline
<1>4. QED
  BY <1>1, <1>2, <1>3, SlotsKept DEF IInv, AcquireLock

\* A failed or refused call, wherever it stops.
LEMMA RefusalKeeps ==
    ASSUME IInv, NEW p \in Proc,
           \/ OpenFails(p) \/ RefuseStaleFence(p)
           \/ RefuseTransaction(p) \/ StageEmptyFails(p) \/ PromoteFreshFails(p)
           \/ RemoveRetiredFails(p) \/ RetirePreviousFails(p) \/ SyncParentFails(p)
    PROVE  IInv'
<1>1. PICK outcome \in Outcome : Fail(p, outcome) /\ UNCHANGED slots
  BY DEF OpenFails, RefuseStaleFence, RefuseTransaction,
         StageEmptyFails, PromoteFreshFails, RemoveRetiredFails,
         RetirePreviousFails, SyncParentFails, Outcome
<1>2. QED
  BY <1>1, FailKeeps

\* A call that is answered from the generation it opened.
LEMMA AnswerKeeps ==
    ASSUME IInv, NEW p \in Proc,
           LoadSelected(p) \/ ReopenPublished(p) \/ AnswerBoundKey(p)
    PROVE  IInv'
<1>1. CASE LoadSelected(p)
  <2>1. Selected \in Generation
    BY <1>1, SealedFacts DEF LoadSelected, IInv, TypeOK, Selected
  <2>2. QED
    BY <1>1, <2>1, SucceedKeeps DEF LoadSelected
<1>2. CASE ReopenPublished(p)
  <2>1. Selected \in Generation
    BY <1>2, SealedFacts DEF ReopenPublished, IInv, TypeOK, Selected
  <2>2. req[p] \in Txn
    BY <1>2 DEF ReopenPublished, IInv, PhaseDiscipline, PhaseOf
  <2>3. QED
    BY <1>2, <2>1, <2>2, SucceedKeeps DEF ReopenPublished
<1>3. CASE AnswerBoundKey(p)
  <2>1. loaded[p] \in Generation /\ req[p] \in Txn
    BY <1>3 DEF AnswerBoundKey, IInv, PhaseDiscipline, PhaseOf
  <2>2. QED
    BY <1>3, <2>1, SucceedKeeps, FailKeeps DEF AnswerBoundKey, Outcome
<1>4. QED
  BY <1>1, <1>2, <1>3

-----------------------------------------------------------------------------
(* Steps inside the lock.                                                  *)

\* The phases a process inside the lock goes through.
LEMMA InsidePhases ==
    /\ {"open", "check", "create", "publish", "replace", "promote",
        "undoReplace", "undoRetire", "cleanup", "sync", "reopen"}
          = Phase \ {"idle", "wait"}
  BY DEF Phase

\* The processes outside the lock are not disturbed by a rename.
LEMMA SlotStep ==
    ASSUME IInv, NEW p \in Proc, pc[p] \notin {"idle", "wait"},
           UNCHANGED <<holder, pc, locals>>, PhaseOf(p)'
    PROVE  LockDiscipline' /\ PhaseDiscipline'
<1>1. LockDiscipline'
  BY DEF IInv, LockDiscipline
<1>2. holder = p
  BY DEF IInv, LockDiscipline
<1>3. ASSUME NEW q \in Proc, q # p PROVE PhaseOf(q)'
  <2>1. pc[q] \in {"idle", "wait"}
    BY <1>2, <1>3, OthersOutside DEF IInv
  <2>2. pc'[q] = pc[q] /\ req'[q] = req[q] /\ loaded'[q] = loaded[q]
    BY DEF locals
  <2>3. QED
    BY <2>1, <2>2, OutsideKeeps DEF IInv
<1>4. QED
  BY <1>1, <1>3 DEF PhaseDiscipline

LEMMA ReconcileRotationKeeps ==
    ASSUME IInv, NEW p \in Proc, ReconcileRotation(p)
    PROVE  IInv'
<1>1. TypeOK'
  BY DEF IInv, TypeOK, ReconcileRotation, locals, outcomes
<1>2. PhaseOf(p)
  BY DEF IInv, PhaseDiscipline
<1>3. PhaseOf(p)'
  BY <1>2, MarkersDistinct DEF IInv, TypeOK, PhaseOf, ReconcileRotation, locals,
     NeedsReconcile, Generation
<1>4. SlotDiscipline' /\ PredecessorRetained'
  BY MarkersDistinct DEF IInv, SlotDiscipline, PredecessorRetained,
     ReconcileRotation, NeedsReconcile, Sealed
<1>5. QED
  BY <1>1, <1>3, <1>4, SlotStep DEF IInv, ReconcileRotation

LEMMA OpenForAppendKeeps ==
    ASSUME IInv, NEW p \in Proc, OpenForAppend(p)
    PROVE  IInv'
<1>1. Selected \in Generation
  BY SealedFacts DEF OpenForAppend, IInv, TypeOK, Selected
<1>2. TypeOK'
  BY <1>1 DEF IInv, TypeOK, OpenForAppend, Goto, slots, outcomes, Phase
<1>3. PhaseOf(p)'
  <2>1. PhaseOf(p)
    BY DEF IInv, PhaseDiscipline
  <2>2. QED
    BY <1>1, <2>1 DEF IInv, TypeOK, PhaseOf, OpenForAppend, Goto, slots, Selected,
       NeedsReconcile
<1>4. LockDiscipline' /\ PhaseDiscipline'
  BY <1>3, InsideStep, InsidePhases DEF IInv, OpenForAppend
<1>5. QED
  BY <1>2, <1>4, SlotsKept DEF IInv, OpenForAppend

LEMMA OpenNothingKeeps ==
    ASSUME IInv, NEW p \in Proc, OpenNothing(p)
    PROVE  IInv'
<1>1. CASE Fail(p, "missing")
  BY <1>1, FailKeeps DEF OpenNothing, Outcome
<1>2. CASE req[p] # Load /\ Goto(p, "create") /\ UNCHANGED <<holder, locals, outcomes>>
  <2>1. TypeOK'
    BY <1>2 DEF IInv, TypeOK, OpenNothing, Goto, slots, locals, outcomes, Phase
  <2>2. PhaseOf(p)'
    BY <1>2 DEF IInv, TypeOK, PhaseDiscipline, PhaseOf, OpenNothing, Goto, slots, locals
  <2>3. LockDiscipline' /\ PhaseDiscipline'
    BY <1>2, <2>2, InsideStep, InsidePhases DEF IInv, OpenNothing, locals
  <2>4. QED
    BY <1>2, <2>1, <2>3, SlotsKept DEF IInv, OpenNothing
<1>3. QED
  BY <1>1, <1>2 DEF OpenNothing

LEMMA StageKeeps ==
    ASSUME IInv, NEW p \in Proc, StageTransaction(p) \/ StageEmpty(p)
    PROVE  IInv'
<1>1. CASE StageTransaction(p)
  <2>1. /\ loaded[p] = Selected /\ loaded[p] \in Generation
        /\ req[p] \in Txn /\ ~NeedsReconcile
    BY <1>1 DEF StageTransaction, IInv, PhaseDiscipline, PhaseOf
  <2>2. Append(loaded[p], req[p]) \in Generation
    BY <2>1, AppendFacts DEF Generation
  <2>3. TypeOK'
    BY <1>1, <2>2 DEF IInv, TypeOK, StageTransaction, Goto, slots, outcomes, Phase
  <2>4. PhaseOf(p)'
    <3>1. /\ pc'[p] = "publish" /\ stage'[p] = Append(loaded[p], req[p])
          /\ UNCHANGED <<dest, prev, retired, req, fence, loaded>>
      BY <1>1 DEF IInv, TypeOK, StageTransaction, Goto, slots
    <3>2. Fresh(p)'
      BY <1>1, <2>1, <3>1 DEF StageTransaction, Fresh, FenceHolds
    <3>3. QED
      BY <2>1, <3>1, <3>2 DEF PhaseOf, Selected, NeedsReconcile
  <2>5. QED
    BY <1>1, <2>3, <2>4, SlotsKept, InsideStep, InsidePhases DEF IInv, StageTransaction
<1>2. CASE StageEmpty(p)
  <2>1. TypeOK'
    BY <1>2 DEF IInv, TypeOK, StageEmpty, Goto, slots, outcomes, Phase, Generation
  <2>2. PhaseOf(p)'
    BY <1>2 DEF IInv, TypeOK, PhaseDiscipline, PhaseOf, StageEmpty, Goto, slots
  <2>3. QED
    BY <1>2, <2>1, <2>2, SlotsKept, InsideStep, InsidePhases DEF IInv, StageEmpty
<1>3. QED
  BY <1>1, <1>2

-----------------------------------------------------------------------------
(* Publication.                                                            *)

\* A generation with one more transaction extends the one it was built from.
LEMMA FreshExtends ==
    ASSUME NEW p \in Proc, Fresh(p), req[p] \in Txn
    PROVE  /\ stage[p] \in Generation /\ stage[p] # <<>>
           /\ Extends(stage[p], loaded[p])
  BY AppendFacts DEF Fresh, Extends, Generation

LEMMA PromoteFreshKeeps ==
    ASSUME IInv, NEW p \in Proc, PromoteFresh(p)
    PROVE  IInv'
<1>1. /\ PhaseOf(p) /\ req[p] \in Txn /\ pc[p] = "publish" /\ dest = Absent
      /\ prev \in Generation \cup {Absent}
  BY DEF PromoteFresh, IInv, PhaseDiscipline, PhaseOf, TypeOK, SlotDiscipline
<1>2. /\ dest' = stage[p] /\ pc'[p] = "sync"
      /\ UNCHANGED <<prev, retired, req, fence, loaded, stage>>
  BY DEF IInv, TypeOK, PromoteFresh, Goto, locals
<1>3. CASE stage[p] = <<>> /\ loaded[p] = Absent /\ prev = Absent
  <2>1. PhaseOf(p)'
    BY <1>1, <1>2, <1>3 DEF PhaseOf
  <2>2. TypeOK'
    BY <1>3 DEF IInv, TypeOK, PromoteFresh, Goto, locals, outcomes, Phase, Generation
  <2>3. retired = Absent
    BY <1>1, <1>3 DEF IInv, SlotDiscipline
  <2>4. SlotDiscipline' /\ PredecessorRetained'
    <3>1. dest' = <<>> /\ <<>> \in Generation /\ prev' = Absent /\ retired' = Absent
      BY <1>2, <1>3, <2>3 DEF Generation
    <3>2. <<>> # Absent /\ <<>> # Torn
      BY <3>1, SealedFacts
    <3>3. QED
      BY <3>1, <3>2, MarkersDistinct DEF SlotDiscipline, PredecessorRetained
  <2>5. QED
    BY <2>1, <2>2, <2>4, InsideStep, InsidePhases DEF IInv, PromoteFresh, locals
<1>4. CASE Fresh(p) /\ loaded[p] = prev /\ prev \in Generation
  <2>1. PhaseOf(p)'
    BY <1>1, <1>2, <1>4 DEF PhaseOf, Fresh, FenceHolds
  <2>2. TypeOK'
    BY <1>1, <1>4, FreshExtends
       DEF IInv, TypeOK, PromoteFresh, Goto, locals, outcomes, Phase
  <2>3. SlotDiscipline' /\ PredecessorRetained'
    BY <1>1, <1>2, <1>4, FreshExtends, SealedFacts, MarkersDistinct
       DEF IInv, SlotDiscipline, PredecessorRetained, Extends
  <2>4. QED
    BY <1>1, <2>1, <2>2, <2>3, InsideStep, InsidePhases DEF IInv, PromoteFresh, locals
<1>5. QED
  BY <1>1, <1>3, <1>4 DEF PhaseOf, Fresh, Selected

\* Removing the retired generation, all of it or half of it.
LEMMA RemoveKeeps ==
    ASSUME IInv, NEW p \in Proc, TearRetired(p) \/ RemoveRetired(p)
    PROVE  IInv'
<1>1. PhaseOf(p) /\ Removing(p)
  BY DEF TearRetired, RemoveRetired, IInv, PhaseDiscipline
<1>2. /\ retired' \in {Torn, Absent} /\ retired # Absent
      /\ UNCHANGED <<dest, prev, holder, pc, locals, outcomes>>
  BY MarkersDistinct DEF TearRetired, RemoveRetired, Sealed
<1>3. prev # Absent
  BY <1>1, <1>2, SealedFacts DEF PhaseOf, Removing, Fresh, NeedsReconcile
<1>4. TypeOK'
  BY <1>2 DEF IInv, TypeOK, locals, outcomes
<1>5. SlotDiscipline' /\ PredecessorRetained'
  BY <1>2, <1>3 DEF IInv, SlotDiscipline, PredecessorRetained, Extends
<1>6. PhaseOf(p)'
  <2>1. CASE pc[p] = "cleanup"
    BY <1>1, <1>2, <2>1 DEF PhaseOf, Fresh, FenceHolds, locals
  <2>2. CASE pc[p] = "publish"
    BY <1>1, <1>2, <1>3, <2>2
       DEF PhaseOf, Fresh, FenceHolds, Selected, NeedsReconcile, locals
  <2>3. QED
    BY <1>1, <2>1, <2>2 DEF Removing
<1>7. QED
  BY <1>1, <1>2, <1>4, <1>5, <1>6, SlotStep DEF IInv, Removing

LEMMA RetirePreviousKeeps ==
    ASSUME IInv, NEW p \in Proc, RetirePrevious(p)
    PROVE  IInv'
<1>1. /\ PhaseOf(p) /\ req[p] \in Txn /\ pc[p] = "publish"
      /\ dest # Absent /\ prev \in Generation
  BY DEF RetirePrevious, IInv, PhaseDiscipline, PhaseOf, TypeOK, SlotDiscipline
<1>2. /\ retired' = prev /\ prev' = Absent /\ dest' = dest /\ pc'[p] = "replace"
      /\ UNCHANGED <<req, fence, loaded, stage>>
  BY DEF IInv, TypeOK, RetirePrevious, Goto, locals
<1>3. TypeOK'
  BY <1>1 DEF IInv, TypeOK, RetirePrevious, Goto, locals, outcomes, Phase
<1>4. SlotDiscipline' /\ PredecessorRetained'
  BY <1>1, <1>2, SealedFacts, MarkersDistinct
     DEF IInv, SlotDiscipline, PredecessorRetained, Extends
<1>5. PhaseOf(p)'
  BY <1>1, <1>2 DEF PhaseOf, Fresh, FenceHolds, Selected
<1>6. QED
  BY <1>1, <1>3, <1>4, <1>5, InsideStep, InsidePhases DEF IInv, RetirePrevious, locals

LEMMA ReplaceCurrentKeeps ==
    ASSUME IInv, NEW p \in Proc, ReplaceCurrent(p)
    PROVE  IInv'
<1>1. PhaseOf(p) /\ req[p] \in Txn /\ pc[p] \in {"publish", "replace"}
  BY DEF ReplaceCurrent, Replacing, IInv, PhaseDiscipline, PhaseOf
<1>2. /\ prev' = dest /\ dest' = Absent /\ retired' = retired
      /\ pc'[p] = "promote" /\ UNCHANGED <<req, fence, loaded, stage>>
  BY DEF IInv, TypeOK, ReplaceCurrent, Goto, locals
<1>3. /\ Fresh(p) /\ loaded[p] = dest /\ dest \in Generation /\ dest # Absent
      /\ prev = Absent /\ retired # Torn
  <2>1. CASE pc[p] = "replace"
    BY <1>1, <2>1, SealedFacts DEF PhaseOf, Fresh
  <2>2. CASE pc[p] = "publish"
    BY <1>1, <2>2, MarkersDistinct DEF PhaseOf, Fresh, Selected, ReplaceCurrent, Replacing
  <2>3. QED
    BY <1>1, <2>1, <2>2
<1>4. dest # <<>> => retired # Absent /\ Extends(dest, retired)
  BY <1>3 DEF IInv, PredecessorRetained, Sealed
<1>5. TypeOK'
  BY <1>3 DEF IInv, TypeOK, ReplaceCurrent, Goto, locals, outcomes, Phase
<1>6. SlotDiscipline' /\ PredecessorRetained'
  BY <1>2, <1>3, SealedFacts, MarkersDistinct DEF SlotDiscipline, PredecessorRetained
<1>7. PhaseOf(p)'
  BY <1>1, <1>2, <1>3, <1>4 DEF PhaseOf, Fresh, FenceHolds, Extends
<1>8. QED
  BY <1>1, <1>5, <1>6, <1>7, InsideStep, InsidePhases DEF IInv, ReplaceCurrent, locals

LEMMA PromoteStagingKeeps ==
    ASSUME IInv, NEW p \in Proc, PromoteStaging(p)
    PROVE  IInv'
<1>1. PhaseOf(p) /\ req[p] \in Txn /\ pc[p] = "promote"
  BY DEF PromoteStaging, IInv, PhaseDiscipline, PhaseOf
<1>2. /\ dest' = stage[p] /\ pc'[p] = "cleanup"
      /\ UNCHANGED <<prev, retired, req, fence, loaded, stage>>
  BY DEF IInv, TypeOK, PromoteStaging, Goto, locals
<1>3. /\ Fresh(p) /\ loaded[p] = prev /\ prev \in Generation /\ retired # Torn
  BY <1>1 DEF PhaseOf, Fresh
<1>4. TypeOK'
  BY <1>1, <1>3, FreshExtends
     DEF IInv, TypeOK, PromoteStaging, Goto, locals, outcomes, Phase
<1>5. SlotDiscipline' /\ PredecessorRetained'
  BY <1>1, <1>2, <1>3, FreshExtends, SealedFacts
     DEF IInv, SlotDiscipline, PredecessorRetained, Extends
<1>6. PhaseOf(p)'
  BY <1>1, <1>2, <1>3 DEF PhaseOf, Fresh, FenceHolds
<1>7. QED
  BY <1>1, <1>4, <1>5, <1>6, InsideStep, InsidePhases DEF IInv, PromoteStaging, locals

\* A failed rename hands over to the compensation.
LEMMA RenameFailsKeeps ==
    ASSUME IInv, NEW p \in Proc, ReplaceCurrentFails(p) \/ PromoteStagingFails(p)
    PROVE  IInv'
<1>1. PhaseOf(p)
  BY DEF IInv, PhaseDiscipline
<1>2. CASE ReplaceCurrentFails(p)
  <2>1. /\ pc'[p] = "undoRetire" /\ pc[p] \in {"publish", "replace"}
        /\ UNCHANGED <<dest, prev, retired, req, loaded>>
    BY <1>2 DEF IInv, TypeOK, ReplaceCurrentFails, Replacing, Goto, locals, slots
  <2>2. loaded[p] = Selected /\ loaded[p] \in Generation /\ req[p] \in Txn
    <3>1. CASE pc[p] = "replace"
      BY <1>1, <3>1, SealedFacts DEF PhaseOf, Fresh, Selected
    <3>2. CASE pc[p] = "publish"
      BY <1>1, <1>2, <3>2 DEF PhaseOf, Fresh, ReplaceCurrentFails, Replacing
    <3>3. QED
      BY <2>1, <3>1, <3>2
  <2>3. TypeOK'
    BY <1>2 DEF IInv, TypeOK, ReplaceCurrentFails, Goto, slots, locals, outcomes, Phase
  <2>4. PhaseOf(p)'
    BY <2>1, <2>2 DEF PhaseOf, Selected
  <2>5. QED
    BY <1>2, <2>1, <2>3, <2>4, SlotsKept, InsideStep, InsidePhases
       DEF IInv, ReplaceCurrentFails, locals
<1>3. CASE PromoteStagingFails(p)
  <2>1. /\ pc'[p] = "undoReplace" /\ pc[p] = "promote"
        /\ UNCHANGED <<dest, prev, retired, req, fence, loaded, stage>>
    BY <1>3 DEF IInv, TypeOK, PromoteStagingFails, Goto, locals, slots
  <2>2. TypeOK'
    BY <1>3 DEF IInv, TypeOK, PromoteStagingFails, Goto, slots, locals, outcomes, Phase
  <2>3. PhaseOf(p)'
    BY <1>1, <2>1 DEF PhaseOf, Fresh, FenceHolds, Extends
  <2>4. QED
    BY <1>3, <2>1, <2>2, <2>3, SlotsKept, InsideStep, InsidePhases
       DEF IInv, PromoteStagingFails, locals
<1>4. QED
  BY <1>2, <1>3

LEMMA UndoReplaceKeeps ==
    ASSUME IInv, NEW p \in Proc, UndoReplace(p)
    PROVE  IInv'
<1>1. PhaseOf(p) /\ req[p] \in Txn /\ pc[p] = "undoReplace"
  BY DEF UndoReplace, IInv, PhaseDiscipline, PhaseOf
<1>2. /\ pc'[p] = "undoRetire" /\ UNCHANGED <<retired, req, fence, loaded, stage>>
      /\ \/ dest' = prev /\ prev' = Absent
         \/ UNCHANGED <<dest, prev>>
  BY DEF IInv, TypeOK, UndoReplace, Goto, locals
<1>3. /\ loaded[p] = prev /\ prev \in Generation /\ dest = Absent /\ retired # Torn
      /\ prev # <<>> => retired # Absent /\ Extends(prev, retired)
  BY <1>1 DEF PhaseOf, Fresh
<1>4. TypeOK'
  BY <1>2 DEF IInv, TypeOK, UndoReplace, Goto, locals, outcomes, Phase
<1>5. SlotDiscipline' /\ PredecessorRetained'
  <2>1. retired # Absent => Sealed(retired)
    BY <1>3, SealedFacts DEF IInv, TypeOK
  <2>2. QED
    BY <1>2, <1>3, <2>1, MarkersDistinct
       DEF IInv, SlotDiscipline, PredecessorRetained, Extends
<1>6. PhaseOf(p)'
  BY <1>1, <1>2, <1>3, SealedFacts DEF PhaseOf, Selected
<1>7. QED
  BY <1>1, <1>4, <1>5, <1>6, InsideStep, InsidePhases DEF IInv, UndoReplace, locals

LEMMA UndoRetireKeeps ==
    ASSUME IInv, NEW p \in Proc, UndoRetire(p)
    PROVE  IInv'
<1>1. CASE UNCHANGED <<prev, retired>>
  BY <1>1, FailKeeps DEF UndoRetire, slots, Outcome
<1>2. CASE retired # Absent /\ prev = Absent /\ prev' = retired /\ retired' = Absent
  <2>1. dest' = dest /\ retired \in Generation /\ dest # Absent
    BY <1>2, MarkersDistinct DEF UndoRetire, IInv, TypeOK, SlotDiscipline
  <2>2. TypeOK'
    BY <1>2 DEF IInv, TypeOK, UndoRetire, Fail, Drop, Goto, Phase, Outcome
  <2>3. LockDiscipline' /\ PhaseDiscipline'
    BY DropStep DEF IInv, UndoRetire, Fail
  <2>4. SlotDiscipline' /\ PredecessorRetained'
    BY <1>2, <2>1, SealedFacts, MarkersDistinct
       DEF IInv, SlotDiscipline, PredecessorRetained, Extends
  <2>5. QED
    BY <2>2, <2>3, <2>4 DEF IInv
<1>3. QED
  BY <1>1, <1>2 DEF UndoRetire

LEMMA EndKeeps ==
    ASSUME IInv, NEW p \in Proc, EndCleanup(p) \/ SyncParent(p)
    PROVE  IInv'
<1>1. PhaseOf(p) /\ req[p] \in Txn
  BY DEF EndCleanup, SyncParent, IInv, PhaseDiscipline, PhaseOf
<1>2. CASE EndCleanup(p)
  <2>1. /\ pc'[p] = "sync" /\ pc[p] = "cleanup"
        /\ UNCHANGED <<dest, prev, retired, req, fence, loaded, stage>>
    BY <1>2 DEF IInv, TypeOK, EndCleanup, Goto, locals, slots
  <2>2. TypeOK'
    BY <1>2 DEF IInv, TypeOK, EndCleanup, Goto, slots, locals, outcomes, Phase
  <2>3. PhaseOf(p)'
    BY <1>1, <2>1 DEF PhaseOf, Fresh, FenceHolds
  <2>4. QED
    BY <1>2, <2>1, <2>2, <2>3, SlotsKept, InsideStep, InsidePhases
       DEF IInv, EndCleanup, locals
<1>3. CASE SyncParent(p)
  <2>1. /\ pc[p] = "sync" /\ pc'[p] = IF stage[p] = <<>> THEN "open" ELSE "reopen"
        /\ Goto(p, pc'[p]) /\ UNCHANGED <<dest, prev, retired, req, loaded>>
    BY <1>3 DEF IInv, TypeOK, SyncParent, Goto, slots
  <2>2. TypeOK'
    BY <1>3 DEF IInv, TypeOK, SyncParent, Goto, slots, outcomes, Phase
  <2>3. PhaseOf(p)'
    BY <1>1, <2>1 DEF PhaseOf, Fresh
  <2>4. pc'[p] \in Phase \ {"idle", "wait"}
    BY <2>1 DEF Phase
  <2>5. QED
    BY <1>3, <2>1, <2>2, <2>3, <2>4, SlotsKept, InsideStep DEF IInv, SyncParent
<1>4. QED
  BY <1>2, <1>3

-----------------------------------------------------------------------------
(* The invariant.                                                          *)

LEMMA InitIInv == Init => IInv
  BY MarkersDistinct DEF Init, IInv, TypeOK, LockDiscipline, SlotDiscipline,
     PredecessorRetained, PhaseDiscipline, PhaseOf, Phase, Outcome

LEMMA StutterKeeps ==
    ASSUME IInv, UNCHANGED vars
    PROVE  IInv'
  BY DEF IInv, vars, slots, locals, outcomes, TypeOK, LockDiscipline, SlotDiscipline,
     PredecessorRetained, Sealed, Extends, PhaseDiscipline, PhaseOf, Fresh,
     FenceHolds, Selected, NeedsReconcile

LEMMA NextIInv ==
    ASSUME IInv, [Next]_vars
    PROVE  IInv'
<1>1. CASE UNCHANGED vars
  BY <1>1, StutterKeeps
<1>2. ASSUME NEW p \in Proc, Request(p) PROVE IInv'
  BY <1>2, RequestKeeps
<1>3. ASSUME NEW p \in Proc, Crash(p) PROVE IInv'
  BY <1>3, CrashKeeps
<1>4. ASSUME NEW p \in Proc, AcquireLock(p) PROVE IInv'
  BY <1>4, AcquireLockKeeps
<1>5. ASSUME NEW p \in Proc, OpenStep(p) PROVE IInv'
  BY <1>5, ReconcileRotationKeeps, AnswerKeeps, OpenForAppendKeeps,
     OpenNothingKeeps, RefusalKeeps DEF OpenStep
<1>6. ASSUME NEW p \in Proc, CheckStep(p) PROVE IInv'
  BY <1>6, AnswerKeeps, RefusalKeeps, StageKeeps DEF CheckStep
<1>7. ASSUME NEW p \in Proc, PublishStep(p) PROVE IInv'
  BY <1>7, PromoteFreshKeeps, RefusalKeeps, RemoveKeeps, RetirePreviousKeeps,
     ReplaceCurrentKeeps, RenameFailsKeeps, PromoteStagingKeeps,
     UndoReplaceKeeps, UndoRetireKeeps, EndKeeps DEF PublishStep
<1>8. QED
  BY <1>1, <1>2, <1>3, <1>4, <1>5, <1>6, <1>7 DEF Next, Step

\* The slots, the lock and the phases are in order in every reachable state:
\* IInv, which the runs check, holds for any processes and transactions.
THEOREM InvariantHolds == Spec => []IInv
<1>1. Init => IInv
  BY InitIInv
<1>2. IInv /\ [Next]_vars => IInv'
  BY NextIInv
<1>3. QED
  BY <1>1, <1>2, PTL DEF Spec

\* Every variable keeps its type.
THEOREM TypeCorrect == Spec => []TypeOK
<1>1. IInv => TypeOK
  BY DEF IInv
<1>2. QED
  BY <1>1, InvariantHolds, PTL

\* Wherever a publication stops, the bundle can be opened: the selected slot
\* is never partial, and a rotation to finish finds its retired generation.
THEOREM Recoverable == Spec => []AlwaysRecoverable
<1>1. IInv => AlwaysRecoverable
  <2>1. ASSUME IInv, NeedsReconcile PROVE retired \in Generation
    BY <2>1 DEF IInv, TypeOK, SlotDiscipline, NeedsReconcile
  <2>2. ASSUME IInv PROVE Selected # Torn
    BY <2>2 DEF IInv, SlotDiscipline, Selected
  <2>3. QED
    BY <2>1, <2>2, SealedFacts DEF AlwaysRecoverable
<1>2. QED
  BY <1>1, InvariantHolds, PTL

\* The current generation always has its immediate predecessor on disk.
THEOREM Retained == Spec => []PredecessorRetained
<1>1. IInv => PredecessorRetained
  BY DEF IInv
<1>2. QED
  BY <1>1, InvariantHolds, PTL

-----------------------------------------------------------------------------
(* How the selected generation changes.                                    *)

\* The generation that p published is the one it opened, at the revision its
\* request expects, with its transaction.
Grows(p) ==
    /\ fence[p] \in {Absent, Selected}
    /\ Selected \in Generation /\ req[p] \in Txn
    /\ ~Bound(Selected, req[p])
    /\ Selected' = Append(Selected, req[p])

\* Renaming the current and previous slots around leaves the selection alone.
LEMMA RotationKeepsSelection ==
    ASSUME IInv, NEW p \in Proc,
           \/ ReconcileRotation(p) \/ TearRetired(p) \/ RemoveRetired(p)
           \/ RetirePrevious(p) \/ ReplaceCurrent(p) \/ UndoReplace(p) \/ UndoRetire(p)
    PROVE  Selected' = Selected
<1>1. PhaseOf(p)
  BY DEF IInv, PhaseDiscipline
<1>2. CASE ReconcileRotation(p)
  BY <1>2 DEF ReconcileRotation, NeedsReconcile, Selected
<1>3. CASE TearRetired(p) \/ RemoveRetired(p)
  BY <1>3 DEF TearRetired, RemoveRetired, Selected
<1>4. CASE RetirePrevious(p)
  BY <1>4 DEF RetirePrevious, Selected
<1>5. CASE ReplaceCurrent(p)
  <2>1. dest # Absent
    BY <1>1, <1>5, SealedFacts DEF ReplaceCurrent, Replacing, PhaseOf, Fresh
  <2>2. QED
    BY <1>5, <2>1 DEF ReplaceCurrent, Selected
<1>6. CASE UndoReplace(p)
  BY <1>1, <1>6, SealedFacts DEF UndoReplace, Selected, PhaseOf, Fresh
<1>7. CASE UndoRetire(p)
  BY <1>7 DEF UndoRetire, Selected, IInv, SlotDiscipline
<1>8. QED
  BY <1>2, <1>3, <1>4, <1>5, <1>6, <1>7

\* Promotion puts the staged generation in place of the one it extends.
LEMMA PromotionGrows ==
    ASSUME IInv, NEW p \in Proc, PromoteFresh(p) \/ PromoteStaging(p)
    PROVE  \/ Selected = Absent /\ Selected' = <<>>
           \/ Grows(p)
<1>1. PhaseOf(p) /\ req[p] \in Txn
  BY DEF IInv, PhaseDiscipline, PhaseOf, PromoteFresh, PromoteStaging
<1>2. dest = Absent /\ dest' = stage[p] /\ prev' = prev
  BY DEF PromoteFresh, PromoteStaging
<1>3. CASE Fresh(p) /\ loaded[p] = Selected
  <2>1. Selected' = stage[p]
    BY <1>1, <1>2, <1>3, FreshExtends, SealedFacts DEF Selected
  <2>2. QED
    BY <1>1, <1>3, <2>1 DEF Grows, Fresh, FenceHolds
<1>4. CASE stage[p] = <<>> /\ prev = Absent
  <2>1. <<>> \in Generation
    BY DEF Generation
  <2>2. QED
    BY <1>2, <1>4, <2>1, SealedFacts DEF Selected
<1>5. QED
  BY <1>1, <1>2, <1>3, <1>4 DEF PhaseOf, PromoteFresh, PromoteStaging, Selected

\* Nothing else touches the slots.
LEMMA SelectionSteps ==
    ASSUME IInv, [Next]_vars
    PROVE  \/ Selected' = Selected
           \/ Selected = Absent /\ Selected' = <<>>
           \/ \E p \in Proc : Grows(p)
<1>1. CASE UNCHANGED slots
  BY <1>1 DEF slots, Selected
<1>2. ASSUME NEW p \in Proc,
             \/ ReconcileRotation(p) \/ TearRetired(p) \/ RemoveRetired(p)
             \/ RetirePrevious(p) \/ ReplaceCurrent(p) \/ UndoReplace(p) \/ UndoRetire(p)
      PROVE  Selected' = Selected
  BY <1>2, RotationKeepsSelection
<1>3. ASSUME NEW p \in Proc, PromoteFresh(p) \/ PromoteStaging(p)
      PROVE  (Selected = Absent /\ Selected' = <<>>) \/ Grows(p)
  BY <1>3, PromotionGrows
<1>4. ASSUME NEW p \in Proc, Request(p) \/ Crash(p) \/ AcquireLock(p) \/ CheckStep(p)
      PROVE  UNCHANGED slots
  BY <1>4 DEF Request, Begin, Crash, AcquireLock, CheckStep, AnswerBoundKey,
     RefuseStaleFence, RefuseTransaction, StageTransaction, StageEmpty, StageEmptyFails
<1>5. ASSUME NEW p \in Proc, OpenStep(p)
      PROVE  ReconcileRotation(p) \/ UNCHANGED slots
  BY <1>5 DEF OpenStep, LoadSelected, OpenForAppend, OpenNothing, OpenFails, ReopenPublished
<1>6. ASSUME NEW p \in Proc, PublishStep(p)
      PROVE  \/ PromoteFresh(p) \/ PromoteStaging(p) \/ TearRetired(p)
             \/ RemoveRetired(p) \/ RetirePrevious(p) \/ ReplaceCurrent(p)
             \/ UndoReplace(p) \/ UndoRetire(p) \/ UNCHANGED slots
  BY <1>6 DEF PublishStep, PromoteFreshFails, RemoveRetiredFails, RetirePreviousFails,
     ReplaceCurrentFails, PromoteStagingFails, EndCleanup, SyncParent, SyncParentFails
<1>7. CASE UNCHANGED vars
  BY <1>1, <1>7 DEF vars
<1>8. CASE Next
  <2>1. PICK p \in Proc : Request(p) \/ Step(p) \/ Crash(p)
    BY <1>8 DEF Next
  <2>2. QED
    BY <2>1, <1>1, <1>2, <1>3, <1>4, <1>5, <1>6 DEF Step
<1>9. QED
  BY <1>7, <1>8

\* No update is lost to a concurrent writer, and none is applied to another
\* revision than the one its request expects.
THEOREM GrowthIsFenced == Spec => FencedGrowth
<1>1. ASSUME IInv, [Next]_vars
      PROVE  [ Selected' # Selected =>
                  \/ Selected = Absent /\ Selected' = <<>>
                  \/ \E p \in Proc :
                        /\ fence[p] \in {Absent, Selected}
                        /\ Selected' = Append(Selected, req[p]) ]_vars
  BY <1>1, SelectionSteps DEF Grows
<1>2. QED
  BY <1>1, InvariantHolds, PTL DEF Spec, FencedGrowth

-----------------------------------------------------------------------------
(* What the selected generation keeps.                                     *)

\* A transaction in a log is in the log that extends it.
LEMMA GrowthKeepsTransactions ==
    ASSUME NEW g \in Generation, NEW t \in Txn, NEW u, SameTransaction(g, u)
    PROVE  SameTransaction(Append(g, t), u)
<1>1. PICK i \in DOMAIN g : g[i] = u
  BY DEF SameTransaction
<1>2. i \in DOMAIN Append(g, t) /\ Append(g, t)[i] = g[i]
  BY <1>1, AppendFacts DEF Generation
<1>3. QED
  BY <1>1, <1>2 DEF SameTransaction

\* The transaction appended to a log is in it.
LEMMA AppendedIsThere ==
    ASSUME NEW g \in Generation, NEW t \in Txn
    PROVE  SameTransaction(Append(g, t), t)
<1>1. Len(g) + 1 \in DOMAIN Append(g, t) /\ Append(g, t)[Len(g) + 1] = t
  BY AppendFacts DEF Generation
<1>2. QED
  BY <1>1 DEF SameTransaction

LEMMA SelectedType ==
    ASSUME IInv
    PROVE  Selected \in Generation \cup {Absent}
  BY DEF IInv, TypeOK, SlotDiscipline, Selected

\* A call is acknowledged only for a transaction in the selected generation.
LEMMA AckSteps ==
    ASSUME IInv, [Next]_vars
    PROVE  \/ acked' = acked
           \/ /\ Selected' = Selected /\ Selected \in Generation
              /\ \E t \in Txn : SameTransaction(Selected, t) /\ acked' = acked \cup {t}
<1>1. ASSUME NEW p \in Proc, LoadSelected(p)
      PROVE  acked' = acked
  BY <1>1 DEF LoadSelected, Succeed
<1>2. ASSUME NEW p \in Proc, ReopenPublished(p) \/ AnswerBoundKey(p)
      PROVE  \/ acked' = acked
             \/ /\ Selected' = Selected /\ Selected \in Generation
                /\ SameTransaction(Selected, req[p]) /\ req[p] \in Txn
                /\ acked' = acked \cup {req[p]}
  <2>1. PhaseOf(p) /\ req[p] \in Txn
    BY <1>2 DEF IInv, PhaseDiscipline, PhaseOf, ReopenPublished, AnswerBoundKey
  <2>2. Selected' = Selected
    BY <1>2 DEF ReopenPublished, AnswerBoundKey, slots, Selected
  <2>3. CASE ReopenPublished(p)
    <3>1. /\ loaded[p] \in Generation /\ dest = Append(loaded[p], req[p])
      BY <2>1, <2>3 DEF PhaseOf, ReopenPublished
    <3>2. dest \in Generation /\ SameTransaction(dest, req[p])
      BY <2>1, <3>1, AppendFacts, AppendedIsThere DEF Generation
    <3>3. Selected = dest
      BY <3>2, SealedFacts DEF Selected
    <3>4. QED
      BY <2>1, <2>2, <2>3, <3>2, <3>3 DEF ReopenPublished, Succeed
  <2>4. CASE AnswerBoundKey(p)
    BY <2>1, <2>2, <2>4 DEF AnswerBoundKey, PhaseOf, Succeed, Fail
  <2>5. QED
    BY <1>2, <2>3, <2>4
<1>3. ASSUME NEW p \in Proc, OpenStep(p) \/ CheckStep(p)
      PROVE  LoadSelected(p) \/ ReopenPublished(p) \/ AnswerBoundKey(p) \/ acked' = acked
  BY <1>3 DEF OpenStep, CheckStep, ReconcileRotation, OpenForAppend, OpenNothing,
     OpenFails, RefuseStaleFence, RefuseTransaction, StageTransaction,
     StageEmpty, StageEmptyFails, Fail, outcomes
<1>4. ASSUME NEW p \in Proc, PublishStep(p)
      PROVE  acked' = acked
  BY <1>4 DEF PublishStep, PromoteFresh, PromoteFreshFails, TearRetired, RemoveRetired,
     RemoveRetiredFails, RetirePrevious, RetirePreviousFails, ReplaceCurrent,
     ReplaceCurrentFails, PromoteStaging, PromoteStagingFails, UndoReplace, UndoRetire,
     EndCleanup, SyncParent, SyncParentFails, Fail, outcomes
<1>5. ASSUME NEW p \in Proc, Request(p) \/ Crash(p) \/ AcquireLock(p)
      PROVE  acked' = acked
  BY <1>5 DEF Request, Begin, Crash, AcquireLock, outcomes
<1>6. CASE UNCHANGED vars
  BY <1>6 DEF vars, outcomes
<1>7. CASE Next
  <2>1. PICK p \in Proc : Request(p) \/ Step(p) \/ Crash(p)
    BY <1>7 DEF Next
  <2>2. QED
    BY <2>1, <1>1, <1>2, <1>3, <1>4, <1>5 DEF Step
<1>8. QED
  BY <1>6, <1>7

LEMMA AckedKept ==
    ASSUME IInv, AckedNeverLost, [Next]_vars
    PROVE  AckedNeverLost'
<1>1. SUFFICES ASSUME NEW t \in acked'
               PROVE  Sealed(Selected') /\ SameTransaction(Selected', t)
  BY DEF AckedNeverLost, Sealed
<1>2. CASE t \in acked
  <2>1. Sealed(Selected) /\ SameTransaction(Selected, t) /\ Selected \in Generation
    BY <1>2, SelectedType DEF AckedNeverLost, Sealed
  <2>2. CASE Selected' = Selected
    BY <2>1, <2>2
  <2>3. CASE Selected = Absent
    BY <2>1, <2>3 DEF Sealed
  <2>4. ASSUME NEW p \in Proc, Grows(p)
        PROVE  Sealed(Selected') /\ SameTransaction(Selected', t)
    <3>1. Selected' = Append(Selected, req[p]) /\ req[p] \in Txn
      BY <2>4 DEF Grows
    <3>2. Selected' \in Generation
      BY <2>1, <3>1, AppendFacts DEF Generation
    <3>3. QED
      BY <2>1, <3>1, <3>2, GrowthKeepsTransactions, SealedFacts
  <2>5. QED
    BY <2>2, <2>3, <2>4, SelectionSteps
<1>3. CASE t \notin acked
  BY <1>1, <1>3, AckSteps, SealedFacts
<1>4. QED
  BY <1>2, <1>3

\* A transaction answered "ok" is in the generation selected ever after.
THEOREM AcknowledgedStays == Spec => []AckedNeverLost
<1>1. Init => AckedNeverLost
  BY DEF Init, AckedNeverLost
<1>2. IInv /\ AckedNeverLost /\ [Next]_vars => AckedNeverLost'
  BY AckedKept
<1>3. QED
  BY <1>1, <1>2, InvariantHolds, PTL DEF Spec

LEMMA KeysKept ==
    ASSUME IInv, KeyAppliedOnce, [Next]_vars
    PROVE  KeyAppliedOnce'
<1>1. CASE Selected' = Selected
  BY <1>1 DEF KeyAppliedOnce, Sealed
<1>2. CASE Selected' = <<>>
  BY <1>2 DEF KeyAppliedOnce
<1>3. ASSUME NEW p \in Proc, Grows(p)
      PROVE  KeyAppliedOnce'
  <2> DEFINE log == Selected  t == req[p]
  <2>1. /\ log \in Seq(Txn) /\ t \in Txn /\ ~Bound(log, t)
        /\ Selected' = Append(log, t) /\ Sealed(log)
    BY <1>3, SealedFacts DEF Grows, Generation
  <2>2. DOMAIN Append(log, t) = 1..(Len(log) + 1) /\ DOMAIN log = 1..Len(log)
    BY <2>1
  <2>3. SUFFICES ASSUME NEW i \in DOMAIN Append(log, t), NEW j \in DOMAIN Append(log, t),
                        KeyOf[Append(log, t)[i]] # NoKey,
                        KeyOf[Append(log, t)[i]] = KeyOf[Append(log, t)[j]]
                 PROVE  i = j
    BY <2>1 DEF KeyAppliedOnce
  <2>4. Len(log) \in Nat /\ i \in 1..(Len(log) + 1) /\ j \in 1..(Len(log) + 1)
    BY <2>1, <2>2
  <2>5. CASE i \in 1..Len(log) /\ j \in 1..Len(log)
    <3>1. Append(log, t)[i] = log[i] /\ Append(log, t)[j] = log[j]
      BY <2>1, <2>5, AppendFacts
    <3>2. QED
      BY <2>1, <2>2, <2>3, <2>5, <3>1 DEF KeyAppliedOnce
  <2>6. CASE i = Len(log) + 1 /\ j \in 1..Len(log)
    <3>1. Append(log, t)[i] = t /\ Append(log, t)[j] = log[j]
      BY <2>1, <2>6, AppendFacts
    <3>2. QED
      BY <2>1, <2>2, <2>3, <2>6, <3>1 DEF Bound
  <2>7. CASE i \in 1..Len(log) /\ j = Len(log) + 1
    <3>1. Append(log, t)[i] = log[i] /\ Append(log, t)[j] = t
      BY <2>1, <2>7, AppendFacts
    <3>2. QED
      BY <2>1, <2>2, <2>3, <2>7, <3>1 DEF Bound
  <2>8. QED
    BY <2>4, <2>5, <2>6, <2>7
<1>4. QED
  BY <1>1, <1>2, <1>3, SelectionSteps

\* However often a request is retried, and whoever retries it, its key is in
\* the log at most once.
THEOREM KeysAreUnique == Spec => []KeyAppliedOnce
<1>1. Init => KeyAppliedOnce
  BY MarkersDistinct DEF Init, KeyAppliedOnce, Selected, Sealed
<1>2. IInv /\ KeyAppliedOnce /\ [Next]_vars => KeyAppliedOnce'
  BY KeysKept
<1>3. QED
  BY <1>1, <1>2, InvariantHolds, PTL DEF Spec

-----------------------------------------------------------------------------
(* The snapshots that hosts keep.                                          *)

\* A log starts with itself, and whatever it starts with it still starts with
\* after it has grown.
LEMMA PrefixFacts ==
    ASSUME NEW g \in Seq(Txn), NEW t \in Txn
    PROVE  /\ SubSeq(g, 1, Len(g)) = g
           /\ \A n \in 0..Len(g) : SubSeq(Append(g, t), 1, n) = SubSeq(g, 1, n)
<1>1. Len(g) \in Nat /\ Append(g, t) \in Seq(Txn) /\ Len(Append(g, t)) = Len(g) + 1
  BY AppendFacts
<1>2. SubSeq(g, 1, Len(g)) = g
  BY <1>1
<1>3. ASSUME NEW n \in 0..Len(g)
      PROVE  SubSeq(Append(g, t), 1, n) = SubSeq(g, 1, n)
  <2>1. /\ n \in Nat
        /\ SubSeq(g, 1, n) = [i \in 1..n |-> g[i]]
        /\ SubSeq(Append(g, t), 1, n) = [i \in 1..n |-> Append(g, t)[i]]
    BY <1>1
  <2>2. \A i \in 1..n : Append(g, t)[i] = g[i]
    BY <1>1, AppendFacts
  <2>3. QED
    BY <2>1, <2>2
<1>4. QED
  BY <1>2, <1>3

\* A host's snapshot is replaced by the selected generation or forgotten.
LEMMA SnapshotSteps ==
    ASSUME IInv, [Next]_vars, NEW q \in Proc
    PROVE  \/ current'[q] \in {current[q], Absent}
           \/ current'[q] = Selected /\ Selected' = Selected /\ Selected \in Generation
<1>1. current \in [Proc -> Generation \cup {Absent}] /\ Selected \in Generation \cup {Absent}
  BY SelectedType DEF IInv, TypeOK
<1>2. ASSUME NEW p \in Proc, LoadSelected(p) \/ ReopenPublished(p) \/ AnswerBoundKey(p)
      PROVE  \/ current'[q] = current[q]
             \/ current'[q] = Selected /\ Selected' = Selected /\ Selected \in Generation
  <2>1. PhaseOf(p)
    BY DEF IInv, PhaseDiscipline
  <2>2. UNCHANGED Selected
    BY <1>2 DEF LoadSelected, ReopenPublished, AnswerBoundKey, slots, Selected
  <2>3. UNCHANGED current \/ (Succeed(p, Selected) /\ Selected \in Generation)
    BY <1>1, <1>2, <2>1 DEF LoadSelected, ReopenPublished, AnswerBoundKey, PhaseOf,
       Fail, Sealed
  <2>4. QED
    BY <1>1, <2>2, <2>3 DEF Succeed
<1>3. ASSUME NEW p \in Proc, OpenStep(p) \/ CheckStep(p)
      PROVE  \/ LoadSelected(p) \/ ReopenPublished(p) \/ AnswerBoundKey(p)
             \/ UNCHANGED current
  BY <1>3 DEF OpenStep, CheckStep, ReconcileRotation, OpenForAppend, OpenNothing,
     OpenFails, RefuseStaleFence, RefuseTransaction, StageTransaction,
     StageEmpty, StageEmptyFails, Fail, outcomes
<1>4. ASSUME NEW p \in Proc, PublishStep(p)
      PROVE  UNCHANGED current
  BY <1>4 DEF PublishStep, PromoteFresh, PromoteFreshFails, TearRetired, RemoveRetired,
     RemoveRetiredFails, RetirePrevious, RetirePreviousFails, ReplaceCurrent,
     ReplaceCurrentFails, PromoteStaging, PromoteStagingFails, UndoReplace, UndoRetire,
     EndCleanup, SyncParent, SyncParentFails, Fail, outcomes
<1>5. ASSUME NEW p \in Proc, Request(p) \/ Crash(p) \/ AcquireLock(p)
      PROVE  current'[q] \in {current[q], Absent}
  BY <1>1, <1>5 DEF Request, Begin, Crash, AcquireLock, outcomes
<1>6. CASE UNCHANGED vars
  BY <1>6 DEF vars, outcomes
<1>7. CASE Next
  <2>1. PICK p \in Proc : Request(p) \/ Step(p) \/ Crash(p)
    BY <1>7 DEF Next
  <2>2. QED
    BY <2>1, <1>2, <1>3, <1>4, <1>5 DEF Step
<1>8. QED
  BY <1>6, <1>7

LEMMA SnapshotsKept ==
    ASSUME IInv, SnapshotIsCommitted, [Next]_vars
    PROVE  SnapshotIsCommitted'
<1> DEFINE Past(c, g) == /\ Sealed(g) /\ Len(c) <= Len(g)
                         /\ SubSeq(g, 1, Len(c)) = c
<1>1. SUFFICES ASSUME NEW q \in Proc, current'[q] # Absent
               PROVE  Past(current'[q], Selected')
  BY DEF SnapshotIsCommitted, Sealed
<1>2. CASE current'[q] = Selected /\ Selected' = Selected /\ Selected \in Generation
  <2>1. Len(Selected) \in Nat /\ SubSeq(Selected, 1, Len(Selected)) = Selected
    BY <1>2 DEF Generation
  <2>2. QED
    BY <1>2, <2>1, SealedFacts
<1>3. CASE current'[q] = current[q]
  <2>1. Past(current[q], Selected) /\ current[q] \in Generation
    BY <1>1, <1>3 DEF SnapshotIsCommitted, IInv, TypeOK
  <2>2. CASE Selected' = Selected
    BY <1>3, <2>1, <2>2 DEF Sealed
  <2>3. CASE Selected = Absent
    BY <2>1, <2>3 DEF Sealed
  <2>4. ASSUME NEW p \in Proc, Grows(p)
        PROVE  Past(current'[q], Selected')
    <3>1. /\ Selected \in Seq(Txn) /\ req[p] \in Txn
          /\ Selected' = Append(Selected, req[p])
      BY <2>4 DEF Grows, Generation
    <3>2. /\ Selected' \in Generation
          /\ Len(Selected') = Len(Selected) + 1
      BY <3>1, AppendFacts DEF Generation
    <3>3. Len(current[q]) \in 0..Len(Selected) /\ Len(Selected) \in Nat
      BY <2>1, <3>1 DEF Generation
    <3>4. SubSeq(Selected', 1, Len(current[q])) = SubSeq(Selected, 1, Len(current[q]))
      BY <3>1, <3>3, PrefixFacts
    <3>5. QED
      BY <1>3, <2>1, <3>2, <3>3, <3>4, SealedFacts
  <2>5. QED
    BY <2>2, <2>3, <2>4, SelectionSteps
<1>4. QED
  BY <1>1, <1>2, <1>3, SnapshotSteps

\* The snapshot a host serves from memory is a committed past of the
\* generation on disk, whatever the other processes publish meanwhile.
THEOREM SnapshotsAreCommitted == Spec => []SnapshotIsCommitted
<1>1. Init => SnapshotIsCommitted
  BY DEF Init, SnapshotIsCommitted
<1>2. IInv /\ SnapshotIsCommitted /\ [Next]_vars => SnapshotIsCommitted'
  BY SnapshotsKept
<1>3. QED
  BY <1>1, <1>2, InvariantHolds, PTL DEF Spec

-----------------------------------------------------------------------------
(* What a refused call leaves behind.                                      *)

\* Only its own steps bring a process back from a call.
LEMMA OwnReturn ==
    ASSUME IInv, NEW p \in Proc, NEW q \in Proc, q # p,
           Request(q) \/ Step(q) \/ Crash(q)
    PROVE  pc'[p] = pc[p]
<1>1. pc \in [Proc -> Phase]
  BY DEF IInv, TypeOK
<1>2. CASE Request(q) \/ Crash(q) \/ AcquireLock(q)
  BY <1>1, <1>2 DEF Request, Begin, Crash, Drop, AcquireLock, Goto
<1>3. CASE OpenStep(q) \/ CheckStep(q)
  BY <1>1, <1>3 DEF OpenStep, CheckStep, ReconcileRotation, LoadSelected, OpenForAppend,
     OpenNothing, OpenFails, ReopenPublished, AnswerBoundKey,
     RefuseStaleFence, RefuseTransaction, StageTransaction, StageEmpty,
     StageEmptyFails, Succeed, Fail, Drop, Goto
<1>4. CASE PublishStep(q)
  BY <1>1, <1>4 DEF PublishStep, PromoteFresh, PromoteFreshFails, TearRetired,
     RemoveRetired, RemoveRetiredFails, RetirePrevious, RetirePreviousFails,
     ReplaceCurrent, ReplaceCurrentFails, PromoteStaging, PromoteStagingFails,
     UndoReplace, UndoRetire, EndCleanup, SyncParent, SyncParentFails, Fail, Drop, Goto
<1>5. QED
  BY <1>2, <1>3, <1>4 DEF Step

\* The steps with which a call reports an error.
LEMMA ErrorSteps ==
    ASSUME IInv, NEW p \in Proc, pc[p] # "idle", Request(p) \/ Step(p) \/ Crash(p),
           pc'[p] = "idle", reply'[p] \in {"io", "invalid", "stale"}
    PROVE  \/ OpenFails(p) /\ pc[p] = "open"
           \/ AnswerBoundKey(p) /\ UNCHANGED slots
           \/ RefuseStaleFence(p) \/ RefuseTransaction(p) \/ StageEmptyFails(p)
           \/ PromoteFreshFails(p) \/ RemoveRetiredFails(p)
           \/ RetirePreviousFails(p) \/ UndoRetire(p)
<1>1. pc \in [Proc -> Phase] /\ reply \in [Proc -> Outcome]
  BY DEF IInv, TypeOK
<1>2. CASE Request(p) \/ Crash(p) \/ AcquireLock(p)
  BY <1>1, <1>2 DEF Request, Begin, Crash, Drop, AcquireLock, Goto
<1>3. CASE OpenStep(p) \/ CheckStep(p)
  BY <1>1, <1>3 DEF OpenStep, CheckStep, ReconcileRotation, LoadSelected, OpenForAppend,
     OpenNothing, OpenFails, ReopenPublished, AnswerBoundKey,
     StageTransaction, StageEmpty, Succeed, Fail, Drop, Goto
<1>4. CASE PublishStep(p)
  BY <1>1, <1>4 DEF PublishStep, PromoteFresh, TearRetired, RemoveRetired,
     RetirePrevious, ReplaceCurrent, ReplaceCurrentFails, PromoteStaging,
     PromoteStagingFails, UndoReplace, EndCleanup, SyncParent, SyncParentFails,
     Fail, Drop, Goto
<1>5. QED
  BY <1>2, <1>3, <1>4 DEF Step

\* What a process that reports an error opened is still selected.
LEMMA RefusalLeaves ==
    ASSUME IInv, NEW p \in Proc, pc[p] # "idle", Request(p) \/ Step(p) \/ Crash(p),
           pc'[p] = "idle", reply'[p] \in {"io", "invalid", "stale"}, loaded[p] # Absent
    PROVE  Selected' = loaded[p]
<1>1. PhaseOf(p)
  BY DEF IInv, PhaseDiscipline
<1>2. CASE UndoRetire(p)
  <2>1. loaded[p] = Selected
    BY <1>1, <1>2 DEF PhaseOf, UndoRetire
  <2>2. QED
    BY <1>2, <2>1, RotationKeepsSelection
<1>3. CASE /\ UNCHANGED slots
           /\ \/ pc[p] \in {"open", "create", "check"}
              \/ pc[p] = "publish"
  <2>1. loaded[p] = Selected
    BY <1>1, <1>3 DEF PhaseOf
  <2>2. QED
    BY <1>3, <2>1 DEF slots, Selected
<1>4. QED
  BY <1>2, <1>3, ErrorSteps DEF OpenFails, AnswerBoundKey, RefuseStaleFence,
     RefuseTransaction, StageEmptyFails, PromoteFreshFails, RemoveRetiredFails,
     RetirePreviousFails

\* A call that answers with an error other than "publication unknown" has not
\* changed the selected generation, also when a compensation failed.
THEOREM RefusalIsClean == Spec => RefusedLeavesNoTrace
<1> DEFINE Clean == \A p \in Proc :
                       /\ pc[p] # "idle" /\ pc'[p] = "idle"
                       /\ reply'[p] \in {"io", "invalid", "stale"}
                       /\ loaded[p] # Absent
                       => Selected' = loaded[p]
<1>1. ASSUME IInv, [Next]_vars PROVE [Clean]_vars
  <2>1. CASE UNCHANGED vars
    BY <2>1
  <2>2. CASE Next
    <3>1. PICK q \in Proc : Request(q) \/ Step(q) \/ Crash(q)
      BY <2>2 DEF Next
    <3>2. ASSUME NEW p \in Proc, pc[p] # "idle", pc'[p] = "idle",
                 reply'[p] \in {"io", "invalid", "stale"}, loaded[p] # Absent
          PROVE  Selected' = loaded[p]
      <4>1. p = q
        BY <1>1, <3>1, <3>2, OwnReturn
      <4>2. QED
        BY <1>1, <3>1, <3>2, <4>1, RefusalLeaves
    <3>3. QED
      BY <3>2
  <2>3. QED
    BY <1>1, <2>1, <2>2
<1>2. QED
  BY <1>1, InvariantHolds, PTL DEF Spec, RefusedLeavesNoTrace

-----------------------------------------------------------------------------
(* Publication implements the abstract store.                              *)

\* A step that neither moves the selection nor ends or starts a call, and
\* after which the transaction of p counts as applied iff it did before.
LEMMA StoreStutter ==
    ASSUME IInv, NEW p \in Proc, NEW l \in Phase, Goto(p, l),
           UNCHANGED <<Selected, req, fence, current, reply>>,
           TookEffect(p)' = TookEffect(p),
           \A q \in Proc \ {p} : stage'[q] = stage[q]
    PROVE  UNCHANGED Store!vars
<1>1. ASSUME NEW q \in Proc PROVE TookEffect(q)' = TookEffect(q)
  <2>1. CASE q = p
    BY <2>1
  <2>2. CASE q # p
    BY <2>2 DEF TookEffect, Goto, IInv, TypeOK
  <2>3. QED
    BY <2>1, <2>2
<1>2. QED
  BY <1>1 DEF Store!vars

\* A call that ends is no longer in progress in the store.
LEMMA StoreReturn ==
    ASSUME IInv, NEW p \in Proc, NEW outcome \in Outcome, Drop(p),
           reply' = [reply EXCEPT ![p] = outcome],
           pc[p] # "idle", UNCHANGED Selected
    PROVE  Store!Return(p, outcome)
<1>1. req[p] # Absent
  BY MarkersDistinct DEF IInv, PhaseDiscipline, PhaseOf
<1>2. [q \in Proc |-> TookEffect(q)]' = [[q \in Proc |-> TookEffect(q)] EXCEPT ![p] = FALSE]
  <2>1. TookEffect(p)' = FALSE
    BY DEF TookEffect, Drop, Goto, IInv, TypeOK
  <2>2. ASSUME NEW q \in Proc, q # p PROVE TookEffect(q)' = TookEffect(q)
    BY <2>2 DEF TookEffect, Drop, Goto, IInv, TypeOK
  <2>3. [q \in Proc |-> TookEffect(q)]'
          = [q \in Proc |-> IF q = p THEN FALSE ELSE TookEffect(q)]
    BY <2>1, <2>2
  <2>4. QED
    BY <2>3
<1>3. QED
  BY <1>1, <1>2 DEF Store!Return, Drop

LEMMA RequestInvokes ==
    ASSUME IInv, NEW p \in Proc, Request(p)
    PROVE  \E r \in Txn \cup {Load} : \E f \in {Absent, current[p]} : Store!Invoke(p, r, f)
<1>1. PICK r \in Txn \cup {Load}, f \in {Absent, current[p]} : Begin(p, r, f)
  BY DEF Request
<1>2. req[p] = Absent /\ UNCHANGED Selected
  BY <1>1 DEF IInv, PhaseDiscipline, PhaseOf, Begin, slots, Selected
<1>3. ASSUME NEW q \in Proc PROVE TookEffect(q)' = TookEffect(q)
  BY <1>1 DEF Begin, Goto, TookEffect, IInv, TypeOK
<1>4. QED
  BY <1>1, <1>2, <1>3 DEF Begin, Store!Invoke

LEMMA CrashDies ==
    ASSUME IInv, NEW p \in Proc, Crash(p)
    PROVE  Store!Die(p)
<1>1. UNCHANGED Selected
  BY DEF Crash, slots, Selected
<1>2. TookEffect(p)' = FALSE
  BY DEF TookEffect, Crash, Drop, Goto, IInv, TypeOK
<1>3. ASSUME NEW q \in Proc, q # p PROVE TookEffect(q)' = TookEffect(q)
  BY <1>3 DEF TookEffect, Crash, Drop, Goto, IInv, TypeOK
<1>4. [q \in Proc |-> TookEffect(q)]'
        = [q \in Proc |-> IF q = p THEN FALSE ELSE TookEffect(q)]
  BY <1>2, <1>3
<1>5. QED
  BY <1>1, <1>4 DEF Crash, Drop, Store!Die

\* Renames of the current and previous generations, lock and checks are not
\* visible in the store.
LEMMA SilentSteps ==
    ASSUME IInv, NEW p \in Proc,
           \/ AcquireLock(p) \/ ReconcileRotation(p) \/ OpenForAppend(p)
           \/ OpenNothing(p) /\ pc'[p] = "create"
           \/ StageTransaction(p) \/ StageEmpty(p) \/ TearRetired(p) \/ RemoveRetired(p)
           \/ RetirePrevious(p) \/ ReplaceCurrent(p) \/ ReplaceCurrentFails(p)
           \/ PromoteStagingFails(p) \/ UndoReplace(p) \/ EndCleanup(p) \/ SyncParent(p)
    PROVE  UNCHANGED Store!vars
<1>1. PhaseOf(p) /\ pc \in [Proc -> Phase] /\ stage \in [Proc -> Generation \cup {Absent}]
  BY DEF IInv, PhaseDiscipline, TypeOK
<1>2. CASE ReconcileRotation(p) \/ TearRetired(p) \/ RemoveRetired(p)
  <2>1. UNCHANGED Selected
    BY <1>2, RotationKeepsSelection
  <2>2. UNCHANGED <<pc, locals, outcomes>>
    BY <1>2 DEF ReconcileRotation, TearRetired, RemoveRetired
  <2>3. QED
    BY <2>1, <2>2 DEF Store!vars, TookEffect, locals, outcomes
<1>3. CASE \/ AcquireLock(p) \/ OpenForAppend(p)
           \/ OpenNothing(p) /\ pc'[p] = "create"
           \/ StageTransaction(p) \/ StageEmpty(p)
  <2>1. PICK l \in {"open", "check", "create", "publish"} : Goto(p, l)
    BY <1>1, <1>3 DEF AcquireLock, OpenForAppend, OpenNothing, StageTransaction,
       StageEmpty, Fail, Drop, Goto
  <2>2. pc[p] \in {"wait", "open", "check", "create"}
    BY <1>3 DEF AcquireLock, OpenForAppend, OpenNothing, StageTransaction, StageEmpty
  <2>3. TookEffect(p)' = TookEffect(p)
    BY <1>1, <2>1, <2>2 DEF TookEffect, Goto
  <2>4. /\ UNCHANGED <<slots, req, fence, current, reply>>
        /\ \A q \in Proc \ {p} : stage'[q] = stage[q]
    BY <1>1, <1>3 DEF AcquireLock, OpenForAppend, OpenNothing, StageTransaction,
       StageEmpty, Fail, Drop, Goto, locals, outcomes
  <2>5. l \in Phase /\ UNCHANGED Selected
    BY <2>1, <2>4 DEF Phase, slots, Selected
  <2>6. QED
    BY <2>1, <2>3, <2>4, <2>5, StoreStutter
<1>4. CASE \/ RetirePrevious(p) \/ ReplaceCurrent(p) \/ ReplaceCurrentFails(p)
           \/ PromoteStagingFails(p) \/ UndoReplace(p)
  <2>1. PICK l \in {"replace", "promote", "undoRetire", "undoReplace"} : Goto(p, l)
    BY <1>4 DEF RetirePrevious, ReplaceCurrent, ReplaceCurrentFails,
       PromoteStagingFails, UndoReplace
  <2>2. pc[p] \in {"publish", "replace", "promote", "undoReplace"}
    BY <1>4 DEF RetirePrevious, ReplaceCurrent, ReplaceCurrentFails, Replacing,
       PromoteStagingFails, UndoReplace
  <2>3. TookEffect(p)' = TookEffect(p)
    BY <1>1, <2>1, <2>2 DEF TookEffect, Goto
  <2>4. UNCHANGED <<req, fence, stage, current, reply>>
    BY <1>4 DEF RetirePrevious, ReplaceCurrent, ReplaceCurrentFails,
       PromoteStagingFails, UndoReplace, locals, outcomes
  <2>5. UNCHANGED Selected
    BY <1>4, RotationKeepsSelection
       DEF ReplaceCurrentFails, PromoteStagingFails, slots, Selected
  <2>6. l \in Phase
    BY DEF Phase
  <2>7. QED
    BY <2>1, <2>3, <2>4, <2>5, <2>6, StoreStutter
<1>5. CASE EndCleanup(p)
  <2>1. pc'[p] = "sync" /\ pc[p] = "cleanup" /\ stage'[p] = stage[p] /\ stage[p] # <<>>
    BY <1>1, <1>5, FreshExtends DEF EndCleanup, Goto, PhaseOf, locals
  <2>2. TookEffect(p)' = TookEffect(p)
    BY <2>1 DEF TookEffect
  <2>3. UNCHANGED <<slots, req, fence, stage, current, reply>> /\ "sync" \in Phase
    BY <1>5 DEF EndCleanup, locals, outcomes, Phase
  <2>4. UNCHANGED Selected
    BY <2>3 DEF slots, Selected
  <2>5. QED
    BY <1>5, <2>2, <2>3, <2>4, StoreStutter DEF EndCleanup
<1>6. CASE SyncParent(p)
  <2>1. PICK l \in {"open", "reopen"} :
           Goto(p, l) /\ (l = "open" <=> stage[p] = <<>>) /\ pc[p] = "sync"
    BY <1>6 DEF SyncParent
  <2>2. TookEffect(p)' = TookEffect(p)
    BY <1>1, <2>1 DEF TookEffect, Goto
  <2>3. /\ UNCHANGED <<slots, req, fence, current, reply>>
        /\ \A q \in Proc \ {p} : stage'[q] = stage[q]
    BY <1>1, <1>6 DEF SyncParent, outcomes
  <2>4. l \in Phase /\ UNCHANGED Selected
    BY <2>3 DEF Phase, slots, Selected
  <2>5. QED
    BY <2>1, <2>2, <2>3, <2>4, StoreStutter
<1>7. QED
  BY <1>2, <1>3, <1>4, <1>5, <1>6

\* The rename that promotes the staged generation is where a request, or the
\* creation of the bundle, takes effect.
LEMMA PromotionCommits ==
    ASSUME IInv, NEW p \in Proc, PromoteFresh(p) \/ PromoteStaging(p)
    PROVE  Store!Create \/ Store!Commit(p)
<1>1. /\ PhaseOf(p) /\ req[p] \in Txn /\ pc \in [Proc -> Phase]
      /\ pc[p] \in {"publish", "promote"}
  BY DEF IInv, TypeOK, PhaseDiscipline, PhaseOf, PromoteFresh, PromoteStaging
<1>2. /\ dest = Absent /\ dest' = stage[p]
      /\ UNCHANGED <<prev, req, fence, loaded, stage, current, reply>>
      /\ Goto(p, "sync") \/ Goto(p, "cleanup")
  BY DEF PromoteFresh, PromoteStaging, locals, outcomes
<1>3. ~TookEffect(p)
  BY <1>1 DEF TookEffect
<1>4. ASSUME NEW q \in Proc, q # p PROVE TookEffect(q)' = TookEffect(q)
  BY <1>1, <1>2, <1>4 DEF TookEffect, Goto
<1>5. CASE Fresh(p)
  <2>1. Grows(p)
    <3>1. loaded[p] = Selected
      BY <1>1, <1>5, SealedFacts
         DEF PhaseOf, PromoteFresh, PromoteStaging, Fresh, Selected
    <3>2. Selected' = stage[p]
      BY <1>1, <1>2, <1>5, FreshExtends, SealedFacts DEF Selected
    <3>3. QED
      BY <1>1, <1>5, <3>1, <3>2 DEF Grows, Fresh, FenceHolds
  <2>2. TookEffect(p)' = TRUE
    BY <1>1, <1>2, <1>5, FreshExtends DEF TookEffect, Goto
  <2>3. [q \in Proc |-> TookEffect(q)]'
          = [q \in Proc |-> IF q = p THEN TRUE ELSE TookEffect(q)]
    BY <2>2, <1>4
  <2>4. Selected # Absent
    BY <2>1, SealedFacts DEF Grows
  <2>5. QED
    BY <1>1, <1>2, <1>3, <2>1, <2>3, <2>4
       DEF Store!Commit, Store!KeyBound, Grows, Bound
<1>6. CASE stage[p] = <<>> /\ prev = Absent
  <2>1. <<>> \in Generation
    BY DEF Generation
  <2>2. Selected = Absent /\ Selected' = <<>>
    BY <1>2, <1>6, <2>1, SealedFacts DEF Selected
  <2>3. CASE pc[p] = "publish"
    <3>1. Goto(p, "sync")
      BY <2>3 DEF PromoteFresh, PromoteStaging
    <3>2. TookEffect(p)' = TookEffect(p)
      BY <1>1, <1>2, <1>6, <2>3, <3>1 DEF TookEffect, Goto
    <3>3. ASSUME NEW q \in Proc PROVE TookEffect(q)' = TookEffect(q)
      BY <1>4, <3>2
    <3>4. QED
      BY <1>1, <1>2, <2>2, <3>3 DEF Store!Create
  <2>4. CASE pc[p] = "promote"
    BY <1>1, <1>6, <2>4, SealedFacts DEF PhaseOf, Fresh
  <2>5. QED
    BY <1>1, <2>3, <2>4
<1>7. QED
  BY <1>1, <1>5, <1>6 DEF PhaseOf

\* "ok" is answered with the selected generation, for an applied transaction.
LEMMA AnswerAccepts ==
    ASSUME IInv, NEW p \in Proc, Succeed(p, Selected), UNCHANGED slots,
           Selected \in Generation, pc[p] # "idle",
           \/ req[p] = Load
           \/ TookEffect(p)
           \/ KeyOf[req[p]] # NoKey /\ SameTransaction(Selected, req[p])
    PROVE  Store!Accept(p)
<1>1. UNCHANGED Selected
  BY DEF slots, Selected
<1>2. Store!Return(p, "ok")
  BY <1>1, StoreReturn DEF Succeed, Outcome
<1>3. QED
  BY <1>2, MarkersDistinct, SealedFacts
     DEF Store!Accept, Store!Committed, SameTransaction, Succeed

LEMMA AnswerSteps ==
    ASSUME IInv, NEW p \in Proc,
           \/ LoadSelected(p) \/ ReopenPublished(p)
           \/ AnswerBoundKey(p) /\ Succeed(p, loaded[p])
    PROVE  Store!Accept(p)
<1>1. PhaseOf(p) /\ Selected \in Generation \cup {Absent}
  BY SelectedType DEF IInv, PhaseDiscipline
<1>2. CASE LoadSelected(p)
  BY <1>1, <1>2, AnswerAccepts DEF LoadSelected, Sealed
<1>3. CASE ReopenPublished(p)
  <2>1. TookEffect(p)
    BY <1>3 DEF ReopenPublished, TookEffect
  <2>2. QED
    BY <1>1, <1>3, <2>1, AnswerAccepts DEF ReopenPublished, Sealed
<1>4. CASE AnswerBoundKey(p) /\ Succeed(p, loaded[p])
  <2>1. /\ loaded[p] = Selected /\ Selected \in Generation /\ KeyOf[req[p]] # NoKey
        /\ pc[p] = "check" /\ UNCHANGED slots
    BY <1>1, <1>4 DEF AnswerBoundKey, PhaseOf, Bound
  <2>2. SameTransaction(Selected, req[p])
    <3>1. pc \in [Proc -> Phase] /\ reply \in [Proc -> Outcome]
      BY DEF IInv, TypeOK
    <3>2. ~Fail(p, "invalid")
      BY <1>4, <3>1 DEF Fail, Succeed
    <3>3. QED
      BY <1>4, <2>1, <3>2 DEF AnswerBoundKey
  <2>3. QED
    BY <1>4, <2>1, <2>2, AnswerAccepts
<1>5. QED
  BY <1>2, <1>3, <1>4

\* An error other than "unknown" refuses a request that is not applied.
LEMMA FailRefuses ==
    ASSUME IInv, NEW p \in Proc, NEW outcome \in Outcome, Fail(p, outcome),
           UNCHANGED Selected, pc[p] # "idle", ~TookEffect(p),
           \/ outcome \in {"io", "invalid"}
           \/ outcome = "stale" /\ fence[p] \notin {Absent, Selected}
           \/ outcome = "missing" /\ Selected = Absent /\ req[p] = Load
    PROVE  Store!Refuse(p)
<1>1. Store!Return(p, outcome)
  BY StoreReturn DEF Fail
<1>2. QED
  BY <1>1 DEF Store!Refuse, Fail

LEMMA RefusalSteps ==
    ASSUME IInv, NEW p \in Proc,
           \/ OpenFails(p) /\ pc[p] = "open"
           \/ OpenNothing(p) /\ Fail(p, "missing") /\ req[p] = Load
           \/ AnswerBoundKey(p) /\ Fail(p, "invalid")
           \/ RefuseStaleFence(p) \/ RefuseTransaction(p) \/ StageEmptyFails(p)
           \/ PromoteFreshFails(p) \/ RemoveRetiredFails(p)
           \/ RetirePreviousFails(p) \/ UndoRetire(p)
    PROVE  Store!Refuse(p)
<1>1. PhaseOf(p)
  BY DEF IInv, PhaseDiscipline
<1>2. pc[p] \in {"open", "check", "create", "publish", "undoRetire"}
  BY DEF OpenNothing, AnswerBoundKey, RefuseStaleFence, RefuseTransaction,
     StageEmptyFails, PromoteFreshFails, RemoveRetiredFails, RetirePreviousFails,
     UndoRetire
<1>3. ~TookEffect(p) /\ pc[p] # "idle"
  BY <1>2 DEF TookEffect
<1>4. UNCHANGED Selected
  <2>1. CASE UndoRetire(p)
    BY <2>1, RotationKeepsSelection
  <2>2. CASE UNCHANGED slots
    BY <2>2 DEF slots, Selected
  <2>3. QED
    BY <2>1, <2>2 DEF OpenFails, OpenNothing, AnswerBoundKey,
       RefuseStaleFence, RefuseTransaction, StageEmptyFails, PromoteFreshFails,
       RemoveRetiredFails, RetirePreviousFails
<1>5. CASE RefuseStaleFence(p)
  BY <1>1, <1>3, <1>4, <1>5, FailRefuses DEF RefuseStaleFence, FenceHolds, PhaseOf, Outcome
<1>6. CASE OpenNothing(p) /\ Fail(p, "missing") /\ req[p] = Load
  BY <1>3, <1>4, <1>6, FailRefuses DEF OpenNothing, Selected, Outcome
<1>7. CASE Fail(p, "io") \/ Fail(p, "invalid")
  BY <1>3, <1>4, <1>7, FailRefuses DEF Outcome
<1>8. QED
  BY <1>5, <1>6, <1>7 DEF OpenFails, RefuseTransaction, StageEmptyFails,
     PromoteFreshFails, RemoveRetiredFails, RetirePreviousFails, UndoRetire

\* "unknown" is only reported for a publication that did happen.
LEMMA UnknownSteps ==
    ASSUME IInv, NEW p \in Proc,
           \/ OpenFails(p) /\ pc[p] = "reopen"
           \/ SyncParentFails(p)
    PROVE  Store!ReportUnknown(p)
<1>1. PhaseOf(p) /\ Fail(p, "unknown") /\ UNCHANGED slots /\ pc[p] \in {"reopen", "sync"}
  BY DEF IInv, PhaseDiscipline, OpenFails, SyncParentFails
<1>2. UNCHANGED Selected
  BY <1>1 DEF slots, Selected
<1>3. Store!Return(p, "unknown")
  BY <1>1, <1>2, StoreReturn DEF Fail, Outcome
<1>4. TookEffect(p) \/ Selected = <<>>
  <2>1. <<>> \in Generation
    BY DEF Generation
  <2>2. QED
    BY <1>1, <2>1, SealedFacts DEF TookEffect, PhaseOf, Selected
<1>5. QED
  BY <1>1, <1>3, <1>4 DEF Store!ReportUnknown, Fail

LEMMA InitImplements == Init => Store!Init
  BY DEF Init, Store!Init, Selected, TookEffect

LEMMA StepImplements ==
    ASSUME IInv, [Next]_vars
    PROVE  [Store!Next]_(Store!vars)
<1>1. CASE UNCHANGED vars
  BY <1>1 DEF vars, slots, locals, outcomes, Store!vars, Selected, TookEffect
<1>2. ASSUME NEW p \in Proc, Request(p) PROVE Store!Next
  BY <1>2, RequestInvokes DEF Store!Next
<1>3. ASSUME NEW p \in Proc, Crash(p) PROVE Store!Next
  BY <1>3, CrashDies DEF Store!Next
<1>4. ASSUME NEW p \in Proc, Step(p) PROVE Store!Next \/ UNCHANGED Store!vars
  <2>1. ASSUME Store!Create \/ Store!Commit(p) \/ Store!Accept(p) \/ Store!Refuse(p)
                 \/ Store!ReportUnknown(p)
        PROVE  Store!Next
    BY <2>1 DEF Store!Next
  <2>2. CASE AcquireLock(p)
    BY <2>2, SilentSteps
  <2>3. CASE OpenStep(p)
    <3>1. CASE OpenNothing(p)
      <4>1. Goto(p, "create") => pc'[p] = "create"
        BY DEF Goto, IInv, TypeOK
      <4>2. QED
        BY <2>1, <3>1, <4>1, SilentSteps, RefusalSteps DEF OpenNothing
    <3>2. CASE OpenFails(p)
      BY <2>1, <3>2, RefusalSteps, UnknownSteps DEF OpenFails
    <3>3. QED
      BY <2>1, <2>3, <3>1, <3>2, SilentSteps, AnswerSteps DEF OpenStep
  <2>4. CASE CheckStep(p)
    BY <2>1, <2>4, SilentSteps, AnswerSteps, RefusalSteps DEF CheckStep, AnswerBoundKey
  <2>5. CASE PublishStep(p)
    BY <2>1, <2>5, SilentSteps, PromotionCommits, RefusalSteps, UnknownSteps
       DEF PublishStep
  <2>6. QED
    BY <1>4, <2>2, <2>3, <2>4, <2>5 DEF Step
<1>5. QED
  BY <1>1, <1>2, <1>3, <1>4 DEF Next

\* Slots, renames, compensations and recoveries together behave as one log to
\* which every transaction is applied atomically or not at all, with answers
\* that never contradict it.
THEOREM PublicationImplementsStore == Spec => ImplementsStore
<1>1. IInv /\ [Next]_vars => [Store!Next]_(Store!vars)
  BY StepImplements
<1>2. QED
  BY <1>1, InitImplements, InvariantHolds, PTL DEF Spec, ImplementsStore, Store!Spec

-----------------------------------------------------------------------------
(* Power loss.  The invariant holds of the three slots in every directory  *)
(* state that a power loss can expose, and nobody is in a call after one.  *)

SlotsFit(d) ==
    /\ \A i \in {1, 2, 3} : d[i] \in Generation \cup {Absent, Torn}
    /\ d[1] # Torn /\ d[2] # Torn
    /\ d[1] = Absent /\ d[2] = Absent => d[3] = Absent
    /\ d[3] = Torn => d[2] # Absent
    /\ d[1] \notin {Absent, <<>>} =>
          LET predecessor == IF d[2] # Absent THEN d[2] ELSE d[3]
          IN  Sealed(predecessor) /\ Extends(d[1], predecessor)

\* A publication that is being reopened was synced, and its slots stay.
DurInv ==
    /\ IInv
    /\ \A d \in durable : SlotsFit(d)
    /\ \A p \in Proc : pc[p] = "reopen" => durable = {slots}

LEMMA CurrentSlotsFit ==
    ASSUME IInv
    PROVE  SlotsFit(slots)
BY DEF IInv, TypeOK, SlotDiscipline, PredecessorRetained, SlotsFit, slots

\* While a published generation is reopened no slot changes: there is no
\* rotation to finish, and everybody else is outside the lock.
LEMMA ReopenKeepsSlots ==
    ASSUME IInv, NEW p \in Proc, pc[p] = "reopen", Next
    PROVE  UNCHANGED slots
<1>1. ~NeedsReconcile /\ holder = p
  <2>1. loaded[p] \in Generation /\ prev = loaded[p]
    BY DEF IInv, PhaseDiscipline, PhaseOf
  <2> QED BY <2>1, SealedFacts DEF IInv, LockDiscipline, NeedsReconcile
<1>2. PICK q \in Proc : Request(q) \/ Step(q) \/ Crash(q)
  BY DEF Next
<1>3. CASE Request(q) \/ Crash(q) \/ AcquireLock(q)
  BY <1>3 DEF Request, Begin, Crash, AcquireLock
<1>4. pc[q] \in {"idle", "wait", "reopen"}
  BY <1>1, OthersOutside DEF IInv
<1>5. CASE OpenStep(q)
  BY <1>1, <1>5 DEF OpenStep, ReconcileRotation, LoadSelected, OpenForAppend, OpenNothing,
     OpenFails, ReopenPublished
<1>6. ~CheckStep(q)
  BY <1>4 DEF CheckStep, AnswerBoundKey, RefuseStaleFence, RefuseTransaction,
     StageTransaction, StageEmpty, StageEmptyFails
<1>7. ~PublishStep(q)
  BY <1>4 DEF PublishStep, PromoteFresh, PromoteFreshFails, TearRetired, RemoveRetired,
     Removing, RemoveRetiredFails, RetirePrevious, RetirePreviousFails, Replacing,
     ReplaceCurrent, ReplaceCurrentFails, PromoteStaging, PromoteStagingFails, UndoReplace,
     UndoRetire, EndCleanup, SyncParent, SyncParentFails
<1> QED BY <1>2, <1>3, <1>5, <1>6, <1>7 DEF Step

\* A call comes to reopen what it published by syncing the directory.
LEMMA ReopenIsSynced ==
    ASSUME IInv, NEW p \in Proc, pc[p] # "reopen", pc'[p] = "reopen", Next
    PROVE  SyncsDirectory
<1>1. PICK q \in Proc : Request(q) \/ Step(q) \/ Crash(q)
  BY DEF Next
<1>2. q = p
  BY <1>1 DEF IInv, TypeOK, Step, Request, Begin, Crash, AcquireLock, Drop, Fail, Succeed, Goto,
     OpenStep, ReconcileRotation, LoadSelected, OpenForAppend, OpenNothing, OpenFails,
     ReopenPublished, CheckStep, AnswerBoundKey, RefuseStaleFence, RefuseTransaction,
     StageTransaction, StageEmpty, StageEmptyFails, PublishStep, PromoteFresh,
     PromoteFreshFails, TearRetired, RemoveRetired, RemoveRetiredFails, RetirePrevious,
     RetirePreviousFails, ReplaceCurrent, ReplaceCurrentFails, PromoteStaging,
     PromoteStagingFails, UndoReplace, UndoRetire, EndCleanup, SyncParent, SyncParentFails
<1>3. ~Request(p) /\ ~Crash(p) /\ ~AcquireLock(p) /\ ~OpenStep(p) /\ ~CheckStep(p)
  BY DEF IInv, TypeOK, Request, Begin, Crash, AcquireLock, Drop, Fail, Succeed, Goto,
     OpenStep, ReconcileRotation, LoadSelected, OpenForAppend, OpenNothing, OpenFails,
     ReopenPublished, CheckStep, AnswerBoundKey, RefuseStaleFence, RefuseTransaction,
     StageTransaction, StageEmpty, StageEmptyFails
<1>4. PublishStep(p) => pc[p] = "sync"
  BY DEF IInv, TypeOK, Drop, Fail, Goto, PublishStep, PromoteFresh,
     PromoteFreshFails, TearRetired, RemoveRetired, RemoveRetiredFails, RetirePrevious,
     RetirePreviousFails, ReplaceCurrent, ReplaceCurrentFails, PromoteStaging,
     PromoteStagingFails, UndoReplace, UndoRetire, EndCleanup, SyncParent, SyncParentFails
<1> QED BY <1>1, <1>2, <1>3, <1>4 DEF Step, SyncsDirectory

LEMMA RunningKeeps ==
    ASSUME DurInv, RunningStep
    PROVE  DurInv' /\ \A p \in Proc : pc[p] = "reopen" => durable' = {slots}
<1>1. IInv' /\ Next
  BY NextIInv DEF DurInv, RunningStep
<1>2. SlotsFit(slots')
  <2>1. SlotsFit(slots)'
    BY <1>1, CurrentSlotsFit, PTL
  <2> QED BY <2>1 DEF SlotsFit, Sealed, Extends
<1>3. \A d \in durable' : d = slots' \/ d \in durable
  BY DEF RunningStep
<1>4. \A d \in durable' : SlotsFit(d)
  BY <1>2, <1>3 DEF DurInv
<1>5. ASSUME NEW p \in Proc, pc[p] = "reopen" PROVE slots' = slots /\ durable' = {slots}
  BY <1>1, <1>5, ReopenKeepsSlots DEF DurInv, RunningStep
<1>6. ASSUME NEW p \in Proc, pc'[p] = "reopen" PROVE durable' = {slots'}
  <2>1. CASE pc[p] = "reopen"
    BY <1>5, <2>1
  <2>2. CASE pc[p] # "reopen"
    BY <1>1, <1>6, <2>2, ReopenIsSynced DEF DurInv, RunningStep
  <2> QED BY <2>1, <2>2
<1>7. (\A d \in durable : SlotsFit(d))'
  BY <1>4 DEF SlotsFit, Sealed, Extends
<1> QED BY <1>1, <1>5, <1>6, <1>7 DEF DurInv

LEMMA PowerLossKeeps ==
    ASSUME DurInv, PowerLoss
    PROVE  DurInv' /\ durable' \subseteq durable
<1>1. PICK d \in durable :
        /\ dest' = d[1] /\ prev' = d[2] /\ retired' = d[3] /\ durable' = {d}
        /\ holder' = NoProc
        /\ pc' = [p \in Proc |-> "idle"]
        /\ req' = [p \in Proc |-> Absent]
        /\ fence' = [p \in Proc |-> Absent]
        /\ loaded' = [p \in Proc |-> Absent]
        /\ stage' = [p \in Proc |-> Absent]
        /\ current' = [p \in Proc |-> Absent]
        /\ reply' = [p \in Proc |-> "none"]
        /\ UNCHANGED acked
  BY DEF PowerLoss
<1>2. SlotsFit(d)
  BY DEF DurInv
<1>3. TypeOK'
  BY <1>1, <1>2 DEF DurInv, IInv, TypeOK, SlotsFit, Phase, Outcome
<1>4. LockDiscipline' /\ PhaseDiscipline'
  BY <1>1, MarkersDistinct DEF LockDiscipline, PhaseDiscipline, PhaseOf
<1>5. SlotDiscipline' /\ PredecessorRetained'
  BY <1>1, <1>2 DEF SlotsFit, SlotDiscipline, PredecessorRetained, Sealed, Extends
<1>6. (\A e \in durable : SlotsFit(e))'
  BY <1>1, <1>2 DEF SlotsFit, Sealed, Extends
<1>7. \A p \in Proc : pc'[p] # "reopen"
  BY <1>1
<1> QED BY <1>1, <1>3, <1>4, <1>5, <1>6, <1>7 DEF DurInv, IInv

LEMMA DurabilityInvariant == DurabilitySpec => []DurInv
<1>1. DurabilityInit => DurInv
  <2> SUFFICES ASSUME DurabilityInit PROVE DurInv
    OBVIOUS
  <2>1. IInv /\ \A p \in Proc : pc[p] # "reopen"
    BY InitIInv DEF DurabilityInit, Init
  <2> QED BY <2>1, CurrentSlotsFit DEF DurabilityInit, DurInv
<1>2. DurInv /\ [DurabilityNext]_durabilityVars => DurInv'
  <2> SUFFICES ASSUME DurInv, [DurabilityNext]_durabilityVars PROVE DurInv'
    OBVIOUS
  <2>1. CASE RunningStep
    BY <2>1, RunningKeeps
  <2>2. CASE PowerLoss
    BY <2>2, PowerLossKeeps
  <2>3. CASE UNCHANGED durabilityVars
    <3>1. IInv' /\ UNCHANGED <<durable, slots, pc>>
      BY <2>3, StutterKeeps DEF DurInv, durabilityVars, vars
    <3>2. (\A d \in durable : SlotsFit(d))'
      BY <3>1 DEF DurInv, SlotsFit, Sealed, Extends
    <3> QED BY <3>1, <3>2 DEF DurInv
  <2> QED BY <2>1, <2>2, <2>3 DEF DurabilityNext
<1> QED BY <1>1, <1>2, PTL DEF DurabilitySpec

\* Every directory state that a power loss can expose opens, also in the
\* middle of a rotation, and when a publication is answered "ok" each of them
\* selects a generation with its transaction (publish_staged,
\* sync_parent_directory).
THEOREM PublicationsSurvivePowerLoss == DurabilitySpec => SurvivesPowerLoss
<1>1. DurInv => OpensAfterPowerLoss
  <2> SUFFICES ASSUME DurInv, NEW d \in durable
               PROVE  /\ SelectedOf(d) # Torn
                      /\ d[1] # Absent /\ d[2] = Absent /\ d[3] # Absent => Sealed(d[3])
    BY DEF OpensAfterPowerLoss
  <2> QED BY SealedFacts DEF DurInv, SlotsFit, SelectedOf
<1> DEFINE Answers ==
      \A p \in Proc :
        pc[p] = "reopen" /\ reply'[p] = "ok" =>
            \A d \in durable' : Sealed(SelectedOf(d)) /\ SameTransaction(SelectedOf(d), req[p])
<1>2. DurInv /\ [DurabilityNext]_durabilityVars => [Answers]_durabilityVars
  <2> SUFFICES ASSUME DurInv, DurabilityNext, NEW p \in Proc, pc[p] = "reopen",
                      NEW d \in durable'
               PROVE  Sealed(SelectedOf(d)) /\ SameTransaction(SelectedOf(d), req[p])
    OBVIOUS
  <2>1. d = slots
    BY RunningKeeps, PowerLossKeeps DEF DurInv, DurabilityNext
  <2>2. loaded[p] \in Generation /\ req[p] \in Txn /\ dest = Append(loaded[p], req[p])
    BY DEF DurInv, IInv, PhaseDiscipline, PhaseOf
  <2>3. dest \in Generation /\ dest[Len(loaded[p]) + 1] = req[p]
        /\ Len(loaded[p]) + 1 \in DOMAIN dest
    BY <2>2, AppendFacts DEF Generation
  <2>4. Sealed(dest) /\ SameTransaction(dest, req[p]) /\ dest # Absent
    BY <2>3, SealedFacts DEF SameTransaction
  <2> QED BY <2>1, <2>4 DEF SelectedOf, slots
<1> QED BY <1>1, <1>2, DurabilityInvariant, PTL DEF DurabilitySpec, SurvivesPowerLoss

-----------------------------------------------------------------------------
(***************************************************************************)
(* The root between publications: stages that are created in the gap,      *)
(* bracket commands that find no root, and projects of the prior epoch.    *)
(* IInv does not hold here: a stage puts a directory that does not         *)
(* authenticate at the root, and the selected generation is no longer the  *)
(* committed one.  What is left is an order of the three slots: a sealed   *)
(* root holds all that was acknowledged; under any other root a sealed     *)
(* previous generation does, and if there is none the retired one does.    *)
(***************************************************************************)

Slot == Generation \cup {Absent, Torn, PriorEpoch}
Outside == {"idle", "wait", "createBracket"}
Upgrading == {"backup", "migrate", "migrateNew"}
Promoting == {"publish", "replace", "promote", "cleanup", "sync"}
GapPhases == Phase \cup Upgrading \cup {"createBracket"}

GapTyped ==
    /\ dest \in Slot /\ prev \in Slot /\ retired \in Slot
    /\ pc \in [Proc -> GapPhases]
    /\ req \in [Proc -> Txn \cup {Load, Absent}]
    /\ loaded \in [Proc -> Generation \cup {Absent}]
    /\ stage \in [Proc -> Generation \cup {Absent}]

Held(g) == Sealed(g) /\ \A t \in acked : SameTransaction(g, t)

GapLock == \A p \in Proc : pc[p] \notin Outside <=> holder = p

SlotsHold ==
    IF Sealed(dest) THEN Held(dest)
    ELSE /\ Sealed(prev) => Held(prev)
         /\ acked = {} \/ Held(prev) \/ Held(retired)
         /\ dest = PriorEpoch \/ prev = PriorEpoch \/ (dest = Absent /\ prev = Absent)
                => acked = {}

\* What p relies on between two steps, whatever is created at the root
\* meanwhile.
PhaseHolds(p) ==
    /\ pc[p] \notin {"idle", "createBracket"} => req[p] \in Txn \cup {Load}
    /\ pc[p] \in {"check", "create", "reopen"} => req[p] # Load
    /\ pc[p] \in {"check", "create"} => dest # PriorEpoch
    /\ pc[p] = "check" =>
          Sealed(loaded[p]) /\ loaded[p] = IF Sealed(dest) THEN dest ELSE prev
    /\ pc[p] = "create" => acked = {}
    /\ pc[p] \in Promoting =>
          /\ Held(stage[p])
          /\ req[p] # Load /\ stage[p] # <<>> => SameTransaction(stage[p], req[p])
    /\ pc[p] = "publish" => Sealed(dest) \/ acked = {} \/ Held(prev)
    /\ pc[p] = "replace" => prev = Absent /\ dest # Absent
    /\ pc[p] \in {"publish", "replace"} /\ dest = PriorEpoch => backup = PriorEpoch
    /\ pc[p] \in {"cleanup", "sync"} => dest = stage[p]
    /\ pc[p] = "reopen" => Sealed(dest) /\ SameTransaction(dest, req[p])
    /\ pc[p] \in Upgrading => dest = PriorEpoch
    /\ pc[p] \in {"migrate", "migrateNew"} => backup = PriorEpoch

PhasesHold == \A p \in Proc : PhaseHolds(p)

GapInv == GapTyped /\ GapLock /\ SlotsHold /\ PhasesHold

-----------------------------------------------------------------------------
(* Generations, and who has to be looked at after a step.                  *)

LEMMA GapSealed ==
    /\ \A g \in Slot : Sealed(g) <=> g \in Generation
    /\ <<>> \in Generation /\ Sealed(<<>>)
    /\ ~Sealed(Absent) /\ ~Sealed(Torn) /\ ~Sealed(PriorEpoch)
    /\ Absent # PriorEpoch /\ Torn # PriorEpoch /\ Torn # Absent
<1>1. <<>> \in Seq(Txn)
  OBVIOUS
<1>2. \A g : g \in Seq(Txn) => Sealed(g)
  BY MarkersDistinct DEF Sealed
<1>3. \A g \in Seq(Txn) \cup {Absent, Torn, PriorEpoch} : Sealed(g) => g \in Seq(Txn)
  BY DEF Sealed
<1>4. ~Sealed(Absent) /\ ~Sealed(Torn) /\ ~Sealed(PriorEpoch)
  BY DEF Sealed
<1> QED BY <1>1, <1>2, <1>3, <1>4, MarkersDistinct DEF Slot, Generation

LEMMA GapAppend ==
    ASSUME NEW g \in Generation, NEW t \in Txn
    PROVE  /\ Append(g, t) \in Generation /\ Append(g, t) # <<>>
           /\ SameTransaction(Append(g, t), t)
           /\ \A u : SameTransaction(g, u) => SameTransaction(Append(g, t), u)
<1>1. /\ Append(g, t) \in Seq(Txn) /\ Append(g, t) # <<>>
      /\ Append(g, t)[Len(g) + 1] = t /\ Len(g) \in Nat
      /\ DOMAIN Append(g, t) = 1 .. (Len(g) + 1) /\ DOMAIN g = 1 .. Len(g)
      /\ \A i \in DOMAIN g : Append(g, t)[i] = g[i]
  BY DEF Generation
<1>2. Len(g) + 1 \in DOMAIN Append(g, t) /\ DOMAIN g \subseteq DOMAIN Append(g, t)
  BY <1>1
<1> QED BY <1>1, <1>2 DEF SameTransaction, Generation

\* A step inside the lock is checked against its own process only.
LEMMA GapInside ==
    ASSUME GapTyped, GapLock, PhasesHold,
           NEW p \in Proc, pc[p] \notin Outside, NEW l \in GapPhases \ Outside,
           pc' = [pc EXCEPT ![p] = l], UNCHANGED <<holder, req>>, PhaseHolds(p)'
    PROVE  GapLock' /\ PhasesHold'
<1>1. GapLock'
  BY DEF GapTyped, GapLock
<1>2. ASSUME NEW q \in Proc, q # p PROVE PhaseHolds(q)'
  <2>1. pc[q] \in Outside /\ pc'[q] = pc[q] /\ req'[q] = req[q]
    BY <1>2 DEF GapTyped, GapLock
  <2>2. pc[q] \notin {"idle", "createBracket"} => req[q] \in Txn \cup {Load}
    BY DEF PhasesHold, PhaseHolds
  <2> QED BY <2>1, <2>2 DEF PhaseHolds, Outside, Promoting, Upgrading
<1> QED BY <1>1, <1>2 DEF PhasesHold

\* A call that ends leaves the slots to the others; one that dies outside
\* the lock leaves them alone.
LEMMA GapDrop ==
    ASSUME GapTyped, GapLock, PhasesHold, NEW p \in Proc, Drop(p),
           pc[p] \notin Outside \/ UNCHANGED <<slots, acked, backup>>
    PROVE  /\ GapLock' /\ PhasesHold'
           /\ pc' \in [Proc -> GapPhases] /\ req' \in [Proc -> Txn \cup {Load, Absent}]
           /\ loaded' \in [Proc -> Generation \cup {Absent}]
           /\ stage' \in [Proc -> Generation \cup {Absent}]
<1>1. GapLock'
  BY MarkersDistinct DEF GapTyped, GapLock, Drop, Goto, Outside
<1>2. PhaseHolds(p)'
  BY DEF GapTyped, Drop, Goto, PhaseHolds, Promoting, Upgrading
<1>3. ASSUME NEW q \in Proc, q # p PROVE PhaseHolds(q)'
  <2>1. /\ pc'[q] = pc[q] /\ req'[q] = req[q] /\ loaded'[q] = loaded[q]
        /\ stage'[q] = stage[q]
    BY <1>3 DEF GapTyped, Drop, Goto
  <2>2. PhaseHolds(q)
    BY DEF PhasesHold
  <2>3. CASE pc[q] \in Outside
    BY <2>1, <2>2, <2>3 DEF PhaseHolds, Outside, Promoting, Upgrading
  <2>4. CASE pc[q] \notin Outside
    <3>1. UNCHANGED <<slots, acked, backup>>
      BY <1>3, <2>4 DEF GapLock
    <3> QED BY <2>1, <2>2, <3>1 DEF PhaseHolds, slots, Held, SameTransaction, Sealed
  <2> QED BY <2>3, <2>4
<1>4. /\ pc' \in [Proc -> GapPhases] /\ req' \in [Proc -> Txn \cup {Load, Absent}]
      /\ loaded' \in [Proc -> Generation \cup {Absent}]
      /\ stage' \in [Proc -> Generation \cup {Absent}]
  BY DEF GapTyped, Drop, Goto, GapPhases, Phase
<1> QED BY <1>1, <1>2, <1>3, <1>4 DEF PhasesHold

LEMMA SlotsStay ==
    ASSUME SlotsHold, UNCHANGED <<slots, acked>>
    PROVE  SlotsHold'
BY DEF SlotsHold, slots, Held, Sealed, SameTransaction

LEMMA GapMoves ==
    ASSUME GapInv, NEW p \in Proc, pc[p] \notin Outside, NEW l \in GapPhases \ Outside,
           Goto(p, l), UNCHANGED <<slots, holder, req, acked>>, PhaseHolds(p)',
           loaded' \in [Proc -> Generation \cup {Absent}],
           stage' \in [Proc -> Generation \cup {Absent}]
    PROVE  GapInv'
<1>1. GapLock' /\ PhasesHold'
  BY GapInside DEF GapInv, Goto
<1>2. GapTyped'
  BY DEF GapInv, GapTyped, Goto, slots
<1> QED BY <1>1, <1>2, SlotsStay DEF GapInv

LEMMA GapFail ==
    ASSUME GapInv, NEW p \in Proc, NEW outcome, Fail(p, outcome), UNCHANGED slots,
           pc[p] \notin Outside
    PROVE  GapInv'
<1>1. UNCHANGED <<slots, acked>> /\ Drop(p)
  BY DEF Fail
<1>2. GapTyped' /\ GapLock' /\ PhasesHold'
  BY <1>1, GapDrop DEF GapInv, GapTyped, slots
<1> QED BY <1>1, <1>2, SlotsStay DEF GapInv

\* A transaction is answered that the generation a load finds holds.
LEMMA GapSucceed ==
    ASSUME GapInv, NEW p \in Proc, NEW g, Succeed(p, g), UNCHANGED slots,
           pc[p] \notin Outside,
           \/ req[p] = Load
           \/ Sealed(dest) /\ SameTransaction(dest, req[p])
           \/ /\ dest # PriorEpoch /\ ~Sealed(dest)
              /\ Sealed(prev) /\ SameTransaction(prev, req[p])
    PROVE  GapInv'
<1>1. Drop(p) /\ acked' = IF req[p] = Load THEN acked ELSE acked \cup {req[p]}
  BY DEF Succeed
<1>2. GapTyped' /\ GapLock' /\ PhasesHold'
  BY <1>1, GapDrop DEF GapInv, GapTyped, slots
<1>3. CASE req[p] = Load
  BY <1>1, <1>2, <1>3, SlotsStay DEF GapInv
<1>4. CASE Sealed(dest) /\ SameTransaction(dest, req[p])
  <2>1. \A t \in acked' : SameTransaction(dest, t)
    BY <1>1, <1>4 DEF GapInv, SlotsHold, Held
  <2>2. dest' = dest
    BY DEF slots
  <2>3. SlotsHold'
    BY <1>4, <2>1, <2>2 DEF SlotsHold, Held, Sealed, SameTransaction
  <2> QED BY <1>2, <2>3 DEF GapInv
<1>5. CASE /\ dest # PriorEpoch /\ ~Sealed(dest)
           /\ Sealed(prev) /\ SameTransaction(prev, req[p])
  <2>1. \A t \in acked' : SameTransaction(prev, t)
    BY <1>1, <1>5 DEF GapInv, SlotsHold, Held
  <2>2. dest' = dest /\ prev' = prev
    BY DEF slots
  <2>3. prev # Absent /\ prev # PriorEpoch
    BY <1>5 DEF Sealed
  <2>4. SlotsHold'
    BY <1>5, <2>1, <2>2, <2>3 DEF SlotsHold, Held, Sealed, SameTransaction
  <2> QED BY <1>2, <2>4 DEF GapInv
<1> QED BY <1>3, <1>4, <1>5

-----------------------------------------------------------------------------
(* Requests, opening and the checks of an append.                          *)

LEMMA GapRequests ==
    ASSUME GapInv, NEW p \in Proc, UNCHANGED backup,
           \/ Request(p) \/ AcquireLock(p) \/ Crash(p)
    PROVE  GapInv'
<1> USE DEF GapInv
<1>1. CASE Request(p)
  <2>1. PICK r \in Txn \cup {Load} :
          /\ pc[p] = "idle" /\ pc' = [pc EXCEPT ![p] = "wait"]
          /\ req' = [req EXCEPT ![p] = r]
          /\ UNCHANGED <<slots, holder, loaded, stage, acked>>
    BY <1>1 DEF Request, Begin, Goto
  <2>2. GapTyped'
    BY <2>1 DEF GapTyped, slots, GapPhases, Phase
  <2>3. GapLock'
    BY <2>1 DEF GapTyped, GapLock, Outside
  <2>4. ASSUME NEW q \in Proc PROVE PhaseHolds(q)'
    <3>1. CASE q = p
      BY <2>1, <3>1 DEF GapTyped, PhaseHolds, Promoting, Upgrading
    <3>2. CASE q # p
      <4>1. pc'[q] = pc[q] /\ req'[q] = req[q]
        BY <2>1, <3>2 DEF GapTyped
      <4>2. PhaseHolds(q)
        BY DEF PhasesHold
      <4> QED BY <2>1, <4>1, <4>2 DEF PhaseHolds, slots, Held, Sealed, SameTransaction
    <3> QED BY <3>1, <3>2
  <2> QED BY <2>1, <2>2, <2>3, <2>4, SlotsStay DEF PhasesHold
<1>2. CASE AcquireLock(p)
  <2>1. /\ pc[p] = "wait" /\ holder = NoProc /\ holder' = p
        /\ pc' = [pc EXCEPT ![p] = "open"]
        /\ UNCHANGED <<slots, req, loaded, stage, acked>>
    BY <1>2 DEF AcquireLock, Goto, locals, outcomes
  <2>2. GapTyped'
    BY <2>1 DEF GapTyped, slots, GapPhases, Phase
  <2>3. GapLock'
    BY <2>1, MarkersDistinct DEF GapTyped, GapLock, Outside
  <2>4. ASSUME NEW q \in Proc PROVE PhaseHolds(q)'
    <3>1. PhaseHolds(q) /\ pc[q] \in Outside /\ req'[q] = req[q]
      BY <2>1, MarkersDistinct DEF PhasesHold, GapLock
    <3>2. IF q = p THEN pc[q] = "wait" /\ pc'[q] = "open" ELSE pc'[q] = pc[q]
      BY <2>1 DEF GapTyped
    <3> QED BY <3>1, <3>2 DEF PhaseHolds, Outside, Promoting, Upgrading
  <2> QED BY <2>1, <2>2, <2>3, <2>4, SlotsStay DEF PhasesHold
<1>3. CASE Crash(p)
  <2>1. Drop(p) /\ UNCHANGED <<slots, acked, backup>>
    BY <1>3 DEF Crash
  <2>2. GapTyped' /\ GapLock' /\ PhasesHold'
    BY <2>1, GapDrop DEF GapTyped, slots
  <2> QED BY <2>1, <2>2, SlotsStay
<1> QED BY <1>1, <1>2, <1>3

\* The selected generation that a load finds is the one acknowledged
\* transactions are in.
LEMMA GapSelected ==
    ASSUME GapInv, ~NeedsReconcile, Sealed(Selected)
    PROVE  /\ Selected \in Generation /\ Selected # Absent /\ dest # PriorEpoch
           /\ Selected = IF Sealed(dest) THEN dest ELSE prev
BY GapSealed DEF GapInv, GapTyped, Selected

LEMMA GapOpens ==
    ASSUME GapInv, NEW p \in Proc, UNCHANGED backup, OpenStep(p)
    PROVE  GapInv'
<1> USE DEF GapInv
<1>0. pc[p] \in {"open", "reopen"} /\ pc[p] \notin Outside /\ PhaseHolds(p)
  BY DEF OpenStep, ReconcileRotation, LoadSelected, OpenForAppend, OpenNothing, OpenFails,
     ReopenPublished, Outside, PhasesHold
<1>1. CASE ReconcileRotation(p)
  <2>1. /\ dest # Absent /\ prev = Absent /\ Sealed(retired)
        /\ prev' = retired /\ retired' = Absent
        /\ UNCHANGED <<dest, holder, pc, req, loaded, stage, acked>>
    BY <1>1 DEF ReconcileRotation, NeedsReconcile, locals, outcomes
  <2>2. GapTyped'
    BY <2>1 DEF GapTyped, Slot
  <2>3. SlotsHold'
    <3>1. ~Sealed(dest) => acked = {} \/ Held(retired)
      BY <2>1, GapSealed DEF SlotsHold, Held
    <3>2. retired # PriorEpoch
      BY <2>1, GapSealed
    <3> QED BY <2>1, <3>1, <3>2 DEF SlotsHold, Held, Sealed, SameTransaction
  <2>4. GapLock' /\ PhaseHolds(p)'
    BY <1>0, <2>1 DEF GapLock, PhaseHolds, Promoting, Upgrading, Sealed, SameTransaction
  <2>5. ASSUME NEW q \in Proc, q # p PROVE PhaseHolds(q)'
    <3>1. pc[q] \in Outside /\ PhaseHolds(q) /\ pc'[q] = pc[q] /\ req'[q] = req[q]
      BY <1>0, <2>1, <2>5 DEF GapLock, PhasesHold
    <3> QED BY <3>1 DEF PhaseHolds, Outside, Promoting, Upgrading
  <2> QED BY <2>2, <2>3, <2>4, <2>5 DEF PhasesHold
<1>2. CASE LoadSelected(p)
  BY <1>0, <1>2, GapSucceed DEF LoadSelected
<1>3. CASE OpenForAppend(p)
  <2>1. /\ pc[p] = "open" /\ req[p] # Load /\ Goto(p, "check")
        /\ loaded' = [loaded EXCEPT ![p] = Selected]
        /\ UNCHANGED <<slots, holder, req, stage, acked>>
    BY <1>3 DEF OpenForAppend, outcomes
  <2>2. /\ Selected \in Generation /\ dest # PriorEpoch /\ Sealed(Selected)
        /\ Selected = IF Sealed(dest) THEN dest ELSE prev
    BY <1>3, GapSelected DEF OpenForAppend
  <2>3. loaded' \in [Proc -> Generation \cup {Absent}] /\ loaded'[p] = Selected
    BY <2>1, <2>2 DEF GapTyped
  <2>4. pc'[p] = "check"
    BY <2>1 DEF Goto, GapTyped
  <2>5. PhaseHolds(p)'
    BY <1>0, <2>1, <2>2, <2>3, <2>4 DEF PhaseHolds, Promoting, Upgrading, slots, Sealed
  <2>6. "check" \in GapPhases \ Outside /\ stage' \in [Proc -> Generation \cup {Absent}]
    BY <2>1 DEF GapPhases, Phase, Outside, GapTyped
  <2> QED BY <1>0, <2>1, <2>3, <2>5, <2>6, GapMoves
<1>4. CASE OpenNothing(p)
  <2>1. CASE Fail(p, "missing")
    BY <1>0, <1>4, <2>1, GapFail DEF OpenNothing
  <2>2. CASE req[p] # Load /\ Goto(p, "create") /\ UNCHANGED <<holder, locals, outcomes>>
    <3>1. UNCHANGED <<slots, holder, req, loaded, stage, acked>>
      BY <1>4, <2>2 DEF OpenNothing, locals, outcomes
    <3>2. dest = Absent /\ prev = Absent /\ pc[p] = "open"
      BY <1>4 DEF OpenNothing
    <3>3. acked = {} /\ dest # PriorEpoch
      BY <3>2, GapSealed DEF SlotsHold
    <3>4. pc'[p] = "create"
      BY <2>2 DEF Goto, GapTyped
    <3>5. PhaseHolds(p)'
      BY <1>0, <2>2, <3>1, <3>2, <3>3, <3>4 DEF PhaseHolds, Promoting, Upgrading, slots
    <3>6. /\ "create" \in GapPhases \ Outside
          /\ stage' \in [Proc -> Generation \cup {Absent}]
          /\ loaded' \in [Proc -> Generation \cup {Absent}]
      BY <3>1 DEF GapPhases, Phase, Outside, GapTyped
    <3> QED BY <1>0, <2>2, <3>1, <3>5, <3>6, GapMoves
  <2> QED BY <1>4, <2>1, <2>2 DEF OpenNothing
<1>5. CASE OpenFails(p)
  BY <1>0, <1>5, GapFail DEF OpenFails
<1>6. CASE ReopenPublished(p)
  <2>1. Sealed(dest) /\ SameTransaction(dest, req[p])
    BY <1>0, <1>6 DEF ReopenPublished, PhaseHolds
  <2> QED BY <1>0, <1>6, <2>1, GapSucceed DEF ReopenPublished
<1> QED BY <1>1, <1>2, <1>3, <1>4, <1>5, <1>6 DEF OpenStep

LEMMA GapChecks ==
    ASSUME GapInv, NEW p \in Proc, UNCHANGED backup, CheckStep(p)
    PROVE  GapInv'
<1> USE DEF GapInv
<1>0. pc[p] \in {"check", "create"} /\ pc[p] \notin Outside /\ PhaseHolds(p)
  BY DEF CheckStep, AnswerBoundKey, RefuseStaleFence, RefuseTransaction, StageTransaction,
     StageEmpty, StageEmptyFails, Outside, PhasesHold
<1>1. req[p] \in Txn /\ req[p] # Load /\ dest # PriorEpoch
  BY <1>0 DEF PhaseHolds
<1>2. pc[p] = "check" => /\ loaded[p] = (IF Sealed(dest) THEN dest ELSE prev)
                         /\ Sealed(loaded[p])
                         /\ loaded[p] \in Generation /\ Held(loaded[p])
  <2>1. ASSUME pc[p] = "check"
        PROVE  loaded[p] = (IF Sealed(dest) THEN dest ELSE prev) /\ Sealed(loaded[p])
    BY <1>0, <2>1 DEF PhaseHolds
  <2>2. ASSUME pc[p] = "check" PROVE Held(loaded[p])
    BY <2>1, <2>2 DEF SlotsHold
  <2>3. loaded[p] \in Generation \cup {Absent}
    BY DEF GapTyped
  <2> QED BY <2>1, <2>2, <2>3, GapSealed
<1>3. CASE AnswerBoundKey(p)
  <2>1. CASE SameTransaction(loaded[p], req[p]) /\ Succeed(p, loaded[p])
    <3>1. \/ Sealed(dest) /\ SameTransaction(dest, req[p])
          \/ /\ dest # PriorEpoch /\ ~Sealed(dest)
             /\ Sealed(prev) /\ SameTransaction(prev, req[p])
      BY <1>1, <1>2, <1>3, <2>1 DEF AnswerBoundKey
    <3> QED BY <1>0, <1>3, <2>1, <3>1, GapSucceed DEF AnswerBoundKey
  <2>2. CASE Fail(p, "invalid")
    BY <1>0, <1>3, <2>2, GapFail DEF AnswerBoundKey
  <2> QED BY <1>3, <2>1, <2>2 DEF AnswerBoundKey
<1>4. CASE RefuseStaleFence(p) \/ RefuseTransaction(p) \/ StageEmptyFails(p)
  BY <1>0, <1>4, GapFail DEF RefuseStaleFence, RefuseTransaction, StageEmptyFails
<1>5. ASSUME NEW g \in Generation, stage' = [stage EXCEPT ![p] = g], Goto(p, "publish"),
             UNCHANGED <<slots, holder, req, loaded, acked>>,
             Held(g), g = <<>> \/ SameTransaction(g, req[p]),
             Sealed(dest) \/ acked = {} \/ Held(prev)
      PROVE  GapInv'
  <2>1. pc'[p] = "publish" /\ stage'[p] = g
        /\ stage' \in [Proc -> Generation \cup {Absent}]
        /\ loaded' \in [Proc -> Generation \cup {Absent}]
    BY <1>5 DEF Goto, GapTyped
  <2>2. PhaseHolds(p)'
    BY <1>0, <1>1, <1>5, <2>1
       DEF PhaseHolds, Promoting, Upgrading, slots, Held, Sealed, SameTransaction
  <2>3. "publish" \in GapPhases \ Outside
    BY DEF GapPhases, Phase, Outside
  <2> QED BY <1>0, <1>5, <2>1, <2>2, <2>3, GapMoves
<1>6. CASE StageTransaction(p)
  <2>1. pc[p] = "check" /\ stage' = [stage EXCEPT ![p] = Append(loaded[p], req[p])]
        /\ Goto(p, "publish") /\ UNCHANGED <<slots, holder, req, loaded, acked>>
    BY <1>6 DEF StageTransaction, outcomes
  <2>2. /\ Append(loaded[p], req[p]) \in Generation
        /\ SameTransaction(Append(loaded[p], req[p]), req[p])
        /\ \A u : SameTransaction(loaded[p], u) => SameTransaction(Append(loaded[p], req[p]), u)
    BY <1>1, <1>2, <2>1, GapAppend
  <2>3. Held(Append(loaded[p], req[p]))
    BY <1>2, <2>1, <2>2, GapSealed DEF Held, Slot
  <2>4. Sealed(dest) \/ Held(prev)
    BY <1>2, <2>1
  <2> QED BY <1>5, <2>1, <2>2, <2>3, <2>4
<1>7. CASE StageEmpty(p)
  <2>1. /\ pc[p] = "create" /\ stage' = [stage EXCEPT ![p] = <<>>] /\ Goto(p, "publish")
        /\ UNCHANGED <<slots, holder, req, loaded, acked>>
    BY <1>7 DEF StageEmpty, outcomes
  <2>2. acked = {}
    BY <1>0, <2>1 DEF PhaseHolds
  <2>3. Held(<<>>)
    BY <2>2, GapSealed DEF Held
  <2> QED BY <1>5, <2>1, <2>2, <2>3, GapSealed
<1> QED BY <1>3, <1>4, <1>6, <1>7 DEF CheckStep

-----------------------------------------------------------------------------
(* Publication: what the slots hold after every rename.                    *)

\* A step of a publication that moves generations between the slots.
LEMMA GapRenames ==
    ASSUME GapInv, NEW p \in Proc, pc[p] \notin Outside, NEW l \in GapPhases \ Outside,
           Goto(p, l), UNCHANGED <<holder, req, loaded, stage, acked>>,
           dest' \in Slot, prev' \in Slot, retired' \in Slot,
           SlotsHold', PhaseHolds(p)'
    PROVE  GapInv'
<1>1. GapLock' /\ PhasesHold'
  BY GapInside DEF GapInv, Goto
<1>2. GapTyped'
  BY DEF GapInv, GapTyped, Goto
<1> QED BY <1>1, <1>2 DEF GapInv

LEMMA GapPromotes ==
    ASSUME GapInv, NEW p \in Proc, UNCHANGED backup,
           PromoteFresh(p) \/ PromoteStaging(p)
    PROVE  GapInv'
<1> USE DEF GapInv
<1>1. PICK l \in {"sync", "cleanup"} :
        /\ pc[p] \in {"publish", "promote"} /\ Goto(p, l) /\ dest' = stage[p]
        /\ UNCHANGED <<prev, retired, holder, req, loaded, stage, acked>>
  BY DEF PromoteFresh, PromoteStaging, locals, outcomes
<1>2. PhaseHolds(p) /\ pc[p] \notin Outside /\ pc'[p] = l
  BY <1>1 DEF PhasesHold, Outside, Goto, GapTyped
<1>3. Held(stage[p]) /\ stage[p] \in Generation
  BY <1>1, <1>2, GapSealed DEF PhaseHolds, Promoting, Held, GapTyped
<1>4. Sealed(dest') /\ \A t \in acked' : SameTransaction(dest', t)
  BY <1>1, <1>3 DEF Held
<1>5. SlotsHold'
  BY <1>4 DEF SlotsHold, Held, Sealed, SameTransaction
<1>6. stage' = stage /\ req' = req /\ acked' = acked
  BY <1>1
<1>7. PhaseHolds(p)'
  BY <1>1, <1>2, <1>6 DEF PhaseHolds, Promoting, Upgrading, Held, Sealed, SameTransaction
<1>8. l \in GapPhases \ Outside /\ dest' \in Slot /\ prev' \in Slot /\ retired' \in Slot
  BY <1>1, <1>3 DEF GapPhases, Phase, Outside, Slot, GapTyped
<1> QED BY <1>1, <1>2, <1>5, <1>7, <1>8, GapRenames

\* The removal of a retired generation takes away what is not needed.
LEMMA GapRemoves ==
    ASSUME GapInv, NEW p \in Proc, UNCHANGED backup,
           TearRetired(p) \/ RemoveRetired(p)
    PROVE  GapInv'
<1> USE DEF GapInv
<1>1. /\ pc[p] = "cleanup" \/ (pc[p] = "publish" /\ dest # Absent)
      /\ retired' \in {Torn, Absent}
      /\ UNCHANGED <<dest, prev, holder, pc, req, loaded, stage, acked>>
  BY DEF TearRetired, RemoveRetired, Removing, locals, outcomes
<1>2. PhaseHolds(p) /\ pc[p] \notin Outside
  BY <1>1 DEF PhasesHold, Outside
<1>3. Sealed(dest) \/ acked = {} \/ Held(prev)
  BY <1>1, <1>2 DEF PhaseHolds, Promoting, Held
<1>4. SlotsHold'
  BY <1>1, <1>3 DEF SlotsHold, Held, Sealed, SameTransaction
<1>5. pc' = [pc EXCEPT ![p] = pc[p]] /\ pc[p] \in GapPhases \ Outside
  BY <1>1, <1>2 DEF GapTyped
<1>6. PhaseHolds(p)'
  BY <1>1, <1>2 DEF PhaseHolds, Held, Sealed, SameTransaction
<1>7. dest' \in Slot /\ prev' \in Slot /\ retired' \in Slot
  BY <1>1 DEF GapTyped, Slot
<1> QED BY <1>1, <1>2, <1>4, <1>5, <1>6, <1>7, GapRenames DEF Goto

LEMMA GapRotates ==
    ASSUME GapInv, NEW p \in Proc, UNCHANGED backup,
           RetirePrevious(p) \/ ReplaceCurrent(p)
    PROVE  GapInv'
<1> USE DEF GapInv
<1>1. CASE RetirePrevious(p)
  <2>1. /\ pc[p] = "publish" /\ dest # Absent /\ Goto(p, "replace")
        /\ retired' = prev /\ prev' = Absent
        /\ UNCHANGED <<dest, holder, req, loaded, stage, acked>>
    BY <1>1 DEF RetirePrevious, locals, outcomes
  <2>2. PhaseHolds(p) /\ pc[p] \notin Outside /\ pc'[p] = "replace"
    BY <2>1 DEF PhasesHold, Outside, Goto, GapTyped
  <2>3. Sealed(dest) \/ acked = {} \/ Held(prev)
    BY <2>1, <2>2 DEF PhaseHolds
  <2>4. SlotsHold'
    BY <2>1, <2>3, GapSealed DEF SlotsHold, Held, Sealed, SameTransaction
  <2>5. PhaseHolds(p)'
    BY <2>1, <2>2 DEF PhaseHolds, Promoting, Upgrading, Held, Sealed, SameTransaction
  <2>6. /\ "replace" \in GapPhases \ Outside
        /\ dest' \in Slot /\ prev' \in Slot /\ retired' \in Slot
    BY <2>1 DEF GapPhases, Phase, Outside, Slot, GapTyped
  <2> QED BY <2>1, <2>2, <2>4, <2>5, <2>6, GapRenames
<1>2. CASE ReplaceCurrent(p)
  <2>1. /\ pc[p] \in {"publish", "replace"} /\ Goto(p, "promote")
        /\ dest' = Absent /\ prev' = dest
        /\ UNCHANGED <<retired, holder, req, loaded, stage, acked>>
    BY <1>2 DEF ReplaceCurrent, Replacing, locals, outcomes
  <2>2. PhaseHolds(p) /\ pc[p] \notin Outside /\ pc'[p] = "promote"
    BY <2>1 DEF PhasesHold, Outside, Goto, GapTyped
  <2>3. prev = Absent /\ dest # Absent
    BY <1>2, <2>2 DEF ReplaceCurrent, Replacing, PhaseHolds
  <2>4. ~Held(prev)
    BY <2>3, GapSealed DEF Held
  <2>5. SlotsHold'
    BY <2>1, <2>3, <2>4, GapSealed DEF SlotsHold, Held, Sealed, SameTransaction
  <2>6. PhaseHolds(p)'
    BY <2>1, <2>2 DEF PhaseHolds, Promoting, Upgrading, Held, Sealed, SameTransaction
  <2>7. /\ "promote" \in GapPhases \ Outside
        /\ dest' \in Slot /\ prev' \in Slot /\ retired' \in Slot
    BY <2>1 DEF GapPhases, Phase, Outside, Slot, GapTyped
  <2> QED BY <2>1, <2>2, <2>5, <2>6, <2>7, GapRenames
<1> QED BY <1>1, <1>2

LEMMA GapUndoes ==
    ASSUME GapInv, NEW p \in Proc, UNCHANGED backup,
           UndoReplace(p) \/ UndoRetire(p)
    PROVE  GapInv'
<1> USE DEF GapInv
<1>1. CASE UndoReplace(p)
  <2>1. /\ pc[p] = "undoReplace" /\ Goto(p, "undoRetire")
        /\ UNCHANGED <<retired, holder, req, loaded, stage, acked>>
        /\ \/ dest = Absent /\ dest' = prev /\ prev' = Absent
           \/ UNCHANGED <<dest, prev>>
    BY <1>1 DEF UndoReplace, locals, outcomes
  <2>2. PhaseHolds(p) /\ pc[p] \notin Outside /\ pc'[p] = "undoRetire"
    BY <2>1 DEF PhasesHold, Outside, Goto, GapTyped
  <2>3. SlotsHold'
    <3>1. CASE dest = Absent /\ dest' = prev /\ prev' = Absent
      BY <2>1, <3>1, GapSealed DEF SlotsHold, Held, Sealed, SameTransaction
    <3>2. CASE UNCHANGED <<dest, prev>>
      BY <2>1, <3>2, SlotsStay DEF slots
    <3> QED BY <2>1, <3>1, <3>2
  <2>4. PhaseHolds(p)'
    BY <2>1, <2>2 DEF PhaseHolds, Promoting, Upgrading
  <2>5. /\ "undoRetire" \in GapPhases \ Outside
        /\ dest' \in Slot /\ prev' \in Slot /\ retired' \in Slot
    BY <2>1 DEF GapPhases, Phase, Outside, Slot, GapTyped
  <2> QED BY <2>1, <2>2, <2>3, <2>4, <2>5, GapRenames
<1>2. CASE UndoRetire(p)
  <2>1. /\ Drop(p) /\ UNCHANGED <<dest, acked>> /\ pc[p] \notin Outside
        /\ \/ prev = Absent /\ prev' = retired /\ retired' = Absent
           \/ UNCHANGED <<prev, retired>>
    BY <1>2 DEF UndoRetire, Fail, Outside
  <2>2. SlotsHold'
    <3>1. CASE prev = Absent /\ prev' = retired /\ retired' = Absent
      <4>1. ~Held(prev) /\ (Sealed(dest) \/ acked = {} \/ Held(retired))
        BY <3>1, GapSealed DEF SlotsHold, Held
      <4>2. retired = PriorEpoch => ~Held(retired)
        BY GapSealed DEF Held
      <4> QED BY <2>1, <3>1, <4>1, <4>2, GapSealed
              DEF SlotsHold, Held, Sealed, SameTransaction
    <3>2. CASE UNCHANGED <<prev, retired>>
      BY <2>1, <3>2, SlotsStay DEF slots
    <3> QED BY <2>1, <3>1, <3>2
  <2>3. /\ GapLock' /\ PhasesHold'
        /\ pc' \in [Proc -> GapPhases] /\ req' \in [Proc -> Txn \cup {Load, Absent}]
        /\ loaded' \in [Proc -> Generation \cup {Absent}]
        /\ stage' \in [Proc -> Generation \cup {Absent}]
    BY <2>1, GapDrop
  <2> QED BY <2>1, <2>2, <2>3 DEF GapTyped, Slot
<1> QED BY <1>1, <1>2

\* The steps of a publication that leave the slots alone.
LEMMA GapGoesOn ==
    ASSUME GapInv, NEW p \in Proc, UNCHANGED backup,
           \/ ReplaceCurrentFails(p) \/ PromoteStagingFails(p)
           \/ EndCleanup(p) \/ SyncParent(p)
    PROVE  GapInv'
<1> USE DEF GapInv
<1>1. CASE ReplaceCurrentFails(p) \/ PromoteStagingFails(p) \/ EndCleanup(p)
  <2>1. PICK l \in {"undoRetire", "undoReplace", "sync"} :
          /\ Goto(p, l) /\ UNCHANGED <<slots, holder, req, loaded, stage, acked>>
          /\ pc[p] \in {"publish", "replace", "promote", "cleanup"}
          /\ l = "sync" => pc[p] = "cleanup"
    BY <1>1 DEF ReplaceCurrentFails, PromoteStagingFails, EndCleanup, Replacing, locals, outcomes
  <2>2. PhaseHolds(p) /\ pc[p] \notin Outside /\ pc'[p] = l
    BY <2>1 DEF PhasesHold, Outside, Goto, GapTyped
  <2>3. PhaseHolds(p)'
    BY <2>1, <2>2 DEF PhaseHolds, Promoting, Upgrading, slots, Held, Sealed, SameTransaction
  <2>4. /\ l \in GapPhases \ Outside
        /\ stage' \in [Proc -> Generation \cup {Absent}]
        /\ loaded' \in [Proc -> Generation \cup {Absent}]
    BY <2>1 DEF GapPhases, Phase, Outside, GapTyped
  <2> QED BY <2>1, <2>2, <2>3, <2>4, GapMoves
<1>2. CASE SyncParent(p)
  <2>1. PICK l \in {"open", "reopen"} :
          /\ Goto(p, l) /\ l = (IF stage[p] = <<>> THEN "open" ELSE "reopen")
          /\ pc[p] = "sync" /\ req[p] # Load
          /\ stage' = [stage EXCEPT ![p] = Absent]
          /\ UNCHANGED <<slots, holder, req, loaded, acked>>
    BY <1>2 DEF SyncParent, outcomes
  <2>2. PhaseHolds(p) /\ pc[p] \notin Outside /\ pc'[p] = l
    BY <2>1 DEF PhasesHold, Outside, Goto, GapTyped
  <2>3. dest = stage[p] /\ Sealed(stage[p])
        /\ (l = "reopen" => SameTransaction(stage[p], req[p]))
    BY <2>1, <2>2 DEF PhaseHolds, Promoting, Held
  <2>4. PhaseHolds(p)'
    BY <2>1, <2>2, <2>3 DEF PhaseHolds, Promoting, Upgrading, slots, Sealed, SameTransaction
  <2>5. /\ l \in GapPhases \ Outside
        /\ stage' \in [Proc -> Generation \cup {Absent}]
        /\ loaded' \in [Proc -> Generation \cup {Absent}]
    BY <2>1 DEF GapPhases, Phase, Outside, GapTyped
  <2> QED BY <2>1, <2>2, <2>4, <2>5, GapMoves
<1> QED BY <1>1, <1>2

LEMMA GapPublishes ==
    ASSUME GapInv, NEW p \in Proc, UNCHANGED backup, PublishStep(p)
    PROVE  GapInv'
<1>1. CASE \/ PromoteFreshFails(p) \/ RemoveRetiredFails(p) \/ RetirePreviousFails(p)
           \/ SyncParentFails(p)
  BY <1>1, GapFail DEF PromoteFreshFails, RemoveRetiredFails, RetirePreviousFails,
     SyncParentFails, Outside
<1> QED BY <1>1, GapPromotes, GapRemoves, GapRotates, GapUndoes, GapGoesOn DEF PublishStep

-----------------------------------------------------------------------------
(* Beside publications: stages, bracket commands and upgrades.             *)

\* A stage takes the place of an absent root, whoever is inside the lock.
LEMMA GapStages ==
    ASSUME GapInv, NEW p \in Proc, UNCHANGED backup, CreateStage(p)
    PROVE  GapInv'
<1> USE DEF GapInv
<1>1. /\ dest' = (IF dest = Absent THEN Torn ELSE dest)
      /\ UNCHANGED <<prev, retired, holder, pc, req, loaded, stage, acked>>
  BY DEF CreateStage, locals, outcomes
<1>2. SlotsHold'
  BY <1>1, GapSealed DEF SlotsHold, Held, Sealed, SameTransaction
<1>3. ASSUME NEW q \in Proc PROVE PhaseHolds(q)'
  <2>1. PhaseHolds(q)
    BY DEF PhasesHold
  <2>2. CASE dest = Absent
    <3>1. pc[q] \in {"cleanup", "sync"} => dest # Absent
      BY <2>1, GapSealed DEF PhaseHolds, Promoting, Held
    <3>2. ~Sealed(dest) /\ dest' = Torn /\ ~Sealed(dest')
      BY <1>1, <2>2, GapSealed
    <3> QED BY <1>1, <2>1, <2>2, <3>1, <3>2, GapSealed
            DEF PhaseHolds, Held, Sealed, SameTransaction
  <2>3. CASE dest # Absent
    BY <1>1, <2>1, <2>3 DEF PhaseHolds, Held, Sealed, SameTransaction
  <2> QED BY <2>2, <2>3
<1>4. GapTyped' /\ GapLock'
  BY <1>1 DEF GapTyped, GapLock, Slot
<1> QED BY <1>2, <1>3, <1>4 DEF PhasesHold

\* A process outside the lock goes somewhere else outside, and nobody is inside
\* when it changes a slot.
LEMMA GapBrackets ==
    ASSUME GapInv, NEW p \in Proc, UNCHANGED backup,
           SeesNoRoot(p) \/ CreateBundle(p)
    PROVE  GapInv'
<1> USE DEF GapInv
<1>1. PICK l \in {"idle", "createBracket"} :
        /\ Goto(p, l) /\ pc[p] \in {"idle", "createBracket"}
        /\ UNCHANGED <<prev, retired, holder, req, loaded, stage>>
  BY DEF SeesNoRoot, CreateBundle, slots, locals
<1>2. GapLock'
  BY <1>1 DEF Goto, GapLock, GapTyped, Outside
<1>3. \/ UNCHANGED <<dest, acked>>
      \/ /\ dest = Absent /\ dest' = <<>> /\ holder = NoProc
         /\ acked' = IF prev = Absent THEN acked ELSE {}
  BY DEF SeesNoRoot, CreateBundle, slots, outcomes
<1>4. SlotsHold'
  <2>1. CASE UNCHANGED <<dest, acked>>
    BY <1>1, <2>1, SlotsStay DEF slots
  <2>2. CASE /\ dest = Absent /\ dest' = <<>> /\ holder = NoProc
             /\ acked' = IF prev = Absent THEN acked ELSE {}
    <3>1. acked' = {}
      BY <2>2, GapSealed DEF SlotsHold
    <3>2. Sealed(dest')
      BY <2>2, GapSealed
    <3> QED BY <3>1, <3>2 DEF SlotsHold, Held, Sealed
  <2> QED BY <1>3, <2>1, <2>2
<1>5. ASSUME NEW q \in Proc PROVE PhaseHolds(q)'
  <2>1. PhaseHolds(q) /\ req'[q] = req[q]
    BY <1>1 DEF PhasesHold
  <2>2. CASE q = p
    <3>1. pc'[q] = l
      BY <1>1, <2>2 DEF Goto, GapTyped
    <3> QED BY <1>1, <3>1 DEF PhaseHolds, Promoting, Upgrading
  <2>3. CASE q # p /\ pc[q] \in Outside
    <3>1. pc'[q] = pc[q]
      BY <1>1, <2>3 DEF Goto, GapTyped
    <3> QED BY <2>1, <2>3, <3>1 DEF PhaseHolds, Outside, Promoting, Upgrading
  <2>4. CASE q # p /\ pc[q] \notin Outside
    <3>1. UNCHANGED <<dest, acked>>
      BY <1>3, <2>4, MarkersDistinct DEF GapLock
    <3>2. pc'[q] = pc[q] /\ UNCHANGED <<prev, retired, loaded, stage>>
      BY <1>1, <2>4 DEF Goto, GapTyped
    <3> QED BY <2>1, <3>1, <3>2 DEF PhaseHolds, Held, Sealed, SameTransaction
  <2> QED BY <2>2, <2>3, <2>4
<1>6. GapTyped'
  BY <1>1, <1>3, GapSealed DEF GapTyped, Goto, GapPhases, Phase, Slot
<1> QED BY <1>2, <1>4, <1>5, <1>6 DEF PhasesHold

LEMMA GapUpgrades ==
    ASSUME GapInv, NEW p \in Proc, Migrate(p)
    PROVE  GapInv'
<1> USE DEF GapInv
<1>0. pc[p] \in {"open", "sync"} \cup Upgrading /\ pc[p] \notin Outside /\ PhaseHolds(p)
  BY DEF Migrate, RestorePrior, ReadPrior, LoadsPrior, KeepBackup, RemoveForeignBackup,
     PublishBackup, BackupFails, StageMigrated, DiscardMigration, EndMigration,
     Outside, Upgrading, PhasesHold
<1>1. CASE RestorePrior(p)
  <2>1. /\ pc[p] = "open" /\ dest = Absent /\ prev = PriorEpoch
        /\ dest' = PriorEpoch /\ prev' = Absent
        /\ UNCHANGED <<retired, holder, pc, req, loaded, stage, acked>>
    BY <1>1 DEF RestorePrior, LoadsPrior, locals, outcomes
  <2>2. acked = {}
    BY <2>1, GapSealed DEF SlotsHold
  <2>3. SlotsHold'
    BY <2>1, <2>2, GapSealed DEF SlotsHold, Held, Sealed
  <2>4. pc' = [pc EXCEPT ![p] = "open"] /\ pc'[p] = "open"
    BY <2>1 DEF GapTyped
  <2>5. PhaseHolds(p)'
    BY <1>0, <2>1, <2>4 DEF PhaseHolds, Promoting, Upgrading
  <2>6. /\ "open" \in GapPhases \ Outside
        /\ dest' \in Slot /\ prev' \in Slot /\ retired' \in Slot
    BY <2>1 DEF GapPhases, Phase, Outside, Slot, GapTyped
  <2> QED BY <1>0, <2>1, <2>3, <2>4, <2>5, <2>6, GapRenames DEF Goto
<1>2. CASE ReadPrior(p) \/ KeepBackup(p) \/ RemoveForeignBackup(p) \/ PublishBackup(p)
  <2>1. PICK l \in Upgrading :
          /\ pc' = [pc EXCEPT ![p] = l]
          /\ UNCHANGED <<slots, holder, req, loaded, stage, acked>>
          /\ dest = PriorEpoch
          /\ l # "backup" => backup' = PriorEpoch
    <3>1. CASE ReadPrior(p)
      BY <3>1 DEF ReadPrior, Goto, Upgrading, locals, outcomes
    <3>2. CASE KeepBackup(p)
      BY <1>0, <3>2 DEF KeepBackup, Goto, Authentic, Upgrading, locals, outcomes, PhaseHolds
    <3>3. CASE RemoveForeignBackup(p)
      <4>1. pc' = [pc EXCEPT ![p] = "backup"] /\ UNCHANGED vars
        BY <3>3 DEF RemoveForeignBackup, vars, GapTyped
      <4> QED BY <1>0, <3>3, <4>1
              DEF RemoveForeignBackup, Upgrading, vars, locals, outcomes, PhaseHolds
    <3>4. CASE PublishBackup(p)
      BY <1>0, <3>4 DEF PublishBackup, Goto, Upgrading, locals, outcomes, PhaseHolds
    <3> QED BY <1>2, <3>1, <3>2, <3>3, <3>4
  <2>2. pc'[p] = l
    BY <2>1 DEF GapTyped
  <2>3. PhaseHolds(p)'
    BY <1>0, <2>1, <2>2 DEF PhaseHolds, Promoting, Upgrading, slots
  <2>4. /\ l \in GapPhases \ Outside
        /\ stage' \in [Proc -> Generation \cup {Absent}]
        /\ loaded' \in [Proc -> Generation \cup {Absent}]
    BY <2>1 DEF GapPhases, Upgrading, Outside, GapTyped
  <2> QED BY <1>0, <2>1, <2>3, <2>4, GapMoves DEF Goto
<1>3. CASE BackupFails(p) \/ DiscardMigration(p)
  BY <1>0, <1>3, GapFail DEF BackupFails, DiscardMigration
<1>4. CASE StageMigrated(p)
  <2>1. /\ pc[p] \in {"migrate", "migrateNew"} /\ Goto(p, "publish")
        /\ stage' = [stage EXCEPT ![p] = <<>>]
        /\ UNCHANGED <<slots, holder, req, loaded, acked, backup>>
    BY <1>4 DEF StageMigrated, outcomes
  <2>2. dest = PriorEpoch /\ backup = PriorEpoch
    BY <1>0, <2>1 DEF PhaseHolds, Upgrading
  <2>3. acked = {}
    BY <2>2, GapSealed DEF SlotsHold
  <2>4. pc'[p] = "publish" /\ stage'[p] = <<>> /\ Sealed(<<>>)
    BY <2>1, GapSealed DEF Goto, GapTyped
  <2>5. PhaseHolds(p)'
    BY <1>0, <2>1, <2>2, <2>3, <2>4 DEF PhaseHolds, Promoting, Upgrading, slots, Held, Sealed
  <2>6. /\ "publish" \in GapPhases \ Outside
        /\ stage' \in [Proc -> Generation \cup {Absent}]
        /\ loaded' \in [Proc -> Generation \cup {Absent}]
    BY <2>1, GapSealed DEF GapPhases, Phase, Outside, GapTyped
  <2> QED BY <1>0, <2>1, <2>5, <2>6, GapMoves
<1>5. CASE EndMigration(p)
  BY <1>0, <1>5, GapSucceed, GapFail DEF EndMigration
<1> QED BY <1>1, <1>2, <1>3, <1>4, <1>5 DEF Migrate

-----------------------------------------------------------------------------
(* The invariant, and what follows from it.                                *)

LEMMA MigrationInvariant == MigrationSpec => []GapInv
<1>1. MigrationInit => GapInv
  BY MarkersDistinct
     DEF MigrationInit, GapInv, GapTyped, GapLock, SlotsHold, PhasesHold, PhaseHolds, Slot,
         GapPhases, Phase, Outside, Promoting, Upgrading, Held, Sealed
<1>2. GapInv /\ [MigrationNext]_migrationVars => GapInv'
  <2> SUFFICES ASSUME GapInv, [MigrationNext]_migrationVars PROVE GapInv'
    OBVIOUS
  <2>1. CASE UNCHANGED migrationVars
    BY <2>1 DEF migrationVars, vars, slots, locals, outcomes, GapInv, GapTyped, GapLock,
       SlotsHold, PhasesHold, PhaseHolds, Held, Sealed, SameTransaction
  <2>2. CASE Next /\ UNCHANGED backup
    <3>1. PICK p \in Proc : Request(p) \/ Step(p) \/ Crash(p)
      BY <2>2 DEF Next
    <3> QED BY <2>2, <3>1, GapRequests, GapOpens, GapChecks, GapPublishes DEF Step
  <2>3. ASSUME NEW p \in Proc, UNCHANGED backup,
               CreateStage(p) \/ SeesNoRoot(p) \/ CreateBundle(p)
        PROVE  GapInv'
    BY <2>3, GapStages, GapBrackets
  <2>4. ASSUME NEW p \in Proc, Migrate(p) PROVE GapInv'
    BY <2>4, GapUpgrades
  <2> QED BY <2>1, <2>2, <2>3, <2>4 DEF MigrationNext, GapNext
<1> QED BY <1>1, <1>2, PTL DEF MigrationSpec

\* However stages, bracket commands, upgrades and deaths interleave with the
\* renames of a publication, a sealed copy of every acknowledged transaction
\* is in one of the three slots (publish_staged, remove_retired_generation).
THEOREM AcknowledgedStaysOnDisk == MigrationSpec => []AckedStillOnDisk
<1>1. GapInv => AckedStillOnDisk
  BY DEF GapInv, SlotsHold, Held, AckedStillOnDisk
<1> QED BY <1>1, MigrationInvariant, PTL

\* No command replaces a sealed root by the empty generation: whoever creates
\* it has found nothing at the root under the lock (Bundle::create,
\* create_staged), and a publication goes through an absent root.
THEOREM NobodyEmptiesTheRoot == MigrationSpec => RootNeverEmptied
<1>1. [MigrationNext]_migrationVars
        => [Sealed(dest) /\ dest' = <<>> => dest = <<>>]_vars
  <2> SUFFICES ASSUME [MigrationNext]_migrationVars, Sealed(dest), dest' = <<>>,
                      dest' # dest
               PROVE  FALSE
    BY DEF vars, slots
  <2>1. dest # Absent /\ dest' # Absent
    BY GapSealed
  <2> QED BY <2>1
     DEF MigrationNext, migrationVars, vars, slots, GapNext, Next, Request, Begin, Step,
         AcquireLock, Crash, Fail, Succeed,
         OpenStep, ReconcileRotation, LoadSelected, OpenForAppend, OpenNothing, OpenFails,
         ReopenPublished, CheckStep, AnswerBoundKey, RefuseStaleFence, RefuseTransaction,
         StageTransaction, StageEmpty, StageEmptyFails, PublishStep, PromoteFresh,
         PromoteFreshFails, TearRetired, RemoveRetired, RemoveRetiredFails, RetirePrevious,
         RetirePreviousFails, ReplaceCurrent, ReplaceCurrentFails, PromoteStaging,
         PromoteStagingFails, UndoReplace, UndoRetire, EndCleanup, SyncParent,
         SyncParentFails, CreateStage, SeesNoRoot, CreateBundle, Migrate, RestorePrior,
         ReadPrior, KeepBackup, RemoveForeignBackup, PublishBackup, BackupFails,
         StageMigrated, DiscardMigration, EndMigration
<1> QED BY <1>1, PTL DEF MigrationSpec, RootNeverEmptied

\* Which steps take the original from the root.
LEMMA OriginalLeaves ==
    ASSUME [MigrationNext]_migrationVars, dest = PriorEpoch, dest' # PriorEpoch
    PROVE  \E p \in Proc : ReplaceCurrent(p) /\ UNCHANGED backup
<1>1. dest # Absent /\ UNCHANGED slots => dest' = dest
  BY GapSealed DEF slots
<1> QED BY <1>1, GapSealed
   DEF MigrationNext, migrationVars, vars, slots, GapNext, Next, Request, Begin, Step,
       AcquireLock, Crash, Fail, Succeed,
       OpenStep, ReconcileRotation, LoadSelected, OpenForAppend, OpenNothing, OpenFails,
       ReopenPublished, CheckStep, AnswerBoundKey, RefuseStaleFence, RefuseTransaction,
       StageTransaction, StageEmpty, StageEmptyFails, PublishStep, PromoteFresh,
       PromoteFreshFails, TearRetired, RemoveRetired, RemoveRetiredFails, RetirePrevious,
       RetirePreviousFails, ReplaceCurrentFails, PromoteStaging,
       PromoteStagingFails, UndoReplace, UndoRetire, EndCleanup, SyncParent,
       SyncParentFails, CreateStage, SeesNoRoot, CreateBundle, Migrate, RestorePrior,
       ReadPrior, KeepBackup, RemoveForeignBackup, PublishBackup, BackupFails,
       StageMigrated, DiscardMigration, EndMigration

\* The original leaves the root only in a publication of a load that has its
\* backup, and a backup is discarded only by the attempt that published it,
\* before its publication (load_v0_with_migration, publish_sealed_backup).
THEOREM TheOriginalIsKept == MigrationSpec => OriginalKept
<1> DEFINE Kept == /\ dest = PriorEpoch /\ dest' # PriorEpoch => backup' = PriorEpoch
                   /\ backup = PriorEpoch /\ backup' # PriorEpoch => dest' = PriorEpoch
<1>1. GapInv /\ [MigrationNext]_migrationVars => [Kept]_migrationVars
  <2> SUFFICES ASSUME GapInv, [MigrationNext]_migrationVars PROVE Kept
    OBVIOUS
  <2>1. ASSUME dest = PriorEpoch, dest' # PriorEpoch PROVE backup' = PriorEpoch
    <3>1. PICK p \in Proc : ReplaceCurrent(p) /\ UNCHANGED backup
      BY <2>1, OriginalLeaves
    <3>2. pc[p] \in {"publish", "replace"}
      BY <3>1 DEF ReplaceCurrent, Replacing
    <3> QED BY <2>1, <3>1, <3>2 DEF GapInv, PhasesHold, PhaseHolds
  <2>2. ASSUME backup = PriorEpoch, backup' # PriorEpoch PROVE dest' = PriorEpoch
    <3>1. PICK p \in Proc : Migrate(p)
      BY <2>2 DEF MigrationNext, migrationVars
    <3>2. DiscardMigration(p)
      BY <2>2, <3>1, GapSealed
         DEF Migrate, RestorePrior, ReadPrior, KeepBackup, RemoveForeignBackup, PublishBackup,
             BackupFails, StageMigrated, EndMigration, Authentic
    <3>3. pc[p] \in {"migrate", "migrateNew"} /\ dest' = dest
      BY <3>2 DEF DiscardMigration, slots
    <3> QED BY <3>3 DEF GapInv, PhasesHold, PhaseHolds, Upgrading
  <2> QED BY <2>1, <2>2
<1> QED BY <1>1, MigrationInvariant, PTL DEF MigrationSpec, OriginalKept
=============================================================================
