-------------------------- MODULE HostCommitsProofs --------------------------
(***************************************************************************)
(* Proofs about the commands of several hosts on one bundle, for any       *)
(* number of hosts, drafts, dimensions and entries: history events         *)
(* displace what they were computed from, the BREP file is the one the log *)
(* authenticates, and a draft is applied once and answered for.            *)
(*                                                                         *)
(* What a host read stays true enough while others publish: a log only     *)
(* grows, so an ordinal that still fits means that no event came between,  *)
(* and a length that still fits means that nothing did.                    *)
(***************************************************************************)
EXTENDS HostCommits, SequenceTheorems, FiniteSetTheorems, TLAPS

Events ==
  [type : {"event"}, ordinal : Nat, active : Dims, kept : Dims \cup {None},
   position : Nat \cup {None}]
LogEntries == Events \cup Entries \cup {Feature}

-----------------------------------------------------------------------------
(* What an entry changes of what a log says.                               *)

LastIs(l, type, m) == m \in Positions(l, type) /\ \A x \in Positions(l, type) : x <= m

LEMMA MaxIsLast ==
    ASSUME NEW l \in Seq(LogEntries), NEW type, NEW m, LastIs(l, type, m)
    PROVE  Max(Positions(l, type)) = m
<1>1. Positions(l, type) \subseteq Nat
  BY LenProperties DEF Positions
<1>2. \A x \in Positions(l, type) :
        (\A y \in Positions(l, type) : x >= y) => x = m
  BY <1>1 DEF LastIs
<1> QED BY <1>1, <1>2 DEF Max, LastIs

LEMMA Appended ==
    ASSUME NEW l \in Seq(LogEntries), NEW e \in LogEntries, NEW type
    PROVE  /\ Append(l, e) \in Seq(LogEntries) /\ Len(l) \in Nat
           /\ Len(Append(l, e)) = Len(l) + 1 /\ Append(l, e)[Len(l) + 1] = e
           /\ DOMAIN l = 1 .. Len(l) /\ DOMAIN Append(l, e) = 1 .. (Len(l) + 1)
           /\ \A i \in DOMAIN l : Append(l, e)[i] = l[i]
           /\ Positions(Append(l, e), type) =
                Positions(l, type) \cup (IF e.type = type THEN {Len(l) + 1} ELSE {})
<1>1. /\ Append(l, e) \in Seq(LogEntries)
      /\ Len(Append(l, e)) = Len(l) + 1 /\ Append(l, e)[Len(l) + 1] = e
      /\ \A i \in 1 .. Len(l) : Append(l, e)[i] = l[i]
  BY AppendProperties
<1>2. /\ Len(l) \in Nat /\ DOMAIN l = 1 .. Len(l)
      /\ DOMAIN Append(l, e) = 1 .. Len(Append(l, e))
  BY <1>1, LenProperties
<1> QED BY <1>1, <1>2 DEF Positions

LEMMA AppendMovesLast ==
    ASSUME NEW l \in Seq(LogEntries), NEW e \in LogEntries, NEW type, NEW m,
           LastIs(l, type, m)
    PROVE  LastIs(Append(l, e), type, IF e.type = type THEN Len(l) + 1 ELSE m)
<1>1. Positions(l, type) \subseteq 1 .. Len(l) /\ Len(l) \in Nat
  BY LenProperties DEF Positions
<1> QED BY <1>1, Appended DEF LastIs

LEMMA AppendSetsActive ==
    ASSUME NEW l \in Seq(LogEntries), NEW e \in LogEntries, NEW m, LastIs(l, "event", m)
    PROVE  Active(Append(l, e)) = IF e.type = "event" THEN e.active ELSE Active(l)
<1>1. m \in DOMAIN l
  BY DEF LastIs, Positions
<1>2. Max(Positions(l, "event")) = m
  BY MaxIsLast
<1>3. Append(l, e) \in Seq(LogEntries)
  BY Appended
<1>4. Max(Positions(Append(l, e), "event")) = IF e.type = "event" THEN Len(l) + 1 ELSE m
  BY <1>3, AppendMovesLast, MaxIsLast
<1> QED BY <1>1, <1>2, <1>4, Appended DEF Active

LEMMA AppendSetsGraph ==
    ASSUME NEW l \in Seq(LogEntries), NEW e \in LogEntries, NEW m, LastIs(l, "bracket", m)
    PROVE  GraphDims(Append(l, e)) = IF e.type = "bracket" THEN e.dims ELSE GraphDims(l)
<1>1. m \in DOMAIN l
  BY DEF LastIs, Positions
<1>2. Max(Positions(l, "bracket")) = m
  BY MaxIsLast
<1>3. Append(l, e) \in Seq(LogEntries)
  BY Appended
<1>4. Max(Positions(Append(l, e), "bracket")) = IF e.type = "bracket" THEN Len(l) + 1 ELSE m
  BY <1>3, AppendMovesLast, MaxIsLast
<1> QED BY <1>1, <1>2, <1>4, Appended DEF GraphDims

LEMMA PositionsAreFinite ==
    ASSUME NEW l \in Seq(LogEntries), NEW type
    PROVE  IsFiniteSet(Positions(l, type)) /\ Ordinal(l) \in Nat
<1>1. Positions(l, type) \in SUBSET (1 .. Len(l)) /\ Positions(l, "event") \in SUBSET (1 .. Len(l))
      /\ Len(l) \in Nat
  BY LenProperties DEF Positions
<1>2. IsFiniteSet(1 .. Len(l))
  BY <1>1, FS_Interval
<1>3. IsFiniteSet(Positions(l, type)) /\ IsFiniteSet(Positions(l, "event"))
  BY <1>1, <1>2, FS_Subset
<1> QED BY <1>3, FS_CardinalityType DEF Ordinal

LEMMA AppendCounts ==
    ASSUME NEW l \in Seq(LogEntries), NEW e \in LogEntries
    PROVE  Ordinal(Append(l, e)) = IF e.type = "event" THEN Ordinal(l) + 1 ELSE Ordinal(l)
<1>1. Len(l) \in Nat /\ Positions(l, "event") \subseteq 1 .. Len(l)
  BY LenProperties DEF Positions
<1>2. IsFiniteSet(Positions(l, "event"))
  BY PositionsAreFinite
<1>3. Len(l) + 1 \notin Positions(l, "event")
  BY <1>1
<1>4. Cardinality(Positions(l, "event") \cup {Len(l) + 1}) = Cardinality(Positions(l, "event")) + 1
  BY <1>2, <1>3, FS_AddElement
<1>5. Positions(Append(l, e), "event") =
        Positions(l, "event") \cup (IF e.type = "event" THEN {Len(l) + 1} ELSE {})
  BY Appended
<1> QED BY <1>4, <1>5 DEF Ordinal

LEMMA AppendShowsBracket ==
    ASSUME NEW l \in Seq(LogEntries), NEW e \in LogEntries
    PROVE  Brackets(Append(l, e)) =
             Brackets(l) \cup (IF e.type = "bracket" THEN {e} ELSE {})
<1>1. \A i \in Positions(l, "bracket") : i \in DOMAIN l
  BY DEF Positions
<1> QED BY <1>1, Appended DEF Brackets

\* A prefix has fewer events, or ends at the same active snapshot.
LEMMA PrefixCounts ==
    ASSUME NEW l \in Seq(LogEntries), NEW n \in 1 .. Len(l), NEW m, LastIs(l, "event", m)
    PROVE  /\ Ordinal(SubSeq(l, 1, n)) <= Ordinal(l)
           /\ Ordinal(SubSeq(l, 1, n)) = Ordinal(l) => Active(SubSeq(l, 1, n)) = Active(l)
<1> DEFINE p == SubSeq(l, 1, n)
<1>1. /\ p \in Seq(LogEntries) /\ Len(p) = n /\ Len(l) \in Nat /\ DOMAIN l = 1 .. Len(l)
      /\ DOMAIN p = 1 .. n /\ \A i \in 1 .. n : p[i] = l[i]
  BY SubSeqProperties, LenProperties
<1> HIDE DEF p
<1>2. Positions(p, "event") \in SUBSET Positions(l, "event")
  BY <1>1 DEF Positions
<1>3. IsFiniteSet(Positions(l, "event"))
  BY PositionsAreFinite
<1>4. /\ Ordinal(p) <= Ordinal(l)
      /\ Ordinal(p) = Ordinal(l) => Positions(p, "event") = Positions(l, "event")
  BY <1>2, <1>3, FS_Subset DEF Ordinal
<1>5. ASSUME Positions(p, "event") = Positions(l, "event") PROVE Active(p) = Active(l)
  <2>1. Max(Positions(l, "event")) = m /\ m \in Positions(p, "event")
    BY <1>5, MaxIsLast DEF LastIs
  <2>2. p[m] = l[m]
    BY <1>1, <2>1 DEF Positions
  <2> QED BY <1>5, <2>1, <2>2 DEF Active
<1> QED BY <1>4, <1>5 DEF p

-----------------------------------------------------------------------------
(* The log by itself.                                                      *)

EventsFollow(l) ==
  \A i \in Positions(l, "event") \ {1} :
    /\ l[i].kept = Active(SubSeq(l, 1, i - 1))
    /\ l[i].ordinal = Ordinal(SubSeq(l, 1, i))

DraftOnce(l) ==
  \A i, j \in Positions(l, "bracket") :
    l[i].payload.draft # None /\ l[i].payload.draft = l[j].payload.draft => i = j

LogOK(l) ==
  /\ l \in Seq(LogEntries) /\ Len(l) >= 2 /\ 1 \in Positions(l, "event")
  /\ \A n \in 1 .. Len(l) : \E m : LastIs(SubSeq(l, 1, n), "event", m)
  /\ \E m : LastIs(l, "event", m)
  /\ \E m : LastIs(l, "bracket", m)
  /\ EventsFollow(l)
  /\ DraftOnce(l)

\* What an entry must say to be appended.
Fits(l, e) ==
  /\ e.type = "event" => e.kept = Active(l) /\ e.ordinal = Ordinal(l) + 1
  /\ e.type = "bracket" => e.payload.draft = None \/ ~ Reconcilable(l, e.payload.draft)

LEMMA EntryKinds ==
    /\ \A e \in LogEntries : e.type = "event" => e \in Events
    /\ \A e \in LogEntries : e.type = "bracket" => e \in Entries
    /\ \A e \in Events : e.type = "event"
    /\ \A e \in Entries : e.type = "bracket"
    /\ Feature.type = "feature" /\ Feature \in LogEntries
BY DEF LogEntries, Events, Entries, Feature

LEMMA PrefixOfAppend ==
    ASSUME NEW l \in Seq(LogEntries), NEW e \in LogEntries
    PROVE  /\ \A n \in 1 .. Len(l) : SubSeq(Append(l, e), 1, n) = SubSeq(l, 1, n)
           /\ SubSeq(Append(l, e), 1, Len(l) + 1) = Append(l, e)
<1> DEFINE k == Append(l, e)
<1>1. /\ k \in Seq(LogEntries) /\ Len(l) \in Nat /\ Len(k) = Len(l) + 1
      /\ \A i \in 1 .. Len(l) : k[i] = l[i] /\ l[i] \in LogEntries
  BY Appended, LenProperties
<1> HIDE DEF k
<1>2. ASSUME NEW n \in 1 .. Len(l) PROVE SubSeq(k, 1, n) = SubSeq(l, 1, n)
  <2>1. \A i \in 1 .. n : l[i] \in LogEntries /\ k[i] \in LogEntries /\ k[i] = l[i]
    BY <1>1
  <2>2. n \in Int /\ 1 \in Int /\ 1 <= n /\ n - 1 + 1 = n
    BY <1>1
  <2>3. /\ SubSeq(l, 1, n) \in Seq(LogEntries) /\ Len(SubSeq(l, 1, n)) = n
        /\ \A i \in 1 .. n : SubSeq(l, 1, n)[i] = l[i]
    BY <2>1, <2>2, SubSeqProperties
  <2>4. /\ SubSeq(k, 1, n) \in Seq(LogEntries) /\ Len(SubSeq(k, 1, n)) = n
        /\ \A i \in 1 .. n : SubSeq(k, 1, n)[i] = k[i]
    BY <2>1, <2>2, SubSeqProperties
  <2> QED BY <2>1, <2>3, <2>4, SeqEqual
<1> QED BY <1>1, <1>2, SubSeqFull DEF k

\* A log of which every entry fitted when it was appended is in order.
LEMMA AppendKeepsLog ==
    ASSUME NEW l, LogOK(l), NEW e \in LogEntries, Fits(l, e)
    PROVE  LogOK(Append(l, e))
<1> DEFINE k == Append(l, e)
<1>1. /\ l \in Seq(LogEntries) /\ Len(l) >= 2 /\ Len(l) \in Nat
      /\ k \in Seq(LogEntries) /\ Len(k) = Len(l) + 1 /\ k[Len(l) + 1] = e
      /\ DOMAIN l = 1 .. Len(l) /\ DOMAIN k = 1 .. (Len(l) + 1)
      /\ \A i \in DOMAIN l : k[i] = l[i]
  BY Appended DEF LogOK
<1>2. \A type : Positions(k, type) =
        Positions(l, type) \cup (IF e.type = type THEN {Len(l) + 1} ELSE {})
  BY <1>1, Appended
<1>3. /\ \A n \in 1 .. Len(l) : SubSeq(k, 1, n) = SubSeq(l, 1, n)
      /\ SubSeq(k, 1, Len(l) + 1) = k
  BY <1>1, PrefixOfAppend
<1>4. PICK v : LastIs(l, "event", v)
  BY DEF LogOK
<1>5. PICK b : LastIs(l, "bracket", b)
  BY DEF LogOK
<1>6. (\E m : LastIs(k, "event", m)) /\ (\E m : LastIs(k, "bracket", m))
  BY <1>1, <1>4, <1>5, AppendMovesLast
<1>7. Ordinal(k) = IF e.type = "event" THEN Ordinal(l) + 1 ELSE Ordinal(l)
  BY <1>1, AppendCounts
<1> HIDE DEF k
<1>8. 1 \in Positions(k, "event")
  BY <1>2 DEF LogOK
<1>9. \A n \in 1 .. Len(k) : \E m : LastIs(SubSeq(k, 1, n), "event", m)
  <2> TAKE n \in 1 .. Len(k)
  <2>1. CASE n \in 1 .. Len(l)
    BY <2>1, <1>3 DEF LogOK
  <2>2. CASE n = Len(l) + 1
    BY <2>2, <1>3, <1>6
  <2> QED BY <2>1, <2>2, <1>1
<1>10. EventsFollow(k)
  <2> SUFFICES ASSUME NEW i \in Positions(k, "event") \ {1}
               PROVE  /\ k[i].kept = Active(SubSeq(k, 1, i - 1))
                      /\ k[i].ordinal = Ordinal(SubSeq(k, 1, i))
    BY DEF EventsFollow
  <2>1. CASE i \in Positions(l, "event") \ {1}
    <3>1. i \in 1 .. Len(l) /\ i - 1 \in 1 .. Len(l) /\ k[i] = l[i]
      BY <1>1, <2>1 DEF Positions
    <3>2. SubSeq(k, 1, i) = SubSeq(l, 1, i) /\ SubSeq(k, 1, i - 1) = SubSeq(l, 1, i - 1)
      BY <1>3, <3>1
    <3> QED BY <2>1, <3>1, <3>2 DEF LogOK, EventsFollow
  <2>2. CASE i = Len(l) + 1 /\ e.type = "event"
    <3>1. SubSeq(k, 1, i) = k /\ k[i] = e
      BY <1>1, <1>3, <2>2
    <3>2. Len(l) \in 1 .. Len(l) /\ i - 1 = Len(l)
      BY <1>1, <2>2
    <3>3. SubSeq(k, 1, i - 1) = l
      BY <1>1, <1>3, <3>2, SubSeqFull
    <3> QED BY <2>2, <3>1, <3>3, <1>7 DEF Fits
  <2> QED BY <1>2, <2>1, <2>2
<1>11. DraftOnce(k)
  <2> SUFFICES ASSUME NEW i \in Positions(k, "bracket"), NEW j \in Positions(k, "bracket"),
                      k[i].payload.draft # None, k[i].payload.draft = k[j].payload.draft
               PROVE  i = j
    BY DEF DraftOnce
  <2>1. \A x \in Positions(l, "bracket") : k[x] = l[x] /\ l[x] \in Brackets(l)
    BY <1>1 DEF Positions, Brackets
  <2>2. CASE i \in Positions(l, "bracket") /\ j \in Positions(l, "bracket")
    BY <2>1, <2>2 DEF LogOK, DraftOnce
  <2>3. CASE e.type = "bracket" /\ i = Len(l) + 1 /\ j \in Positions(l, "bracket")
    BY <2>1, <2>3, <1>1 DEF Fits, Reconcilable
  <2>4. CASE e.type = "bracket" /\ j = Len(l) + 1 /\ i \in Positions(l, "bracket")
    BY <2>1, <2>4, <1>1 DEF Fits, Reconcilable
  <2> QED BY <1>2, <2>2, <2>3, <2>4
<1> QED BY <1>1, <1>6, <1>8, <1>9, <1>10, <1>11 DEF LogOK, k

\* What the readers of a log in order may rely on.
LEMMA ReadingALog ==
    ASSUME NEW l, LogOK(l)
    PROVE  /\ l \in Seq(LogEntries) /\ Len(l) \in Nat /\ Len(l) >= 2 /\ DOMAIN l = 1 .. Len(l)
           /\ Ordinal(l) \in Nat /\ Active(l) \in Dims /\ GraphDims(l) \in Dims
           /\ \A n \in 1 .. Len(l) :
                /\ Ordinal(SubSeq(l, 1, n)) \in Nat /\ Active(SubSeq(l, 1, n)) \in Dims
                /\ Ordinal(SubSeq(l, 1, n)) <= Ordinal(l)
                /\ Ordinal(SubSeq(l, 1, n)) = Ordinal(l) => Active(SubSeq(l, 1, n)) = Active(l)
<1>1. /\ l \in Seq(LogEntries) /\ Len(l) \in Nat /\ Len(l) >= 2 /\ DOMAIN l = 1 .. Len(l)
      /\ \A i \in 1 .. Len(l) : l[i] \in LogEntries
  BY LenProperties DEF LogOK
<1>2. ASSUME NEW s \in Seq(LogEntries), NEW m, LastIs(s, "event", m) PROVE Active(s) \in Dims
  <2>1. Max(Positions(s, "event")) = m /\ m \in Positions(s, "event")
    BY <1>2, MaxIsLast DEF LastIs
  <2>2. s[m] \in LogEntries /\ s[m].type = "event"
    BY <2>1, LenProperties DEF Positions
  <2>3. s[m] \in Events
    BY <2>2, EntryKinds
  <2> QED BY <2>1, <2>3 DEF Active, Events
<1>3. Active(l) \in Dims
  BY <1>1, <1>2 DEF LogOK
<1>4. GraphDims(l) \in Dims
  <2>1. PICK m : LastIs(l, "bracket", m)
    BY DEF LogOK
  <2>2. Max(Positions(l, "bracket")) = m /\ m \in Positions(l, "bracket")
    BY <1>1, <2>1, MaxIsLast DEF LastIs
  <2>3. l[m] \in LogEntries /\ l[m].type = "bracket"
    BY <1>1, <2>2 DEF Positions
  <2>4. l[m] \in Entries
    BY <2>3, EntryKinds
  <2> QED BY <2>2, <2>4 DEF GraphDims, Entries
<1>5. ASSUME NEW n \in 1 .. Len(l)
      PROVE  /\ Ordinal(SubSeq(l, 1, n)) \in Nat /\ Active(SubSeq(l, 1, n)) \in Dims
             /\ Ordinal(SubSeq(l, 1, n)) <= Ordinal(l)
             /\ Ordinal(SubSeq(l, 1, n)) = Ordinal(l) => Active(SubSeq(l, 1, n)) = Active(l)
  <2>1. n \in Int /\ 1 \in Int /\ \A i \in 1 .. n : l[i] \in LogEntries
    BY <1>1
  <2>2. SubSeq(l, 1, n) \in Seq(LogEntries)
    BY <2>1, SubSeqProperties
  <2>3. PICK m : LastIs(SubSeq(l, 1, n), "event", m)
    BY DEF LogOK
  <2>4. PICK p : LastIs(l, "event", p)
    BY DEF LogOK
  <2> QED BY <1>1, <1>2, <2>2, <2>3, <2>4, PositionsAreFinite, PrefixCounts
<1>6. Ordinal(l) \in Nat
  BY <1>1, PositionsAreFinite
<1> QED BY <1>1, <1>3, <1>4, <1>5, <1>6

-----------------------------------------------------------------------------
(* What a host has read, and the invariant.                                *)

DraftTypes == [dims : Dims, source : Nat, brep : Dims]

IdleCalls == [at : {"idle"}]
BindCalls == [at : {"bind"}, id : DraftIds, dims : Dims, seen : Nat]
CommitCalls ==
  [at : {"match", "load", "validate"}, id : DraftIds, draft : DraftTypes, seen : Nat]
PromoteCalls == [at : {"promote"}, id : DraftIds, draft : DraftTypes, event : Events]
FailedCalls ==
  [at : {"reconcile", "classify"}, id : DraftIds, draft : DraftTypes,
   error : {"io", "key", "invalid"}]
HistoryCalls == [at : {"history"}, operation : Operations, event : Events]
PublishCalls == [at : {"publish"}, event : Events, payload : Payloads, key : Keys]
ReplayCalls == [at : {"replay"}, seen : Nat, dims : Dims]
DraftCalls == CommitCalls \cup PromoteCalls \cup FailedCalls
CallTypes ==
  IdleCalls \cup BindCalls \cup DraftCalls \cup HistoryCalls \cup PublishCalls \cup ReplayCalls

Typed ==
  /\ brep \in Dims \cup {None}
  /\ drafts \in [Host -> [DraftIds -> DraftTypes \cup {None}]]
  /\ call \in [Host -> CallTypes]

\* An event that a host computed: while its ordinal is the next one, no event
\* has come between.
Timely(l, e) ==
  /\ e.ordinal <= Ordinal(l) + 1
  /\ e.ordinal = Ordinal(l) + 1 => e.kept = Active(l)

NotPublishedBy(l, h, id) == ~ \E e \in Brackets(l) : e.by = h /\ e.payload.draft = id

CallOK(l, h, c) ==
  /\ c.at = "bind" => c.seen \in 1 .. Len(l)
  /\ c \in DraftCalls => c.draft.source \in 1 .. Len(l)
  /\ c \in CommitCalls => c.seen \in 1 .. Len(l)
  /\ c \in DraftCalls /\ c.at # "match" => NotPublishedBy(l, h, c.id)
  /\ c.at \in {"load", "validate", "promote"} =>
       (Reconcilable(l, c.id) => Len(l) > c.draft.source)
  /\ c.at \in {"promote", "history", "publish"} => Timely(l, c.event)
  /\ c.at = "publish" => c.payload.draft = None

DraftsOK(l, ds) ==
  \A h \in Host, id \in DraftIds : ds[h][id] # None => ds[h][id].source \in 1 .. Len(l)

HostInv ==
  /\ Typed
  /\ LogOK(log)
  /\ BrepIsOfTheRevision
  /\ DraftsOK(log, drafts)
  /\ \A h \in Host : CallOK(log, h, call[h])
  /\ AnswersAreTrue

LEMMA CallKinds ==
    ASSUME NEW c \in CallTypes
    PROVE  /\ c.at = "bind" => c \in BindCalls
           /\ c.at \in {"match", "load", "validate"} <=> c \in CommitCalls
           /\ c.at = "promote" <=> c \in PromoteCalls
           /\ c.at \in {"reconcile", "classify"} <=> c \in FailedCalls
           /\ c.at = "history" => c \in HistoryCalls
           /\ c.at = "publish" => c \in PublishCalls
           /\ c.at = "replay" => c \in ReplayCalls
BY DEF CallTypes, IdleCalls, BindCalls, DraftCalls, CommitCalls, PromoteCalls, FailedCalls,
       HistoryCalls, PublishCalls, ReplayCalls

LEMMA CallParts ==
    /\ \A c \in DraftCalls : c.id \in DraftIds /\ c.draft \in DraftTypes
    /\ \A c \in BindCalls : c.id \in DraftIds /\ c.dims \in Dims /\ c.seen \in Nat
    /\ \A c \in CommitCalls : c.seen \in Nat
    /\ \A c \in PromoteCalls \cup HistoryCalls \cup PublishCalls : c.event \in Events
    /\ \A d \in DraftTypes : d.dims \in Dims /\ d.source \in Nat /\ d.brep \in Dims
    /\ \A e \in Events : e.ordinal \in Nat /\ e.active \in Dims
BY DEF BindCalls, DraftCalls, CommitCalls, PromoteCalls, FailedCalls, HistoryCalls, PublishCalls,
       DraftTypes, Events

\* Whatever is published by others, what a host holds stays right for its use.
LEMMA CallSurvives ==
    ASSUME NEW l, LogOK(l), NEW e \in LogEntries, NEW h \in Host, NEW c \in CallTypes,
           CallOK(l, h, c), e.type = "bracket" => e.by # h \/ e.payload.draft = None
    PROVE  CallOK(Append(l, e), h, c)
<1> DEFINE k == Append(l, e)
<1>1. l \in Seq(LogEntries) /\ Len(l) \in Nat /\ Ordinal(l) \in Nat
  BY ReadingALog
<1>2. Len(k) = Len(l) + 1
  BY <1>1, Appended
<1>3. Brackets(k) = Brackets(l) \cup (IF e.type = "bracket" THEN {e} ELSE {})
  BY <1>1, AppendShowsBracket
<1>4. Ordinal(k) = IF e.type = "event" THEN Ordinal(l) + 1 ELSE Ordinal(l)
  BY <1>1, AppendCounts
<1>5. Active(k) = IF e.type = "event" THEN e.active ELSE Active(l)
  <2>1. PICK m : LastIs(l, "event", m)
    BY DEF LogOK
  <2> QED BY <1>1, <2>1, AppendSetsActive
<1> HIDE DEF k
<1>6. c.at = "bind" => c.seen \in 1 .. Len(k)
  BY <1>1, <1>2 DEF CallOK
<1>7. c \in DraftCalls => c.draft.source \in 1 .. Len(k) /\ Len(k) > c.draft.source
  BY <1>1, <1>2, CallParts DEF CallOK
<1>8. c \in CommitCalls => c.seen \in 1 .. Len(k)
  BY <1>1, <1>2 DEF CallOK
<1>9. c \in DraftCalls /\ c.at # "match" => NotPublishedBy(k, h, c.id)
  <2> SUFFICES ASSUME c \in DraftCalls, c.at # "match" PROVE NotPublishedBy(k, h, c.id)
    OBVIOUS
  <2>1. NotPublishedBy(l, h, c.id)
    BY DEF CallOK
  <2>2. c.id # None
    BY CallParts, HostAssumption
  <2> QED BY <1>3, <2>1, <2>2 DEF NotPublishedBy
<1>10. c.at \in {"load", "validate", "promote"} =>
         (Reconcilable(k, c.id) => Len(k) > c.draft.source)
  BY <1>7, CallKinds DEF DraftCalls
<1>11. c.at \in {"promote", "history", "publish"} => Timely(k, c.event)
  <2> SUFFICES ASSUME c.at \in {"promote", "history", "publish"} PROVE Timely(k, c.event)
    OBVIOUS
  <2>1. c.event.ordinal \in Nat
    BY CallKinds, CallParts
  <2>2. Timely(l, c.event)
    BY DEF CallOK
  <2> QED BY <1>1, <1>4, <1>5, <2>1, <2>2 DEF Timely
<1> QED BY <1>6, <1>7, <1>8, <1>9, <1>10, <1>11 DEF CallOK, k

LEMMA DraftsSurvive ==
    ASSUME NEW l, LogOK(l), NEW e \in LogEntries, NEW ds, DraftsOK(l, ds)
    PROVE  DraftsOK(Append(l, e), ds)
<1>1. l \in Seq(LogEntries) /\ Len(l) \in Nat
  BY ReadingALog
<1>2. Len(Append(l, e)) = Len(l) + 1
  BY <1>1, Appended
<1> QED BY <1>1, <1>2 DEF DraftsOK

\* An entry that says what is published.
LEMMA PayloadTypes ==
    ASSUME NEW id \in DraftIds \cup {None}, NEW dims \in Dims, NEW source \in Nat,
           NEW b \in Dims \cup {None}
    PROVE  Payload(id, [dims |-> dims, source |-> source, brep |-> b]) =
             [draft |-> id, dims |-> dims, source |-> source, brep |-> b]
           /\ Payload(id, [dims |-> dims, source |-> source, brep |-> b]) \in Payloads
BY DEF Payload, Payloads

LEMMA DraftPayloads ==
    ASSUME NEW id \in DraftIds, NEW d \in DraftTypes
    PROVE  /\ Payload(id, d) \in Payloads /\ Payload(id, d).draft = id
           /\ Payload(id, d).source = d.source /\ Payload(id, d).brep = d.brep
           /\ DraftKey(d.dims) \in Keys
BY DEF Payload, Payloads, DraftTypes, DraftKey, Keys

LEMMA TwoAppends ==
    ASSUME NEW l \in Seq(LogEntries), NEW a \in LogEntries, NEW b \in LogEntries
    PROVE  l \o <<a>> = Append(l, a) /\ l \o <<a, b>> = Append(Append(l, a), b)
<1> DEFINE s == <<a, b>>
           k == Append(l, a)
           n == Append(k, b)
<1>1. /\ s \in Seq(LogEntries) /\ Len(s) = 2 /\ s[1] = a /\ s[2] = b
  OBVIOUS
<1>2. /\ k \in Seq(LogEntries) /\ Len(l) \in Nat /\ Len(k) = Len(l) + 1 /\ k[Len(l) + 1] = a
      /\ \A i \in 1 .. Len(l) : k[i] = l[i]
  BY Appended
<1> HIDE DEF k, s
<1>3. /\ n \in Seq(LogEntries) /\ Len(n) = Len(k) + 1 /\ n[Len(k) + 1] = b
      /\ \A i \in 1 .. Len(k) : n[i] = k[i]
  BY <1>2, Appended
<1> DEFINE t == l \o s
<1>4. /\ t \in Seq(LogEntries) /\ Len(t) = Len(l) + 2
      /\ \A i \in 1 .. (Len(l) + 2) : t[i] = IF i <= Len(l) THEN l[i] ELSE s[i - Len(l)]
  <2>1. /\ t \in Seq(LogEntries) /\ Len(t) = Len(l) + Len(s)
        /\ \A i \in 1 .. (Len(l) + Len(s)) : t[i] = IF i <= Len(l) THEN l[i] ELSE s[i - Len(l)]
    BY <1>1, ConcatProperties
  <2> QED BY <1>1, <2>1
<1> HIDE DEF n, t
<1>5. ASSUME NEW i \in 1 .. (Len(l) + 2) PROVE t[i] = n[i]
  <2>1. CASE i \in 1 .. Len(l)
    <3>1. i <= Len(l) /\ i \in 1 .. Len(k) /\ k[i] = l[i]
      BY <1>2, <2>1
    <3>2. t[i] = l[i]
      BY <1>4, <3>1
    <3> QED BY <1>3, <3>1, <3>2
  <2>2. CASE i = Len(l) + 1
    <3>1. ~ (i <= Len(l)) /\ i - Len(l) = 1 /\ i \in 1 .. Len(k) /\ k[i] = a
      BY <1>2, <2>2
    <3>2. t[i] = a
      BY <1>1, <1>4, <3>1
    <3> QED BY <1>3, <3>1, <3>2
  <2>3. CASE i = Len(l) + 2
    <3>1. ~ (i <= Len(l)) /\ i - Len(l) = 2 /\ i = Len(k) + 1
      BY <1>2, <2>3
    <3>2. t[i] = b
      BY <1>1, <1>4, <3>1
    <3> QED BY <1>3, <3>1, <3>2
  <2>4. i \in 1 .. Len(l) \/ i = Len(l) + 1 \/ i = Len(l) + 2
    BY <1>2
  <2> QED BY <2>1, <2>2, <2>3, <2>4
<1>6. t = n
  <2>1. Len(n) = Len(l) + 2
    BY <1>2, <1>3
  <2> QED BY <1>3, <1>4, <1>5, <2>1, SeqEqual
<1> QED BY <1>6, AppendIsConcat DEF n, k, s, t

-----------------------------------------------------------------------------
(* Steps that publish.                                                     *)

\* What is published fits the log that it is appended to.
LEMMA PublishKeepsLog ==
    ASSUME HostInv, NEW h \in Host, NEW event \in Events, NEW entry \in Entries \cup {None},
           event.kept = Active(log), event.ordinal = Ordinal(log) + 1,
           entry # None => /\ entry.by = h
                           /\ \/ entry.payload.draft = None
                              \/ ~ Reconcilable(log, entry.payload.draft),
           Publish(event, entry)
    PROVE  /\ LogOK(log') /\ BrepIsOfTheRevision' /\ brep' \in Dims \cup {None}
           /\ DraftsOK(log', drafts)
           /\ \A g \in Host : g # h => CallOK(log', g, call[g])
           /\ entry # None => entry.dims = GraphDims(log) \/ entry \in Brackets(log')
<1> DEFINE k == Append(log, event)
           n == Append(k, entry)
<1>1. /\ LogOK(log) /\ log \in Seq(LogEntries) /\ DraftsOK(log, drafts)
      /\ \A g \in Host : call[g] \in CallTypes /\ CallOK(log, g, call[g])
  BY ReadingALog DEF HostInv, Typed
<1>2. event \in LogEntries /\ event.type = "event"
  BY EntryKinds DEF LogEntries
<1>3. LogOK(k)
  BY <1>1, <1>2, AppendKeepsLog DEF Fits
<1>4. DraftsOK(k, drafts) /\ \A g \in Host : CallOK(k, g, call[g])
  BY <1>1, <1>2, DraftsSurvive, CallSurvives
<1>5. Brackets(k) = Brackets(log) /\ GraphDims(k) = GraphDims(log)
  <2>1. PICK b : LastIs(log, "bracket", b)
    BY <1>1 DEF LogOK
  <2> QED BY <1>1, <1>2, <2>1, AppendShowsBracket, AppendSetsGraph
<1>6. k = log \o <<event>>
  BY <1>1, <1>2, TwoAppends
<1> HIDE DEF k
<1>7. CASE entry = None
  <2>1. log' = k /\ brep' = brep
    BY <1>6, <1>7 DEF Publish, Transaction
  <2> QED BY <1>3, <1>4, <1>5, <1>7, <2>1 DEF HostInv, Typed, BrepIsOfTheRevision
<1>8. CASE entry # None /\ entry.dims = GraphDims(log)
  <2>1. log' = k /\ brep' = GraphDims(log)
    BY <1>6, <1>8 DEF Publish, Transaction
  <2>2. GraphDims(log) \in Dims
    BY <1>1, ReadingALog
  <2> QED BY <1>3, <1>4, <1>5, <1>8, <2>1, <2>2 DEF BrepIsOfTheRevision
<1>9. CASE entry # None /\ entry.dims # GraphDims(log)
  <2>1. entry \in Entries /\ entry \in LogEntries /\ entry.type = "bracket" /\ entry.dims \in Dims
    BY <1>9, EntryKinds DEF LogEntries, Entries
  <2>2. Append(k, entry) = log \o <<event, entry>>
    BY <1>1, <1>2, <2>1, TwoAppends DEF k
  <2>3. log' = n /\ brep' = entry.dims
    BY <1>9, <2>2 DEF Publish, Transaction
  <2>4. Fits(k, entry)
    BY <1>5, <1>9, <2>1 DEF Fits, Reconcilable
  <2>5. k \in Seq(LogEntries)
    BY <1>3, ReadingALog
  <2>6. LogOK(n)
    BY <1>3, <2>1, <2>4, AppendKeepsLog
  <2>7. DraftsOK(n, drafts)
    BY <1>3, <1>4, <2>1, DraftsSurvive
  <2>8. \A g \in Host : g # h => CallOK(n, g, call[g])
    BY <1>1, <1>3, <1>4, <1>9, <2>1, CallSurvives
  <2>9. GraphDims(n) = entry.dims
    <3>1. PICK b : LastIs(k, "bracket", b)
      BY <1>3 DEF LogOK
    <3> QED BY <2>1, <2>5, <3>1, AppendSetsGraph
  <2>10. entry \in Brackets(n)
    BY <2>1, <2>5, AppendShowsBracket
  <2> HIDE DEF n
  <2> QED BY <2>1, <2>3, <2>6, <2>7, <2>8, <2>9, <2>10 DEF BrepIsOfTheRevision
<1> QED BY <1>7, <1>8, <1>9

LEMMA VerdictApplies ==
    ASSUME NEW key, NEW payload, NEW event, Verdict(key, payload, event) = "apply"
    PROVE  /\ payload.source = Len(log) /\ payload.brep \in {brep, None}
           /\ event.ordinal = Ordinal(log) + 1
BY DEF Verdict

LEMMA IdleIsOK ==
    /\ Idle \in CallTypes
    /\ \A l, h : CallOK(l, h, Idle)
<1>1. Idle \in CallTypes /\ Idle.at = "idle"
  BY DEF Idle, CallTypes, IdleCalls
<1>2. Idle \notin DraftCalls /\ Idle \notin CommitCalls
  BY DEF Idle, DraftCalls, CommitCalls, PromoteCalls, FailedCalls
<1> QED BY <1>1, <1>2 DEF CallOK

\* A call that is over, or that goes on, of one host.
LEMMA Stepped ==
    ASSUME HostInv, NEW h \in Host, NEW c \in CallTypes, LogOK(log'), CallOK(log', h, c),
           call' = [call EXCEPT ![h] = c],
           \A g \in Host : g # h => CallOK(log', g, call[g]),
           BrepIsOfTheRevision', brep' \in Dims \cup {None},
           drafts' \in [Host -> [DraftIds -> DraftTypes \cup {None}]], DraftsOK(log', drafts'),
           AnswersAreTrue'
    PROVE  HostInv'
<1>1. call' \in [Host -> CallTypes]
  BY DEF HostInv, Typed
<1>2. \A g \in Host : call'[g] = IF g = h THEN c ELSE call[g]
  BY DEF HostInv, Typed
<1>3. \A g \in Host : CallOK(log', g, call'[g])
  BY <1>2
<1>4. Typed'
  BY <1>1 DEF Typed
<1> QED BY <1>3, <1>4 DEF HostInv

LEMMA Silence ==
    ASSUME reply' = NoReply
    PROVE  AnswersAreTrue'
BY DEF AnswersAreTrue

\* A step of one host that publishes nothing and answers nothing.
LEMMA Went ==
    ASSUME HostInv, NEW h \in Host, NEW c \in CallTypes, CallOK(log, h, c), Goto(h, c)
    PROVE  HostInv'
<1>1. /\ log' = log /\ brep' = brep /\ drafts' = drafts /\ reply' = NoReply
      /\ call' = [call EXCEPT ![h] = c]
  BY DEF Goto
<1>2. AnswersAreTrue'
  BY <1>1, Silence
<1>3. /\ LogOK(log) /\ DraftsOK(log, drafts) /\ \A g \in Host : CallOK(log, g, call[g])
      /\ brep \in Dims \cup {None} /\ drafts \in [Host -> [DraftIds -> DraftTypes \cup {None}]]
  BY DEF HostInv, Typed
<1>4. BrepIsOfTheRevision'
  BY <1>1 DEF HostInv, BrepIsOfTheRevision
<1>5. /\ LogOK(log') /\ DraftsOK(log', drafts') /\ CallOK(log', h, c)
      /\ \A g \in Host : CallOK(log', g, call[g])
  BY <1>1, <1>3
<1> QED BY <1>1, <1>2, <1>3, <1>4, <1>5, Stepped

\* What an answer leaves behind.
LEMMA Answered ==
    ASSUME Typed, NEW h \in Host, call[h] \in DraftCalls, NEW out, Answer(h, out),
           NEW l, DraftsOK(l, drafts)
    PROVE  /\ drafts' \in [Host -> [DraftIds -> DraftTypes \cup {None}]]
           /\ DraftsOK(l, drafts')
           /\ call' = [call EXCEPT ![h] = Idle]
           /\ reply' = NoReply \/ /\ out \in {"ok", "stale", "changed"}
                                  /\ reply' = [out |-> out, to |-> h, id |-> call[h].id,
                                               draft |-> call[h].draft]
<1>1. call[h].id \in DraftIds
  BY CallParts
<1>2. CASE out = "ok"
  <2>1. drafts' = [drafts EXCEPT ![h][call[h].id] = None]
    BY <1>2 DEF Answer
  <2>2. drafts' \in [Host -> [DraftIds -> DraftTypes \cup {None}]]
    BY <1>1, <2>1 DEF Typed
  <2>3. \A g \in Host, id \in DraftIds : drafts'[g][id] \in {drafts[g][id], None}
    BY <1>1, <2>1 DEF Typed
  <2>4. DraftsOK(l, drafts')
    BY <2>3 DEF DraftsOK
  <2> QED BY <2>2, <2>4, <1>2 DEF Answer, Telling
<1>3. CASE out # "ok"
  <2>1. drafts' = drafts
    BY <1>3 DEF Answer
  <2> QED BY <2>1 DEF Answer, Telling, Typed
<1> QED BY <1>2, <1>3

\* A draft commit that publishes nothing.
LEMMA Refused ==
    ASSUME HostInv, NEW h \in Host, call[h] \in DraftCalls, NEW out, Refuse(h, out),
           out = "ok" => \E e \in Brackets(log) : e.key = DraftKey(call[h].draft.dims),
           out \in {"stale", "changed"} => call[h].at # "match"
    PROVE  HostInv'
<1>1. /\ LogOK(log) /\ DraftsOK(log, drafts) /\ \A g \in Host : CallOK(log, g, call[g])
      /\ brep \in Dims \cup {None} /\ Typed
  BY DEF HostInv, Typed
<1>2. log' = log /\ brep' = brep /\ Answer(h, out)
  BY DEF Refuse
<1>3. /\ drafts' \in [Host -> [DraftIds -> DraftTypes \cup {None}]]
      /\ DraftsOK(log, drafts')
      /\ call' = [call EXCEPT ![h] = Idle]
      /\ reply' = NoReply \/ /\ out \in {"ok", "stale", "changed"}
                             /\ reply' = [out |-> out, to |-> h, id |-> call[h].id,
                                          draft |-> call[h].draft]
  BY <1>1, <1>2, Answered
<1>4. AnswersAreTrue'
  <2>1. CASE reply' = NoReply
    BY <2>1, Silence
  <2>2. CASE reply' = [out |-> out, to |-> h, id |-> call[h].id, draft |-> call[h].draft]
    <3>1. /\ reply'.out = out /\ reply'.to = h /\ reply'.id = call[h].id
          /\ reply'.draft = call[h].draft
      BY <2>2
    <3>2. ASSUME out \in {"stale", "changed"}, NEW e \in Brackets(log), e.by = h
          PROVE  e.payload # Payload(call[h].id, call[h].draft)
      <4>1. NotPublishedBy(log, h, call[h].id)
        BY <1>1, <3>2 DEF CallOK
      <4>2. Payload(call[h].id, call[h].draft).draft = call[h].id
        BY DEF Payload
      <4> QED BY <4>1, <4>2, <3>2 DEF NotPublishedBy
    <3> QED BY <1>2, <3>1, <3>2 DEF AnswersAreTrue
  <2> QED BY <1>3, <2>1, <2>2
<1>5. BrepIsOfTheRevision'
  BY <1>2 DEF HostInv, BrepIsOfTheRevision
<1>6. /\ LogOK(log') /\ CallOK(log', h, Idle) /\ DraftsOK(log', drafts') /\ Idle \in CallTypes
      /\ \A g \in Host : CallOK(log', g, call[g])
  BY <1>1, <1>2, <1>3, IdleIsOK
<1> QED BY <1>1, <1>2, <1>3, <1>4, <1>5, <1>6, Stepped

-----------------------------------------------------------------------------
(* The steps of a draft.                                                   *)

LEMMA InitEstablishesHostInv == Init => HostInv
<1> SUFFICES ASSUME Init PROVE HostInv
  OBVIOUS
<1> DEFINE a == Event(1, Created, None, None)
           b == Entry(None, Created, DraftKey(Created),
                      Payload(None, [dims |-> Created, source |-> 0, brep |-> None]))
           s == <<a, b>>
<1>1. log = s
  BY DEF Init
<1>2. a \in Events /\ a.type = "event"
  BY HostAssumption DEF Event, Events
<1>3. Payload(None, [dims |-> Created, source |-> 0, brep |-> None]) \in Payloads
  BY HostAssumption, PayloadTypes
<1>4. b \in Entries /\ b.type = "bracket" /\ b.dims = Created /\ DraftKey(Created) \in Keys
  BY <1>3, HostAssumption DEF Entry, Entries, DraftKey, Keys
<1> HIDE DEF a, b
<1>5. /\ s \in Seq(LogEntries) /\ Len(s) = 2 /\ s[1] = a /\ s[2] = b /\ DOMAIN s = 1 .. 2
  BY <1>2, <1>4 DEF LogEntries
<1> HIDE DEF s
<1>6. Positions(s, "event") = {1} /\ Positions(s, "bracket") = {2}
  BY <1>2, <1>4, <1>5 DEF Positions
<1>7. LastIs(s, "event", 1) /\ LastIs(s, "bracket", 2)
  BY <1>6 DEF LastIs
<1>8. ASSUME NEW n \in 1 .. 2 PROVE LastIs(SubSeq(s, 1, n), "event", 1)
  <2> DEFINE p == SubSeq(s, 1, n)
  <2>1. n \in Int /\ 1 \in Int /\ \A i \in 1 .. n : s[i] \in LogEntries
    BY <1>2, <1>4, <1>5 DEF LogEntries
  <2>2. p \in Seq(LogEntries) /\ Len(p) = n /\ \A i \in 1 .. n : p[i] = s[i]
    BY <2>1, SubSeqProperties
  <2>3. DOMAIN p = 1 .. n
    BY <2>2, LenProperties
  <2> HIDE DEF p
  <2>4. 1 \in 1 .. n /\ p[1] = a /\ \A i \in 1 .. n : i = 1 \/ p[i] = b
    BY <1>5, <2>2
  <2>5. Positions(p, "event") = {1}
    BY <1>2, <1>4, <2>3, <2>4 DEF Positions
  <2> QED BY <2>5 DEF LastIs, p
<1>9. LogOK(s)
  BY <1>5, <1>6, <1>7, <1>8 DEF LogOK, EventsFollow, DraftOnce
<1>10. Max(Positions(s, "bracket")) = 2
  BY <1>5, <1>7, MaxIsLast
<1>11. BrepIsOfTheRevision
  BY <1>1, <1>4, <1>5, <1>10 DEF BrepIsOfTheRevision, GraphDims, Init
<1>12. Typed /\ DraftsOK(log, drafts)
  BY IdleIsOK, HostAssumption DEF Typed, DraftsOK, Init
<1>13. \A h \in Host : CallOK(log, h, call[h])
  BY IdleIsOK DEF Init
<1> QED BY <1>1, <1>9, <1>11, <1>12, <1>13 DEF HostInv, AnswersAreTrue, Init

\* A host that goes back to having nothing to do, of drafts it may have changed.
LEMMA Ended ==
    ASSUME HostInv, NEW h \in Host, reply' = NoReply, call' = [call EXCEPT ![h] = Idle],
           UNCHANGED <<log, brep>>,
           drafts' \in [Host -> [DraftIds -> DraftTypes \cup {None}]], DraftsOK(log, drafts')
    PROVE  HostInv'
<1>1. /\ LogOK(log) /\ \A g \in Host : CallOK(log, g, call[g])
      /\ brep \in Dims \cup {None} /\ log' = log /\ brep' = brep
  BY DEF HostInv, Typed
<1>2. AnswersAreTrue'
  BY Silence
<1>3. BrepIsOfTheRevision'
  BY <1>1 DEF HostInv, BrepIsOfTheRevision
<1>4. /\ LogOK(log') /\ DraftsOK(log', drafts') /\ CallOK(log', h, Idle) /\ Idle \in CallTypes
      /\ \A g \in Host : CallOK(log', g, call[g])
  BY <1>1, IdleIsOK
<1> QED BY <1>1, <1>2, <1>3, <1>4, Stepped

LEMMA Waited ==
    ASSUME HostInv, reply' = NoReply, UNCHANGED <<log, brep, call>>,
           drafts' \in [Host -> [DraftIds -> DraftTypes \cup {None}]], DraftsOK(log, drafts')
    PROVE  HostInv'
<1>1. log' = log /\ brep' = brep /\ call' = call
  OBVIOUS
<1>2. AnswersAreTrue'
  BY Silence
<1>3. BrepIsOfTheRevision'
  BY <1>1 DEF HostInv, BrepIsOfTheRevision
<1>4. Typed'
  BY <1>1 DEF HostInv, Typed
<1>5. LogOK(log') /\ DraftsOK(log', drafts') /\ \A g \in Host : CallOK(log', g, call'[g])
  BY <1>1 DEF HostInv
<1> QED BY <1>2, <1>3, <1>4, <1>5 DEF HostInv

LEMMA DraftBookkeepingKeepsHostInv ==
    ASSUME HostInv, NEW h \in Host, NEW id \in DraftIds, NEW dims \in Dims,
           OpenDraft(h, id, dims) \/ UpdateDraft(h, id, dims) \/ DiscardDraft(h, id)
             \/ BindDraft(h) \/ CommitDraft(h, id)
    PROVE  HostInv'
<1>1. /\ Typed /\ LogOK(log) /\ DraftsOK(log, drafts) /\ CallOK(log, h, call[h])
      /\ Len(log) \in Nat /\ Len(log) >= 2 /\ call[h] \in CallTypes
      /\ drafts \in [Host -> [DraftIds -> DraftTypes \cup {None}]]
  BY ReadingALog DEF HostInv, Typed
<1>2. CASE OpenDraft(h, id, dims)
  <2> DEFINE c == [at |-> "bind", id |-> id, dims |-> dims, seen |-> Len(log)]
  <2>1. c \in BindCalls /\ c \notin DraftCalls /\ c \notin CommitCalls
    BY <1>1 DEF BindCalls, DraftCalls, CommitCalls, PromoteCalls, FailedCalls
  <2>2. CallOK(log, h, c)
    BY <1>1, <2>1 DEF CallOK
  <2>3. c \in CallTypes /\ Goto(h, c)
    BY <1>2, <2>1 DEF CallTypes, OpenDraft, Start
  <2> HIDE DEF c
  <2> QED BY <2>2, <2>3, Went
<1>3. CASE UpdateDraft(h, id, dims)
  <2>1. drafts[h][id] \in DraftTypes
    BY <1>1, <1>3 DEF UpdateDraft
  <2>2. /\ drafts' = [drafts EXCEPT ![h][id].dims = dims] /\ reply' = NoReply
        /\ UNCHANGED <<log, brep, call>>
    BY <1>3 DEF UpdateDraft
  <2> DEFINE d == [drafts[h][id] EXCEPT !.dims = dims]
  <2>3. d \in DraftTypes /\ d.source = drafts[h][id].source
    BY <2>1 DEF DraftTypes
  <2>4. drafts' = [drafts EXCEPT ![h][id] = d]
    BY <1>1, <2>2
  <2> HIDE DEF d
  <2>5. drafts' \in [Host -> [DraftIds -> DraftTypes \cup {None}]]
    BY <1>1, <2>3, <2>4
  <2>6. \A g \in Host, x \in DraftIds :
          \/ drafts'[g][x] = drafts[g][x]
          \/ g = h /\ x = id /\ drafts'[g][x].source = drafts[g][x].source
    BY <1>1, <2>3, <2>4
  <2>7. drafts[h][id] # None
    BY <1>3 DEF UpdateDraft
  <2>8. DraftsOK(log, drafts')
    BY <1>1, <2>6, <2>7 DEF DraftsOK
  <2> QED BY <2>2, <2>5, <2>8, Waited
<1>4. CASE DiscardDraft(h, id)
  <2>1. /\ drafts' = [drafts EXCEPT ![h][id] = None] /\ reply' = NoReply
        /\ UNCHANGED <<log, brep, call>>
    BY <1>4 DEF DiscardDraft
  <2>2. drafts' \in [Host -> [DraftIds -> DraftTypes \cup {None}]]
    BY <1>1, <2>1
  <2>3. \A g \in Host, x \in DraftIds : drafts'[g][x] \in {drafts[g][x], None}
    BY <1>1, <2>1
  <2>4. DraftsOK(log, drafts')
    BY <1>1, <2>3 DEF DraftsOK
  <2> QED BY <2>1, <2>2, <2>4, Waited
<1>5. CASE BindDraft(h)
  <2> DEFINE c == call[h]
             d == [dims |-> c.dims, source |-> c.seen, brep |-> brep]
  <2>1. /\ call' = [call EXCEPT ![h] = Idle] /\ reply' = NoReply /\ UNCHANGED <<log, brep>>
        /\ drafts' = IF brep = None THEN drafts ELSE [drafts EXCEPT ![h][c.id] = d]
    BY <1>5 DEF BindDraft
  <2>2. c.at = "bind" /\ c \in BindCalls
    BY <1>1, <1>5, CallKinds DEF BindDraft
  <2>3. c.id \in DraftIds /\ c.dims \in Dims /\ c.seen \in Nat /\ c.seen \in 1 .. Len(log)
    BY <1>1, <2>2, CallParts DEF CallOK
  <2>4. CASE brep = None
    <3>1. drafts' = drafts
      BY <2>1, <2>4
    <3> QED BY <1>1, <2>1, <3>1, Ended
  <2>5. CASE brep # None
    <3>1. d \in DraftTypes /\ d.source \in 1 .. Len(log)
      BY <1>1, <2>3, <2>5 DEF DraftTypes, Typed
    <3>2. drafts' = [drafts EXCEPT ![h][c.id] = d]
      BY <2>1, <2>5
    <3> HIDE DEF d
    <3>3. drafts' \in [Host -> [DraftIds -> DraftTypes \cup {None}]]
      BY <1>1, <2>3, <3>1, <3>2
    <3>4. \A g \in Host, x \in DraftIds : drafts'[g][x] \in {drafts[g][x], d}
      BY <1>1, <2>3, <3>2
    <3>5. DraftsOK(log, drafts')
      BY <1>1, <3>1, <3>4 DEF DraftsOK
    <3> QED BY <2>1, <3>3, <3>5, Ended
  <2> QED BY <2>4, <2>5
<1>6. CASE CommitDraft(h, id)
  <2> DEFINE c == [at |-> IF Reconcilable(log, id) THEN "match" ELSE "load",
                   id |-> id, draft |-> drafts[h][id], seen |-> Len(log)]
  <2>1. drafts[h][id] \in DraftTypes /\ drafts[h][id].source \in 1 .. Len(log)
    BY <1>1, <1>6 DEF CommitDraft, DraftsOK
  <2>2. Goto(h, c)
    BY <1>6 DEF CommitDraft, Start
  <2>3. c \in CommitCalls
    BY <1>1, <2>1 DEF CommitCalls
  <2>4. /\ c.seen = Len(log) /\ c.draft = drafts[h][id] /\ c.id = id
        /\ c.at = IF Reconcilable(log, id) THEN "match" ELSE "load"
    OBVIOUS
  <2> HIDE DEF c
  <2>5. c \in CallTypes
    BY <2>3 DEF CallTypes, DraftCalls
  <2>6. Len(log) \in 1 .. Len(log)
    BY <1>1
  <2>7. c.at # "match" => NotPublishedBy(log, h, c.id)
    BY <2>4 DEF Reconcilable, NotPublishedBy
  <2>8. CallOK(log, h, c)
    BY <2>1, <2>3, <2>4, <2>6, <2>7 DEF CallOK
  <2> QED BY <2>2, <2>5, <2>8, Went
<1> QED BY <1>2, <1>3, <1>4, <1>5, <1>6

LEMMA CommitReadingKeepsHostInv ==
    ASSUME HostInv, NEW h \in Host,
           MatchCommitted(h) \/ LoadSource(h) \/ ValidateSource(h) \/ ReconcilePromotion(h)
             \/ ClassifyError(h)
    PROVE  HostInv'
<1> DEFINE c == call[h]
<1>1. /\ Typed /\ LogOK(log) /\ CallOK(log, h, c) /\ c \in CallTypes
      /\ Len(log) \in Nat /\ Len(log) >= 2 /\ DOMAIN log = 1 .. Len(log)
      /\ Ordinal(log) \in Nat /\ Active(log) \in Dims
  BY ReadingALog DEF HostInv, Typed
<1>2. CASE MatchCommitted(h)
  <2>1. c.at = "match" /\ c \in CommitCalls
    BY <1>1, <1>2, CallKinds DEF MatchCommitted
  <2>2. c \in DraftCalls /\ c.seen \in DOMAIN log
    BY <1>1, <2>1 DEF DraftCalls, CallOK
  <2>3. CASE Refuse(h, "conflict")
    BY <2>2, <2>3, Refused
  <2>4. CASE /\ Refuse(h, "ok") /\ log[c.seen].type = "bracket"
             /\ log[c.seen].key = DraftKey(c.draft.dims)
    <3>1. log[c.seen] \in Brackets(log)
      BY <2>2, <2>4 DEF Brackets, Positions
    <3> QED BY <2>2, <2>4, <3>1, Refused
  <2> QED BY <1>2, <2>3, <2>4 DEF MatchCommitted
<1>3. CASE LoadSource(h)
  <2> DEFINE n == [c EXCEPT !.at = "validate", !.seen = Len(log)]
  <2>1. c.at = "load" /\ c \in CommitCalls /\ Goto(h, n)
    BY <1>1, <1>3, CallKinds DEF LoadSource
  <2>2. /\ n \in CommitCalls /\ n.at = "validate" /\ n.seen = Len(log)
        /\ n.id = c.id /\ n.draft = c.draft
    BY <1>1, <2>1 DEF CommitCalls
  <2>3. c \in DraftCalls /\ n \in DraftCalls /\ n \in CallTypes
    BY <2>1, <2>2 DEF DraftCalls, CallTypes
  <2> HIDE DEF n
  <2>4. CallOK(log, h, n)
    BY <1>1, <2>1, <2>2, <2>3 DEF CallOK
  <2> QED BY <2>1, <2>3, <2>4, Went
<1>4. CASE ValidateSource(h)
  <2> DEFINE loaded == SubSeq(log, 1, c.seen)
             event == Event(Ordinal(loaded) + 1, c.draft.dims, Active(loaded), None)
             n == [at |-> "promote", id |-> c.id, draft |-> c.draft, event |-> event]
  <2>1. c.at = "validate" /\ c \in CommitCalls
    BY <1>1, <1>4, CallKinds DEF ValidateSource
  <2>2. /\ c \in DraftCalls /\ c.seen \in 1 .. Len(log) /\ c.draft \in DraftTypes
        /\ c.id \in DraftIds /\ c.draft.dims \in Dims /\ c.draft.source \in 1 .. Len(log)
    BY <1>1, <2>1, CallParts DEF DraftCalls, CallOK
  <2>3. CASE Refuse(h, "stale") \/ Refuse(h, "changed")
    BY <2>1, <2>2, <2>3, Refused
  <2>4. CASE Goto(h, n)
    <3>1. /\ Ordinal(loaded) \in Nat /\ Active(loaded) \in Dims
          /\ Ordinal(loaded) <= Ordinal(log)
          /\ Ordinal(loaded) = Ordinal(log) => Active(loaded) = Active(log)
      BY <1>1, <2>2, ReadingALog
    <3> HIDE DEF loaded
    <3>2. /\ event \in Events /\ event.ordinal = Ordinal(loaded) + 1
          /\ event.kept = Active(loaded)
      BY <2>2, <3>1 DEF Event, Events
    <3>3. Timely(log, event)
      BY <1>1, <3>1, <3>2 DEF Timely
    <3> HIDE DEF event
    <3>4. n \in PromoteCalls /\ n.at = "promote" /\ n.id = c.id /\ n.draft = c.draft
          /\ n.event = event
      BY <2>2, <3>2 DEF PromoteCalls
    <3> HIDE DEF n
    <3>5. n \in DraftCalls /\ n \in CallTypes
      BY <3>4 DEF DraftCalls, CallTypes
    <3>6. n \notin CommitCalls
      BY <3>4, <3>5, CallKinds
    <3>7. CallOK(log, h, n)
      BY <1>1, <2>1, <2>2, <3>3, <3>4, <3>5, <3>6 DEF CallOK
    <3> QED BY <2>4, <3>5, <3>7, Went
  <2> QED BY <1>4, <2>3, <2>4 DEF ValidateSource
<1>5. CASE ReconcilePromotion(h)
  <2> DEFINE n == [c EXCEPT !.at = "classify"]
  <2>1. c.at = "reconcile" /\ c \in FailedCalls /\ c \in DraftCalls
    BY <1>1, <1>5, CallKinds DEF ReconcilePromotion, DraftCalls
  <2>2. CASE /\ Refuse(h, "ok")
             /\ \E e \in Brackets(log) : e.key = DraftKey(c.draft.dims)
    BY <2>1, <2>2, Refused
  <2>3. CASE Goto(h, n)
    <3>1. n \in FailedCalls /\ n.at = "classify" /\ n.id = c.id /\ n.draft = c.draft
      BY <2>1 DEF FailedCalls
    <3> HIDE DEF n
    <3>2. n \in DraftCalls /\ n \in CallTypes
      BY <3>1 DEF DraftCalls, CallTypes
    <3>3. n \notin CommitCalls
      BY <3>1, <3>2, CallKinds
    <3>4. CallOK(log, h, n)
      BY <1>1, <2>1, <3>1, <3>2, <3>3 DEF CallOK
    <3> QED BY <2>3, <3>2, <3>4, Went
  <2> QED BY <1>5, <2>2, <2>3 DEF ReconcilePromotion
<1>6. CASE ClassifyError(h)
  <2>1. c.at = "classify" /\ c \in FailedCalls /\ c \in DraftCalls
    BY <1>1, <1>6, CallKinds DEF ClassifyError, DraftCalls
  <2>2. PICK out \in {"failed", "conflict", "stale", "changed"} : Refuse(h, out)
    BY <1>6 DEF ClassifyError
  <2> QED BY <2>1, <2>2, Refused
<1> QED BY <1>2, <1>3, <1>4, <1>5, <1>6

LEMMA PromoteDraftKeepsHostInv ==
    ASSUME HostInv, NEW h \in Host, PromoteDraft(h)
    PROVE  HostInv'
<1> DEFINE c == call[h]
           key == DraftKey(c.draft.dims)
           payload == Payload(c.id, c.draft)
           verdict == Verdict(key, payload, c.event)
           entry == Entry(h, c.draft.dims, key, payload)
           Failed(error) == [at |-> "reconcile", id |-> c.id, draft |-> c.draft, error |-> error]
<1>1. /\ Typed /\ LogOK(log) /\ DraftsOK(log, drafts) /\ CallOK(log, h, c) /\ c \in CallTypes
      /\ Len(log) \in Nat
  BY ReadingALog DEF HostInv, Typed
<1>2. c.at = "promote" /\ c \in PromoteCalls /\ c \in DraftCalls
  BY <1>1, CallKinds DEF PromoteDraft, DraftCalls
<1>3. /\ c.id \in DraftIds /\ c.draft \in DraftTypes /\ c.event \in Events
      /\ c.draft.dims \in Dims /\ c.draft.brep \in Dims
      /\ c.draft.source \in 1 .. Len(log) /\ NotPublishedBy(log, h, c.id)
      /\ Reconcilable(log, c.id) => Len(log) > c.draft.source
      /\ Timely(log, c.event)
  BY <1>1, <1>2, CallParts DEF CallOK
<1>4. /\ payload \in Payloads /\ payload.draft = c.id /\ payload.source = c.draft.source
      /\ payload.brep = c.draft.brep /\ key \in Keys
  BY <1>3, DraftPayloads
<1>5. ASSUME NEW error \in {"io", "key", "invalid"}, Goto(h, Failed(error)) PROVE HostInv'
  <2> DEFINE n == Failed(error)
  <2>1. n \in FailedCalls /\ n.at = "reconcile" /\ n.id = c.id /\ n.draft = c.draft
    BY <1>3 DEF FailedCalls
  <2> HIDE DEF n
  <2>2. n \in DraftCalls /\ n \in CallTypes
    BY <2>1 DEF DraftCalls, CallTypes
  <2>3. n \notin CommitCalls
    BY <2>1, <2>2, CallKinds
  <2>4. CallOK(log, h, n)
    BY <1>3, <2>1, <2>2, <2>3 DEF CallOK
  <2>5. Goto(h, n)
    BY <1>5 DEF n
  <2> QED BY <2>2, <2>4, <2>5, Went
<1>6. ASSUME verdict = "same", Refuse(h, "ok") PROVE HostInv'
  <2>1. \E e \in Brackets(log) : e.key = key
    BY <1>6 DEF Verdict
  <2> QED BY <1>2, <1>6, <2>1, Refused
<1>7. ASSUME verdict = "apply", Publish(c.event, entry), NEW out \in {"ok", "unknown"},
             Answer(h, out)
      PROVE  HostInv'
  <2>1. /\ c.draft.source = Len(log) /\ c.draft.brep \in {brep, None}
        /\ c.event.ordinal = Ordinal(log) + 1
    BY <1>4, <1>7, VerdictApplies
  <2>2. c.event.kept = Active(log)
    BY <1>3, <2>1 DEF Timely
  <2>3. /\ entry \in Entries /\ entry.by = h /\ entry.payload = payload /\ entry.key = key
        /\ entry.dims = c.draft.dims
    BY <1>3, <1>4 DEF Entry, Entries
  <2>4. entry # None
    BY <2>3, HostAssumption
  <2>5. ~ Reconcilable(log, entry.payload.draft)
    BY <1>1, <1>3, <1>4, <2>1, <2>3
  <2> HIDE DEF entry
  <2>6. /\ LogOK(log') /\ BrepIsOfTheRevision' /\ brep' \in Dims \cup {None}
        /\ DraftsOK(log', drafts)
        /\ \A g \in Host : g # h => CallOK(log', g, call[g])
        /\ entry.dims = GraphDims(log) \/ entry \in Brackets(log')
    BY <1>3, <1>7, <2>1, <2>2, <2>3, <2>4, <2>5, PublishKeepsLog
  <2>7. /\ drafts' \in [Host -> [DraftIds -> DraftTypes \cup {None}]]
        /\ DraftsOK(log', drafts')
        /\ call' = [call EXCEPT ![h] = Idle]
        /\ reply' = NoReply \/ /\ out = "ok"
                               /\ reply' = [out |-> out, to |-> h, id |-> c.id,
                                            draft |-> c.draft]
    <3>1. PICK m : m = log'
      OBVIOUS
    <3>2. DraftsOK(m, drafts)
      BY <2>6, <3>1
    <3>3. /\ drafts' \in [Host -> [DraftIds -> DraftTypes \cup {None}]]
          /\ DraftsOK(m, drafts')
          /\ call' = [call EXCEPT ![h] = Idle]
          /\ reply' = NoReply \/ /\ out \in {"ok", "stale", "changed"}
                                 /\ reply' = [out |-> out, to |-> h, id |-> c.id,
                                              draft |-> c.draft]
      BY <1>1, <1>2, <1>7, <3>2, Answered
    <3> QED BY <3>1, <3>3
  <2>8. entry.dims = GraphDims(log) => c.draft.dims = c.draft.brep
    <3>1. c.draft.brep = brep /\ brep # None
      BY <1>3, <2>1, HostAssumption
    <3> QED BY <2>3, <3>1 DEF HostInv, BrepIsOfTheRevision
  <2>9. AnswersAreTrue'
    <3>1. CASE reply' = NoReply
      BY <3>1, Silence
    <3>2. CASE /\ out = "ok"
               /\ reply' = [out |-> out, to |-> h, id |-> c.id, draft |-> c.draft]
      <4>1. reply'.out = "ok" /\ reply'.draft = c.draft
        BY <3>2
      <4> QED BY <2>3, <2>6, <2>8, <4>1 DEF AnswersAreTrue
    <3> QED BY <2>7, <3>1, <3>2
  <2>10. Idle \in CallTypes /\ CallOK(log', h, Idle)
    BY IdleIsOK
  <2> QED BY <2>6, <2>7, <2>9, <2>10, Stepped
<1> QED BY <1>5, <1>6, <1>7 DEF PromoteDraft

-----------------------------------------------------------------------------
(* The steps of undo, redo, historical edits and Named Revisions.           *)

LEMMA HistoryReadingKeepsHostInv ==
    ASSUME HostInv, NEW h \in Host,
           \/ \E operation \in Operations, target \in Dims : OpenHistory(h, operation, target)
           \/ StageHistory(h) \/ NameRevision(h)
    PROVE  HostInv'
<1> DEFINE c == call[h]
<1>1. /\ LogOK(log) /\ CallOK(log, h, c) /\ c \in CallTypes /\ brep \in Dims \cup {None}
      /\ Len(log) \in Nat /\ Ordinal(log) \in Nat /\ Active(log) \in Dims
  BY ReadingALog DEF HostInv, Typed
<1>2. ASSUME NEW active \in Dims
      PROVE  /\ Event(Ordinal(log) + 1, active, Active(log), Len(log)) \in Events
             /\ Timely(log, Event(Ordinal(log) + 1, active, Active(log), Len(log)))
  BY <1>1 DEF Event, Events, Timely
<1>3. ASSUME NEW n \in PublishCalls, n.payload.draft = None, Timely(log, n.event), Goto(h, n)
      PROVE  HostInv'
  <2>1. n \in CallTypes /\ n.at = "publish"
    BY <1>3 DEF PublishCalls, CallTypes
  <2>2. n \notin DraftCalls /\ n \notin CommitCalls
    BY <2>1 DEF DraftCalls, CommitCalls, PromoteCalls, FailedCalls
  <2>3. CallOK(log, h, n)
    BY <1>3, <2>1, <2>2 DEF CallOK
  <2> QED BY <1>3, <2>1, <2>3, Went
<1>4. ASSUME NEW operation \in Operations, NEW target \in Dims,
             OpenHistory(h, operation, target)
      PROVE  HostInv'
  <2> DEFINE event == Event(Ordinal(log) + 1, target, Active(log), Len(log))
             n == [at |-> "history", operation |-> operation, event |-> event]
  <2>1. event \in Events /\ Timely(log, event) /\ Goto(h, n)
    BY <1>2, <1>4 DEF OpenHistory, Start
  <2> HIDE DEF event
  <2>2. n \in HistoryCalls /\ n.at = "history" /\ n.event = event
    BY <2>1 DEF HistoryCalls
  <2>3. n \in CallTypes
    BY <2>2 DEF CallTypes
  <2>4. n \notin DraftCalls /\ n \notin CommitCalls
    BY <2>2 DEF DraftCalls, CommitCalls, PromoteCalls, FailedCalls
  <2> HIDE DEF n
  <2>5. CallOK(log, h, n)
    BY <2>1, <2>2, <2>4 DEF CallOK
  <2> QED BY <2>1, <2>3, <2>5, Went
<1>5. CASE StageHistory(h)
  <2> DEFINE staged == brep # None /\ c.event.active # Active(log)
             b == IF staged THEN brep ELSE None
             payload == Payload(None, [dims |-> c.event.active, source |-> Len(log), brep |-> b])
             key == IF staged THEN HistoryKey(c.operation, Ordinal(log) + 1) ELSE None
             n == [at |-> "publish", event |-> c.event, payload |-> payload, key |-> key]
  <2>1. c.at = "history" /\ c \in HistoryCalls /\ Goto(h, n)
    BY <1>1, <1>5, CallKinds DEF StageHistory
  <2>2. c.event \in Events /\ c.event.active \in Dims /\ c.operation \in Operations
    BY <2>1, CallParts DEF HistoryCalls
  <2>3. Timely(log, c.event)
    BY <1>1, <2>1 DEF CallOK
  <2>4. b \in Dims \cup {None}
    BY <1>1
  <2>5. key \in Keys
    BY <1>1, <2>2 DEF HistoryKey, Keys
  <2> HIDE DEF b, key
  <2>6. payload \in Payloads /\ payload.draft = None
    BY <1>1, <2>2, <2>4 DEF Payload, Payloads
  <2> HIDE DEF payload
  <2>7. n \in PublishCalls /\ n.payload = payload /\ n.event = c.event
    BY <2>2, <2>5, <2>6 DEF PublishCalls
  <2> HIDE DEF n
  <2> QED BY <1>3, <2>1, <2>3, <2>6, <2>7
<1>6. CASE NameRevision(h)
  <2> DEFINE event == Event(Ordinal(log) + 1, Active(log), Active(log), Len(log))
             payload == Payload(None, [dims |-> Active(log), source |-> Len(log), brep |-> None])
             n == [at |-> "publish", key |-> None, event |-> event, payload |-> payload]
  <2>1. event \in Events /\ Timely(log, event) /\ Goto(h, n)
    BY <1>1, <1>2, <1>6 DEF NameRevision, Start
  <2>2. payload \in Payloads /\ payload.draft = None
    BY <1>1 DEF Payload, Payloads
  <2> HIDE DEF event, payload
  <2>3. n \in PublishCalls /\ n.payload = payload /\ n.event = event
    BY <2>1, <2>2 DEF PublishCalls, Keys
  <2> HIDE DEF n
  <2> QED BY <1>3, <2>1, <2>2, <2>3
<1> QED BY <1>4, <1>5, <1>6

LEMMA PublishHistoryKeepsHostInv ==
    ASSUME HostInv, NEW h \in Host, PublishHistory(h)
    PROVE  HostInv'
<1> DEFINE c == call[h]
           verdict == Verdict(c.key, c.payload, c.event)
           entry == IF c.key = None THEN None ELSE Entry(h, c.event.active, c.key, c.payload)
<1>1. /\ LogOK(log) /\ CallOK(log, h, c) /\ c \in CallTypes /\ DraftsOK(log, drafts)
      /\ drafts \in [Host -> [DraftIds -> DraftTypes \cup {None}]]
  BY DEF HostInv, Typed
<1>2. c.at = "publish" /\ c \in PublishCalls
  BY <1>1, CallKinds DEF PublishHistory
<1>3. /\ c.event \in Events /\ c.event.active \in Dims /\ c.payload \in Payloads /\ c.key \in Keys
      /\ c.payload.draft = None /\ Timely(log, c.event)
  BY <1>1, <1>2, CallParts DEF PublishCalls, CallOK
<1>4. /\ call' = [call EXCEPT ![h] = Idle] /\ reply' = NoReply /\ drafts' = drafts
      /\ \/ verdict = "apply" /\ Publish(c.event, entry)
         \/ UNCHANGED <<log, brep>>
  BY DEF PublishHistory
<1>5. CASE UNCHANGED <<log, brep>>
  BY <1>1, <1>4, <1>5, Ended
<1>6. CASE verdict = "apply" /\ Publish(c.event, entry)
  <2>1. c.event.ordinal = Ordinal(log) + 1
    BY <1>6, VerdictApplies
  <2>2. c.event.kept = Active(log)
    BY <1>3, <2>1 DEF Timely
  <2>3. c.key # None => /\ entry \in Entries /\ entry.by = h /\ entry.payload = c.payload
                        /\ entry = Entry(h, c.event.active, c.key, c.payload)
    BY <1>3 DEF Entry, Entries
  <2>4. entry \in Entries \cup {None}
    BY <2>3
  <2>5. entry # None => /\ entry.by = h
                        /\ \/ entry.payload.draft = None
                           \/ ~ Reconcilable(log, entry.payload.draft)
    BY <1>3, <2>3
  <2> HIDE DEF entry
  <2>6. /\ LogOK(log') /\ BrepIsOfTheRevision' /\ brep' \in Dims \cup {None}
        /\ DraftsOK(log', drafts)
        /\ \A g \in Host : g # h => CallOK(log', g, call[g])
    BY <1>3, <1>6, <2>1, <2>2, <2>4, <2>5, PublishKeepsLog
  <2>7. DraftsOK(log', drafts') /\ AnswersAreTrue'
    BY <1>4, <2>6, Silence
  <2>8. Idle \in CallTypes /\ CallOK(log', h, Idle)
    BY IdleIsOK
  <2> QED BY <1>1, <1>4, <2>6, <2>7, <2>8, Stepped
<1> QED BY <1>4, <1>5, <1>6

-----------------------------------------------------------------------------
(* The other steps, and the theorems.                                      *)

LEMMA OthersKeepHostInv ==
    ASSUME HostInv, AppendFeature \/ LoseBrep
    PROVE  HostInv'
<1>1. /\ Typed /\ LogOK(log) /\ DraftsOK(log, drafts) /\ BrepIsOfTheRevision
      /\ \A g \in Host : CallOK(log, g, call[g]) /\ call[g] \in CallTypes
  BY DEF HostInv, Typed
<1>2. AnswersAreTrue'
  BY Silence DEF AppendFeature, LoseBrep
<1>3. CASE AppendFeature
  <2> DEFINE k == Append(log, Feature)
  <2>1. log' = k /\ brep' = brep /\ drafts' = drafts /\ call' = call
    BY <1>3 DEF AppendFeature
  <2>2. /\ Feature \in LogEntries /\ Feature.type = "feature" /\ Fits(log, Feature)
        /\ log \in Seq(LogEntries)
    BY <1>1, EntryKinds, ReadingALog DEF Fits
  <2>3. LogOK(k) /\ DraftsOK(k, drafts)
    BY <1>1, <2>2, AppendKeepsLog, DraftsSurvive
  <2>4. \A g \in Host : CallOK(k, g, call[g])
    BY <1>1, <2>2, CallSurvives
  <2>5. GraphDims(k) = GraphDims(log)
    <3>1. PICK b : LastIs(log, "bracket", b)
      BY <1>1 DEF LogOK
    <3> QED BY <2>2, <3>1, AppendSetsGraph
  <2> HIDE DEF k
  <2>6. BrepIsOfTheRevision'
    BY <1>1, <2>1, <2>5 DEF BrepIsOfTheRevision
  <2>7. Typed'
    BY <1>1, <2>1 DEF Typed
  <2> QED BY <1>2, <2>1, <2>3, <2>4, <2>6, <2>7 DEF HostInv
<1>4. CASE LoseBrep
  <2>1. log' = log /\ brep' = None /\ drafts' = drafts /\ call' = call
    BY <1>4 DEF LoseBrep
  <2>2. Typed' /\ BrepIsOfTheRevision'
    BY <1>1, <2>1 DEF Typed, BrepIsOfTheRevision
  <2> QED BY <1>1, <1>2, <2>1, <2>2 DEF HostInv
<1> QED BY <1>3, <1>4

LEMMA ReplayAndFailureKeepHostInv ==
    ASSUME HostInv, NEW h \in Host,
           OpenReplay(h) \/ RestoreBrep(h) \/ FailCall(h) \/ Crash(h)
    PROVE  HostInv'
<1> DEFINE c == call[h]
<1>1. /\ Typed /\ LogOK(log) /\ DraftsOK(log, drafts) /\ CallOK(log, h, c) /\ c \in CallTypes
      /\ \A g \in Host : CallOK(log, g, call[g])
      /\ brep \in Dims \cup {None} /\ drafts \in [Host -> [DraftIds -> DraftTypes \cup {None}]]
      /\ Len(log) \in Nat /\ Active(log) \in Dims /\ GraphDims(log) \in Dims
  BY ReadingALog DEF HostInv, Typed
<1>2. Idle \in CallTypes /\ CallOK(log, h, Idle)
  BY IdleIsOK
<1>3. CASE OpenReplay(h)
  <2> DEFINE n == [at |-> "replay", seen |-> Len(log), dims |-> Active(log)]
  <2>1. Goto(h, n)
    BY <1>3 DEF OpenReplay, Start
  <2>2. n \in ReplayCalls /\ n.at = "replay"
    BY <1>1 DEF ReplayCalls
  <2>3. n \in CallTypes
    BY <2>2 DEF CallTypes
  <2>4. n \notin DraftCalls /\ n \notin CommitCalls
    BY <2>2 DEF DraftCalls, CommitCalls, PromoteCalls, FailedCalls
  <2> HIDE DEF n
  <2>5. CallOK(log, h, n)
    BY <2>2, <2>4 DEF CallOK
  <2> QED BY <2>1, <2>3, <2>5, Went
<1>4. CASE RestoreBrep(h)
  <2>1. /\ call' = [call EXCEPT ![h] = Idle] /\ reply' = NoReply
        /\ log' = log /\ drafts' = drafts
        /\ brep' \in IF c.seen = Len(log) /\ Authentic(c.dims) THEN {c.dims, brep, None}
                     ELSE {brep}
    BY <1>4 DEF RestoreBrep
  <2>2. \/ brep' \in {brep, None}
        \/ c.dims = GraphDims(log) /\ brep' = c.dims
    BY <2>1 DEF Authentic
  <2>3. brep' \in Dims \cup {None} /\ BrepIsOfTheRevision'
    BY <1>1, <2>1, <2>2 DEF HostInv, BrepIsOfTheRevision
  <2>4. AnswersAreTrue'
    BY <2>1, Silence
  <2>5. /\ LogOK(log') /\ DraftsOK(log', drafts') /\ CallOK(log', h, Idle)
        /\ \A g \in Host : CallOK(log', g, call[g])
        /\ drafts' \in [Host -> [DraftIds -> DraftTypes \cup {None}]]
    BY <1>1, <1>2, <2>1
  <2> QED BY <1>2, <2>1, <2>3, <2>4, <2>5, Stepped
<1>5. CASE FailCall(h)
  <2>1. CASE c.at \in {"match", "load", "validate", "promote"}
    <3>1. c \in DraftCalls
      BY <1>1, <2>1, CallKinds DEF DraftCalls
    <3>2. Refuse(h, "failed")
      BY <1>5, <2>1 DEF FailCall
    <3> QED BY <3>1, <3>2, Refused
  <2>2. CASE c.at \notin {"match", "load", "validate", "promote"}
    BY <1>2, <1>5, <2>2, Went DEF FailCall
  <2> QED BY <2>1, <2>2
<1>6. CASE Crash(h)
  <2>1. /\ call' = [call EXCEPT ![h] = Idle] /\ reply' = NoReply /\ UNCHANGED <<log, brep>>
        /\ drafts' = [drafts EXCEPT ![h] = [id \in DraftIds |-> None]]
    BY <1>6 DEF Crash
  <2>2. drafts' \in [Host -> [DraftIds -> DraftTypes \cup {None}]]
    BY <1>1, <2>1
  <2>3. \A g \in Host, x \in DraftIds : drafts'[g][x] \in {drafts[g][x], None}
    BY <1>1, <2>1
  <2>4. DraftsOK(log, drafts')
    BY <1>1, <2>3 DEF DraftsOK
  <2> QED BY <2>1, <2>2, <2>4, Ended
<1> QED BY <1>3, <1>4, <1>5, <1>6

LEMMA NextKeepsHostInv == HostInv /\ [Next]_vars => HostInv'
<1> SUFFICES ASSUME HostInv, [Next]_vars PROVE HostInv'
  OBVIOUS
<1>1. CASE UNCHANGED vars
  BY <1>1 DEF vars, HostInv, Typed, BrepIsOfTheRevision, AnswersAreTrue
<1>2. CASE AppendFeature \/ LoseBrep
  BY <1>2, OthersKeepHostInv
<1>3. ASSUME NEW h \in Host, NEW id \in DraftIds, NEW dims \in Dims,
             OpenDraft(h, id, dims) \/ UpdateDraft(h, id, dims)
      PROVE  HostInv'
  BY <1>3, DraftBookkeepingKeepsHostInv
<1>4. ASSUME NEW h \in Host, NEW id \in DraftIds, DiscardDraft(h, id) \/ CommitDraft(h, id)
      PROVE  HostInv'
  BY <1>4, HostAssumption, DraftBookkeepingKeepsHostInv
<1>5. ASSUME NEW h \in Host, BindDraft(h)
      PROVE  HostInv'
  <2>1. call[h] \in CallTypes
    BY DEF HostInv, Typed
  <2>2. call[h].id \in DraftIds
    BY <1>5, <2>1, CallKinds, CallParts DEF BindDraft
  <2> QED BY <1>5, <2>2, HostAssumption, DraftBookkeepingKeepsHostInv
<1>6. ASSUME NEW h \in Host,
             MatchCommitted(h) \/ LoadSource(h) \/ ValidateSource(h) \/ ReconcilePromotion(h)
               \/ ClassifyError(h)
      PROVE  HostInv'
  BY <1>6, CommitReadingKeepsHostInv
<1>7. ASSUME NEW h \in Host, PromoteDraft(h)
      PROVE  HostInv'
  BY <1>7, PromoteDraftKeepsHostInv
<1>8. ASSUME NEW h \in Host, NEW operation \in Operations, NEW dims \in Dims,
             OpenHistory(h, operation, dims)
      PROVE  HostInv'
  BY <1>8, HistoryReadingKeepsHostInv
<1>9. ASSUME NEW h \in Host, StageHistory(h) \/ NameRevision(h)
      PROVE  HostInv'
  BY <1>9, HistoryReadingKeepsHostInv
<1>10. ASSUME NEW h \in Host, PublishHistory(h)
       PROVE  HostInv'
  BY <1>10, PublishHistoryKeepsHostInv
<1>11. ASSUME NEW h \in Host, OpenReplay(h) \/ RestoreBrep(h) \/ FailCall(h) \/ Crash(h)
       PROVE  HostInv'
  BY <1>11, ReplayAndFailureKeepHostInv
<1> QED BY <1>1, <1>2, <1>3, <1>4, <1>5, <1>6, <1>7, <1>8, <1>9, <1>10, <1>11 DEF Next

LEMMA HostInvHolds == Spec => []HostInv
BY InitEstablishesHostInv, NextKeepsHostInv, PTL DEF Spec

LEMMA InvariantImplies ==
    ASSUME HostInv
    PROVE  DraftsAreFaithful /\ EventsFollowTheirBase /\ BrepIsOfTheRevision
<1>1. DraftsAreFaithful
  <2>1. Typed /\ DraftsOK(log, drafts) /\ LogOK(log) /\ DOMAIN log = 1 .. Len(log)
    BY ReadingALog DEF HostInv
  <2>2. TypeOK
    <3> SUFFICES ASSUME NEW h \in Host, NEW id \in DraftIds, drafts[h][id] # None
                 PROVE  drafts[h][id] \in [dims : Dims, source : DOMAIN log, brep : Dims]
      BY <2>1 DEF TypeOK, Typed
    <3>1. drafts[h][id] \in DraftTypes /\ drafts[h][id].source \in DOMAIN log
      BY <2>1 DEF Typed, DraftsOK
    <3> QED BY <3>1 DEF DraftTypes
  <2>3. DraftAppliedOnce
    BY <2>1 DEF LogOK, DraftOnce, DraftAppliedOnce
  <2> QED BY <2>2, <2>3 DEF HostInv, DraftsAreFaithful
<1>2. EventsFollowTheirBase
  BY DEF HostInv, LogOK, EventsFollow, EventsFollowTheirBase, Displaced
<1> QED BY <1>1, <1>2 DEF HostInv

\* However many hosts commit, retry, crash and open drafts of the same id, a
\* draft id is published at most once, "ok" is told only of dimensions that a
\* committed draft or the creation brought, and a draft told to be stale or of
\* a changed source was never published
\* (commit_bracket_parameter_draft and its reconciliations).
THEOREM DraftsAreCommittedOnce == Spec => []DraftsAreFaithful
BY HostInvHolds, InvariantImplies, PTL

\* Every history event in the log displaces the snapshot that was active right
\* before it: an undo, redo, historical edit or Named Revision that another
\* host overtook is refused (commit_history_event_with_geometry).
THEOREM EventsAreOfTheirBase == Spec => []EventsFollowTheirBase
BY HostInvHolds, InvariantImplies, PTL

\* The BREP file is absent or the geometry of the last bracket entry in the
\* log, whichever host wrote or restored it (load_with_geometry_replay).
THEOREM GeometryIsOfTheRevision == Spec => []BrepIsOfTheRevision
BY HostInvHolds, InvariantImplies, PTL
==============================================================================
