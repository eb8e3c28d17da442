SPECIFICATION FairSpec
CONSTANTS
    p1 = p1
    p2 = p2
    retried = retried
    reused = reused
    plain = plain
    k1 = k1
    Proc <- MCProc
    Txn <- MCTxn
    KeyOf <- MCKeyOf
    NoKey = NoKey
    Load = Load
    Absent = Absent
    Torn = Torn
    PriorEpoch = PriorEpoch
    NoProc = NoProc
    MaxLog = 2
INVARIANTS
    AlwaysRecoverable
    AckedNeverLost
    PredecessorRetained
    KeyAppliedOnce
    SnapshotIsCommitted
PROPERTIES
    FencedGrowth
    RefusedLeavesNoTrace
    ImplementsStore
    EveryRequestEnds
