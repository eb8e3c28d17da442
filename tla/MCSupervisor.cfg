SPECIFICATION FairSpec
CONSTANTS
    Wire <- MCWire
    MaxWrites = 3
    Events <- MCEvents
CHECK_DEADLOCK FALSE
INVARIANTS
    CompletionIsFaithful
    AcceptedIsQuiet
    CancelWins
    FailureKeepsNothing
PROPERTIES
    RequestEnds
