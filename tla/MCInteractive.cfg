SPECIFICATION FairSpec
CONSTANTS
    f = f
    select = select
    orbit = orbit
    Features <- MCFeatures
    Graphs <- MCGraphs
    Graph <- MCGraph
    Commands <- MCCommands
    Names <- MCNames
    Frames <- MCFrames
    Tools <- MCTools
    SelectionTool = select
    NoTool = NoTool
    NoCommand = NoCommand
    NoFrame = NoFrame
    NoInput = NoInput
    MaxRevision = 3
    MaxGeneration = 4
    MaxToken = 3
INVARIANTS
    EvidenceIsOfTheScene
    PreviewIsOfTheDraft
    SettledBetweenInputs
PROPERTIES
    CommitWasPreviewed
    EveryFrameIsShown
CHECK_DEADLOCK FALSE
