SPECIFICATION TerminalSpec
CONSTANTS
    f1 = f1
    f2 = f2
    orbit = orbit
    pan = pan
    extrude = extrude
    r = r
    Features <- MCFeatures
    Graphs <- MCGraphs
    Tools <- MCTools
    NoTool = NoTool
    Commands <- MCCommands
    NoCommand = NoCommand
    Names <- MCNames
    MaxRevision = 1
    MaxGeneration = 2
    Frames <- MCFrames
    NoFrame = NoFrame
    MaxToken = 4
    MaxReplies = 2
CHECK_DEADLOCK FALSE
INVARIANTS
    AxesAgree
    LayersAgree
PROPERTIES
    NewestWins
