SPECIFICATION ProjectSpec
CONSTANTS
    l = l
    note = note
    Bracket <- MCBracket
    Dims <- MCDims
    Value <- MCValue
    UserName <- MCUserName
    Loose <- MCLoose
    LooseKind <- MCLooseKind
    EditPart <- MCEditPart
    None = None
    MaxOrdinal = 3
    MaxLog = 0
CHECK_DEADLOCK FALSE
PROPERTIES
    EveryRestoreBringsBackFeatures
