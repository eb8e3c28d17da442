SPECIFICATION ProjectSpec
CONSTANTS
    l = l
    note = note
    Bracket <- MCBracket
    Dims <- MCDims
    Value <- MCValue
    UserName <- MCUserName
    Loose <- MCLoose
    LooseKind <- MCLooseKind
    EditPart <- MCEditPart
    None = None
    MaxOrdinal = 5
    MaxLog = 2
CHECK_DEADLOCK FALSE
INVARIANTS
    EvaluationIsSound
    DisplacedStaysNamed
    TimelineIsSound
    AlwaysOpens
PROPERTIES
    NamedImmutable
    RestoreBringsBackFeatures
