SPECIFICATION Spec
CONSTANTS
    h1 = h1
    h2 = h2
    s1 = s1
    s2 = s2
    Host = {h1, h2}
    Stage = {s1, s2}
    None = None
    MaxGen = 3
SYMMETRY MCSymmetry
INVARIANTS
    ResultsAreOfTheirBase
PROPERTIES
    StageIsConsumed
