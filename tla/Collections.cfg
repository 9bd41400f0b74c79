CONSTANTS
    Names <- MCNames
    Groups = {g1}
    MaxTTL = 2
    PerSecond = 2
    ByteBits = 4
    IntBits = 4
    BitOffsets = {}
    Fields = {}
    Texts <- MCTexts
    Deltas <- MCDeltas
    MaxFloat = 1
    MaxBulk = 3
    Members = {1, 2}
    Items = {1, 2}
    Scores <- MCScores
    Weights <- MCWeights
SPECIFICATION Spec
CHECK_DEADLOCK FALSE
INVARIANTS ReadersAgree WritesExact OptionsGuarded
PROPERTIES KeyspaceImplemented
