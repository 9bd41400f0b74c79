CONSTANTS
    Names <- MCNames
    Groups = {g1}
    MaxTTL = 2
    ByteBits = 4
    IntBits = 4
    BitOffsets <- MCBitOffsets
    Fields <- MCFields
    Texts <- MCTexts
    Deltas <- MCDeltas
    MaxFloat = 17
    MaxBulk = 3
    PerSecond = 2
SPECIFICATION Spec
CHECK_DEADLOCK FALSE
INVARIANTS StringReadersAgree BitFieldExact
PROPERTIES KeyspaceImplemented EditsExact GroupsFollowStream
