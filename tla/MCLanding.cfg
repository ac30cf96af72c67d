SPECIFICATION Spec
CONSTANTS
    Files <- MCFiles
    DateOf <- MCDateOf
    Rows <- MCRows
    FileOf <- MCFileOf
    Identity <- MCIdentity
    Payload <- MCPayload
    Throughs = {1, 2, 3}
    Nothing = Nothing
INVARIANTS
    TypeOK
    LandedWhole
    NeverConflicting
PROPERTIES
    IsRawEvents
