SPECIFICATION Spec
CONSTANTS
    Files <- MCFiles
    DateOf <- MCDateOf
    Rows <- MCRows
    FileOf <- MCFileOf
    Identity <- MCIdentity
    Payload <- MCPayload
    Throughs = {0, 1, 2, 3}
    Nothing = Nothing
PROPERTY
    UnselectedDatesKept
