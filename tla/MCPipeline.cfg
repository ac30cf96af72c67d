SPECIFICATION Spec
CONSTANTS
    d1 = d1
    d2 = d2
    m1 = m1
    Nobody = Nobody
    DagRuns = {d1, d2}
    MakeRuns = {m1}
    FileCount = 2
    DateOf <- MCDateOf
    Throughs = {0, 2}
INVARIANTS
    TypeOK
    FailedRunIsMailed
PROPERTIES
    ServesOwnBuild
    RunsEnd
    FreshAfterDrop
