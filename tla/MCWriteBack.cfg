SPECIFICATION Spec
CONSTANTS
    u1 = u1
    u2 = u2
    Users = {u1, u2}
    Runs = {r1, r2}
    Served <- MCServed
    AsOfs <- MCAsOfs
    Malformed = Malformed
    Absent = Absent
    Nothing = Nothing
    Warehouses <- MCWarehouses
INVARIANTS
    TypeOK
    NeverWedged
    GreatestIsServed
PROPERTIES
    IsSchedule
    RunsEnd
