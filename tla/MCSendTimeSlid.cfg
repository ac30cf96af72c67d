SPECIFICATION Spec
CONSTANTS
    u1 = u1
    u2 = u2
    u3 = u3
    c1 = c1
    c2 = c2
    Users = {u1, u2, u3}
    Cohorts = {c1, c2}
    OpenEvents <- MCOpenEvents
    PromptEvents <- MCPromptEvents
    Dims <- MCDims
    Cos <- MCCos
    Sin <- MCSin
    Angle <- MCAngle
    Norm <- MCNorm
    FeatureWindow = 26
    PseudoCount = 2
    MaxShift = 120
    Absent = Absent
    Latent <- MCLatent
    Draws = {5, 40}
    DeliveryFault = 10
    ClockSkew = 10
    UploadFault = 10
    Chance <- MCChance
INVARIANT ForwardLandingsAreServed
