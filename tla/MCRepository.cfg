SPECIFICATION MCSpec
CONSTANTS
    c1 = c1
    c2 = c2
    attribution = attribution
    s1 = s1
    s2 = s2
    good = good
    red = red
    blind = blind
    b1 = b1
    b2 = b2
    p = p
    x = x
    y = y
    w1 = w1
    w2 = w2
    Codes = {c1, c2}
    Goldens = {attribution}
    Seeded = Seeded
    Absent = Absent
    Cut = Cut
    Edited = Edited
    part = part
    Parts = {part}
    Blend = Blend
    None = None
    Sweeps = {s1, s2}
    Commits = {good, red, blind}
    Lines = 2
    Red = {red}
    Unfit <- MCUnfit
    Caught <- MCCaught
    NoCommit = NoCommit
    NoListing = NoListing
    Blocks = {b1, b2}
    Prose = {p}
    Renderings = {x, y}
    Drafts <- MCDrafts
    Writers = {w1, w2}
    NoBlock = NoBlock
    NoLine = NoLine
SYMMETRY Alike
INVARIANTS
    RepositoryTypeOK
    GoldensKept
    GoldenIsReproduced
    OkIsEarned
    BlocksKept
