SPECIFICATION Spec
CONSTANTS
    None = None
    c1 = c1
    c2 = c2
    b1 = b1
    b2 = b2
    Clients = {c1, c2}
    Keys = {k1}
    Bodies = {b1, b2}
    Offered = {"rough_cut"}
    CreditCap = 1
    Scenes = 2
    MaxJobs = 3
    MaxDeaths = 1
SYMMETRY Symmetry
INVARIANTS ToldOfOneJob OvershootIsBounded LostOnlyWhenCut
PROPERTIES SpentKeyIsSpent
CHECK_DEADLOCK FALSE
