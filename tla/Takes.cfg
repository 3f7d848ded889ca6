SPECIFICATION Spec
CONSTANTS
    Scenes = {s1, s2}
    MinStills = 1
    MinClips = 0
    ForceStills = FALSE
    ForceClips = TRUE
    Conc = 2
    Passes = 2
    MaxFails <- OneMore
    Requests = 2
INVARIANTS GeneratedSlotsDiffer StillsAreIn StillTriesAreCapped
SYMMETRY Alike
CHECK_DEADLOCK FALSE
