SPECIFICATION Spec
CONSTANTS
    Scenes = {s1}
    MinStills = 0
    MinClips = 1
    ForceStills = FALSE
    ForceClips = FALSE
    Conc = 1
    Passes = 2
    MaxFails <- NoClips
    Requests = 0
INVARIANT ClipTriesAreCapped
CHECK_DEADLOCK FALSE
