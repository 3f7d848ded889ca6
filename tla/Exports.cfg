SPECIFICATION Spec
CONSTANTS
    NScenes = 2
    NAssets = 3
    SceneOf <- TakeScene
    KindOf <- TakeKind
    UseAll = FALSE
    VoicePad = 1
    Outro = 0
    Workers = {w1}
    CompileEnabled = TRUE
    Timelines <- OneEach
    Library0 <- Media
    Narration0 <- Voiced
    Lasts = {1}
    MaxJobs = 2
    MaxEdits = 2
INVARIANTS TypeOK FinalInSync FinalShowsTimeline NoRejectedTake
PROPERTIES RepairSettles RejectionStands
CHECK_DEADLOCK FALSE
