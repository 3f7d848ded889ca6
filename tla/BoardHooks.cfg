SPECIFICATION Spec
CONSTANTS
    None = None
    w1 = w1
    w2 = w2
    Workers = {w1, w2}
    Tasks <- HookTasks
    MaxScenes = 2
    MaxChapters = 1
    MaxIndex = 2
    Outlines <- One
    Plans <- Pair
    Summaries = FALSE
SYMMETRY Symmetry
INVARIANTS HookOpens
PROPERTIES HookSurvivesReplan
CHECK_DEADLOCK FALSE
