SPECIFICATION Spec
CONSTANTS
    None = None
    w1 = w1
    w2 = w2
    Workers = {w1, w2}
    Tasks <- StoryTasks
    MaxScenes = 2
    MaxChapters = 2
    MaxIndex = 2
    Outlines <- Two
    Plans <- Pair
    Summaries = FALSE
SYMMETRY Symmetry
PROPERTIES PlannedStaysPlanned PlannedPhaseIsEarned
CHECK_DEADLOCK FALSE
