SPECIFICATION Spec
CONSTANTS
    NChapters = 2
    Options <- MixedOptions
    ScriptLengths = {1, 3}
    HookLengths = {2}
    Hints = {"chapters", "auto_videos"}
    Oversight = TRUE
    MaxRuns = 2
    MaxIncidents = 1
INVARIANTS TypeOK FloorIsHonoured FilmIsWhole OutlineIsGated ForcedStepsRan
PROPERTIES NoMediaErased FocusedRerunKeepsScripts
CHECK_DEADLOCK FALSE
