--------------------------- MODULE PipelineRules ---------------------------
(***************************************************************************)
(* The pure rules that route an agent run through the documentary          *)
(* pipeline: the order of its steps, what a resumed run may skip, how a    *)
(* gap found by oversight, a step the client asked for and the tail's hard *)
(* floor are merged.  A step is named as in OVERSIGHT_STEP_RANK; NoStep    *)
(* stands for Python's None.                                               *)
(***************************************************************************)
EXTENDS Naturals

NoStep == "none"

Rank ==
    [director |-> 0, research |-> 1, outline |-> 2, chapters |-> 3, thumbnail |-> 4,
     opening_hook |-> 5, scenes |-> 6, hook_scene |-> 7, outro |-> 8,
     story_research_review |-> 9, auto_characters |-> 10, auto_narration |-> 11,
     auto_scene_coverage |-> 12, auto_images |-> 13, auto_videos |-> 14,
     auto_timeline |-> 15, auto_rough_cut |-> 16, auto_final_cut |-> 17]

Steps     == DOMAIN Rank
TailSteps == {s \in Steps : Rank[s] >= 10}

(* workflow_phase_rank.                                                    *)
PhaseRank ==
    [draft |-> 0, director_ready |-> 1, research_ready |-> 2, research_approved |-> 3,
     outline_ready |-> 4, chapters_ready |-> 5, thumbnail_ready |-> 6, hook_ready |-> 7,
     scenes_planned |-> 8, outro_ready |-> 9, critique_complete |-> 11,
     final_video_ready |-> 12]

EarliestOf(S) == IF S = {} THEN NoStep
                 ELSE CHOOSE s \in S : \A t \in S : Rank[s] <= Rank[t]

(* merge_earliest_steps: the more conservative of two hints.               *)
Merge(a, b) == EarliestOf({a, b} \ {NoStep})

(* effective_resume_skip_with_force: a resumed run skips a step whose      *)
(* product it finds, before the earliest gap, unless the step is forced.   *)
Blocks(gap, step) == gap # NoStep /\ Rank[step] >= Rank[gap]
Skips(resuming, gap, force, step, would) ==
    /\ resuming
    /\ would
    /\ ~Blocks(gap, step)
    /\ step \notin force

(* The step the client chose to start from: rerun_from_step, or the        *)
(* earliest forced step.  It replaces what oversight found.                *)
ChosenStep(rerun, force) == IF rerun # NoStep THEN rerun ELSE EarliestOf(force)
ClampGap_BUG(gap, chosen) == Merge(gap, chosen)
ClampGap(gap, chosen) == IF chosen = NoStep THEN gap ELSE chosen

(* Where the media tail is entered; NoStep runs all of it.                 *)
TailEntry(gap) ==
    IF gap \in {"auto_characters", "auto_narration", "auto_images", "auto_videos"}
    THEN gap ELSE NoStep
NormalizeTail(entry, images, videos) ==
    IF \/ entry = "auto_videos" /\ ~videos
       \/ entry = "auto_images" /\ ~images /\ ~videos
    THEN "auto_timeline"
    ELSE IF entry = "auto_images" /\ ~images THEN "auto_videos" ELSE entry
ClampTail_BUG(entry, floor) == entry
ClampTail(entry, floor) ==
    IF /\ floor # NoStep /\ entry \in TailSteps
       /\ Rank[entry] > Rank[floor]
    THEN floor ELSE entry

TailRuns_BUG(step, entry, force) == entry \in TailSteps => Rank[step] >= Rank[entry]
TailRuns(step, entry, force) ==
    \/ step \in force
    \/ entry \in TailSteps => Rank[step] >= Rank[entry]
=============================================================================
