------------------------- MODULE AgentPipelineProofs -------------------------
(***************************************************************************)
(* What holds of the pipeline for any outline, any options the clients     *)
(* send, any advice and any number of runs: no run destroys the media of a *)
(* planned chapter, the media tail never exports past a missing still, no  *)
(* outline is written before its gate, a focused run leaves the scripts    *)
(* alone, and a full run that succeeds has run what its client forced and  *)
(* delivered a film of all its scenes.                                     *)
(***************************************************************************)
EXTENDS AgentPipeline, WellFoundedInduction, TLAPS

(* The steps of the tail, in three stretches: before the character bible,  *)
(* before the stills, and after them.                                      *)
BeforeStills == {"auto_narration", "auto_images"}
AfterStills  == {"auto_videos", "auto_timeline", "auto_rough_cut", "auto_final_cut"}
InTail       == {"ensure", "auto_characters"} \cup BeforeStills \cup AfterStills

BoardOK ==
    /\ chapters \subseteq Chapters
    /\ scenes \subseteq Scenes
    /\ media \in [Kinds -> SUBSET Scenes]
    /\ \A kind \in Kinds : media[kind] \subseteq scenes

(* What is left to plan before the tail has no scene yet, so planning it   *)
(* destroys nothing.                                                       *)
TodoOK == pc = "ensure" => todo \subseteq Chapters /\ \A c \in todo : ~ChapterHolds(c)

(* While a still is missing, the tail's entry lets the still pass run.     *)
StillsComplete == opts.images => scenes \subseteq media["image"]
StillsAhead    == StillsComplete \/ TailRuns("auto_images", tail, opts.force)
TailOK ==
    /\ pc \in {"auto_characters"} \cup BeforeStills => StillsAhead
    /\ pc \in BeforeStills \cup AfterStills => chars
    /\ pc \in AfterStills => StillsComplete

IdleOK == pc = "idle" \/ status = "running"

RouteInv == BoardOK /\ TodoOK /\ TailOK /\ IdleOK

-----------------------------------------------------------------------------
(* Every step of OVERSIGHT_STEP_RANK has a rank.                           *)
LEMMA RankType == \A s \in Steps : Rank[s] \in 0..17
  BY DEF Steps, Rank

(* None is not the name of a step.                                         *)
LEMMA NoStepIsNoStep == NoStep \notin Steps
  BY DEF Steps, Rank, NoStep

(* A step before the tail is followed by none of the tail.                 *)
LEMMA NextStepStaysBefore ==
    \A step \in DOMAIN NextStep : step \notin InTail /\ NextStep[step] \notin InTail
  BY DEF NextStep, InTail, BeforeStills, AfterStills

(* Clamped to a floor of the tail, an entry lets the floor's step run, and *)
(* every later one (clamp_tail_resume_to_hard_floor).                      *)
LEMMA ClampedEntryRunsFloor ==
    ASSUME NEW entry, NEW floor \in TailSteps, NEW force, NEW step \in TailSteps,
           Rank[floor] <= Rank[step]
    PROVE  TailRuns(step, ClampTail(entry, floor), force)
<1>1. /\ Rank[floor] \in Nat /\ Rank[step] \in Nat /\ floor # NoStep
      /\ entry \in TailSteps => Rank[entry] \in Nat
  <2>1. TailSteps \subseteq Steps
    BY DEF TailSteps
  <2> QED
    BY <2>1, NoStepIsNoStep, RankType
<1>2. CASE entry \in TailSteps
  BY <1>1, <1>2 DEF TailRuns, ClampTail
<1>3. CASE entry \notin TailSteps
  BY <1>1, <1>3 DEF TailRuns, ClampTail
<1> QED
  BY <1>2, <1>3

-----------------------------------------------------------------------------
(* The empty project of a new client is well routed.                       *)
LEMMA InitRoute == Init => RouteInv
  BY DEF Init, RouteInv, BoardOK, TodoOK, TailOK, IdleOK, Kinds, Scenes, BeforeStills,
         AfterStills

(* A step that ends outside the tail and keeps the board well formed.      *)
LEMMA OutsideTail ==
    ASSUME BoardOK', IdleOK', pc' \notin InTail
    PROVE  RouteInv'
  BY DEF RouteInv, TodoOK, TailOK, InTail, BeforeStills, AfterStills

(* The shape of the board depends on chapters, scenes and media only.      *)
LEMMA BoardUnchanged ==
    ASSUME BoardOK, UNCHANGED <<chapters, board>>
    PROVE  BoardOK'
  BY DEF BoardOK, board

(* The scene a chapter stands for is a scene, belongs to that chapter      *)
(* alone, and is neither the hook nor the outro.                           *)
LEMMA ChaptersAreScenes ==
    /\ Chapters \subseteq Scenes /\ Hook \in Scenes /\ Outro \in Scenes
    /\ Hook \notin Chapters /\ Outro \notin Chapters
    /\ \A c \in Chapters : c \in Rows(c) /\ \A d \in Chapters : c \in Rows(d) => c = d
  BY PipelineAssumption DEF Chapters, Scenes, Hook, Outro, Rows

(* The hook scene made anew keeps the media of every other scene.          *)
LEMMA FreshHook ==
    ASSUME BoardOK, NEW covered
    PROVE  /\ HookMedia(covered) \in [Kinds -> SUBSET Scenes]
           /\ \A kind \in Kinds : HookMedia(covered)[kind] \subseteq HookScenes
           /\ \A kind \in Kinds, c \in Chapters :
                 c \in media[kind] => c \in HookMedia(covered)[kind]
<1> DEFINE new == IF covered THEN {Hook} ELSE {}
<1>1. new \subseteq {Hook}
  OBVIOUS
<1>2. HookMedia(covered) = [Without({Hook}) EXCEPT !["image"] = @ \cup new]
  BY DEF HookMedia
<1>3. Without({Hook}) \in [Kinds -> SUBSET Scenes]
  BY DEF BoardOK, Without
<1> QED
  BY <1>1, <1>2, <1>3, ChaptersAreScenes DEF BoardOK, Without, HookScenes, Kinds

(* The steps before the tail, and whatever begins a run or ends it.        *)
LEMMA OutsideStep ==
    ASSUME RouteInv,
           \/ \E o \in Options : Launch(o)
           \/ Reenter
           \/ Halt
           \/ Fail
           \/ CoverCopyFails
           \/ UploadCover
           \/ \E c \in Chapters : EditScript(c)
           \/ \E found \in Steps \cup {NoStep} : \E hint \in Hints \cup {NoStep} :
                 Oversee(found, hint)
           \/ Preflight
           \/ \E step \in DOMAIN NextStep : SkipStep(step)
           \/ Direct
           \/ \E d \in {"thin", "met"} : Research(d)
           \/ GateAfterSkip
           \/ Approve
           \/ Outline
           \/ \E lengths \in [Chapters -> ScriptLengths] : WriteScripts(lengths)
           \/ StopAfterScripts
           \/ \E drawn \in BOOLEAN : Thumbnail(drawn)
           \/ \E text \in HookLengths : OpeningHook(text)
           \/ PlanScenes
           \/ ScenesPlanned
           \/ \E c \in Chapters : PlanChapter(c)
           \/ HookScene
           \/ OutroScene
           \/ FinalCut
    PROVE  RouteInv'
<1> USE DEF RouteInv
<1>Launch. ASSUME NEW o \in Options, Launch(o)
           PROVE  RouteInv'
  <2>1. IdleOK' /\ pc' \notin InTail
    BY <1>Launch DEF Launch, IdleOK, InTail, BeforeStills, AfterStills
  <2>2. BoardOK'
    BY <1>Launch, BoardUnchanged DEF Launch, product, texts, publish, board, made
  <2> QED
    BY <2>1, <2>2, OutsideTail
<1>Reenter. CASE Reenter
  <2>1. IdleOK' /\ pc' \notin InTail
    BY <1>Reenter DEF Reenter, IdleOK, GoTo, InTail, BeforeStills, AfterStills
  <2>2. BoardOK'
    BY <1>Reenter, BoardUnchanged DEF Reenter, product, texts, publish, board, made
  <2> QED
    BY <2>1, <2>2, OutsideTail
<1>Halt. CASE Halt
  <2>1. IdleOK' /\ pc' \notin InTail
    BY <1>Halt DEF Halt, IdleOK, End, InTail, BeforeStills, AfterStills
  <2>2. BoardOK'
    BY <1>Halt, BoardUnchanged DEF Halt, product, texts, publish, board, made
  <2> QED
    BY <2>1, <2>2, OutsideTail
<1>Fail. CASE Fail
  <2>1. IdleOK' /\ pc' \notin InTail
    BY <1>Fail DEF Fail, IdleOK, End, InTail, BeforeStills, AfterStills
  <2>2. BoardOK'
    BY <1>Fail, BoardUnchanged DEF Fail, product, texts, publish, board, made
  <2> QED
    BY <2>1, <2>2, OutsideTail
<1>CoverCopyFails. CASE CoverCopyFails
  <2>1. IdleOK' /\ pc' \notin InTail
    BY <1>CoverCopyFails DEF CoverCopyFails, IdleOK, End, InTail, BeforeStills, AfterStills
  <2>2. BoardOK'
    <3>1. CASE media' = HookMedia(FALSE)
      BY <1>CoverCopyFails, <3>1, ChaptersAreScenes, FreshHook
         DEF CoverCopyFails, BoardOK, Kinds, HookScenes, texts
    <3>2. CASE media' \in {media, [media EXCEPT !["image"] = @ \ {Hook}]}
      BY <1>CoverCopyFails, <3>2, ChaptersAreScenes
         DEF CoverCopyFails, BoardOK, Kinds, HookScenes, texts
    <3> QED
      BY <1>CoverCopyFails, <3>1, <3>2 DEF CoverCopyFails
  <2> QED
    BY <2>1, <2>2, OutsideTail
<1>UploadCover. CASE UploadCover
  <2>1. IdleOK' /\ pc' \notin InTail
    BY <1>UploadCover DEF UploadCover, IdleOK, InTail, BeforeStills, AfterStills
  <2>2. BoardOK'
    BY <1>UploadCover, ChaptersAreScenes
       DEF UploadCover, BoardOK, Kinds, SyncHook, HookMedia, HookScenes, Without, product,
           texts, publish, board, made
  <2> QED
    BY <2>1, <2>2, OutsideTail
<1>EditScript. ASSUME NEW c \in Chapters, EditScript(c)
               PROVE  RouteInv'
  <2>1. IdleOK' /\ pc' \notin InTail
    BY <1>EditScript DEF EditScript, IdleOK, InTail, BeforeStills, AfterStills
  <2>2. BoardOK'
    BY <1>EditScript, BoardUnchanged DEF EditScript, product, texts, publish, board, made
  <2> QED
    BY <2>1, <2>2, OutsideTail
<1>Oversee. ASSUME NEW found \in Steps \cup {NoStep}, NEW hint \in Hints \cup {NoStep},
                   Oversee(found, hint)
            PROVE  RouteInv'
  <2>1. IdleOK' /\ pc' \notin InTail
    BY <1>Oversee DEF Oversee, IdleOK, GoTo, At, InTail, BeforeStills, AfterStills
  <2>2. BoardOK'
    BY <1>Oversee, BoardUnchanged DEF Oversee, product, texts, publish, board, made
  <2> QED
    BY <2>1, <2>2, OutsideTail
<1>Preflight. CASE Preflight
  <2>1. IdleOK' /\ pc' \notin InTail
    BY <1>Preflight DEF Preflight, IdleOK, GoTo, At, InTail, BeforeStills, AfterStills
  <2>2. BoardOK'
    BY <1>Preflight, BoardUnchanged DEF Preflight, product, texts, publish, board, made
  <2> QED
    BY <2>1, <2>2, OutsideTail
<1>SkipStep. ASSUME NEW step \in DOMAIN NextStep, SkipStep(step)
             PROVE  RouteInv'
  <2>1. IdleOK' /\ pc' \notin InTail
    BY <1>SkipStep, NextStepStaysBefore
       DEF SkipStep, IdleOK, GoTo, At, InTail, BeforeStills, AfterStills
  <2>2. BoardOK'
    BY <1>SkipStep, BoardUnchanged DEF SkipStep, product, texts, publish, board, made
  <2> QED
    BY <2>1, <2>2, OutsideTail
<1>Direct. CASE Direct
  <2>1. IdleOK' /\ pc' \notin InTail
    BY <1>Direct
       DEF Direct, IdleOK, Advance, GoTo, Executes, At, NextStep, InTail, BeforeStills,
           AfterStills
  <2>2. BoardOK'
    BY <1>Direct, BoardUnchanged DEF Direct, Advance, product, texts, publish, board, made
  <2> QED
    BY <2>1, <2>2, OutsideTail
<1>Research. ASSUME NEW d \in {"thin", "met"}, Research(d)
             PROVE  RouteInv'
  <2>1. IdleOK' /\ pc' \notin InTail
    BY <1>Research
       DEF Research, IdleOK, GoTo, End, Executes, At, InTail, BeforeStills, AfterStills
  <2>2. BoardOK'
    BY <1>Research, BoardUnchanged DEF Research, product, texts, publish, board, made
  <2> QED
    BY <2>1, <2>2, OutsideTail
<1>GateAfterSkip. CASE GateAfterSkip
  <2>1. IdleOK' /\ pc' \notin InTail
    BY <1>GateAfterSkip
       DEF GateAfterSkip, IdleOK, GoTo, End, At, InTail, BeforeStills, AfterStills
  <2>2. BoardOK'
    BY <1>GateAfterSkip, BoardUnchanged DEF GateAfterSkip, product, texts, publish, board, made
  <2> QED
    BY <2>1, <2>2, OutsideTail
<1>Approve. CASE Approve
  <2>1. IdleOK' /\ pc' \notin InTail
    BY <1>Approve DEF Approve, IdleOK, GoTo, At, InTail, BeforeStills, AfterStills
  <2>2. BoardOK'
    BY <1>Approve, BoardUnchanged DEF Approve, product, texts, publish, board, made
  <2> QED
    BY <2>1, <2>2, OutsideTail
<1>Outline. CASE Outline
  <2>1. IdleOK' /\ pc' \notin InTail
    BY <1>Outline
       DEF Outline, IdleOK, Advance, GoTo, Executes, At, NextStep, InTail, BeforeStills,
           AfterStills
  <2>2. BoardOK'
    BY <1>Outline DEF Outline, BoardOK, Kinds, Without, product, texts, publish, board, made
  <2> QED
    BY <2>1, <2>2, OutsideTail
<1>WriteScripts. ASSUME NEW lengths \in [Chapters -> ScriptLengths], WriteScripts(lengths)
                 PROVE  RouteInv'
  <2>1. IdleOK' /\ pc' \notin InTail
    BY <1>WriteScripts
       DEF WriteScripts, IdleOK, Advance, GoTo, Executes, At, NextStep, InTail, BeforeStills,
           AfterStills
  <2>2. BoardOK'
    BY <1>WriteScripts, BoardUnchanged
       DEF WriteScripts, Advance, product, texts, publish, board, made
  <2> QED
    BY <2>1, <2>2, OutsideTail
<1>StopAfterScripts. CASE StopAfterScripts
  <2>1. IdleOK' /\ pc' \notin InTail
    BY <1>StopAfterScripts
       DEF StopAfterScripts, IdleOK, GoTo, End, At, InTail, BeforeStills, AfterStills
  <2>2. BoardOK'
    BY <1>StopAfterScripts, BoardUnchanged
       DEF StopAfterScripts, product, texts, publish, board, made
  <2> QED
    BY <2>1, <2>2, OutsideTail
<1>Thumbnail. ASSUME NEW drawn \in BOOLEAN, Thumbnail(drawn)
              PROVE  RouteInv'
  <2>1. IdleOK' /\ pc' \notin InTail
    BY <1>Thumbnail
       DEF Thumbnail, IdleOK, Advance, GoTo, Executes, At, NextStep, InTail, BeforeStills,
           AfterStills
  <2>2. BoardOK'
    BY <1>Thumbnail, ChaptersAreScenes
       DEF Thumbnail, BoardOK, Kinds, SyncHook, HookMedia, HookScenes, Without, product,
           texts, publish, board, made
  <2> QED
    BY <2>1, <2>2, OutsideTail
<1>OpeningHook. ASSUME NEW text \in HookLengths, OpeningHook(text)
                PROVE  RouteInv'
  <2>1. IdleOK' /\ pc' \notin InTail
    BY <1>OpeningHook
       DEF OpeningHook, IdleOK, Advance, GoTo, Executes, At, NextStep, InTail, BeforeStills,
           AfterStills
  <2>2. BoardOK'
    BY <1>OpeningHook, BoardUnchanged
       DEF OpeningHook, Advance, product, texts, publish, board, made
  <2> QED
    BY <2>1, <2>2, OutsideTail
<1>PlanScenes. CASE PlanScenes
  <2>1. IdleOK' /\ pc' \notin InTail
    BY <1>PlanScenes
       DEF PlanScenes, IdleOK, GoTo, Executes, At, InTail, BeforeStills, AfterStills
  <2>2. BoardOK'
    BY <1>PlanScenes, BoardUnchanged DEF PlanScenes, product, texts, publish, board, made
  <2> QED
    BY <2>1, <2>2, OutsideTail
<1>ScenesPlanned. CASE ScenesPlanned
  <2>1. IdleOK' /\ pc' \notin InTail
    BY <1>ScenesPlanned
       DEF ScenesPlanned, IdleOK, Advance, GoTo, Executes, At, NextStep, InTail, BeforeStills,
           AfterStills
  <2>2. BoardOK'
    BY <1>ScenesPlanned, BoardUnchanged
       DEF ScenesPlanned, Advance, product, texts, publish, board, made
  <2> QED
    BY <2>1, <2>2, OutsideTail
<1>PlanChapter. ASSUME NEW c \in Chapters, PlanChapter(c)
                PROVE  RouteInv'
  <2>1. IdleOK' /\ pc' \notin InTail
    BY <1>PlanChapter DEF PlanChapter, IdleOK, At, Plan, InTail, BeforeStills, AfterStills
  <2>2. BoardOK'
    BY <1>PlanChapter, ChaptersAreScenes
       DEF PlanChapter, BoardOK, Kinds, Plan, Without, product, texts, publish, board, made
  <2> QED
    BY <2>1, <2>2, OutsideTail
<1>HookScene. CASE HookScene
  <2>1. IdleOK' /\ pc' \notin InTail
    BY <1>HookScene
       DEF HookScene, IdleOK, Advance, GoTo, Executes, At, NextStep, InTail, BeforeStills,
           AfterStills
  <2>2. BoardOK'
    BY <1>HookScene, ChaptersAreScenes, FreshHook
       DEF HookScene, BoardOK, Kinds, HookScenes, product, texts, publish, board, made
  <2> QED
    BY <2>1, <2>2, OutsideTail
<1>OutroScene. CASE OutroScene
  <2>1. IdleOK' /\ pc' \notin InTail
    BY <1>OutroScene
       DEF OutroScene, IdleOK, Advance, GoTo, Executes, At, NextStep, InTail, BeforeStills,
           AfterStills
  <2>2. BoardOK'
    BY <1>OutroScene, ChaptersAreScenes
       DEF OutroScene, BoardOK, Kinds, Without, product, texts, publish, board, made
  <2> QED
    BY <2>1, <2>2, OutsideTail
<1>FinalCut. CASE FinalCut
  <2>1. IdleOK' /\ pc' \notin InTail
    BY <1>FinalCut DEF FinalCut, IdleOK, End, InTail, BeforeStills, AfterStills
  <2>2. BoardOK'
    BY <1>FinalCut, BoardUnchanged DEF FinalCut, product, texts, publish, board, made
  <2> QED
    BY <2>1, <2>2, OutsideTail
<1> QED
  BY <1>Launch, <1>Reenter, <1>Halt, <1>Fail, <1>CoverCopyFails, <1>UploadCover,
     <1>EditScript, <1>Oversee, <1>Preflight, <1>SkipStep, <1>Direct, <1>Research,
     <1>GateAfterSkip, <1>Approve, <1>Outline, <1>WriteScripts, <1>StopAfterScripts,
     <1>Thumbnail, <1>OpeningHook, <1>PlanScenes, <1>ScenesPlanned, <1>PlanChapter,
     <1>HookScene, <1>OutroScene, <1>FinalCut

(* The review decides what is left to plan; planning it finds no scene.    *)
LEMMA EnsureStep ==
    ASSUME RouteInv,
           \/ Review
           \/ \E c \in Chapters : EnsurePlan(c) \/ EnsureSkipped(c)
           \/ EnterTail
    PROVE  RouteInv'
<1> USE DEF RouteInv
<1>Review. CASE Review
  <2>1. BoardOK'
    BY <1>Review, BoardUnchanged DEF Review, texts, publish, board
  <2>2. IdleOK' /\ TodoOK'
    BY <1>Review DEF Review, IdleOK, TodoOK, BoardOK, At, GoTo, End, Scripted, ChapterHolds,
                     board, texts
  <2>3. TailOK'
    BY <1>Review DEF Review, TailOK, GoTo, End, BeforeStills, AfterStills
  <2> QED
    BY <2>1, <2>2, <2>3
<1>EnsurePlan. ASSUME NEW c \in Chapters, EnsurePlan(c)
               PROVE  RouteInv'
  <2>1. BoardOK'
    BY <1>EnsurePlan, ChaptersAreScenes DEF EnsurePlan, Plan, BoardOK, Without, Kinds, texts
  <2>2. IdleOK' /\ TailOK'
    BY <1>EnsurePlan DEF EnsurePlan, Plan, At, IdleOK, TailOK, BeforeStills, AfterStills
  <2>3. TodoOK'
    BY <1>EnsurePlan, ChaptersAreScenes
       DEF EnsurePlan, Plan, At, FirstToPlan, TodoOK, ChapterHolds
  <2> QED
    BY <2>1, <2>2, <2>3
<1>EnsureSkipped. ASSUME NEW c \in Chapters, EnsureSkipped(c)
                  PROVE  RouteInv'
  <2>1. BoardOK'
    BY <1>EnsureSkipped, BoardUnchanged DEF EnsureSkipped, product, texts, board
  <2>2. IdleOK' /\ TailOK'
    BY <1>EnsureSkipped DEF EnsureSkipped, At, IdleOK, TailOK, BeforeStills, AfterStills
  <2>3. TodoOK'
    BY <1>EnsureSkipped DEF EnsureSkipped, At, TodoOK, ChapterHolds, product, board
  <2> QED
    BY <2>1, <2>2, <2>3
<1>EnterTail. CASE EnterTail
  <2>1. BoardOK'
    BY <1>EnterTail, BoardUnchanged DEF EnterTail, product, texts, board
  <2>2. IdleOK' /\ TodoOK'
    BY <1>EnterTail DEF EnterTail, At, GoTo, IdleOK, TodoOK
  <2>3. StillsAhead'
    <3>1. CASE StillsComplete
      BY <1>EnterTail, <3>1 DEF EnterTail, StillsAhead, StillsComplete, product, board
    <3>2. CASE ~StillsComplete
      <4>1. /\ HardFloor \in {"auto_characters", "auto_images"}
            /\ {"auto_characters", "auto_images"} \subseteq TailSteps
            /\ Rank[HardFloor] <= Rank["auto_images"]
        BY <3>2 DEF HardFloor, StillsComplete, TailSteps, Steps, Rank
      <4>2. TailRuns("auto_images", tail', opts.force)
        BY <1>EnterTail, <4>1, ClampedEntryRunsFloor DEF EnterTail
      <4> QED
        BY <1>EnterTail, <4>2 DEF EnterTail, StillsAhead
    <3> QED
      BY <3>1, <3>2
  <2>4. TailOK'
    BY <1>EnterTail, <2>3 DEF EnterTail, GoTo, TailOK, BeforeStills, AfterStills
  <2> QED
    BY <2>1, <2>2, <2>4
<1> QED
  BY <1>Review, <1>EnsurePlan, <1>EnsureSkipped, <1>EnterTail

(* Inside the tail the stills only grow, and are complete once passed.     *)
LEMMA TailStep ==
    ASSUME RouteInv,
           \/ Characters
           \/ \E step \in MediaSteps : \/ \E got \in SUBSET Scenes : Make(step, got)
                                       \/ MediaDone(step)
                                       \/ MediaSkipped(step)
           \/ Timeline \/ RoughCut
    PROVE  RouteInv'
<1> USE DEF RouteInv, BeforeStills, AfterStills
<1>Characters. CASE Characters
  <2>1. BoardOK'
    BY <1>Characters, BoardUnchanged DEF Characters, texts, board
  <2>2. IdleOK' /\ TodoOK' /\ TailOK'
    BY <1>Characters DEF Characters, At, GoTo, IdleOK, TodoOK, TailOK, StillsAhead,
                         StillsComplete, board, route
  <2> QED
    BY <2>1, <2>2
<1>Make. ASSUME NEW step \in MediaSteps, NEW got \in SUBSET Scenes, Make(step, got)
         PROVE  RouteInv'
  <2>1. KindOf[step] \in Kinds
    BY <1>Make DEF MediaSteps, KindOf, Kinds
  <2>2. BoardOK' /\ media["image"] \subseteq media'["image"]
    BY <1>Make, <2>1 DEF Make, BoardOK, texts, Kinds
  <2>3. IdleOK' /\ TodoOK' /\ TailOK'
    BY <1>Make, <2>2 DEF Make, At, MediaSteps, IdleOK, TodoOK, TailOK, StillsAhead,
                         StillsComplete, route, made
  <2> QED
    BY <2>2, <2>3
<1>MediaDone. ASSUME NEW step \in MediaSteps, MediaDone(step)
              PROVE  RouteInv'
  <2>1. BoardOK'
    BY <1>MediaDone, BoardUnchanged DEF MediaDone, product, texts, board
  <2>2. pc = step /\ pc' = AfterMedia[step] /\ IdleOK' /\ TodoOK'
    BY <1>MediaDone DEF MediaDone, At, GoTo, IdleOK, TodoOK, AfterMedia, MediaSteps
  <2>3. TailOK'
    BY <1>MediaDone, <2>2 DEF MediaDone, MediaSteps, KindOf, AfterMedia, TailOK, StillsAhead,
                              StillsComplete, product, board, made, route
  <2> QED
    BY <2>1, <2>2, <2>3
<1>MediaSkipped. ASSUME NEW step \in MediaSteps, MediaSkipped(step)
                 PROVE  RouteInv'
  <2>1. BoardOK'
    BY <1>MediaSkipped, BoardUnchanged DEF MediaSkipped, product, texts, board
  <2>2. pc = step /\ pc' = AfterMedia[step] /\ IdleOK' /\ TodoOK'
    BY <1>MediaSkipped DEF MediaSkipped, At, GoTo, IdleOK, TodoOK, AfterMedia, MediaSteps
  <2>3. step = "auto_images" => StillsComplete
    BY <1>MediaSkipped, <2>2 DEF MediaSkipped, Passes, Enabled, TailOK, StillsAhead,
                                 StillsComplete
  <2>4. TailOK'
    BY <1>MediaSkipped, <2>2, <2>3
       DEF MediaSkipped, MediaSteps, AfterMedia, TailOK, StillsAhead, StillsComplete,
           product, board, made, route
  <2> QED
    BY <2>1, <2>2, <2>4
<1>Export. CASE Timeline \/ RoughCut
  <2>1. BoardOK'
    BY <1>Export, BoardUnchanged DEF Timeline, RoughCut, product, texts, board
  <2>2. IdleOK' /\ TodoOK' /\ TailOK'
    BY <1>Export DEF Timeline, RoughCut, At, GoTo, IdleOK, TodoOK, TailOK, StillsComplete,
                     product, board, made, route
  <2> QED
    BY <2>1, <2>2
<1> QED
  BY <1>Characters, <1>Make, <1>MediaDone, <1>MediaSkipped, <1>Export

(* Nothing of the route, the board or the position changes.                *)
LEMMA StutterStep == RouteInv /\ UNCHANGED vars => RouteInv'
  BY DEF RouteInv, BoardOK, TodoOK, TailOK, IdleOK, ChapterHolds, StillsAhead, StillsComplete,
         vars, product, texts, board, made, route

(* The route invariant is inductive: the steps before the tail, the review *)
(* and its planning, the tail, and stuttering.                             *)
LEMMA RouteInductive == RouteInv /\ [Next]_vars => RouteInv'
  BY OutsideStep, EnsureStep, TailStep, StutterStep DEF Next, Worker

(* In every reachable state media lies on scenes, chapters left to plan    *)
(* before the tail hold no scene, stills are complete behind the pass that *)
(* makes them, and a run that ended is nowhere (_run_agent_run_impl).      *)
THEOREM RouteInvariant == Spec => []RouteInv
  BY InitRoute, RouteInductive, PTL DEF Spec

(* The export never starts while a still that the run was to make is       *)
(* missing, however far ahead the tail was entered.                        *)
THEOREM FloorHonoured == Spec => []FloorIsHonoured
<1>1. RouteInv => FloorIsHonoured
  BY DEF RouteInv, TailOK, FloorIsHonoured, StillsComplete, AfterStills
<1> QED
  BY <1>1, RouteInvariant, PTL

-----------------------------------------------------------------------------
MediaKept == \A c \in Chapters, kind \in {"image", "video"} :
                c \in media[kind] => c \in media'[kind]

(* Synchronising the hook scene with a new cover touches no chapter scene  *)
(* (sync_hook_scene_from_project).                                         *)
LEMMA SyncKeepsMedia ==
    ASSUME BoardOK, NEW covered, SyncHook(covered)
    PROVE  MediaKept
  BY FreshHook, ChaptersAreScenes DEF BoardOK, SyncHook, Without, Kinds, MediaKept, board

(* A planned chapter held no scene, hence no media; only scenes that the   *)
(* hook, the outro and a refused replan stand for are ever made anew.      *)
LEMMA PlanKeepsMedia ==
    ASSUME BoardOK, NEW c \in Chapters, ~ChapterHolds(c), Plan(c)
    PROVE  MediaKept
  BY ChaptersAreScenes DEF BoardOK, Plan, ChapterHolds, Without, Kinds, MediaKept

(* Whatever happens to the project, chapter scenes keep their stills and   *)
(* clips.                                                                  *)
LEMMA StepKeepsMedia ==
    ASSUME RouteInv, [Next]_vars
    PROVE  MediaKept
<1> USE DEF RouteInv
<1>UploadCover. CASE UploadCover
  BY <1>UploadCover, SyncKeepsMedia DEF UploadCover
<1>Thumbnail. ASSUME NEW drawn \in BOOLEAN, Thumbnail(drawn)
              PROVE  MediaKept
  BY <1>Thumbnail, SyncKeepsMedia DEF Thumbnail
<1>HookScene. CASE HookScene
  BY <1>HookScene, FreshHook DEF HookScene, MediaKept, Kinds, board
<1>CoverCopyFails. CASE CoverCopyFails
  BY <1>CoverCopyFails, FreshHook, ChaptersAreScenes
     DEF CoverCopyFails, BoardOK, HookMedia, Without, MediaKept, Kinds
<1>OutroScene. CASE OutroScene
  BY <1>OutroScene, ChaptersAreScenes DEF OutroScene, BoardOK, Without, MediaKept, Kinds
<1>Outline. CASE Outline
  BY <1>Outline DEF Outline, HoldsContent, BoardOK, MediaKept, Kinds
<1>PlanChapter. ASSUME NEW c \in Chapters, PlanChapter(c) \/ EnsurePlan(c)
                PROVE  MediaKept
  BY <1>PlanChapter, PlanKeepsMedia DEF PlanChapter, EnsurePlan, At, FirstToPlan, TodoOK
<1>Make. ASSUME NEW step \in MediaSteps, NEW got \in SUBSET Scenes, Make(step, got)
         PROVE  MediaKept
  BY <1>Make DEF Make, BoardOK, MediaKept, Kinds, MediaSteps, KindOf
<1>others. CASE UNCHANGED media
  BY <1>others DEF MediaKept
<1> QED
  BY <1>UploadCover, <1>Thumbnail, <1>HookScene, <1>CoverCopyFails, <1>OutroScene, <1>Outline,
     <1>PlanChapter, <1>Make, <1>others
     DEF Next, Worker, Launch, Reenter, Halt, EditScript, Oversee, Preflight, SkipStep, Direct,
         Research, GateAfterSkip, Approve, WriteScripts, StopAfterScripts, OpeningHook,
         PlanScenes, ScenesPlanned, Review, EnsureSkipped, EnterTail, Characters, MediaDone,
         MediaSkipped, Timeline, RoughCut, FinalCut, Fail, vars, product, board

(* No run, resumed, forced, repeated or failed, destroys a still or a clip *)
(* of a planned chapter: every deletion the agent makes is refused by the  *)
(* erase gate unless there is nothing to delete.                           *)
THEOREM MediaSurvives == Spec => NoMediaErased
<1>1. RouteInv /\ [Next]_vars => [MediaKept]_vars
  BY StepKeepsMedia
<1> QED
  BY <1>1, RouteInvariant, PTL DEF Spec, NoMediaErased, MediaKept

-----------------------------------------------------------------------------
(* Where the run is between the research and the outline.                  *)
GateInv ==
    /\ pc \in {"research_gate", "approve"} => dossier # "none"
    /\ pc = "outline" => dossier # "none" /\ ~(Ph < 3)

(* What the worker knows of the dossier at the gate, it still knows at the *)
(* outline: no step takes a dossier away or moves the phase back under it. *)
LEMMA GateStep ==
    ASSUME IdleOK, GateInv, [Next]_vars
    PROVE  GateInv'
<1> USE DEF GateInv
<1>SkipStep. ASSUME NEW step \in DOMAIN NextStep, SkipStep(step)
             PROVE  GateInv'
  <2>1. /\ pc = step /\ pc' = NextStep[step] /\ dossier' = dossier
        /\ step = "research" => dossier # "none"
    BY <1>SkipStep
       DEF SkipStep, At, GoTo, Skipped, Skips, Found, ResearchUnwanted, product, texts
  <2> QED
    BY <2>1 DEF NextStep
<1>Research. ASSUME NEW d \in {"thin", "met"}, Research(d)
             PROVE  GateInv'
  BY <1>Research DEF Research, End, GoTo
<1>GateAfterSkip. CASE GateAfterSkip
  BY <1>GateAfterSkip DEF GateAfterSkip, At, End, GoTo, product, texts, Ph
<1>Approve. CASE Approve
  BY <1>Approve DEF Approve, At, GoTo, texts, Ph, PhaseRank
<1>others. CASE pc' \notin {"research_gate", "approve", "outline"}
  BY <1>others
<1>idle. CASE UploadCover \/ \E c \in Chapters : EditScript(c)
  BY <1>idle DEF UploadCover, EditScript, IdleOK
<1>stutter. CASE UNCHANGED vars
  BY <1>stutter DEF vars, product, texts, Ph
<1> QED
  <2>1. ASSUME \/ \E o \in Options : Launch(o)
               \/ Reenter \/ Halt \/ Fail \/ CoverCopyFails
               \/ \E found \in Steps \cup {NoStep}, hint \in Hints \cup {NoStep} :
                     Oversee(found, hint)
               \/ Preflight \/ Direct \/ Outline
               \/ \E lengths \in [Chapters -> ScriptLengths] : WriteScripts(lengths)
               \/ StopAfterScripts
               \/ \E drawn \in BOOLEAN : Thumbnail(drawn)
               \/ \E text \in HookLengths : OpeningHook(text)
               \/ PlanScenes \/ ScenesPlanned \/ HookScene \/ OutroScene \/ Review
        PROVE  pc' \notin {"research_gate", "approve", "outline"}
    BY <2>1
       DEF Launch, Reenter, Halt, Fail, CoverCopyFails, Oversee, Preflight, Direct, Outline,
           WriteScripts,
                StopAfterScripts, Thumbnail, OpeningHook, PlanScenes, ScenesPlanned, HookScene,
                OutroScene, Review, Advance, GoTo, End, NextStep
  <2>2. ASSUME \/ \E c \in Chapters : PlanChapter(c) \/ EnsurePlan(c) \/ EnsureSkipped(c)
               \/ EnterTail \/ Characters \/ Timeline \/ RoughCut \/ FinalCut
        PROVE  pc' \notin {"research_gate", "approve", "outline"}
    BY <2>2 DEF PlanChapter, EnsurePlan, EnsureSkipped, Plan, EnterTail, Characters, Timeline,
                RoughCut, FinalCut, At, GoTo, End
  <2>3. ASSUME NEW step \in MediaSteps, NEW got \in SUBSET Scenes,
               Make(step, got) \/ MediaDone(step) \/ MediaSkipped(step)
        PROVE  pc' \notin {"research_gate", "approve", "outline"}
    <3>1. CASE Make(step, got)
      BY <3>1 DEF Make, At, MediaSteps
    <3>2. CASE MediaDone(step) \/ MediaSkipped(step)
      BY <3>2 DEF MediaDone, MediaSkipped, GoTo, MediaSteps, AfterMedia
    <3> QED
      BY <2>3, <3>1, <3>2
  <2> QED
    BY <1>SkipStep, <1>Research, <1>GateAfterSkip, <1>Approve, <1>others, <1>idle, <1>stutter,
       <2>1, <2>2, <2>3
       DEF Next, Worker

(* No run writes an outline without a dossier, nor before the project      *)
(* passed the research gate or was moved past it.                          *)
THEOREM GatedOutline == Spec => []OutlineIsGated
<1>1. Init => GateInv
  BY DEF Init, GateInv
<1>2. RouteInv /\ GateInv /\ [Next]_vars => GateInv'
  BY GateStep DEF RouteInv
<1>3. GateInv => OutlineIsGated
  BY DEF GateInv, OutlineIsGated, Executes, At
<1> QED
  BY <1>1, <1>2, <1>3, RouteInvariant, PTL DEF Spec

-----------------------------------------------------------------------------
(* The route of a run started from a step, once it is fixed.               *)
PhaseOK    == phase \in DOMAIN PhaseRank
FocusedInv ==
    /\ PhaseOK
    /\ pc \notin {"idle", "oversight"} /\ opts.rerun # NoStep => cont /\ gap = opts.rerun

LEMMA PhaseStep ==
    ASSUME PhaseOK, [Next]_vars
    PROVE  PhaseOK'
<1>1. \/ phase' = phase
      \/ phase' \in {"director_ready", "research_ready", "research_approved", "outline_ready",
                     "chapters_ready", "thumbnail_ready", "hook_ready", "scenes_planned",
                     "outro_ready", "critique_complete", "final_video_ready"}
  BY DEF Next, Worker, Launch, Reenter, Halt, UploadCover, EditScript, Oversee, Preflight,
         SkipStep, Direct, Research, GateAfterSkip, Approve, Outline, WriteScripts,
         StopAfterScripts, Thumbnail, OpeningHook, PlanScenes, PlanChapter, EnsurePlan, Plan,
         EnsureSkipped, ScenesPlanned, HookScene, OutroScene, Review, EnterTail, Characters,
         Make, MediaDone, MediaSkipped, Timeline, RoughCut, FinalCut, Fail, CoverCopyFails, Advance,
         vars, product
<1> QED
  BY <1>1 DEF PhaseOK, PhaseRank

(* Only a launch, a repeated delivery and oversight touch the route that   *)
(* the rest of the run reads.                                              *)
LEMMA FocusedStep ==
    ASSUME FocusedInv, [Next]_vars
    PROVE  FocusedInv'
<1> USE DEF FocusedInv
<1>1. PhaseOK'
  BY PhaseStep
<1>2. CASE (\E o \in Options : Launch(o)) \/ Reenter
  BY <1>1, <1>2 DEF Launch, Reenter, GoTo
<1>3. ASSUME NEW found \in Steps \cup {NoStep}, NEW hint \in Hints \cup {NoStep},
             Oversee(found, hint)
      PROVE  FocusedInv'
  <2>1. opts' = opts
    BY <1>3 DEF Oversee
  <2>2. opts.rerun # NoStep => cont' /\ gap' = opts.rerun
    BY <1>3 DEF Oversee, ChosenStep, ClampGap
  <2> QED
    BY <1>1, <2>1, <2>2
<1>4. CASE /\ UNCHANGED <<opts, cont, gap>>
           /\ pc \in {"idle", "oversight"} => pc' \in {"idle", "oversight"}
  BY <1>1, <1>4
<1> QED
  <2>1. ASSUME \/ Halt \/ Fail \/ CoverCopyFails \/ UploadCover \/ FinalCut
               \/ \E c \in Chapters : EditScript(c)
               \/ UNCHANGED vars
        PROVE  /\ UNCHANGED <<opts, cont, gap>>
               /\ pc \in {"idle", "oversight"} => pc' \in {"idle", "oversight"}
    BY <2>1 DEF Halt, Fail, CoverCopyFails, UploadCover, EditScript, FinalCut, End, vars, route
  <2>2. ASSUME \/ Preflight \/ Direct \/ GateAfterSkip \/ Approve \/ Outline
               \/ \E d \in {"thin", "met"} : Research(d)
               \/ \E lengths \in [Chapters -> ScriptLengths] : WriteScripts(lengths)
               \/ StopAfterScripts
               \/ \E drawn \in BOOLEAN : Thumbnail(drawn)
               \/ \E text \in HookLengths : OpeningHook(text)
               \/ PlanScenes \/ ScenesPlanned \/ HookScene \/ OutroScene \/ Review
        PROVE  UNCHANGED <<opts, cont, gap>> /\ pc \notin {"idle", "oversight"}
    BY <2>2 DEF Preflight, Direct, Research, GateAfterSkip, Approve, Outline, WriteScripts,
                StopAfterScripts, Thumbnail, OpeningHook, PlanScenes, ScenesPlanned, HookScene,
                OutroScene, Review, Advance, Executes, At, route
  <2>3. ASSUME \/ \E c \in Chapters : PlanChapter(c) \/ EnsurePlan(c) \/ EnsureSkipped(c)
               \/ EnterTail \/ Characters \/ Timeline \/ RoughCut
               \/ \E step \in DOMAIN NextStep : SkipStep(step)
               \/ \E step \in MediaSteps : \/ \E got \in SUBSET Scenes : Make(step, got)
                                           \/ MediaDone(step)
                                           \/ MediaSkipped(step)
        PROVE  UNCHANGED <<opts, cont, gap>> /\ pc \notin {"idle", "oversight"}
    BY <2>3 DEF PlanChapter, EnsurePlan, EnsureSkipped, Plan, EnterTail, Characters, Timeline,
                RoughCut, SkipStep, Make, MediaDone, MediaSkipped, At, route, NextStep,
                MediaSteps
  <2> QED
    BY <1>2, <1>3, <1>4, <2>1, <2>2, <2>3 DEF Next, Worker

(* With scripts found and the gap pinned to a later step, the outline and  *)
(* the scripts are skipped.                                                *)
LEMMA FocusedSkipsScripts ==
    ASSUME FocusedInv, Focused, Ph >= 5, pc \in {"outline", "chapters"}
    PROVE  Skipped("outline") /\ Skipped("chapters")
<1>1. Ph \in Nat
  BY DEF FocusedInv, PhaseOK, Ph, PhaseRank
<1>2. /\ Found("outline") /\ Found("chapters")
      /\ "outline" \notin opts.force /\ "chapters" \notin opts.force
      /\ cont /\ ~Blocks(gap, "outline") /\ ~Blocks(gap, "chapters")
  <2>1. Found("outline") /\ Found("chapters")
    BY <1>1 DEF Found
  <2>2. cont /\ gap = opts.rerun
    BY NoStepIsNoStep DEF FocusedInv, Focused
  <2>3. "outline" \notin opts.force /\ "chapters" \notin opts.force
    BY DEF Focused, Rank
  <2>4. ~Blocks(gap, "outline") /\ ~Blocks(gap, "chapters")
    <3>1. gap \in Steps
      BY <2>2 DEF Focused
    <3>2. Rank[gap] \in Nat /\ Rank["outline"] = 2 /\ Rank["chapters"] = 3
      BY <3>1, RankType DEF Rank
    <3> QED
      BY <2>2, <3>2 DEF Blocks, Focused
  <2> QED
    BY <2>1, <2>2, <2>3, <2>4
<1> QED
  BY <1>2 DEF Skipped, Skips

(* A worker step of a focused run on a project with scripts writes none.   *)
LEMMA ScriptsKept ==
    ASSUME FocusedInv, IdleOK, [Next]_vars, status = "running", Focused, Ph >= 5
    PROVE  script' = script
<1>1. ~Outline /\ \A lengths \in [Chapters -> ScriptLengths] : ~WriteScripts(lengths)
  BY FocusedSkipsScripts DEF Outline, WriteScripts, Executes, At
<1>2. CASE UNCHANGED vars
  BY <1>2 DEF vars, product, texts
<1>3. CASE Next
  BY <1>1, <1>3
     DEF Next, Worker, Launch, Reenter, Halt, UploadCover, EditScript, Oversee, Preflight,
         SkipStep, Direct, Research, GateAfterSkip, Approve, StopAfterScripts, Thumbnail,
         OpeningHook, PlanScenes, PlanChapter, EnsurePlan, Plan, EnsureSkipped, ScenesPlanned,
         HookScene, OutroScene, Review, EnterTail, Characters, Make, MediaDone, MediaSkipped,
         Timeline, RoughCut, FinalCut, Fail, CoverCopyFails, Advance, product, texts
<1> QED
  BY <1>2, <1>3

(* A run started from a step after the scripts leaves every script alone,  *)
(* whatever gap oversight or the advisory model reports.                   *)
THEOREM FocusedRerunIsSafe == Spec => FocusedRerunKeepsScripts
<1>1. Init => FocusedInv
  BY DEF Init, FocusedInv, PhaseOK, PhaseRank
<1>2. FocusedInv /\ [Next]_vars => FocusedInv'
  BY FocusedStep
<1>3. RouteInv /\ FocusedInv /\ [Next]_vars =>
        [status = "running" /\ Focused /\ pack /\ dossier # "none" /\ Ph >= 5
            => script' = script]_vars
  BY ScriptsKept DEF RouteInv
<1> QED
  BY <1>1, <1>2, <1>3, RouteInvariant, PTL DEF Spec, FocusedRerunKeepsScripts

-----------------------------------------------------------------------------
(* Types, in two parts: what the project holds, and where the run is.      *)
ProjectType ==
    /\ pack \in BOOLEAN /\ cover \in BOOLEAN /\ synced \in BOOLEAN
    /\ chars \in BOOLEAN /\ reviewed \in BOOLEAN
    /\ dossier \in {"none", "thin", "met"}
    /\ chapters \in {{}, Chapters}
    /\ script \in [Chapters -> Empty..Substantive]
    /\ hook \in {Empty, Plannable, Substantive}
    /\ film \subseteq Scenes

PlaceType ==
    /\ status \in {"none", "running", "succeeded", "failed", "blocked", "cancelled"}
    /\ pc \in Places /\ (status = "running" <=> pc # "idle")

RunType ==
    /\ opts \in OptionRecords /\ cont \in BOOLEAN
    /\ gap \in Steps \cup {NoStep} /\ tail \in TailSteps \cup {NoStep}
    /\ todo \subseteq Chapters
    /\ owed \subseteq opts.force
    /\ runs \in 0..MaxRuns /\ incidents \in 0..MaxIncidents

LEMMA LeastExists ==
    ASSUME NEW S \in SUBSET Nat, S # {}
    PROVE  \E m \in S : \A n \in S : m <= n
<1> DEFINE R == OpToRel(<, Nat)
<1>1. IsWellFoundedOn(R, Nat)
  BY NatLessThanWellFounded, Zenon
<1>2. \A x \in Nat, y \in Nat : <<x, y>> \in R <=> x < y
  BY Zenon DEF OpToRel
<1> HIDE DEF R
<1>3. PICK m \in S : \A n \in S : ~(<<n, m>> \in R)
  BY <1>1, WFMin
<1>4. \A n \in S : ~(n < m)
  BY <1>2, <1>3
<1> QED BY <1>4

(* The earliest of several steps is one of them, and before the others.    *)
LEMMA EarliestIsOne ==
    ASSUME NEW S \in SUBSET Steps, S # {}
    PROVE  EarliestOf(S) \in S /\ \A t \in S : Rank[EarliestOf(S)] <= Rank[t]
<1> DEFINE Ranks == {Rank[s] : s \in S}
<1>1. Ranks \in SUBSET Nat /\ Ranks # {}
  BY RankType
<1>2. PICK m \in Ranks : \A n \in Ranks : m <= n
  BY <1>1, LeastExists
<1>3. PICK s \in S : m = Rank[s]
  OBVIOUS
<1>4. \A t \in S : Rank[s] <= Rank[t]
  BY <1>2, <1>3
<1> HIDE DEF Ranks
<1> QED BY <1>4, Zenon DEF EarliestOf

LEMMA EarliestType ==
    ASSUME NEW S \in SUBSET Steps
    PROVE  EarliestOf(S) \in Steps \cup {NoStep}
<1>1. CASE S = {}
  BY <1>1 DEF EarliestOf
<1>2. CASE S # {}
  BY <1>2, EarliestIsOne
<1> QED BY <1>1, <1>2

(* merge_earliest_steps is the meet of two hints: it comes no later than   *)
(* either, and is one of them.                                             *)
LEMMA MergeIsMeet ==
    ASSUME NEW a \in Steps \cup {NoStep}, NEW b \in Steps \cup {NoStep}
    PROVE  /\ Merge(a, b) \in {a, b}
           /\ Merge(a, b) = NoStep <=> a = NoStep /\ b = NoStep
           /\ \A s \in {a, b} \ {NoStep} : Rank[Merge(a, b)] <= Rank[s]
<1> DEFINE S == {a, b} \ {NoStep}
<1>1. S \in SUBSET Steps /\ Merge(a, b) = EarliestOf(S)
  BY DEF Merge
<1>2. CASE S = {}
  BY <1>1, <1>2 DEF EarliestOf
<1>3. CASE S # {}
  <2>1. EarliestOf(S) \in S /\ \A t \in S : Rank[EarliestOf(S)] <= Rank[t]
    BY <1>1, <1>3, EarliestIsOne
  <2> QED BY <1>1, <2>1
<1> QED BY <1>2, <1>3

LEMMA ProjectStep ==
    ASSUME ProjectType, BoardOK, [Next]_vars
    PROVE  ProjectType'
<1> USE DEF Next, Worker, Launch, Reenter, Halt, UploadCover, EditScript, Oversee, Preflight,
         SkipStep, Direct, Research, GateAfterSkip, Approve, Outline, WriteScripts,
         StopAfterScripts, Thumbnail, OpeningHook, PlanScenes, PlanChapter, EnsurePlan, Plan,
         EnsureSkipped, ScenesPlanned, HookScene, OutroScene, Review, EnterTail, Characters,
         Make, MediaDone, MediaSkipped, Timeline, RoughCut, FinalCut, Fail, CoverCopyFails, Advance,
         vars, product, texts, publish, made
<1>1. pack' \in {pack, TRUE} /\ chars' \in {chars, TRUE} /\ reviewed' \in {reviewed, TRUE}
  OBVIOUS
<1>2. cover' \in {cover, TRUE, FALSE} /\ synced' \in {synced, TRUE, FALSE}
  BY DEF SyncHook
<1>3. dossier' \in {dossier, "thin", "met"} /\ chapters' \in {chapters, Chapters}
  OBVIOUS
<1>4. hook' \in {hook} \cup HookLengths /\ film' \in {film, scenes}
  OBVIOUS
<1>5. \/ script' = script
      \/ script' = [c \in Chapters |-> Empty]
      \/ \E lengths \in [Chapters -> ScriptLengths] :
             script' = [c \in Chapters |-> IF cont /\ script[c] = Substantive
                                           THEN script[c] ELSE lengths[c]]
      \/ \E c \in chapters : script' = [script EXCEPT ![c] = Substantive]
  OBVIOUS
<1> HIDE DEF Next, Worker, vars
<1>6. script' \in [Chapters -> Empty..Substantive]
  <2>1. ScriptLengths \subseteq Empty..Substantive /\ Empty \in Empty..Substantive
        /\ Substantive \in Empty..Substantive
    BY PipelineAssumption DEF Empty, Short, Plannable, Substantive
  <2>2. script \in [Chapters -> Empty..Substantive]
    BY DEF ProjectType
  <2>3. ASSUME NEW lengths \in [Chapters -> ScriptLengths]
        PROVE  [c \in Chapters |-> IF cont /\ script[c] = Substantive THEN script[c] ELSE lengths[c]]
                   \in [Chapters -> Empty..Substantive]
    BY <2>1, <2>2
  <2> QED BY <1>5, <2>1, <2>2, <2>3
<1>7. HookLengths \subseteq {Plannable, Substantive}
  BY PipelineAssumption
<1>8. scenes \subseteq Scenes
  BY DEF BoardOK
<1>9. /\ pack' \in BOOLEAN /\ chars' \in BOOLEAN /\ reviewed' \in BOOLEAN
      /\ cover' \in BOOLEAN /\ synced' \in BOOLEAN
  BY <1>1, <1>2 DEF ProjectType
<1>10. /\ dossier' \in {"none", "thin", "met"} /\ chapters' \in {{}, Chapters}
       /\ hook' \in {Empty, Plannable, Substantive} /\ film' \subseteq Scenes
  BY <1>3, <1>4, <1>7, <1>8 DEF ProjectType
<1> QED BY <1>6, <1>9, <1>10 DEF ProjectType

(* Where a run may be next.                                                *)
LEMMA PlaceStep ==
    ASSUME PlaceType, [Next]_vars
    PROVE  PlaceType'
<1>1. ASSUME NEW step \in Places \ {"idle"}, status = "running", GoTo(step) PROVE PlaceType'
  BY <1>1 DEF GoTo, PlaceType
<1>2. ASSUME NEW st \in {"succeeded", "failed", "blocked", "cancelled"}, End(st) PROVE PlaceType'
  BY <1>2 DEF End, PlaceType, Places
<1>3. CASE UNCHANGED <<status, pc>>
  BY <1>3 DEF PlaceType
<1>4. \A step \in DOMAIN NextStep : NextStep[step] \in Places \ {"idle"}
  BY DEF NextStep, Places, Steps, Rank
<1>5. \A step \in MediaSteps : AfterMedia[step] \in Places \ {"idle"}
  BY DEF AfterMedia, MediaSteps, Places, Steps, Rank
<1>6. {"oversight", "preflight", "director", "research_gate", "outline", "approve", "thumbnail", "plan",
       "ensure", "auto_characters", "auto_narration", "auto_rough_cut", "auto_final_cut"}
          \subseteq Places \ {"idle"}
  BY DEF Places, Steps, Rank
<1>7. ASSUME (\E o \in Options : Launch(o)) \/ Reenter PROVE PlaceType'
  BY <1>1, <1>6, <1>7 DEF Launch, Reenter, PlaceType
<1>8. ASSUME \/ Halt \/ Fail \/ CoverCopyFails \/ UploadCover \/ FinalCut
             \/ \E c \in Chapters : EditScript(c)
             \/ UNCHANGED vars
      PROVE PlaceType'
  BY <1>2, <1>3, <1>8 DEF Halt, Fail, CoverCopyFails, UploadCover, FinalCut, EditScript, vars
<1>9. ASSUME \/ Direct \/ Outline \/ HookScene \/ OutroScene \/ ScenesPlanned
             \/ \E lengths \in [Chapters -> ScriptLengths] : WriteScripts(lengths)
             \/ \E drawn \in BOOLEAN : Thumbnail(drawn)
             \/ \E text \in HookLengths : OpeningHook(text)
      PROVE PlaceType'
  <2>1. status = "running" /\ \E step \in DOMAIN NextStep : GoTo(NextStep[step])
    BY <1>9 DEF Direct, Outline, HookScene, OutroScene, ScenesPlanned, WriteScripts, Thumbnail,
                OpeningHook, Advance, Executes, At, NextStep
  <2> QED BY <1>1, <1>4, <2>1
<1>10. ASSUME NEW step \in DOMAIN NextStep, SkipStep(step) PROVE PlaceType'
  BY <1>1, <1>4, <1>10 DEF SkipStep, At
<1>11. ASSUME NEW d \in {"thin", "met"}, Research(d) PROVE PlaceType'
  BY <1>1, <1>2, <1>6, <1>11 DEF Research, Executes, At
<1>12. ASSUME \/ \E found \in Steps \cup {NoStep}, hint \in Hints \cup {NoStep} : Oversee(found, hint)
              \/ Preflight \/ GateAfterSkip \/ Approve \/ StopAfterScripts \/ PlanScenes
       PROVE  PlaceType'
  BY <1>1, <1>2, <1>6, <1>12
     DEF Oversee, Preflight, GateAfterSkip, Approve, StopAfterScripts, PlanScenes, Executes, At
<1>13. ASSUME Review \/ EnterTail \/ Characters \/ Timeline \/ RoughCut PROVE PlaceType'
  BY <1>1, <1>2, <1>6, <1>13 DEF Review, EnterTail, Characters, Timeline, RoughCut, At
<1>14. ASSUME NEW step \in MediaSteps, NEW got \in SUBSET Scenes,
              Make(step, got) \/ MediaDone(step) \/ MediaSkipped(step)
       PROVE  PlaceType'
  BY <1>1, <1>3, <1>5, <1>14 DEF Make, MediaDone, MediaSkipped, At
<1>15. ASSUME NEW c \in Chapters, PlanChapter(c) \/ EnsurePlan(c) \/ EnsureSkipped(c) PROVE PlaceType'
  BY <1>3, <1>15 DEF PlanChapter, EnsurePlan, EnsureSkipped, Plan
<1> QED BY <1>7, <1>8, <1>9, <1>10, <1>11, <1>12, <1>13, <1>14, <1>15, Zenon DEF Next, Worker

(* The route: which steps it names, and what is left to plan or is owed.   *)
LEMMA TailType ==
    ASSUME NEW entry \in Steps \cup {NoStep}, NEW images, NEW videos, entry \in TailSteps \cup {NoStep}
    PROVE  /\ NormalizeTail(entry, images, videos) \in TailSteps \cup {NoStep}
           /\ ClampTail(NormalizeTail(entry, images, videos), HardFloor) \in TailSteps \cup {NoStep}
<1>1. {"auto_characters", "auto_images", "auto_videos", "auto_timeline"} \subseteq TailSteps
  BY DEF TailSteps, Steps, Rank
<1>2. NormalizeTail(entry, images, videos) \in TailSteps \cup {NoStep}
  BY <1>1 DEF NormalizeTail
<1>3. HardFloor \in TailSteps \cup {NoStep}
  BY <1>1 DEF HardFloor
<1> QED BY <1>2, <1>3 DEF ClampTail

LEMMA RouteStep ==
    ASSUME RunType, ProjectType, [Next]_vars
    PROVE  RunType'
<1>a. opts.force \in SUBSET Steps /\ opts.rerun \in Steps \cup {NoStep} /\ opts.cont \in BOOLEAN
  BY DEF RunType, OptionRecords
<1>1. ASSUME NEW o \in Options, Launch(o) PROVE RunType'
  <2>1. o \in OptionRecords
    BY PipelineAssumption
  <2>2. opts' \in OptionRecords /\ opts'.force = o.force
    BY <1>1, <2>1 DEF Launch, OptionRecords
  <2>3. /\ cont' = o.cont /\ gap' = NoStep /\ tail' = NoStep /\ todo' = {} /\ owed' = o.force
        /\ runs' = runs + 1 /\ runs < MaxRuns /\ incidents' = incidents
    BY <1>1 DEF Launch
  <2>4. runs' \in 0..MaxRuns
    BY <2>3, PipelineAssumption DEF RunType
  <2> QED BY <2>1, <2>2, <2>3, <2>4 DEF RunType, OptionRecords
<1>2. ASSUME NEW found \in Steps \cup {NoStep}, NEW hint \in Hints \cup {NoStep}, Oversee(found, hint)
      PROVE  RunType'
  <2> DEFINE advised == opts.cont /\ opts.through # "chapters" /\ Oversight
             first   == IF advised THEN Merge(found, hint) ELSE NoStep
             chosen  == ChosenStep(opts.rerun, opts.force)
  <2>1. first \in Steps \cup {NoStep}
    BY PipelineAssumption, MergeIsMeet
  <2>2. chosen \in Steps \cup {NoStep}
    BY <1>a, EarliestType DEF ChosenStep
  <2>3. /\ gap' = ClampGap(first, chosen) /\ cont' = (opts.cont \/ opts.rerun # NoStep)
        /\ tail' = IF chosen \in TailSteps THEN NormalizeTail(chosen, opts.images, opts.videos)
                   ELSE TailEntry(IF opts.rerun = NoStep THEN first ELSE opts.rerun)
        /\ UNCHANGED <<opts, todo, owed, bounds>>
    BY <1>2 DEF Oversee
  <2> HIDE DEF first, chosen
  <2>4. gap' \in Steps \cup {NoStep}
    BY <2>1, <2>2, <2>3 DEF ClampGap
  <2>5. \A g : TailEntry(g) \in TailSteps \cup {NoStep}
    BY DEF TailEntry, TailSteps, Steps, Rank
  <2>6. tail' \in TailSteps \cup {NoStep}
    BY <2>2, <2>3, <2>5, TailType
  <2> QED BY <2>3, <2>4, <2>6 DEF RunType, bounds
<1>3. ASSUME EnterTail PROVE RunType'
  <2>1. tail' = ClampTail(NormalizeTail(tail, opts.images, opts.videos), HardFloor)
        /\ UNCHANGED <<opts, cont, gap, todo, owed, bounds>>
    BY <1>3 DEF EnterTail
  <2>2. tail \in Steps \cup {NoStep} /\ tail \in TailSteps \cup {NoStep}
    BY DEF RunType, TailSteps
  <2>3. tail' \in TailSteps \cup {NoStep}
    BY <2>1, <2>2, TailType
  <2> QED BY <2>1, <2>3 DEF RunType, bounds
<1>4. ASSUME Reenter \/ UploadCover \/ \E c \in Chapters : EditScript(c) PROVE RunType'
  <2>1. /\ incidents < MaxIncidents /\ incidents' = incidents + 1 /\ UNCHANGED <<opts, owed, runs>>
        /\ cont' \in {cont, opts.cont} /\ gap' \in {gap, NoStep} /\ tail' \in {tail, NoStep}
        /\ todo' \in {todo, {}}
    BY <1>4 DEF Reenter, UploadCover, EditScript, route
  <2>2. incidents' \in 0..MaxIncidents
    BY <2>1, PipelineAssumption DEF RunType
  <2> QED BY <1>a, <2>1, <2>2 DEF RunType
<1>5. ASSUME /\ UNCHANGED <<route, bounds>> /\ owed' \subseteq owed
             /\ todo' \subseteq todo \cup Chapters
      PROVE  RunType'
  BY <1>5 DEF RunType, route, bounds
<1>6. Scripted \subseteq Chapters
  BY DEF Scripted, ProjectType
<1>7. ASSUME \/ Preflight \/ GateAfterSkip \/ Approve \/ StopAfterScripts \/ Halt \/ Fail \/ CoverCopyFails
             \/ Direct \/ Outline \/ HookScene \/ OutroScene \/ ScenesPlanned
             \/ \E d \in {"thin", "met"} : Research(d)
             \/ \E lengths \in [Chapters -> ScriptLengths] : WriteScripts(lengths)
             \/ \E drawn \in BOOLEAN : Thumbnail(drawn)
             \/ \E text \in HookLengths : OpeningHook(text)
             \/ \E step \in DOMAIN NextStep : SkipStep(step)
      PROVE  UNCHANGED <<route, todo, bounds>> /\ owed' \subseteq owed
  BY <1>7 DEF Preflight, GateAfterSkip, Approve, StopAfterScripts, Halt, Fail, CoverCopyFails, Direct,
     Outline, HookScene, OutroScene, ScenesPlanned, Research, WriteScripts, Thumbnail, OpeningHook,
     SkipStep, Advance, Did
<1>8. ASSUME \/ PlanScenes \/ Review \/ Characters \/ Timeline \/ RoughCut \/ FinalCut
             \/ \E c \in Chapters : PlanChapter(c) \/ EnsurePlan(c) \/ EnsureSkipped(c)
             \/ \E step \in MediaSteps : \/ \E got \in SUBSET Scenes : Make(step, got)
                                         \/ MediaDone(step)
                                         \/ MediaSkipped(step)
             \/ UNCHANGED vars
      PROVE  /\ UNCHANGED <<route, bounds>> /\ owed' \subseteq owed
             /\ todo' \subseteq todo \cup Chapters
  BY <1>6, <1>8 DEF PlanScenes, Review, Characters, Timeline, RoughCut, FinalCut, PlanChapter, EnsurePlan,
     EnsureSkipped, Plan, Make, MediaDone, MediaSkipped, Did, vars
<1> QED BY <1>1, <1>2, <1>3, <1>4, <1>5, <1>7, <1>8 DEF Next, Worker

TypeInv == ProjectType /\ PlaceType /\ RunType
LEMMA TypeStep == RouteInv /\ TypeInv /\ [Next]_vars => TypeInv'
BY ProjectStep, PlaceStep, RouteStep DEF TypeInv, RouteInv

LEMMA TypeHolds == Spec => []TypeInv
<1>1. Init => TypeInv
  <2> SUFFICES ASSUME Init PROVE TypeInv
    OBVIOUS
  <2>1. ProjectType
    <3>1. script \in [Chapters -> Empty..Substantive]
      BY DEF Init, Empty, Substantive
    <3> QED BY <3>1 DEF Init, ProjectType
  <2>2. PlaceType
    BY DEF Init, PlaceType, Places
  <2>3. RunType
    <3>1. opts \in OptionRecords /\ opts.force = {}
      BY DEF Init, NoOptions, OptionRecords
    <3>2. runs \in 0..MaxRuns /\ incidents \in 0..MaxIncidents
      BY PipelineAssumption DEF Init
    <3> QED BY <3>1, <3>2 DEF Init, RunType
  <2> QED BY <2>1, <2>2, <2>3 DEF TypeInv
<1> QED BY <1>1, TypeStep, RouteInvariant, PTL DEF Spec

(* Whatever runs, repeated deliveries and edits there are: a medium belongs*)
(* to a scene row that exists, a run names steps of the pipeline only, and *)
(* is at one of them as long as it is running.                             *)
THEOREM PipelineTypes == Spec => []TypeOK
<1>1. TypeInv /\ RouteInv /\ PhaseOK => TypeOK
  <2> SUFFICES ASSUME TypeInv, RouteInv, PhaseOK PROVE TypeOK
    OBVIOUS
  <2>1. media \in [Kinds -> SUBSET scenes]
    BY DEF RouteInv, BoardOK
  <2> QED BY <2>1 DEF TypeInv, ProjectType, PlaceType, RunType, RouteInv, BoardOK, PhaseOK, TypeOK
<1>2. Init => PhaseOK
  BY DEF Init, PhaseOK, PhaseRank
<1> QED BY <1>1, <1>2, TypeHolds, RouteInvariant, PhaseStep, PTL DEF Spec

-----------------------------------------------------------------------------
(* What the media tail knows of the film: only a full run enters it, there *)
(* are scenes from its entry on, and past the timeline they all have a     *)
(* visual; a full run succeeds with its film only.                         *)
Filming == {"auto_characters"} \cup BeforeStills \cup AfterStills
Cutting == {"auto_rough_cut", "auto_final_cut"}
FilmInv ==
    /\ pc \in InTail => opts.through = "full_video"
    /\ pc \in Filming => scenes # {}
    /\ pc \in Cutting => scenes \subseteq Visual
    /\ FilmIsWhole

(* Outside the tail, and but for a success, nothing is promised of a film. *)
LEMMA NoFilmDue ==
    ASSUME pc' \notin InTail, status' # "succeeded"
    PROVE  FilmInv'
BY DEF FilmInv, FilmIsWhole, InTail, Filming, Cutting, BeforeStills, AfterStills

LEMMA FilmStep ==
    ASSUME PlaceType, FilmInv, [Next]_vars
    PROVE  FilmInv'
<1>1. ASSUME \/ \E o \in Options : Launch(o)
             \/ Reenter \/ Halt \/ Fail \/ CoverCopyFails
             \/ \E found \in Steps \cup {NoStep}, hint \in Hints \cup {NoStep} :
                   Oversee(found, hint)
             \/ Preflight \/ GateAfterSkip \/ Approve \/ PlanScenes
             \/ \E d \in {"thin", "met"} : Research(d)
      PROVE  FilmInv'
  <2>1. pc' \notin InTail /\ status' # "succeeded"
    BY <1>1 DEF Launch, Reenter, Halt, Fail, CoverCopyFails, Oversee, Preflight, GateAfterSkip, Approve,
       PlanScenes, Research, GoTo, End, Executes, At, InTail, BeforeStills, AfterStills
  <2> QED BY <2>1, NoFilmDue
<1>2. ASSUME \/ Direct \/ Outline \/ HookScene \/ OutroScene \/ ScenesPlanned
             \/ \E lengths \in [Chapters -> ScriptLengths] : WriteScripts(lengths)
             \/ \E drawn \in BOOLEAN : Thumbnail(drawn)
             \/ \E text \in HookLengths : OpeningHook(text)
             \/ \E step \in DOMAIN NextStep : SkipStep(step)
      PROVE  FilmInv'
  <2>1. status = "running" /\ \E step \in DOMAIN NextStep : GoTo(NextStep[step])
    BY <1>2 DEF Direct, Outline, HookScene, OutroScene, ScenesPlanned, WriteScripts, Thumbnail,
                OpeningHook, SkipStep, Advance, Executes, At, NextStep
  <2>2. pc' \notin InTail /\ status' # "succeeded"
    BY <2>1, NextStepStaysBefore DEF GoTo
  <2> QED BY <2>2, NoFilmDue
<1>3. ASSUME StopAfterScripts PROVE FilmInv'
  BY <1>3 DEF StopAfterScripts, At, GoTo, End, FilmInv, FilmIsWhole, InTail, Filming, Cutting,
     BeforeStills, AfterStills, route
<1>4. ASSUME NEW c \in Chapters, PlanChapter(c) PROVE FilmInv'
  <2>1. pc' \notin InTail /\ status' # "succeeded"
    BY <1>4 DEF PlanChapter, Plan, At, InTail, BeforeStills, AfterStills
  <2> QED BY <2>1, NoFilmDue
<1>5. ASSUME UploadCover PROVE FilmInv'
  <2>1. pc' = "idle" /\ phase' = "thumbnail_ready"
    BY <1>5 DEF UploadCover, PlaceType
  <2> QED BY <2>1 DEF FilmInv, FilmIsWhole, InTail, Filming, Cutting, BeforeStills, AfterStills
<1>6. ASSUME (\E c \in Chapters : EditScript(c)) \/ UNCHANGED vars PROVE FilmInv'
  <2>1. UNCHANGED <<pc, status, opts, scenes, media, film, phase>>
    BY <1>6 DEF EditScript, vars, product, route, board, made
  <2> QED BY <2>1 DEF FilmInv, FilmIsWhole, Visual
<1>7. ASSUME Review PROVE FilmInv'
  BY <1>7 DEF Review, At, GoTo, End, FilmInv, FilmIsWhole, InTail, Filming, Cutting, BeforeStills,
     AfterStills, route
<1>8. ASSUME NEW c \in Chapters, EnsurePlan(c) \/ EnsureSkipped(c) PROVE FilmInv'
  <2>1. pc = "ensure" /\ status = "running" /\ UNCHANGED <<pc, status, opts>>
    BY <1>8 DEF EnsurePlan, EnsureSkipped, Plan, At, route
  <2> QED BY <2>1 DEF FilmInv, FilmIsWhole, InTail, Filming, Cutting, BeforeStills, AfterStills
<1>9. ASSUME status = "running", pc \in InTail, UNCHANGED <<opts, scenes, status>>,
             pc' \in Filming \ Cutting, scenes # {}
      PROVE  FilmInv'
  BY <1>9 DEF FilmInv, FilmIsWhole, InTail, Filming, Cutting, BeforeStills, AfterStills
<1>10. ASSUME EnterTail PROVE FilmInv'
  BY <1>9, <1>10 DEF EnterTail, At, GoTo, InTail, Filming, Cutting, BeforeStills, AfterStills, product,
     board
<1>11. ASSUME \/ Characters
              \/ \E step \in MediaSteps : \/ \E got \in SUBSET Scenes : Make(step, got)
                                          \/ MediaDone(step)
                                          \/ MediaSkipped(step)
       PROVE  FilmInv'
  <2>1. status = "running" /\ pc \in Filming \ Cutting /\ UNCHANGED <<opts, scenes, status>>
    BY <1>11 DEF Characters, Make, MediaDone, MediaSkipped, At, GoTo, MediaSteps, Filming, Cutting,
       BeforeStills, AfterStills, route, product, board
  <2>2. pc' \in Filming \ Cutting
    BY <1>11 DEF Characters, Make, MediaDone, MediaSkipped, At, GoTo, MediaSteps, AfterMedia, Filming,
       Cutting, BeforeStills, AfterStills
  <2>3. scenes # {} /\ pc \in InTail
    BY <2>1 DEF FilmInv, Filming, InTail, BeforeStills, AfterStills
  <2> QED BY <1>9, <2>1, <2>2, <2>3
<1>12. ASSUME Timeline \/ RoughCut PROVE FilmInv'
  BY <1>12 DEF Timeline, RoughCut, At, GoTo, FilmInv, FilmIsWhole, InTail, Filming, Cutting,
     BeforeStills, AfterStills, Visual, product, board, route
<1>13. ASSUME FinalCut PROVE FilmInv'
  BY <1>13 DEF FinalCut, At, End, FilmInv, FilmIsWhole, InTail, Filming, Cutting,
     BeforeStills, AfterStills, Visual, board
<1> QED BY <1>1, <1>2, <1>3, <1>4, <1>5, <1>6, <1>7, <1>8, <1>10, <1>11, <1>12, <1>13
        DEF Next, Worker

(* A full run succeeds with a film of every scene of the project, each of  *)
(* which had a still or a clip, for any number of scenes, any options and  *)
(* any runs before it.                                                     *)
THEOREM FullRunsDeliver == Spec => []FilmIsWhole
<1>1. Init => FilmInv
  BY DEF Init, FilmInv, FilmIsWhole, InTail, Filming, Cutting, BeforeStills, AfterStills
<1>2. TypeInv /\ FilmInv /\ [Next]_vars => FilmInv'
  BY FilmStep DEF TypeInv
<1>3. FilmInv => FilmIsWhole
  BY DEF FilmInv
<1> QED BY <1>1, <1>2, <1>3, TypeHolds, PTL DEF Spec

-----------------------------------------------------------------------------
(* What a run may still owe: at each place, the forced steps from it on,   *)
(* and those its own options switch off.                                   *)
Due ==
    [oversight |-> 0, preflight |-> 0, director |-> 0, research |-> 1, research_gate |-> 2,
     approve |-> 2, outline |-> 2, chapters |-> 3, scripted |-> 4, thumbnail |-> 4,
     opening_hook |-> 5, scenes |-> 6, plan |-> 6, hook_scene |-> 7, outro |-> 8,
     story_research_review |-> 9, ensure |-> 10, auto_characters |-> 10, auto_narration |-> 11,
     auto_scene_coverage |-> 12, auto_images |-> 13, auto_videos |-> 14, auto_timeline |-> 15,
     auto_rough_cut |-> 16, auto_final_cut |-> 17]
OwedFrom(place) == \A s \in owed : s \in SwitchedOff \/ Rank[s] >= Due[place]
OwedInv == (pc # "idle" => OwedFrom(pc)) /\ ForcedStepsRan

(* No two steps have the same rank.                                        *)
LEMMA RankIsOrder ==
    \A s, t \in Steps : Rank[s] >= Rank[t] /\ s # t => Rank[s] >= Rank[t] + 1
BY DEF Steps, Rank

LEMMA OwedStep ==
    ASSUME TypeInv, OwedInv, [Next]_vars
    PROVE  OwedInv'
<1>a. owed \subseteq opts.force /\ opts.force \subseteq Steps
  BY DEF TypeInv, RunType, OptionRecords
<1>b. \A s \in Steps : Rank[s] \in 0..17
  BY RankType
<1>c. ASSUME NEW place \in DOMAIN Due, At(place) PROVE OwedFrom(place)
  BY <1>c DEF OwedInv, At, Due
<1>d. ASSUME opts' = opts PROVE SwitchedOff' = SwitchedOff
  BY <1>d DEF SwitchedOff
<1>e. ASSUME status = "running", NEW next \in DOMAIN Due, GoTo(next), opts' = opts, owed' \subseteq owed,
             \A s \in owed' : s \in SwitchedOff \/ Rank[s] >= Due[next]
      PROVE  OwedInv'
  BY <1>d, <1>e DEF OwedInv, OwedFrom, ForcedStepsRan, GoTo
<1>f. ASSUME NEW step \in Steps, OwedFrom(step), NEW s \in owed, s # step, s \notin SwitchedOff,
             Due[step] = Rank[step]
      PROVE  Rank[s] >= Rank[step] + 1
  BY <1>a, <1>f, RankIsOrder DEF OwedFrom
<1>g. \A step \in Steps : step \in DOMAIN Due /\ Due[step] = Rank[step]
  BY DEF Steps, Rank, Due
<1>h. ASSUME pc' = "idle", status' # "succeeded" \/ opts.through # "full_video", opts' = opts PROVE OwedInv'
  BY <1>h DEF OwedInv, ForcedStepsRan
<1>1. ASSUME NEW o \in Options, Launch(o) PROVE OwedInv'
  <2>1. /\ pc' = "oversight" /\ status' = "running" /\ owed' = o.force /\ o.force \subseteq Steps
    BY <1>1, PipelineAssumption DEF Launch, OptionRecords
  <2>2. \A s \in owed' : Rank[s] >= Due["oversight"]
    BY <1>b, <2>1 DEF Due
  <2> QED BY <2>1, <2>2 DEF OwedInv, OwedFrom, ForcedStepsRan
<1>2. ASSUME \/ Reenter
             \/ \E found \in Steps \cup {NoStep}, hint \in Hints \cup {NoStep} : Oversee(found, hint)
             \/ Preflight
      PROVE  OwedInv'
  <2>1. status = "running" /\ opts' = opts /\ owed' = owed
        /\ \E next \in {"oversight", "preflight", "director"} : GoTo(next)
    BY <1>2 DEF Reenter, Oversee, Preflight, At, route
  <2>2. \A next \in {"oversight", "preflight", "director"} : next \in DOMAIN Due /\ Due[next] = 0
    BY DEF Due
  <2>3. \A s \in owed : Rank[s] >= 0
    BY <1>a, <1>b
  <2> QED BY <1>e, <2>1, <2>2, <2>3
<1>3. ASSUME Halt \/ Fail \/ CoverCopyFails PROVE OwedInv'
  BY <1>3, <1>h DEF Halt, Fail, CoverCopyFails, End, route
<1>4. ASSUME UploadCover \/ (\E c \in Chapters : EditScript(c)) \/ UNCHANGED vars PROVE OwedInv'
  <2>1. UNCHANGED <<pc, status, opts, owed>>
    BY <1>4 DEF UploadCover, EditScript, vars, route
  <2> QED BY <1>d, <2>1 DEF OwedInv, OwedFrom, ForcedStepsRan
<1>5. ASSUME NEW step \in DOMAIN NextStep, status = "running", OwedFrom(step), step \notin owed' \ SwitchedOff,
             owed' \subseteq owed, opts' = opts, GoTo(NextStep[step])
      PROVE  OwedInv'
  <2>1. /\ step \in Steps /\ NextStep[step] \in DOMAIN Due
        /\ Due[NextStep[step]] <= Rank[step] + 1 /\ Due[NextStep[step]] \in Nat /\ Rank[step] \in Nat
    BY DEF NextStep, Due, Steps, Rank
  <2>2. \A s \in owed' : s \in SwitchedOff \/ Rank[s] >= Rank[step] + 1
    BY <1>5, <1>f, <1>g, <2>1
  <2>3. \A s \in owed' : s \in SwitchedOff \/ Rank[s] >= Due[NextStep[step]]
    BY <1>a, <1>b, <1>5, <2>1, <2>2
  <2> QED BY <1>e, <1>5, <2>1, <2>3
<1>6. ASSUME NEW step \in DOMAIN NextStep, SkipStep(step) PROVE OwedInv'
  <2>1. /\ status = "running" /\ At(step) /\ Skipped(step) /\ GoTo(NextStep[step])
        /\ owed' = owed /\ opts' = opts
    BY <1>6 DEF SkipStep, At, route
  <2>2. step \notin opts.force \/ step \in SwitchedOff
    BY <2>1 DEF Skipped, Skips, ResearchUnwanted, SwitchedOff
  <2>3. step \in DOMAIN Due
    BY DEF NextStep, Due
  <2> QED BY <1>a, <1>c, <1>5, <2>1, <2>2, <2>3
<1>7. ASSUME \/ Direct \/ Outline \/ HookScene \/ OutroScene
             \/ \E lengths \in [Chapters -> ScriptLengths] : WriteScripts(lengths)
             \/ \E drawn \in BOOLEAN : Thumbnail(drawn)
             \/ \E text \in HookLengths : OpeningHook(text)
      PROVE  OwedInv'
  <2>1. \E step \in DOMAIN NextStep :
            status = "running" /\ At(step) /\ GoTo(NextStep[step]) /\ Did(step) /\ opts' = opts
    BY <1>7 DEF Direct, Outline, HookScene, OutroScene, WriteScripts, Thumbnail, OpeningHook,
       Executes, At, Advance, NextStep, route
  <2>2. \A step \in DOMAIN NextStep : step \in DOMAIN Due
    BY DEF NextStep, Due
  <2> QED BY <1>c, <1>5, <2>1, <2>2 DEF Did
<1>8. ASSUME NEW d \in {"thin", "met"}, Research(d) PROVE OwedInv'
  <2>1. At("research") /\ owed' = owed \ {"research"} /\ opts' = opts
    BY <1>8 DEF Research, Executes, Did, route
  <2>2. CASE End("blocked")
    BY <1>h, <2>1, <2>2 DEF End
  <2>3. CASE GoTo("approve")
    <3>1. "research" \in Steps /\ Rank["research"] = 1 /\ Due["approve"] = 2 /\ "approve" \in DOMAIN Due
      BY DEF Steps, Rank, Due
    <3>2. \A s \in owed' : s \in SwitchedOff \/ Rank[s] >= 2
      BY <1>c, <1>f, <1>g, <2>1, <3>1
    <3> QED BY <1>e, <2>1, <2>3, <3>1, <3>2 DEF At
  <2> QED BY <1>8, <2>2, <2>3 DEF Research
<1>9. ASSUME GateAfterSkip \/ Approve \/ StopAfterScripts \/ PlanScenes PROVE OwedInv'
  <2>1. owed' = owed /\ opts' = opts /\ status = "running"
    BY <1>9 DEF GateAfterSkip, Approve, StopAfterScripts, PlanScenes, Executes, At, route
  <2>2. CASE \/ End("blocked")
             \/ StopAfterScripts /\ opts.through = "chapters" /\ End("succeeded")
    BY <1>h, <2>1, <2>2 DEF End
  <2>3. CASE \E place, next \in DOMAIN Due : At(place) /\ GoTo(next) /\ Due[next] = Due[place]
    BY <1>c, <1>e, <2>1, <2>3 DEF OwedFrom
  <2>4. \/ End("blocked")
        \/ StopAfterScripts /\ opts.through = "chapters" /\ End("succeeded")
        \/ \E place, next \in DOMAIN Due : At(place) /\ GoTo(next) /\ Due[next] = Due[place]
    <3>1. /\ {"research_gate", "approve", "outline", "scripted", "thumbnail", "scenes", "plan"} \subseteq DOMAIN Due
          /\ Due["research_gate"] = Due["approve"] /\ Due["approve"] = Due["outline"]
          /\ Due["scripted"] = Due["thumbnail"] /\ Due["scenes"] = Due["plan"]
      BY DEF Due
    <3>2. CASE GateAfterSkip
      BY <3>1, <3>2 DEF GateAfterSkip
    <3>3. CASE Approve
      BY <3>1, <3>3 DEF Approve
    <3>4. CASE StopAfterScripts
      BY <3>1, <3>4 DEF StopAfterScripts
    <3>5. CASE PlanScenes
      BY <3>1, <3>5 DEF PlanScenes, Executes
    <3> QED BY <1>9, <3>2, <3>3, <3>4, <3>5
  <2> QED BY <2>2, <2>3, <2>4
<1>10. ASSUME ScenesPlanned PROVE OwedInv'
  <2>1. At("plan") /\ GoTo("hook_scene") /\ owed' = owed \ {"scenes"} /\ opts' = opts
    BY <1>10 DEF ScenesPlanned, Advance, NextStep, Did, route
  <2>2. /\ "plan" \in DOMAIN Due /\ "hook_scene" \in DOMAIN Due /\ "scenes" \in Steps
        /\ Due["plan"] = 6 /\ Rank["scenes"] = 6 /\ Due["hook_scene"] = 7
    BY DEF Due, Steps, Rank
  <2>3. \A s \in owed' : s \in SwitchedOff \/ Rank[s] >= 7
    BY <1>a, <1>c, <2>1, <2>2, RankIsOrder DEF OwedFrom
  <2> QED BY <1>e, <2>1, <2>2, <2>3 DEF At
<1>11. ASSUME NEW c \in Chapters, PlanChapter(c) \/ EnsurePlan(c) \/ EnsureSkipped(c) PROVE OwedInv'
  <2>1. UNCHANGED <<pc, status, opts, owed>>
    BY <1>11 DEF PlanChapter, EnsurePlan, EnsureSkipped, Plan, route
  <2> QED BY <1>d, <2>1 DEF OwedInv, OwedFrom, ForcedStepsRan
<1>12. ASSUME Review PROVE OwedInv'
  <2>1. At("story_research_review") /\ owed' = owed /\ opts' = opts
    BY <1>12 DEF Review, route
  <2>2. CASE opts.through = "full_video" /\ GoTo("ensure")
    <3>1. /\ "story_research_review" \in Steps /\ Rank["story_research_review"] = 9
          /\ "ensure" \in DOMAIN Due /\ Due["ensure"] = 10 /\ "story_research_review" \in SwitchedOff
      BY DEF Steps, Rank, Due, SwitchedOff
    <3>2. \A s \in owed' : s \in SwitchedOff \/ Rank[s] >= 10
      BY <1>c, <1>f, <1>g, <2>1, <3>1
    <3> QED BY <1>e, <2>1, <2>2, <3>1, <3>2 DEF At
  <2>3. CASE opts.through # "full_video" /\ End("succeeded")
    BY <1>h, <2>1, <2>3 DEF End
  <2> QED BY <1>12, <2>2, <2>3 DEF Review
<1>13. ASSUME EnterTail PROVE OwedInv'
  <2>1. At("ensure") /\ GoTo("auto_characters") /\ owed' = owed /\ opts' = opts
    BY <1>13 DEF EnterTail
  <2>2. {"ensure", "auto_characters"} \subseteq DOMAIN Due /\ Due["ensure"] = Due["auto_characters"]
    BY DEF Due
  <2> QED BY <1>c, <1>e, <2>1, <2>2 DEF OwedFrom, At
<1>14. ASSUME NEW step \in Steps, NEW next \in DOMAIN Due, At(step), GoTo(next), opts' = opts, owed' \subseteq owed,
              step \notin owed' \ SwitchedOff, Due[next] = Rank[step] + 1
       PROVE  OwedInv'
  <2>1. \A s \in owed' : s \in SwitchedOff \/ Rank[s] >= Rank[step] + 1
    BY <1>c, <1>f, <1>g, <1>14
  <2> QED BY <1>e, <1>14, <2>1 DEF At
<1>15. ASSUME Characters \/ Timeline \/ RoughCut PROVE OwedInv'
  <2>1. \E step \in {"auto_characters", "auto_timeline", "auto_rough_cut"}, next \in DOMAIN Due :
            At(step) /\ GoTo(next) /\ owed' = owed \ {step} /\ opts' = opts /\ Due[next] = Rank[step] + 1
    BY <1>15 DEF Characters, Timeline, RoughCut, Did, route, Due, Rank
  <2>2. {"auto_characters", "auto_timeline", "auto_rough_cut"} \subseteq Steps
    BY DEF Steps, Rank
  <2> QED BY <1>14, <2>1, <2>2
<1>16. ASSUME NEW step \in MediaSteps, MediaDone(step) \/ MediaSkipped(step) PROVE OwedInv'
  <2>1. At(step) /\ GoTo(AfterMedia[step]) /\ owed' \subseteq owed /\ opts' = opts
    BY <1>16 DEF MediaDone, MediaSkipped, Did, route
  <2>2. step \notin owed' \ SwitchedOff
    <3>1. CASE MediaDone(step)
      BY <3>1 DEF MediaDone, Did
    <3>2. CASE MediaSkipped(step)
      <4>1. step \in opts.force => step \in SwitchedOff
        BY <3>2 DEF MediaSkipped, Passes, TailRuns, Enabled, SwitchedOff, MediaSteps
      <4> QED BY <1>a, <2>1, <4>1
    <3> QED BY <1>16, <3>1, <3>2
  <2>3. CASE step # "auto_narration"
    <3>1. step \in Steps /\ AfterMedia[step] \in DOMAIN Due /\ Due[AfterMedia[step]] = Rank[step] + 1
      BY <2>3 DEF MediaSteps, Steps, Rank, AfterMedia, Due
    <3> QED BY <1>14, <2>1, <2>2, <3>1
  <2>4. CASE step = "auto_narration"
    <3>1. /\ AfterMedia[step] = "auto_images" /\ "auto_images" \in DOMAIN Due /\ Due["auto_images"] = 13
          /\ step \in Steps /\ Rank[step] = 11
          /\ "auto_scene_coverage" \in Steps /\ Rank["auto_scene_coverage"] = 12
          /\ "auto_scene_coverage" \in SwitchedOff
      BY <2>4 DEF Steps, Rank, AfterMedia, Due, SwitchedOff
    <3>2. \A s \in owed' : s \in SwitchedOff \/ Rank[s] >= 12
      BY <1>c, <1>f, <1>g, <2>1, <2>2, <3>1
    <3>3. \A s \in owed' : s \in SwitchedOff \/ Rank[s] >= 13
      BY <1>a, <2>1, <3>1, <3>2, RankIsOrder
    <3> QED BY <1>e, <2>1, <3>1, <3>3 DEF At
  <2> QED BY <2>3, <2>4
<1>17. ASSUME NEW step \in MediaSteps, NEW got \in SUBSET Scenes, Make(step, got) PROVE OwedInv'
  <2>1. UNCHANGED <<pc, status, opts, owed>>
    BY <1>17 DEF Make, route
  <2> QED BY <1>d, <2>1 DEF OwedInv, OwedFrom, ForcedStepsRan
<1>18. ASSUME FinalCut PROVE OwedInv'
  <2>1. At("auto_final_cut") /\ pc' = "idle" /\ owed' = owed \ {"auto_final_cut"} /\ opts' = opts
    BY <1>18 DEF FinalCut, End, Did, route
  <2>2. "auto_final_cut" \in Steps /\ Rank["auto_final_cut"] = 17
    BY DEF Steps, Rank
  <2>3. \A s \in owed' : s \in SwitchedOff \/ Rank[s] >= 18
    BY <1>c, <1>f, <1>g, <2>1, <2>2
  <2>4. \A s \in owed' : s \in SwitchedOff
    BY <1>a, <1>b, <2>1, <2>3
  <2> QED BY <1>d, <2>1, <2>4 DEF OwedInv, ForcedStepsRan
<1> QED BY <1>1, <1>2, <1>3, <1>4, <1>6, <1>7, <1>8, <1>9, <1>10, <1>11, <1>12, <1>13, <1>15, <1>16,
           <1>17, <1>18, Zenon DEF Next, Worker

(* A full run that succeeds has executed every step its client forced, for *)
(* any options, any advice, and any deliveries of its task, but for the    *)
(* steps its own options switch off.                                       *)
THEOREM ForcedStepsAreRun == Spec => []ForcedStepsRan
<1>1. Init => OwedInv
  BY DEF Init, OwedInv, ForcedStepsRan
<1>2. TypeInv /\ OwedInv /\ [Next]_vars => OwedInv'
  BY OwedStep
<1>3. OwedInv => ForcedStepsRan
  BY DEF OwedInv
<1> QED BY <1>1, <1>2, <1>3, TypeHolds, PTL DEF Spec
=============================================================================
