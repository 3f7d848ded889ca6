--------------------------- MODULE AgentPipeline ---------------------------
(***************************************************************************)
(* What successive agent runs do to one project: the documentary pipeline  *)
(* of _run_agent_run_impl and its media tail, step by step, with what each *)
(* step finds already made, makes, destroys or refuses to destroy.  A run  *)
(* may fail or be stopped inside any step; its task may be delivered again *)
(* and starts over on what was committed; the next run usually continues.  *)
(*                                                                         *)
(* A chapter stands for its planned scenes: scene c is the scene row that  *)
(* planning chapter c made.  The hook and the outro are scenes of the      *)
(* first and of the last chapter.  Texts are abstracted to length classes. *)
(***************************************************************************)
EXTENDS PipelineRules

CONSTANTS
    NChapters,      \* how many chapters an outline has
    Options,        \* the pipeline_options a client may send
    ScriptLengths,  \* what a script writer may return, in classes
    HookLengths,    \* the same of the writer of the opening hook
    Hints,          \* what the advisory model may call the earliest gap
    Oversight,      \* agent_oversight_llm_enabled and not agent_run_fast
    MaxRuns,        \* bound: runs of the project
    MaxIncidents    \* bound: repeated deliveries of a run's task, and what the user
                    \* does to the project between runs, together

Chapters == 1..NChapters
Hook     == 0
Outro    == NChapters + 1
Scenes   == Hook..Outro

(* Length classes of a text: empty, under 12 characters, under 200 (50 for *)
(* a hook), and longer.                                                    *)
Empty       == 0
Short       == 1
Plannable   == 2
Substantive == 3

OptionRecords ==
    [cont : BOOLEAN, through : {"chapters", "critique", "full_video"}, unattended : BOOLEAN,
     force : SUBSET Steps, rerun : Steps \cup {NoStep}, research : {"unset", "yes", "no"},
     consent : BOOLEAN, images : BOOLEAN, videos : BOOLEAN, strict : BOOLEAN, outro : BOOLEAN]

ASSUME PipelineAssumption ==
    /\ NChapters \in Nat \ {0}
    /\ Options \subseteq OptionRecords
    /\ ScriptLengths \subseteq {Short, Plannable, Substantive}
    /\ HookLengths \subseteq {Plannable, Substantive}
    /\ Hints \subseteq Steps
    /\ Oversight \in BOOLEAN
    /\ MaxRuns \in Nat
    /\ MaxIncidents \in Nat

VARIABLES
    phase,     \* projects.workflow_phase
    pack,      \* director_output_json is set
    dossier,   \* the latest dossier: none, too few sources, or the minimum met
    chapters,  \* chapter rows
    script,    \* length class of each chapter's script_text
    cover,     \* publish_pack_done: thumbnail image and title
    hook,      \* length class of opening_hook_text
    synced,    \* the hook scene speaks the current hook text
    scenes,    \* scene rows
    media,     \* scenes that have a succeeded image, video or voice track
    chars,     \* the character bible has rows
    reviewed,  \* the story review has its critic row
    film,      \* the scenes in the delivered final cut; {} when there is none
    status,    \* status of the current run; "none" before the first
    pc,        \* the step the worker is about to take
    opts,      \* pipeline_options_json of the current run
    cont,      \* the worker's continue_from_existing
    gap,       \* the worker's oversight_earliest
    tail,      \* the worker's tail_resume
    todo,      \* chapters left to plan
    owed,      \* history: forced steps the current run has not executed
    runs, incidents

texts   == <<pack, dossier, chapters, script>>
publish == <<cover, hook, synced>>
board   == <<scenes, media>>
made    == <<chars, reviewed, film>>
product == <<phase, texts, publish, board, made>>
route   == <<opts, cont, gap, tail>>
bounds  == <<runs, incidents>>
vars    == <<product, status, pc, route, todo, owed, bounds>>

Kinds      == {"image", "video", "voice"}
Places     == Steps \cup {"idle", "oversight", "preflight", "research_gate", "approve",
                          "scripted", "plan", "ensure"}
NoOptions  == [cont |-> FALSE, through |-> "critique", unattended |-> FALSE, force |-> {},
               rerun |-> NoStep, research |-> "unset", consent |-> FALSE, images |-> TRUE,
               videos |-> FALSE, strict |-> FALSE, outro |-> FALSE]

TypeOK ==
    /\ phase \in DOMAIN PhaseRank
    /\ pack \in BOOLEAN /\ cover \in BOOLEAN /\ synced \in BOOLEAN
    /\ chars \in BOOLEAN /\ reviewed \in BOOLEAN
    /\ dossier \in {"none", "thin", "met"}
    /\ chapters \in {{}, Chapters}
    /\ script \in [Chapters -> Empty..Substantive]
    /\ hook \in {Empty, Plannable, Substantive}
    /\ scenes \subseteq Scenes
    /\ media \in [Kinds -> SUBSET scenes]
    /\ film \subseteq Scenes
    /\ status \in {"none", "running", "succeeded", "failed", "blocked", "cancelled"}
    /\ pc \in Places /\ (status = "running" <=> pc # "idle")
    /\ opts \in OptionRecords /\ cont \in BOOLEAN
    /\ gap \in Steps \cup {NoStep} /\ tail \in TailSteps \cup {NoStep}
    /\ todo \subseteq Chapters
    /\ owed \subseteq opts.force
    /\ runs \in 0..MaxRuns /\ incidents \in 0..MaxIncidents

Init ==
    /\ phase = "draft"
    /\ pack = FALSE /\ cover = FALSE /\ synced = FALSE /\ chars = FALSE /\ reviewed = FALSE
    /\ dossier = "none"
    /\ chapters = {}
    /\ script = [c \in Chapters |-> Empty]
    /\ hook = Empty
    /\ scenes = {}
    /\ media = [k \in Kinds |-> {}]
    /\ film = {}
    /\ status = "none" /\ pc = "idle"
    /\ opts = NoOptions /\ cont = FALSE /\ gap = NoStep /\ tail = NoStep
    /\ todo = {} /\ owed = {}
    /\ runs = 0 /\ incidents = 0

-----------------------------------------------------------------------------
(* What the project holds.                                                 *)
Ph            == PhaseRank[phase]
Visual        == media["image"] \cup media["video"]
Scripted      == {c \in chapters : script[c] >= Plannable}
Rows(c)       == {c} \cup (IF c = 1 THEN {Hook} ELSE {})
                     \cup (IF c = NChapters THEN {Outro} ELSE {})
Planned(S)    == {c \in Chapters : Rows(c) \cap S # {}}
AllPlanned(S) == Scripted \subseteq Planned(S)

(* EraseScope.has_content_to_erase, of the project and of one chapter.     *)
HoldsContent       == scenes # {}
ChapterHolds(c)    == Rows(c) \cap scenes # {}

Without(S) == [k \in Kinds |-> media[k] \ S]

(* pipeline_options_imply_outline_wipe or ..._scenes_wipe.                 *)
Wipes(o)  == (o.force \cup {o.rerun}) \cap {"outline", "chapters", "scenes"} # {}
Replan    == "scenes" \in opts.force \/ opts.rerun = "scenes"

(* earliest_gap_deterministic; a scene whose only visual is a clip may not *)
(* be approved yet, so both answers are possible for it.                   *)
FoundGaps ==
    IF ~pack THEN {"director"}
    ELSE IF Ph < 3 /\ dossier = "none" THEN {"research"}
    ELSE IF Ph < 4 THEN {"outline"}
    ELSE IF Ph < 5 THEN {"chapters"}
    ELSE IF ~AllPlanned(scenes) THEN {"scenes"}
    ELSE IF ~chars THEN {"auto_characters"}
    ELSE IF scenes = {} THEN {"scenes"}
    ELSE (IF scenes \subseteq Visual THEN {NoStep} ELSE {})
         \cup (IF scenes \subseteq media["image"] THEN {} ELSE {"auto_images"})

(* The should_skip_* rules: the product of the step is found.              *)
ResearchUnwanted == opts.research = "no" /\ "research" \notin opts.force /\ dossier # "none"
Found(step) ==
    CASE step = "director" -> pack
      [] step = "research" -> dossier # "none" /\ opts.research # "yes"
      [] step = "outline"  -> Ph >= 4
      [] step = "chapters" -> \/ Ph >= 5
                              \/ chapters # {} /\ \A c \in chapters : script[c] = Substantive
      [] step = "thumbnail" -> cover
      [] step = "opening_hook" -> Ph >= 7 \/ hook = Substantive
      [] step = "scenes" -> /\ ~Replan
                            /\ \/ Ph >= 8
                               \/ opts.through # "full_video" /\ AllPlanned(scenes)
      [] step = "hook_scene" -> \/ hook = Empty
                                \/ Hook \in media["image"] /\ synced
      [] step = "outro" -> Outro \in scenes \/ Ph >= 9
      [] OTHER -> FALSE

Skipped(step) == \/ Skips(cont, gap, opts.force, step, Found(step))
                 \/ step = "research" /\ ResearchUnwanted
                 \/ step = "outro" /\ ~opts.outro

At(step)       == status = "running" /\ pc = step
Executes(step) == At(step) /\ ~Skipped(step)
GoTo(step)     == pc' = step /\ UNCHANGED status
End(st)        == status' = st /\ pc' = "idle"
Did(step)      == owed' = owed \ {step}

-----------------------------------------------------------------------------
(* A run begins: created through the API, or its task delivered again.     *)
Launch(o) ==
    /\ status # "running" /\ runs < MaxRuns
    /\ Wipes(o) /\ ~o.consent => ~HoldsContent
    /\ opts' = [o EXCEPT !.through = IF o.unattended /\ @ = "critique" THEN "full_video" ELSE @]
    /\ cont' = o.cont /\ gap' = NoStep /\ tail' = NoStep /\ todo' = {} /\ owed' = o.force
    /\ status' = "running" /\ pc' = "oversight"
    /\ runs' = runs + 1
    /\ UNCHANGED <<product, incidents>>

Reenter ==
    /\ status = "running" /\ pc # "oversight" /\ incidents < MaxIncidents
    /\ cont' = opts.cont /\ gap' = NoStep /\ tail' = NoStep /\ todo' = {}
    /\ GoTo("oversight")
    /\ incidents' = incidents + 1
    /\ UNCHANGED <<product, opts, owed, runs>>

(* Oversight, then what the client chose to start from, fix the route.     *)
Oversee(found, hint) ==
    LET advised == opts.cont /\ opts.through # "chapters" /\ Oversight
        first   == IF advised THEN Merge(found, hint) ELSE NoStep
        chosen  == ChosenStep(opts.rerun, opts.force)
    IN /\ At("oversight")
       /\ found \in FoundGaps
       /\ gap' = ClampGap(first, chosen)
       /\ cont' = (opts.cont \/ opts.rerun # NoStep)
       /\ tail' = IF chosen \in TailSteps
                  THEN NormalizeTail(chosen, opts.images, opts.videos)
                  ELSE TailEntry(IF opts.rerun = NoStep THEN first ELSE opts.rerun)
       /\ GoTo("preflight")
       /\ UNCHANGED <<product, opts, todo, owed, bounds>>

(* The step before the director only looks whether a text model is there.  *)
Preflight ==
    /\ At("preflight")
    /\ GoTo("director")
    /\ UNCHANGED <<product, route, todo, owed, bounds>>

NextStep ==
    [director |-> "research", research |-> "research_gate", outline |-> "chapters",
     chapters |-> "scripted", thumbnail |-> "opening_hook", opening_hook |-> "scenes",
     scenes |-> "hook_scene", hook_scene |-> "outro", outro |-> "story_research_review"]

SkipStep(step) ==
    /\ At(step) /\ Skipped(step)
    /\ GoTo(NextStep[step])
    /\ UNCHANGED <<product, route, todo, owed, bounds>>

Advance(step) == GoTo(NextStep[step]) /\ Did(step) /\ UNCHANGED <<route, todo, bounds>>

Direct ==
    /\ Executes("director")
    /\ pack' = TRUE
    /\ phase' = IF pack /\ phase # "draft" THEN phase ELSE "director_ready"
    /\ Advance("director")
    /\ UNCHANGED <<dossier, chapters, script, publish, board, made>>

(* The strict research gate blocks an attended run on a thin dossier.      *)
GateBlocks(d) == d = "thin" /\ ~opts.unattended

Research(d) ==
    /\ Executes("research") /\ pack
    /\ dossier' = d
    /\ phase' = "research_ready"
    /\ IF GateBlocks(d) THEN End("blocked") ELSE GoTo("approve")
    /\ Did("research")
    /\ UNCHANGED <<route, todo, bounds, pack, chapters, script, publish, board, made>>

(* A skipped research still passes the gate when it was never approved.    *)
GateAfterSkip_BUG ==
    /\ At("research_gate")
    /\ GoTo("outline")
    /\ UNCHANGED <<product, route, todo, owed, bounds>>
GateAfterSkip_NoReturn ==
    /\ At("research_gate")
    /\ status' = IF Ph < 3 /\ dossier # "none" /\ GateBlocks(dossier) THEN "blocked" ELSE status
    /\ pc' = IF Ph < 3 /\ dossier # "none" THEN "approve" ELSE "outline"
    /\ UNCHANGED <<product, route, todo, owed, bounds>>
GateAfterSkip ==
    /\ At("research_gate")
    /\ IF Ph < 3 /\ dossier # "none"
       THEN IF GateBlocks(dossier) THEN End("blocked") ELSE GoTo("approve")
       ELSE GoTo("outline")
    /\ UNCHANGED <<product, route, todo, owed, bounds>>

Approve ==
    /\ At("approve")
    /\ phase' = "research_approved"
    /\ GoTo("outline")
    /\ UNCHANGED <<texts, publish, board, made, route, todo, owed, bounds>>

(* The outline replaces every chapter, with its scenes and their media.    *)
Outline_BUG ==
    /\ Executes("outline")
    /\ chapters' = Chapters
    /\ script' = [c \in Chapters |-> Empty]
    /\ scenes' = {} /\ media' = Without(Scenes)
    /\ phase' = "outline_ready"
    /\ Advance("outline")
    /\ UNCHANGED <<pack, dossier, publish, made>>
Outline ==
    /\ Executes("outline") /\ ~HoldsContent
    /\ chapters' = Chapters
    /\ script' = [c \in Chapters |-> Empty]
    /\ scenes' = {} /\ media' = Without(Scenes)
    /\ phase' = "outline_ready"
    /\ Advance("outline")
    /\ UNCHANGED <<pack, dossier, publish, made>>

(* A resumed run keeps the substantive scripts.                            *)
WriteScripts(lengths) ==
    /\ Executes("chapters") /\ chapters # {}
    /\ script' = [c \in Chapters |-> IF cont /\ script[c] = Substantive
                                    THEN script[c] ELSE lengths[c]]
    /\ phase' = "chapters_ready"
    /\ Advance("chapters")
    /\ UNCHANGED <<pack, dossier, chapters, publish, board, made>>

StopAfterScripts ==
    /\ At("scripted")
    /\ IF opts.through = "chapters" THEN End("succeeded") ELSE GoTo("thumbnail")
    /\ UNCHANGED <<product, route, todo, owed, bounds>>

-----------------------------------------------------------------------------
(* The publish steps: cover and title, the hook's text, its scene.         *)

(* A hook scene made anew has no media but the cover it is given.          *)
HookScenes == scenes \cup {Hook}
HookMedia(covered) ==
    [Without({Hook}) EXCEPT !["image"] = @ \cup (IF covered THEN {Hook} ELSE {})]

(* sync_hook_scene_from_project, run whenever the cover changes.           *)
SyncHook(covered) ==
    IF hook = Empty
    THEN scenes' = scenes \ {Hook} /\ media' = Without({Hook}) /\ UNCHANGED synced
    ELSE IF Hook \in scenes
    THEN /\ media' = IF covered THEN [media EXCEPT !["image"] = @ \cup {Hook}] ELSE media
         /\ synced' = TRUE /\ UNCHANGED scenes
    ELSE IF chapters # {} /\ Rows(1) \cap scenes # {}
    THEN scenes' = HookScenes /\ media' = HookMedia(covered) /\ synced' = TRUE
    ELSE UNCHANGED <<board, synced>>

Thumbnail(drawn) ==
    /\ Executes("thumbnail")
    /\ cover' = drawn
    /\ phase' = "thumbnail_ready"
    /\ SyncHook(drawn)
    /\ Advance("thumbnail")
    /\ UNCHANGED <<texts, hook, made>>

OpeningHook(text) ==
    /\ Executes("opening_hook")
    /\ hook' = text /\ synced' = FALSE
    /\ phase' = "hook_ready"
    /\ Advance("opening_hook")
    /\ UNCHANGED <<texts, cover, board, made>>

HookScene ==
    /\ Executes("hook_scene")
    /\ hook # Empty => chapters # {}
    /\ IF hook = Empty THEN UNCHANGED <<board, synced>>
       ELSE scenes' = HookScenes /\ media' = HookMedia(cover) /\ synced' = TRUE
    /\ Advance("hook_scene")
    /\ UNCHANGED <<phase, texts, cover, hook, made>>

OutroScene ==
    /\ Executes("outro") /\ chapters # {}
    /\ scenes' = scenes \cup {Outro} /\ media' = Without({Outro})
    /\ phase' = "outro_ready"
    /\ Advance("outro")
    /\ UNCHANGED <<texts, publish, made>>

-----------------------------------------------------------------------------
(* Scene planning, one chapter at a time in order.  agent_scenes_chapter_  *)
(* planning_action decides which chapters are in it.                       *)
Queued(c) == Blocks(gap, "scenes") \/ Replan \/ ~cont \/ ~ChapterHolds(c)
PlanScenes ==
    /\ Executes("scenes")
    /\ todo' = {c \in Scripted : Queued(c)}
    /\ GoTo("plan")
    /\ UNCHANGED <<product, route, owed, bounds>>

(* Planning replaces the chapter's scenes, their media with them; the hook *)
(* scene stays.  The erase gate refuses a chapter that holds any scene.    *)
(* Sessions do not flush before a query, so the new scenes are not counted *)
(* when the phase is chosen.                                               *)
Plan(c) ==
    LET gone == Rows(c) \ {Hook}
    IN /\ scenes' = (scenes \ gone) \cup {c}
       /\ media' = Without(gone)
       /\ phase' = IF AllPlanned(scenes \ gone) THEN "scenes_planned" ELSE "chapters_ready"
       /\ todo' = todo \ {c}
       /\ UNCHANGED <<texts, publish, made, status, pc, route, owed, bounds>>
FirstToPlan(c) == c \in todo /\ \A d \in todo : c <= d
PlanChapter(c) == At("plan") /\ FirstToPlan(c) /\ ~ChapterHolds(c) /\ Plan(c)

ScenesPlanned ==
    /\ At("plan") /\ todo = {}
    /\ Advance("scenes")
    /\ UNCHANGED product

-----------------------------------------------------------------------------
(* The story review is written once per project; then the tail, or the end.*)
Review ==
    /\ At("story_research_review")
    /\ reviewed' = TRUE
    /\ phase' = IF reviewed THEN phase ELSE "critique_complete"
    /\ IF opts.through = "full_video"
       THEN /\ GoTo("ensure")
            /\ todo' = {c \in Scripted : ~ChapterHolds(c)}
       ELSE End("succeeded") /\ UNCHANGED todo
    /\ UNCHANGED <<texts, publish, board, chars, film, route, owed, bounds>>

(* Before the tail every scripted chapter without scenes is planned; a     *)
(* chapter that cannot be planned is only logged.                          *)
EnsurePlan(c) == At("ensure") /\ FirstToPlan(c) /\ Plan(c)
EnsureSkipped(c) ==
    /\ At("ensure") /\ FirstToPlan(c)
    /\ todo' = todo \ {c}
    /\ UNCHANGED <<product, status, pc, route, owed, bounds>>

(* compute_hard_tail_floor: the earliest tail step still incomplete.       *)
HardFloor ==
    IF ~chars THEN "auto_characters"
    ELSE IF opts.images /\ ~(scenes \subseteq media["image"]) THEN "auto_images"
    ELSE IF opts.videos /\ ~(scenes \subseteq media["video"]) THEN "auto_videos"
    ELSE NoStep

EnterTail ==
    /\ At("ensure") /\ todo = {} /\ scenes # {}
    /\ tail' = ClampTail(NormalizeTail(tail, opts.images, opts.videos), HardFloor)
    /\ GoTo("auto_characters")
    /\ UNCHANGED <<product, opts, cont, gap, todo, owed, bounds>>

NeedsCharacters == ~chars \/ "auto_characters" \in opts.force
Characters ==
    /\ At("auto_characters")
    /\ chars' = TRUE
    /\ GoTo("auto_narration") /\ Did("auto_characters")
    /\ UNCHANGED <<phase, texts, publish, board, reviewed, film, route, todo, bounds>>

(* The passes over the scenes: voice tracks, then stills, then clips.      *)
MediaSteps == {"auto_narration", "auto_images", "auto_videos"}
KindOf     == [auto_narration |-> "voice", auto_images |-> "image", auto_videos |-> "video"]
AfterMedia == [auto_narration |-> "auto_images", auto_images |-> "auto_videos",
               auto_videos |-> "auto_timeline"]
Enabled(step) ==
    CASE step = "auto_narration" -> TRUE
      [] step = "auto_images"    -> opts.images
      [] step = "auto_videos"    -> opts.videos \/ step \in opts.force
Passes(step) == TailRuns(step, tail, opts.force) /\ Enabled(step)

(* Some more scenes get their medium, each committed on its own.           *)
Make(step, got) ==
    LET kind == KindOf[step]
    IN /\ At(step) /\ Passes(step)
       /\ got # {} /\ got \subseteq scenes \ media[kind]
       /\ media' = [media EXCEPT ![kind] = @ \cup got]
       /\ UNCHANGED <<phase, texts, publish, scenes, made, status, pc, route, todo, owed,
                      bounds>>

(* Stills and voices must be complete; clips only when the run is strict.  *)
MediaDone(step) ==
    /\ At(step) /\ Passes(step)
    /\ \/ scenes \subseteq media[KindOf[step]]
       \/ step = "auto_videos" /\ ~opts.strict
    /\ GoTo(AfterMedia[step]) /\ Did(step)
    /\ UNCHANGED <<product, route, todo, bounds>>

MediaSkipped(step) ==
    /\ At(step) /\ ~Passes(step)
    /\ GoTo(AfterMedia[step])
    /\ UNCHANGED <<product, route, todo, owed, bounds>>

(* The timeline takes a clip or a still of every scene.                    *)
Timeline_BUG ==
    /\ At("auto_timeline")
    /\ GoTo("auto_rough_cut") /\ Did("auto_timeline")
    /\ UNCHANGED <<product, route, todo, bounds>>
Timeline ==
    /\ At("auto_timeline") /\ scenes \subseteq Visual
    /\ GoTo("auto_rough_cut") /\ Did("auto_timeline")
    /\ UNCHANGED <<product, route, todo, bounds>>

RoughCut ==
    /\ At("auto_rough_cut")
    /\ GoTo("auto_final_cut") /\ Did("auto_rough_cut")
    /\ UNCHANGED <<product, route, todo, bounds>>

FinalCut ==
    /\ At("auto_final_cut")
    /\ film' = scenes
    /\ phase' = "final_video_ready"
    /\ End("succeeded") /\ Did("auto_final_cut")
    /\ UNCHANGED <<texts, publish, board, chars, reviewed, route, todo, bounds>>

-----------------------------------------------------------------------------
(* Where an exception ends the run, the refusals included, before the step *)
(* changed anything.  Skipped steps and swallowed failures do not end it.  *)
Fallible ==
    \/ pc = "preflight" /\ ~Skipped("chapters")
    \/ pc \in DOMAIN NextStep /\ ~Skipped(pc)
    \/ pc \in {"plan", "ensure"} /\ (pc = "ensure" => todo = {} /\ scenes = {})
    \/ pc = "story_research_review" /\ ~reviewed
    \/ pc = "auto_characters" /\ NeedsCharacters
    \/ pc \in MediaSteps /\ Passes(pc) /\ (pc = "auto_videos" => opts.strict)
    \/ pc \in {"auto_timeline", "auto_rough_cut", "auto_final_cut"}
Fail ==
    /\ status = "running" /\ Fallible
    /\ End("failed")
    /\ UNCHANGED <<product, route, todo, owed, bounds>>

(* The file of the cover is copied to the hook scene last.  When that      *)
(* fails, what the step did before is committed with the failure, for      *)
(* nothing is rolled back: the hook scene is left without its cover.       *)
CoverCopyFails ==
    /\ hook # Empty
    /\ \/ /\ Executes("thumbnail") /\ Rows(1) \cap scenes # {}
          /\ cover' = TRUE /\ phase' = "thumbnail_ready"
          /\ media' \in {media, [media EXCEPT !["image"] = @ \ {Hook}]}
       \/ /\ Executes("hook_scene") /\ chapters # {} /\ cover
          /\ media' = HookMedia(FALSE)
          /\ UNCHANGED <<cover, phase>>
    /\ scenes' = HookScenes /\ synced' = TRUE
    /\ End("failed")
    /\ UNCHANGED <<texts, hook, made, route, todo, owed, bounds>>

(* The user's stop, honoured at a checkpoint between or inside the steps.  *)
Halt ==
    /\ status = "running"
    /\ End("cancelled")
    /\ UNCHANGED <<product, route, todo, owed, bounds>>

(* save_thumbnail_upload, when no run is under way.                        *)
UploadCover ==
    /\ status # "running" /\ incidents < MaxIncidents
    /\ cover' = TRUE
    /\ phase' = "thumbnail_ready"
    /\ SyncHook(TRUE)
    /\ incidents' = incidents + 1
    /\ UNCHANGED <<texts, hook, made, status, pc, route, todo, owed, runs>>

(* patch_chapter_script: the user writes a script out; no phase changes.   *)
EditScript(c) ==
    /\ status # "running" /\ incidents < MaxIncidents
    /\ c \in chapters
    /\ script' = [script EXCEPT ![c] = Substantive]
    /\ incidents' = incidents + 1
    /\ UNCHANGED <<phase, pack, dossier, chapters, publish, board, made, status, pc, route, todo,
                   owed, runs>>

Worker ==
    \/ \E found \in Steps \cup {NoStep}, hint \in Hints \cup {NoStep} : Oversee(found, hint)
    \/ Preflight
    \/ \E step \in DOMAIN NextStep : SkipStep(step)
    \/ Direct
    \/ \E d \in {"thin", "met"} : Research(d)
    \/ GateAfterSkip \/ Approve \/ Outline
    \/ \E lengths \in [Chapters -> ScriptLengths] : WriteScripts(lengths)
    \/ StopAfterScripts
    \/ \E drawn \in BOOLEAN : Thumbnail(drawn)
    \/ \E text \in HookLengths : OpeningHook(text)
    \/ PlanScenes \/ ScenesPlanned
    \/ HookScene \/ OutroScene \/ Review
    \/ \E c \in Chapters : PlanChapter(c) \/ EnsurePlan(c) \/ EnsureSkipped(c)
    \/ EnterTail \/ Characters
    \/ \E step \in MediaSteps : \/ \E got \in SUBSET Scenes : Make(step, got)
                                 \/ MediaDone(step)
                                 \/ MediaSkipped(step)
    \/ Timeline \/ RoughCut \/ FinalCut
    \/ CoverCopyFails \/ Fail

Next ==
    \/ \E o \in Options : Launch(o)
    \/ Worker
    \/ Reenter \/ Halt \/ UploadCover
    \/ \E c \in Chapters : EditScript(c)

Spec == Init /\ [][Next]_vars

-----------------------------------------------------------------------------
(* No run ever destroys a still or a clip of a planned chapter: the agent  *)
(* passes no erase consent, whatever order of resumed, forced and failed   *)
(* runs it is in (services/erase_consent.py).                              *)
NoMediaErased ==
    [][\A c \in Chapters, kind \in {"image", "video"} :
          c \in media[kind] => c \in media'[kind]]_vars

(* Wherever the tail was entered, its export finds the character bible and,*)
(* when the run makes stills, a still for every scene: the hard floor pulls*)
(* an entry too far ahead back (clamp_tail_resume_to_hard_floor).          *)
FloorIsHonoured ==
    pc \in {"auto_timeline", "auto_rough_cut", "auto_final_cut"} =>
        chars /\ (opts.images => scenes \subseteq media["image"])

(* A full run that succeeds has delivered all scenes of the project, and   *)
(* each of them had something to show.                                     *)
FilmIsWhole ==
    status = "succeeded" /\ opts.through = "full_video" /\ phase = "final_video_ready" =>
        film = scenes /\ film # {} /\ film \subseteq Visual

(* No outline is written without a dossier, nor before the dossier passed  *)
(* the research gate or a later phase was reached: skipping the research   *)
(* of a resumed run does not skip its gate.                                *)
OutlineIsGated == Executes("outline") => dossier # "none" /\ ~(Ph < 3)

(* A full run that succeeds has executed every step the client forced,     *)
(* whatever the resume rules found already made, the tail entry skipped or *)
(* an earlier delivery of the task did; but for a step its own options     *)
(* switch off, the story review, written once per project, and the         *)
(* coverage pass, off by default.                                          *)
SwitchedOff ==
    {"story_research_review", "auto_scene_coverage"}
        \cup (IF opts.images THEN {} ELSE {"auto_images"})
        \cup (IF opts.outro THEN {} ELSE {"outro"})
ForcedStepsRan ==
    status = "succeeded" /\ opts.through = "full_video" => owed \subseteq SwitchedOff

(* A run started from a step after the scripts leaves every script of a    *)
(* project that has them alone, whatever gap oversight or the advisory     *)
(* model reports (clamp_oversight_floor).                                  *)
Focused ==
    /\ opts.rerun \in Steps /\ Rank[opts.rerun] > Rank["chapters"]
    /\ \A step \in opts.force : Rank[step] > Rank["chapters"]
    /\ opts.research # "yes"
FocusedRerunKeepsScripts ==
    [][status = "running" /\ Focused /\ pack /\ dossier # "none" /\ Ph >= 5
          => script' = script]_vars
=============================================================================
