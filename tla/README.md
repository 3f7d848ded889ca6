# Directely in TLA+

Directely (this repository) turns a brief into a documentary film. A FastAPI process takes
requests, Celery workers execute *jobs* (one asset, one cut) and *agent runs* (the whole
pipeline, unattended), PostgreSQL holds every piece of state, Redis carries the messages. On
a desktop everything runs in one process (`CELERY_EAGER=true`).

The modules in this directory describe the parts of it that are hard to test: what happens
to rows that several processes read, decide about and write back later, what a crash, a purge
or a second delivery leaves behind, and what a sequence of interrupted and resumed runs does
to a project. TLC checks them on small instances; TLAPS proves the most important results for
every value of the constants.

    tlc -workers 2 -config JobsLive.cfg MCJobLifecycle            # a run
    tlapm JobLifecycleProofs.tla                                  # proofs

Paths below are relative to `src/apps/api/director_api/` unless they start with another
directory of the repository. `PROJECT.json` maps every definition to the lines it translates.

---

## 1. The system

### Components

| component | state it keeps | operations | interacts with | what makes it correct |
|---|---|---|---|---|
| **Admission** `api/idempotency.py`, `services/usage_credits.py`, `services/job_quota.py`, `tasks/job_enqueue.py`, the routes that start a job | idempotency records, usage rows, new `jobs` rows | look a key up, check credits, insert, publish, store the answer | every client, jobs | all answers under a key name one job; credits are overdrawn by a bounded number; a row is lost only with its request |
| **Jobs** `api/routers/jobs.py`, `tasks/job_enqueue.py`, `services/job_worker_gate.py`, `tasks/worker_runtime.py`, `tasks/maintenance_tasks.py`, `services/job_orphan_recovery.py` | `jobs` rows; messages at the broker; revoked ids | create, publish, cancel, clear backlog, acquire, body outcomes, notify, reap, recover on start | broker, workers, webhooks, beat | a job executes once; a row somebody waits for moves on; a terminal row stays so |
| **Webhook delivery** `services/webhook_delivery.py` | nothing durable | post a verdict, retry | jobs | one verdict per job |
| **Agent run control** `api/routers/agent_runs.py`, `tasks/agent_run_control.py`, `tasks/agent_tasks.py`, `services/agent_run_orphan_recovery.py` | `agent_runs` rows: status and one JSON object of control flags | create (supersede, reconcile, count), pause, resume, stop, delete; checkpoint, yield and re-queue; reap; recover | jobs (backlog clear), broker, pipeline | a stop is honoured; one worker per run; a paused run comes back; nothing runs for ever |
| **Agent pipeline** `tasks/agent_impl.py`, `tasks/agent_publish_steps.py`, `tasks/phase3_impl.py`, `services/publish_*.py` | the project: phase, director pack, dossier, chapters, scripts, scenes, assets, characters, cuts | eighteen steps, each skipped, executed or failed | resume rules, erase gates, providers | nothing the user has is destroyed; nothing incomplete is exported; what was asked for is done |
| **Resume and oversight rules** `services/agent_resume.py`, `services/pipeline_oversight.py` | none (pure) | earliest gap, merge, clamp, skip | pipeline | a resumed run neither redoes what is there nor jumps over what is not |
| **Erase consent** `services/erase_consent.py` | none (pure) | gate before deleting | run creation, pipeline, scene board | no media deleted without consent |
| **Story and scene board** `tasks/worker_runtime.py`, `tasks/phase3_impl.py`, `services/publish_hook.py`, `services/publish_outro.py`, `services/publish_pack.py`, `services/manual_chapter_import.py`, `api/routers/workflow_phase2.py`, `workflow_phase3.py`, `workflow_publish.py` | `chapters`, `scenes` with their `order_index`, the hook text, `workflow_phase` | outline, scripts, regenerate, plan, extend, hook, outro, cover, manual import | language model, agent pipeline, media | the hook opens the film; no plan is lost half way; the phase tells the truth |
| **Scene takes** `tasks/agent_impl.py` (image and video pass), `tasks/phase3_impl.py`, `tasks/worker_helpers.py`, `api/routers/workflow_phase3.py` | `assets` of a scene: status and place in its gallery | generate (sequential, in threads, forced), upload, approve, reject, reorder | providers, scene rows' locks, run control | takes have places of their own; what is missing is counted at the end; failures are bounded |
| **Cuts** `tasks/phase5_compile_impl.py`, `tasks/phase5_impl.py`, `api/routers/workflow_phase5.py` | the timeline version, three films on disk | rough, fine and final cut, each making the one it needs | timeline repair, jobs, the editor | the film shows its timeline, in sync, and no rejected take |
| **Timeline repair and preflight** `services/timeline_image_repair.py`, `services/phase5_readiness.py` | none of its own: rewrites clips and approvals | sync, rebind, reconcile, approve, gate | cuts, the editor | a repair is stable; a rejection stands |
| Scene precompile `services/scene_precompile*.py` | rendered clips with a fingerprint beside each | schedule, render, invalidate | jobs | nothing: no cut reads them (the substituting function has no caller) |
| Idea schedules `services/project_ideas.py` | schedule rows | schedule, cancel, process due | beat, agent runs | an idea is started once |
| Narration, critics, coverage clips `tasks/phase4_impl.py`, `tasks/phase5_compile_impl.py`, `tasks/agent_impl.py` | narration tracks, critic reports, assets | generate, critique, revise | providers | bounded revision |
| Billing `api/routers/billing.py` | subscription row per tenant, event log | apply Stripe events | entitlements | the last event wins |
| Auth, rate limit, SSE, Telegram, YouTube, settings, storage, backup | rows or keys of their own | read and write one of them | - | no protocol: see *Not modelled* |
| Web UI, Electron shell, MCP server, FFmpeg pipelines, vendored TTS | - | clients, process launch, command lines | API | - |

The components in bold have modules.

### How they interact

Every handler of the API and every task of a worker works the same way: it *reads* a row, decides on what it
read, perhaps calls something slow, and *commits* an `UPDATE ... WHERE id = ...` that does
not look at the row again. No column carries a version, and one row is ever locked: a
scene's, while a take of it is generated (`tasks/worker_helpers.py:193`). Sessions have autoflush
off (`db/session.py`), so a query does not see what its own session has added, and a commit writes
the columns that differ from what was loaded. Messages are
published after the row is committed (one route, the repair of the rough cut's images, publishes
before). A message is acknowledged when a worker starts it, so a
worker that dies takes its task with it; a message that waits longer than Redis's visibility
timeout is delivered twice. Two beat tasks, every fifteen minutes, fail rows that have been
running for too long. Clearing the backlog purges the queues of *every* tenant.

The agent pipeline is one long function. It re-reads its run's control flags at checkpoints
between and inside steps. A resumed run decides from the project's state which steps to skip,
with a deterministic gap finder, an advisory language model whose answer is merged in, the
step the client chose, and a hard floor that the media tail may not start after.

What a run does, a user may do by hand at the same time: plan a chapter, generate or upload a
take, edit the timeline, export. Nothing excludes the two but the guards each handler asks
when it is called.

### The hard behaviours

* reads and commits of several processes interleave (jobs, run control, scene board, cuts);
* messages are lost (crash, purge, revocation) or delivered twice, without a lock behind them;
* one JSON column is read, changed and written back whole by four writers (control flags);
* a pause is an exception that travels through the `except` clauses of the steps;
* a run starts over in the middle of what an earlier delivery or an earlier run committed;
* the route of a run is fixed once, from facts that later change;
* the same steps that build a project delete what stands in their way;
* a retry by a client, and its first attempt, are two requests that read before either writes;
* a job asks its questions (consent, phase, order) before the language model answers and writes after;
* files are written beside the database, and no rollback takes them back;
* places in a chapter and in a gallery are numbers computed from what was read.

`PROJECT.json` lists each hazard at its line with the properties that would catch it.

---

## 2. The modules

    JobBoard  <--implements--  JobLifecycle      <--EXTENDS--  JobLifecycleProofs,  MCJobLifecycle
                               AgentRun          <--EXTENDS--  AgentRunProofs,      MCAgentRun
    PipelineRules  <--EXTENDS--  AgentPipeline   <--EXTENDS--  AgentPipelineProofs, MCAgentPipeline
    TimelineRepair <--EXTENDS--  ExportCuts      <--EXTENDS--  ExportCutsProofs,    MCExportCuts
                               Admission         <--EXTENDS--  AdmissionProofs,     MCAdmission
                               SceneBoard        <--EXTENDS--  SceneBoardProofs,    MCSceneBoard
                               SceneTakes        <--EXTENDS--  SceneTakesProofs,    MCSceneTakes

A request becomes a row in `Admission`, the row becomes work in `JobLifecycle`, a whole run is
`AgentRun` seen from outside and `AgentPipeline` seen from inside. `SceneBoard`, `SceneTakes` and
`ExportCuts` take three stretches of that inside (chapters and scene rows, takes, cuts) and let everybody
who writes them interleave, which `AgentPipeline`, with one worker and many steps, does not.

### JobBoard, JobLifecycle

`JobBoard` is the promise to whoever polls a job: rows go from queued to running to
terminal, only a process that *holds* a row (has read it and may still write it) changes it,
and only active rows come to be held. `JobLifecycle` is the code. Its state is the `jobs`
table (`status`, and `stale` for "started before the reaper's cutoff"), the broker (`msgs`,
`revoked`, `sigterm`), the workers (`pc`, `at`), and what each handler has read and not
yet written (`entering`, `cancelling`, `clearing`, `backlog`, `reaping`). So a read and its
commit are two actions wherever the code lets something happen in between:

| actions | code |
|---|---|
| `Create`, `Publish` | `create_job`: commit, then `enqueue_job_task` |
| `CancelRead`, `CancelCommit` | `cancel_job`: 409 unless active, revoke, commit |
| `ClearRead`, `ClearCommit`, `Purge` | `clear_task_backlog` |
| `Deliver`, `Acquire` | `acquire_job_for_work`: refresh and test; set running |
| `FinishOk`, `FinishFail`, `SoftTimeLimit`, `Terminated` | the outcomes of the task bodies; phases 3 to 5 re-read the row on a soft limit, the others do not |
| `Notify` | the `finally` block: re-read, post until answered |
| `Age`, `ReapScan`, `ReapCommit` | `reap_stale_jobs` |
| `ApiRestart` | process start, with `recover_orphaned_running_jobs` when eager |
| `Redeliver`, `Discard`, `WorkerCrash` | the broker and the operating system |

`lost`, `told`, `doubled` and `overlapped` are history: jobs whose message or executor was destroyed, the verdicts
a receiver has heard, jobs whose message was handed out again, and jobs two workers were acquiring at
once. A job of the last two kinds has `Raced`: only then may two workers execute it.

### AgentRun

The runs of one project: `status`, `ctrl` (the flags object: `paused`, `stop` and whose process
executes it), `old` (rows older than the API's boot, as `is_orphaned_agent_run` sees them),
messages, workers and requests. A worker's `copy` and a request's `seen` hold the flags object
it read and will write back *whole*; this is the essence of the component. `doubled` is history: the runs
whose message was handed out twice. The pipeline
between two looks at the row is abstracted to the place `body`, from which a worker may reach
a checkpoint, fail, be blocked, end, or die.

| actions | code |
|---|---|
| `ControlRead`, `PauseCommit`, `ResumeCommit`, `StopCommit`, `Delete` | `post_agent_run_control`, `delete_agent_run` |
| `CreateRead`, `CreateCancel`, `CreateCount`, `CreateInsert`, `CreatePublish` | `create_agent_run`: supersede or reconcile, commit, count, insert and commit, publish |
| `ClearRead`, `ClearCommit`, `Purge` | `clear_task_backlog`, as it concerns runs |
| `Deliver`, `Quit`, `Start` | the entry of `_run_agent_run_impl` |
| `Checkpoint`, `CheckpointStop`, `CheckpointPause`, `CheckpointResume` | `agent_run_checkpoint` |
| `Requeue`, `Fail`, `Block`, `FinishCancelled`, `FinishRead`, `Finish`, `WorkerCrash` | how the task ends; `Requeue` is `run_agent_run`'s handler of the pause |
| `ReapScan`, `ReapCommit`, `ApiRestart`, `Redeliver` | the reaper, the lifespan hooks, the broker |

### PipelineRules, AgentPipeline

`PipelineRules` has the pure routing rules: ranks of steps and phases, merging of gaps, the skip
rule, clamping to the client's step, the tail's entry, its normalisation and its floor.

`AgentPipeline` is what runs do to one project, step by step. Its state is the project (`phase`,
`pack`, `dossier`, `chapters`, `script`, `cover`, `hook`, `synced`, `scenes`, `media`, `chars`,
`reviewed`, `film`), the current run (`status`, `opts`) and the worker's local variables
(`pc`, `cont`, `gap`, `tail`, `todo`). A chapter stands for its planned scenes, the hook and
the outro are scenes of their own; a script or a hook is a length class, since the rules test
lengths 12, 50 and 200 and nothing else. What a model or provider returns is a
nondeterministic choice. `Fail` may end any step that can raise, before it changed anything;
`CoverCopyFails` is the one place where an exception comes after changes (the hook scene made
anew, its former cover deleted): nothing is rolled back, so they are committed with the
failure. `Halt` is the user's stop; `Reenter` is the task delivered again; `Launch`
starts the next run with any options of the instance; `UploadCover` and `EditScript` are the
user's edits between runs that the resume rules are sensitive to.

`Oversee` computes the route, `SkipStep` applies the resume rules, `Direct` to `Review` are the steps
up to the story review, `PlanScenes`/`PlanChapter`/`ScenesPlanned` the loop over chapters with its erase gate,
`EnsurePlan`/`EnsureSkipped` the plan-what-is-missing loop before the tail, `EnterTail` the
hard floor, `Make`/`MediaDone`/`MediaSkipped` the voice, still and clip passes, then the
timeline and the two cuts.

### Admission

How a request becomes a job: five accesses of two services with nothing around them. The state is
the stored `records`, the `jobs` rows with their messages, the credits `used`, and what each
request (`req`) has found out so far; `told` (the answers clients hold), `late` (rows admitted with
no credit left) and `cut` (rows whose request died) are history. All keyed routes are one action
each, with the route as a parameter.

| actions | code |
|---|---|
| `Ask`, `Lookup` | `require_idempotency_key`, `body_hash`; `idempotency_replay_or_conflict`: replay, 409, or go on |
| `Check` | `assert_credit_budget`: a sum of what finished work has recorded |
| `Insert`, `Publish`, `Store` | commit the row; `enqueue_job_task`; `store_idempotency`, which keeps the record that is there |
| `Command` | a chat command: no key, `exec_enqueue_rough_cut` and its siblings |
| `NarrateAll` | `project_narration_generate_all_scenes`: neither key nor check, one row after the other |
| `RepairAll`, `Flush`, `Commit` | `reject_and_regenerate_rough_cut_timeline_images`: rows flushed and published one by one, committed together |
| `Die` | a crash of the API or a publish that raises |
| `NotFound`, `Serve` | a worker that looks before the commit; a job that succeeds and records its credit |
| `Expire` | usage leaves the window of the budget |

### SceneBoard

The chapters and scene rows of one project and everybody who rewrites them. A job is what it
has read (`job`), its wait for the language model, and one transaction at the end. Everybody who writes the hook
scene looks at the rows first and writes later by what it saw: `seen` is the `order_index` a session has a row in
memory with, from which it renumbers, `text` the hook text it has loaded, `does` what it made of that.
A row is its chapter, its `order_index`, its role and who has it in memory. The unique indices
are part of every write: what would take a taken index fails and is rolled back whole. `crossed` is history: a hook
was inserted while another insertion was under way.

| actions | code |
|---|---|
| `OutlineBegin`/`Write` | gate of consent, then `_phase2_outline_core`: delete the chapters, insert the new ones |
| `ScriptsBegin`/`Write`, `RewriteBegin`/`Write` | `_phase2_chapters_core`, `_phase2_chapter_script_regenerate_core` |
| `PlanBegin`/`Write` | `_phase3_scenes_plan_for_chapter`: delete but for the hook, number after it, judge the phase |
| `ExtendBegin`/`Write` | `_phase3_scene_extend` |
| `OutroBegin`/`Go`/`Write`, `DeleteOutro` | `append_outro_scene`, which deletes a former outro and waits for whoever else does; `remove_outro_scene` |
| `AppendBegin`, `RemoveBegin`, `PatchBegin` | what the hook job, `remove_hook_scene` and `patch_opening_hook` read of text and rows; `Sync` is `sync_hook_scene_from_project` |
| `CoverBegin`, `CoverLook` | `thumbnail_core` and `save_thumbnail_upload`: the text is read at the start, the rows when the providers have answered |
| `HookWrite` | the commit of any of these: insert and shift the chapter up, remove and shift it down, or refresh; a hook another one has deleted meanwhile is skipped by a deletion and fails an update |
| `TextBegin`, `TextWrite` | `opening_hook_core` |
| `PatchScript`, `ImportChapter`, `ImportScenes` | `patch_chapter_script`, `create_chapter_with_manual_scenes`, `scenes_manual_import` |
| `Fail` | any of the jobs raises: rolled back |

Simplified: between the moment a hook write selects the rows to shift and its commit nothing happens; the job that
makes the hook scene loads text and rows together; the user's imports and script edits are one step.
`Tasks` bounds the kinds of jobs of a run; the theorems have all of them.

### SceneTakes

The takes of the scenes (`takes`: kind, status, place, and whether a worker made it), the transaction that holds
a scene's row (`open`), the media tail's passes (`run`, `want`, `tries`, `fails`), and requests caught
between their read and their write (`upload`, `order`). A generation locks the scene, picks a place,
calls the provider and commits; until then nobody sees its take.

| actions | code |
|---|---|
| `TakeUp`, `Fill`, `Filled` | `_auto_image_pass`: a scene in hand, a round of as many threads as stills are missing, the scene full |
| `Redo`, `AllForced`, `Tally` | the forced takes, then the count that decides what the pass missed |
| `Retry`, `GiveUp`, `StepOver` | the passes around `_auto_image_pass` and `_auto_video_pass` in `_run_agent_run_tail` |
| `Halt`, `ThreadStops`, `Stop` | the stop flag, at a checkpoint and inside a thread |
| `Generate`, `Succeed`, `Refused`, `Raised` | `_phase3_image_generate`, `_phase3_video_generate` and what their callers make of the answer |
| `JobStart`, `JobEnds`, `JobRaises` | the same, for a user's own job |
| `UploadPicks`, `UploadInserts` | uploads and stock imports: the place is read, then the row inserted when the lock is free |
| `Approve`, `Reject`, `OrderReads`, `OrderWrites` | `approve_asset`, `reject_asset`, `put_scene_asset_sequence` |

Simplified: a run makes both its media steps; the order of the scenes is left open; the commit
that closes a take after an exception is one with it; a generation is one take (the still a clip
job may make first is not told apart); only usable takes are rejected; the reorderings of one scene
follow each other.

### TimelineRepair, ExportCuts

`TimelineRepair` has the pure rules: which assets may be exported (`Ready`), which take a scene
gets (`BestImage`, `Primary`, `Scan`, `AnyVisual`), and what the repair makes of the clips: `Sync` with the storyboard,
`Rebound` by scene order, `Reconciled` clip by clip, approvals on the way (`Heal`), and the gate (`Exportable`).

`ExportCuts` makes the cuts. Its state is the media (`lib`), narration lengths, the timeline
`row`, the three films, each worker's `job` with its own copy of the row, and the `request` in progress: `seen` is what
a session loaded, `now` what it made of it, and a commit writes the columns in which they differ (`Written`), a refresh
forgets them (`Fresh`). Approvals are in hand (`stills`, `shown`) from the read to the commit, and the commit writes
`approved_at` only: a take rejected in between stays rejected *and* gets an approval, which the export rules accept.
`OutOfUse` is a take that is rejected and has none.

| actions | code |
|---|---|
| `Begin`, `End`, `Fail` | `_run_phase5_job_impl`: take up, commit, or roll back what the database holds |
| `HealTimeline`, `HealCommit` | `_phase5_auto_heal_before_export`: what it reads and decides; its commit, if it counted something |
| `Gate`, `Compile` | `compute_phase5_readiness`, `_rough_cut` |
| `NeedRough`, `Refresh`, `Burn` | `_fine_cut` |
| `NeedBase`, `Save`, `Plan`, `Clear`, `Reburn`, `Mux` | `_final_cut`: the cut it is made from, the narration's slots, the pictures widened to them, the films that no longer fit removed and made again, the mix |
| `ApproveRead`, `ApproveAllRead`, `ReconcileRead`, `RequestCommit` | the editor's requests that approve or repair: read, commit |
| `Patch`, `Reject`, `RejectFlagged` | the editor's requests that do not |
| `Arrive`, `Lose`, `Narrate` | takes generated or lost, narration made anew, by other jobs |

Of a job, `barred` (the takes out of use when a final cut began, and ever since) and `stale` (the media changed since the
repair read them) are history, and so is a film's `kept` (it was mixed over pictures that were there).

Simplified: one read of the library stands for all the reads of a repair, and a stage's preflight reads the media as they are; approvals are
ranked in the order of their commits, where the code stamps them with the time of the read; rejections, edits and media jobs are one
step; one request of an editor is in progress at a time.

### Conventions

A definition whose name ends in `_BUG`, or whose comment begins with "A mutant", stands before the definition it spoils and is no part of the
model: it is a plausible slip (a dropped guard, a forgotten publish, a reset too many) that
makes the property named with it in `PROJECT.json` fail, which shows that the property says
something about the code.

---

## 3. What is checked

| run | instance | distinct states | what it shows |
|---|---|---|---|
| `jobs_live` | 1 job, 2 workers, 2 tenants, 2 redeliveries, 1 crash | 205 thousand | `QueuedHasCarrier`, `RunningHasExecutor`: rows are orphaned only by a crash, a purge or a revocation; `SingleExecution`, `OneVerdict`: only a job that `Raced` is executed or heard twice; `ImplementsBoard`, and under fairness `RunningSettles`, `QueuedIsServed` |
| `runs_control` | 2 runs, 2 workers, 1 request at a time, no broker fault | 2.4 million | `WaitingRunIsCarried` |
| `runs_live` | 1 run, 2 workers, 1 redelivery or restart | 193 thousand | `SingleExecutor`, `StopSticks`, `SettledIsFinal`, and under fairness `StopSettles`, `RunningSettles` |
| `pipeline` | 2 chapters, 2 runs with 9 option records, 1 repeated delivery or edit | 1.6 million | `NoMediaErased`, `FloorIsHonoured`, `FilmIsWhole`, `OutlineIsGated`, `ForcedStepsRan`, `FocusedRerunKeepsScripts` |
| `exports` | 2 scenes, 3 assets, no outro, 1 worker, 2 export jobs, 2 edits or requests | 280 thousand | `FinalInSync`, `FinalShowsTimeline`, `NoRejectedTake`, `RejectionStands`, `RepairSettles` |
| `admission` | 2 clients, 1 key, 2 bodies, 1 credit, 3 rows, 1 crash | 1.0 million | `ToldOfOneJob`, `SpentKeyIsSpent`, `OvershootIsBounded`, `LostOnlyWhenCut` |
| `board` | 2 workers, 2 chapters, plans of 2 scenes, order indexes up to 2, the story's jobs with the hook made and its text written | 397 thousand | `PlannedStaysPlanned`, `PlannedPhaseIsEarned` |
| `board_hooks` | 2 workers, 1 chapter, all hook requests, outlines, plans, outros and imports | 381 thousand | `HookOpens`, `HookSurvivesReplan` |
| `takes` | 2 scenes, a still for each by 2 threads and then forced clips, 2 passes, 3 failed stills, 1 failed clip, 2 requests of users | 2.3 million | `GeneratedSlotsDiffer`, `StillsAreIn`, `StillTriesAreCapped` |

`pipeline` and `exports` also check their `TypeOK`. All the type invariants, and every safety and action property of the
table, are also theorems (section 4), for all values of the constants that satisfy the hypotheses named there.
`CHECK_DEADLOCK FALSE` everywhere: rows and inputs are finitely many, and a system whose rows are all
terminal has nothing left to do.

### The bounds, and why they are enough

* *Jobs.* What can go wrong is about one row and two parties that hold it; the second tenant is
  there for the purge, which destroys the messages of tenants that cleared nothing. Two workers
  are the least that can collide, two redeliveries let a third delivery come after a race; one crash is enough for
  each property to be lost by one. The proofs cover any number.
* *Runs.* Two rows for supersede and reconcile (one run acts on another), one request at a time
  in `runs_control`, since between rows the requests only meet through committed state; the
  races of two writers of one row are request against worker, and `runs_stop_lost`, which
  needs two requests, has two. `MaxFaults` bounds redeliveries and restarts together.
* *Pipeline.* Two chapters are the least for "some planned, some not". Two runs are the least
  for "resumed"; a third could only start from a state that a second with the same options
  reaches (the state between runs is the project's, and either run may fail anywhere).
  The option records are a plain run, a resumed one, one focused on clips with narration forced, a replan with consent, an
  outline forced with consent, no research and no stills, an attended and an unattended
  critique run, and a run through the scripts only. `ScriptLengths = {1, 3}`: a script too
  short to plan and one long enough to keep. `Hints` are an advice too early and one too late.
  `MaxIncidents = 1` allows one repeated delivery, one upload or one edit.
* *Exports.* Two scenes are the least that can be swapped or fall out of order. The first has an approved still, a
  voice track that lasts longer than its clip, so that a first final cut makes its pictures again, and may get a video, so that takes compete; the second has a still nobody has approved, so that a repair has something to approve
  and a rejection something to overtake. No titles are burned until an edit asks for them. Two jobs are the least for "a film lay there
  from before", two edits for a rejection between read and commit, or "rejected and replaced" between two stages. `Outro` is 0,
  where an old film may be as long as the new slots. One worker: the code takes no lock, and with two `FinalInSync` fails.
  A take out of use when the job began, approved and rejected again before the mix, needs more edits; the theorems have any number.
* *Admission.* Two requests race for one key, with the same body or another; a third row is what the
  retry after a crash inserts. One credit is the least that can be overdrawn. All keyed routes do
  the same, so one is offered to TLC; the proofs have any number.
* *Board.* Two workers are the least for a job that waits while another writes. Two chapters
  tell the first from the last; what concerns the hook happens in the first, so `board_hooks` has one, and all
  who write it, two at a time; what extensions do to it is left to the theorems. A plan of two scenes shifted by a hook fills the indexes up to
  `MaxIndex`; `MaxScenes = 2` lets an extension be refused.
* *Takes.* Two scenes for a pass that goes on with the next; two threads for a round;
  one failure more than there are passes, so that a cap could be crossed; two requests, so that an
  upload or a reordering may be caught between read and write while another take is made.

### Fairness

* Requests that have begun, return: `WF` on their commits (they are straight-line code).
* A worker leaves a body: tasks have hard time limits (`WF` on the disjunction of outcomes, not on any
  one of them: nothing promises success).
* A message that is again and again at the broker while a worker is free is taken: `SF` on
  `Deliver`, since workers consume the queues for ever, but are busy in between.
* Beat fires the reaper and time passes: `WF` on `Age`, `ReapScan`, `ReapCommit`.
* No fairness on anything a client, a fault or the operating system does. `QueuedIsServed`
  and `StopSettles` therefore except rows in `lost`: nothing in the code republishes them.

Liveness is asked where rows wait for somebody: of `JobLifecycle` and `AgentRun`. The other
modules say what a worker does with a row once it has it, and a worker may die at any step.

### Disagreements between code and documentation

Each is a run that TLC refutes, on a property that quotes the statement.

| run | property | what happens |
|---|---|---|
| `runs_stop_lost` | `StopIsKept` (`api/routers/agent_runs.py:418`) | a pause, resume or start that read the flags before a stop writes the stop away |
| `board_erase` | `EraseIsConfirmed` (`services/erase_consent.py:1`) | outline and plan jobs ask for consent before the language model answers and delete after: scenes planned or imported meanwhile are erased unasked |
| `takes_clips` | `ClipTriesAreCapped` (`tasks/agent_impl.py:1054`, `1185`) | a clip that is committed as failed counts as an answer: the loop that fills a scene asks again for ever in its first pass |

Met while modelling and without a run of their own. Runs and jobs:

* Two deliveries of one message both read *queued* before either commits *running*, and both
  execute (`services/job_worker_gate.py:42`; its docstring, lines 3-5, says the second does not).
* Paused runs are not counted, and the count is not atomic with the insert
  (`api/routers/agent_runs.py:41`, `298-306`): two runs of a project can be active, whatever the message at line 312 says.
* A pause raised inside a step's `try` is caught as a failure of the step
  (`tasks/agent_impl.py:1818`; by `tasks/agent_exceptions.py:17` it lets the task exit and re-queue).
* In eager mode the delayed poll of a paused run goes to a broker no one consumes
  (`tasks/agent_tasks.py:31`; `LOCAL-SETUP.md:68`).
* With Celery workers every run that has started looks orphaned to the API
  (`services/agent_run_orphan_recovery.py:52` compares process ids), so creating a run
  cancels one that is executing; the comment at line 126 speaks of zombies only.
* Clearing the backlog cancels a queued run without a stop flag, so a worker that has just
  read it goes on.
* The reapers' windows (two and four hours since `started_at`) know nothing of progress.
* `services/job_quota.py:62-66` admits any number of jobs; `phases/phase-06-hardening.md:20` describes caps.

Pipeline:

* A run continued after a failure in the voice pass enters the tail at the stills and delivers
  silent scenes (`services/pipeline_oversight.py:180`; lines 1-5 promise the earliest gap).
* A run continued after a failure between two chapters' plans replans the planned one; the erase
  gate refuses, and every later run fails the same way (`services/agent_resume.py:219`, against line 197).
* Uploading a cover sets the phase to `thumbnail_ready` from any phase
  (`services/publish_pack.py:242`), so a resumed run takes outline and scripts as done; a run
  through the scripts then succeeds with none, and an attended run blocked on a thin dossier
  passes its gate. `OutlineIsGated` is stated so that it allows the latter.
* The consent a client sends with a run is checked when it is created
  (`api/routers/agent_runs.py:232-262`) and never reaches the worker, whose own gates refuse:
  a consented outline or replan of a project with scenes always fails.
* `_ensure_scene_plans_for_scripted_chapters_missing_scenes` (`tasks/agent_impl.py:386-441`) logs a chapter it cannot plan and goes
  on; its docstring wants every scripted chapter covered.
* `rerun_web_research` on a finished project drops its phase to research approved.
* A fresh run that is delivered again redoes the outline of its first delivery.

Cuts:

* The pictures of an earlier cut are reused when their length fits, whatever the clips are by now
  (`tasks/phase5_compile_impl.py:1263`), so a final cut may show another timeline, or a take rejected since. The code means to save the
  work; `FinalShowsTimeline` and `NoRejectedTake` are therefore about films whose pictures were made again.
* A repair (and every request that approves) reads takes as succeeded, looks at the disk, and commits `approved_at` only
  (`services/timeline_image_repair.py:889`, `929`; `tasks/phase5_impl.py:47`; `api/routers/projects.py:491`): a take rejected in between
  (`api/routers/workflow_phase3.py:890-898`) ends rejected and approved, and the export rules accept it. `RejectionStands` excepts the takes
  somebody had in hand when they were rejected, `NoRejectedTake` counts them as in use.
* A fine cut that makes its rough cut refreshes the row and loses the `render_status` it set
  (`tasks/phase5_compile_impl.py:1824-1826`), which the final cut saves itself from (comment at 1162-1164).
* A timeline edited between the moment a job loaded it and its repair is exported unrepaired: the repair works on the
  row as loaded, and where it changes nothing the refresh takes the edit over. `RepairSettles` excepts that case by `seen.doc = row.doc`.
* Two of the three passes over the clips never find anything in a repair: once the storyboard was followed no clip is
  left for the rebinding (`services/timeline_image_repair.py:349`) or the reconciliation (`:748`) to change
  (the lemma `HealIsSync` of `TimelineRepairProofs`).

Admission:

* The repair of the rough cut's images publishes inside the transaction that inserts
  (`api/routers/projects.py:440-443`): a worker may look before the commit and find nothing;
  `services/scene_precompile_enqueue.py:25-26` explains why that must not be done.
* A crash or an overlap leaves two jobs under one key; `phases/phase-03-scenes-media.md:55` wants no
  duplicate billing rows. Clients are told of one, which is what `ToldOfOneJob` says.
* Some routes ask their guard on the project before they look the key up, so the repetition of a
  request that succeeded may get 409 (`research/run`, `scenes/generate`).
* The narration of all scenes never checks the credits (`api/routers/workflow_phase5.py:834-898`);
  a job that fails rolls back the usage rows of the calls it made.

Scene board:

* `db/models.py:466` declares a unique order of the scenes of a chapter that no migration creates.
  `SceneBoard` takes the tables of `db/models.py`; on a migrated database what the index refuses goes through,
  and `HookOpens` is not claimed.
* With that index, the hook's shift renumbers a chapter row by row in the order of random keys
  (`services/publish_hook.py:160-166`; the sort there does not order the flush), which may meet a taken index and fail; without it,
  nothing stops two rows at one place.
* `services/manual_chapter_import.py:24` and `services/publish_outro.py:69` count chapters and scenes from the last
  index, read earlier: two of them collide, and one fails.
* Two jobs that replace one hook: the second's deletion (`services/publish_hook.py:155-158`) waits for the first's, then matches nothing;
  it shifts the hook the first has made (line 161) and inserts its own. Two hook scenes are left, one at index 1.
  `HookOpens` is claimed as long as no two insertions have `crossed`.
* A cover job syncs the hook scene from the text it loaded before its providers answered (`services/publish_pack.py:201`): it deletes the scene of
  a text written meanwhile, or makes one for a text that was cleared. `HookSurvivesReplan` lets a writer that looked for the hook to remove it do so.
* Two outro jobs may leave two outros; later scenes go behind an outro; a replan of the last chapter deletes it.
* `replace_existing_scenes=true` passes the guard of `scenes/generate` (`api/routers/workflow_phase3.py:290-304`) but is not in the
  job's payload, so the worker's gate (`tasks/phase3_impl.py:116-124`) refuses the replan the message recommends.
* The script gate is asked when a job is enqueued only (`api/routers/workflow_phase2.py:76-84`); a
  script edited while its job runs is overwritten; a failed research leaves its phase behind, which refuses the next one.

Takes:

* An upload's `int(mx or -1) + 1` gives the second take place 0 again
  (`api/routers/workflow_phase3.py:1091`, and four siblings); `GeneratedSlotsDiffer` is about workers' takes only.
* Two overlapping reorderings may leave two takes at one place (`api/routers/workflow_phase3.py:978`).
* An exception in the sequential branch leaves the asset *running* for ever: `asset_running_guard`
  (`tasks/worker_helpers.py:228`) has no caller.
* A pause that a thread meets counts as a failure of its scene.
* The scene's row lock is held during the provider's call, and everybody who inserts a take waits for it.

---

## 4. What is proved

TLAPS checks these for every value of the constants: any number of jobs, workers, tenants,
runs, requests, chapters, scenes, options, redeliveries, crashes.

| module | theorem | says | argument |
|---|---|---|---|
| `JobLifecycleProofs` | `TypeCorrect` | `[]TypeOK` | inductive |
| | `RunningRowsHaveExecutors` | `[]RunningHasExecutor` | with `TypeOK`, a worker's place determines the row it acquired |
| | `Implementation` | `JobLifecycle` implements `JobBoard` | every action is a `Submit`, `Hold` or `Write` of the board or a stutter: a copy is only made of a row read as active, and only its holder writes |
| | `SettledRowsAreFinal` | `SettledIsFinal` | a step changes a row only through a process that holds it, and a new holder needs an active row |
| | `QueuedRowsHaveCarriers` | `[]QueuedHasCarrier` | each step that takes a carrier away hands the job to another or puts it in `lost`; a request cannot be reused before it has published |
| | `ExecutionsAreSingle`, `VerdictsAreSingle` | `[]SingleExecution`, `[]OneVerdict`, with redeliveries | `OneToken`: of a job not `doubled`, publishing request, message and worker exclude one another, and nothing is told before the one that holds it ends. `OneReader`: of a job not `overlapped`, whoever reads it queued is the first, since the row leaves *queued* before the next one looks |
| `AgentRunProofs` | `TypeCorrect` | `[]TypeOK` | inductive |
| | `CommittedStopSticks` | `StopSticks` | with a stop committed and no stale copy, every new copy has the stop, and every writer writes a copy |
| | `SettledRunsAreFinal` | `SettledIsFinal` | only whoever holds a run writes its status, and a new holder needs an active one |
| | `OneExecutorPerRun` | `[]SingleExecutor`, with redeliveries | `OneToken` of the runs not `doubled`; it needs that a request's row is inserted by that request alone |
| | `WaitingRunsAreCarried`, `QueuedRunsAreCarried` | with `~Eager`, `[]WaitingRunIsCarried`; `Eager` or not, the part on queued runs | `WaitersAreCarried`: whoever makes a run wait publishes for it or has done so, or it is in `lost`. In eager mode the poll of a paused run goes to a broker nobody reads, so TLC finds a paused run uncarried |
| `AgentPipelineProofs` | `FloorHonoured` | `[]FloorIsHonoured` | from `TailOK` |
| | `MediaSurvives` | `NoMediaErased` | from `BoardOK` and `TodoOK`: only a chapter without scenes is planned |
| | `GatedOutline` | `[]OutlineIsGated` | from what is known at the gate, the approval and the outline |
| | `FocusedRerunIsSafe` | `FocusedRerunKeepsScripts` | while the run is under way its gap is the client's step, hence after the scripts, hence they are skipped |
| | `PipelineTypes` | `[]TypeOK` | inductive with `BoardOK`; the program counter has a type of its own |
| | `FullRunsDeliver` | `[]FilmIsWhole` | `FilmInv`: only a full run enters the tail, there are scenes from there on, and past the timeline each has a still or a clip |
| | `ForcedStepsAreRun` | `[]ForcedStepsRan` | `OwedInv`: at each place, the forced steps not yet executed are switched off or still ahead; the steps have a rank, the places the rank from which one may owe |
| `TimelineRepairProofs` | `RepairIsStable` | `Heal` after `Heal` changes nothing | see below |
| `ExportCutsProofs` | `ExportTypes` | `[]TypeOK` | `LibInv`: with the types of the jobs' own rows, and that an absent take has no approval and is in nobody's hands |
| | `RejectionHolds` | `RejectionStands`, any number of workers | whatever a repair or a bulk approval takes in hand had succeeded when it was read (`HealApproves`), and a commit approves only what is in hand |
| | `RepairsSettle` | `RepairSettles`, any number of workers | `RepairIsStable`, on the row the job's commit and refresh leave it, the media being those it read (`HealedOK`) |
| | `FinalCutsAreInSync` | with one worker, `[]FinalInSync` | `SyncInv`: the stages a final cut may be in once it has its manifest, and that whatever film it then keeps is as long as its slots |
| | `FinalCutsShowTheTimeline`, `RejectedTakesAreNotShown` | with one worker and any outro, `[]FinalShowsTimeline`, `[]NoRejectedTake` | `ShownOK`: a job that does not keep the pictures there are compiles them from the timeline it planned, and that passed the gate, with no take out of use |
| `AdmissionProofs` | `TypeCorrect` | `[]TypeOK` | inductive |
| | `AnswersAgree` | `[]ToldOfOneJob` | an answer is told only when stored or replayed, and a record is stored once, for a row of its key and body |
| | `SpentKeysStaySpent` | `SpentKeyIsSpent` | behind a record every lookup replays, so the requests that missed it can only finish |
| | `Overshoot` | `[]OvershootIsBounded` | while credits are left nothing is late; afterwards a late row takes its client out of `Cleared`, and nobody enters |
| | `LossesAreCuts` | `[]LostOnlyWhenCut` | a row without a message is in its request's hands or its request was cut; `Repaired`: only a repair leaves rows uncommitted while it publishes |
| `SceneBoardProofs` | `TypeCorrect` | `[]TypeOK` | inductive; rows have their chapter and indexes differ |
| | `HookIsFirst` | `[]HookOpens` | `HooksTidy`: until insertions cross, the hook has index 0, nobody has it in memory elsewhere, and whoever is about to insert has found it and will replace it |
| | `PlansAreKept`, `HooksAreKept` | `PlannedStaysPlanned`, `HookSurvivesReplan` | what deletes rows either inserts in the same step or deletes chapters, or spares the hook, or looked for the hook to remove it |
| | `PhaseIsEarned` | `PlannedPhaseIsEarned` | the only chapter whose script a job may have loaded before it had one is the chapter the job itself plans or extends, and that one gets its rows in the same step |
| `SceneTakesProofs` | `TypeCorrect` | `[]TypeOK` | inductive |
| | `SlotsApart` | `[]GeneratedSlotsDiffer` | `SlotsOK`, below |
| | `StillsCapped` | `[]StillTriesAreCapped` | a scene has failed at most as often as the passes begun, less often while it may be tried again in this one, and nothing is in hand between scenes |
| | `StillsComeIn` | `[]StillsAreIn` | `StillsKept`: a scene is ahead of the pass, or the stills it has and those rejected since it was counted are enough |

None of the safety properties is inductive alone. For the pipeline `RouteInv` adds that media
lies on scenes that exist (`BoardOK`), that the chapters left to plan before the tail have no scenes
(`TodoOK`), and the heart of it, `TailOK`: as long as a still is missing, the entry the tail was given
still lets the still pass run; and behind that pass none is missing. The entry is computed once,
at `EnterTail`, and the lemma `ClampedEntryRunsFloor` shows what clamping it to the floor is
worth; after that stills only grow. `FocusedRerunIsSafe` needs that the phase is at least
that of the scripts when the outline or the scripts are met, which is a premise of the
property, step by step, and that the run's gap was pinned by `Oversee`.

For the takes, `SlotsOK` says why places may be picked from a count as well as from the highest place: an open
generation's place is above all others and at least their number, a pending reordering writes places below
its length, and the workers' takes that came after it was read lie at or above that length. So the reordering
cannot land on them, nor the next generation on what it leaves.

For the cuts, `SyncInv` follows the one worker's job by the stage it is in, because what lies on disk may be from
any earlier job; what it needs of the slots is the lemma `WidenedShows`: widening shows the same takes. One worker is a hypothesis because
it is the code's own limit: two workers share the files, and TLC finds the property violated.

For the hook, what a second writer has in memory decides where rows end up, so `HooksTidy` is about memories: an insertion that is
under way has the hook there is in memory at 0, or there is none. A second insertion that commits meanwhile makes a hook the first
has not seen, and this is what `crossed` records; a removal or a refresh in between does no harm.

`RepairIsStable` is the result about a pure algorithm. The library may change between the two repairs only by what the first one
approved. `HealIsSync` shows that following the storyboard is all a repair does to the clips: each clip then *fits*
(`Fits`: its asset may be exported, or is what some scene would be given, or nothing in the project is better), and a clip that fits is passed over by the
rest. `ChoiceStands` shows that the choice for a scene is stable under the approvals that follow: an approved take is preferred, the newest approval
first, and what is approved now is what was chosen. `BoardStands` and `NoMoreStills` say the same of the storyboard and of the stills approved
on the way, `SyncAgain` puts them together. It uses of `InOrder` only that it lists the takes it is given, so it
holds for any order of a scene's takes, and for any narration lengths at the second repair. It needs `Sound`: no absent row has an approval, which `LibInv` keeps and
`ExportAssumption` asks of the initial library; rejected rows may have one. Where an absent row may have one, TLC finds a second repair that has more to do.

The operators written with folds (`FlattenSeq` of the storyboard) and with `CHOOSE` over an order are unfolded
by hand: a lemma names the function the fold computes, shows it exists by the least counterexample (`LeastExists`), and
gives its step (`FlatteningUnfolds`, `InOrderExists`).

The proofs use the modules' named assumptions (`JobsAssumption`, `RunsAssumption`, `PipelineAssumption`,
`RepairAssumption`, `ExportAssumption`, `AdmissionAssumption`, `SceneBoardAssumption`, `SceneTakesAssumption`):
types of the constants, finiteness where something is counted, and that `None` is no row. TLC evaluates them in every run.

**Only model-checked.** Liveness (`RunningSettles`, `QueuedIsServed`, `StopSettles`): fairness and `ENABLED` are out of the
prover's reach, and so are `RECURSIVE` operators, of which there is none, and the library's induction theorems, whose place the
least counterexample takes. The three disagreements are runs that TLC refutes. The negative cases (a job that raced is executed twice, a run delivered twice has two
executors; with two workers a film goes out of sync; two insertions that cross leave two hooks) are findings of TLC, not theorems.

---

## 5. What is not modelled

* The components of `PROJECT.json` with status `not_modelled`, each with its reason: those
  without a protocol of their own (settings, projects, SSE, rate limit, auth, storage), those that are calls to outside
  services (providers, YouTube, Telegram), clients (web, desktop shell, MCP), pure command
  lines (FFmpeg), generated or third-party code; a cache nobody reads (scene precompile); and those the plan still has.
  More than half of the repository's lines are of these kinds: the web UI alone has about 29 thousand, the vendored
  speech model 9 thousand. The map covers the protocols, about one line in seven of the whole.
* *Admission*: plans and their overrides are one constant; the caps on projects and of the public plan;
  the handlers' own guards, which refuse without a trace.
* *Jobs*: what a body computes; asset rows left running and failed on restart; signatures and
  back-off of webhooks.
* *Runs*: the contents of the steps (they are `AgentPipeline`); the link between a run's steps and its
  jobs; several projects, which share nothing but the purge.
* *Pipeline*: scene coverage, Pexels filling and the placeholder heal, all off by default; the
  number of takes per scene, which is `SceneTakes`' (here a scene has a still or has none, and the clip
  pass ends, see `takes_clips`); publishing to YouTube. Two workers inside one project are the subject of `AgentRun`,
  the user's edits beside a run those of `SceneBoard`, `SceneTakes` and `ExportCuts`.
* *Board*: texts, durations, media rows (they cascade with their scene), research.
* *Takes*: coverage clips, stock filling before a pass, prompts, files, usage rows.
* *Cuts*: the gates on narration and music, music itself, chapter cards, crossfade padding, subtitles, the export
  bundle, the upload, relinking of files by path, `render_status` set by hand. Narration is its length.

---

## 6. Plan

Order: what destroys or loses the user's work first.

1. *Done.* `JobBoard`, `JobLifecycle` with refinement; `AgentRun`; `PipelineRules`, `AgentPipeline`;
   `TimelineRepair`, `ExportCuts`; `Admission`; `SceneBoard`; `SceneTakes`; the theorems above.
2. `IdeaSchedule`: beat, crash and cancel around a schedule row (`services/project_ideas.py:234`: the run is committed and
   published before its row leaves pending), with `AgentRun`'s rows as its product. Instance: two
   schedules, two beats, one crash.
3. `Billing`: Stripe's events, repeated and reordered, against "the subscription's last state wins"
   (`api/routers/billing.py:388-421` records a repeated event once and applies it each time; the deletion of an old
   subscription cancels the row of a new one).
4. Composition: `Admission`'s rows as the `Submit` of `JobBoard`; `SceneTakes` under `AgentPipeline`'s media passes.
5. Theorems: every safety and action property of the passing runs has one. Left are laws of the routing rules (that
   `NormalizeTail` never moves an entry past a pass the run wants; that `Merge` is the meet of two hints is the lemma
   `MergeIsMeet`), and step simulation between `AgentPipeline` and `SceneTakes` once they are composed.

Runs are kept few: a new module's pass run takes the place of a violation run whose point a
reader can take from the lists in section 3.
