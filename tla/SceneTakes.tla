----------------------------- MODULE SceneTakes -----------------------------
(***************************************************************************)
(* The takes of a film's scenes: stills and clips, made by the media tail  *)
(* of an agent run (tasks/agent_impl.py, the image and the video pass), by *)
(* a worker that serves a user's own request for one, and brought by users *)
(* who also approve, reject and reorder them.                              *)
(*                                                                         *)
(* Whoever generates a take locks the scene's row, picks the take's place  *)
(* among the others, calls the provider, and commits: the take is seen by  *)
(* nobody until then.  Requests that insert a take wait for the lock (the  *)
(* foreign key), but read before they wait.                                *)
(*                                                                         *)
(* The run makes both steps and the order of its scenes is left open.  A   *)
(* take that fails by an exception is closed by the commit that follows    *)
(* it.  A generation is one take: the still a clip job may make first is   *)
(* not told apart.                                                         *)
(***************************************************************************)
EXTENDS Integers, FiniteSets, Sequences

CONSTANTS
    Scenes,                  \* the scenes of the film
    MinStills, MinClips,     \* min_scene_images, min_scene_videos
    ForceStills, ForceClips, \* force_regen_images, force_regen_videos
    Conc,                    \* auto_images_max_concurrency
    Passes,                  \* _AUTO_SCENE_MEDIA_MAX_PASSES
    MaxFails,                \* bound: failed tries of the run, of each kind
    Requests                 \* bound: requests of users

ASSUME SceneTakesAssumption ==
    /\ IsFiniteSet(Scenes)
    /\ MinStills \in Nat /\ MinClips \in Nat
    /\ ForceStills \in BOOLEAN /\ ForceClips \in BOOLEAN
    /\ Conc \in Nat \ {0} /\ Passes \in Nat \ {0}
    /\ MaxFails \in [{"still", "clip"} -> Nat] /\ Requests \in Nat

Kinds == {"still", "clip"}
Statuses == {"running", "succeeded", "failed", "rejected", "pending"}
Take == [kind : Kinds, status : Statuses, slot : Nat, by : {"worker", "user"}]

VARIABLES
    takes,   \* the committed takes of each scene, oldest first
    open,    \* the transaction that holds the scene's row, and the take it makes
    run,     \* the media tail: the step, the pass, the scenes in hand
    want,    \* scenes one of the run's threads is about to generate for
    tries,   \* failed tries of the run, of each kind and scene
    fails,   \* those of all scenes together
    lost,    \* stills rejected since the run last counted the scene's
    upload,  \* uploads that have picked a place and wait to insert
    order,   \* the places a reordering is about to write, <<>> for none
    stop,    \* stop requested of the run
    asked    \* requests of users so far

vars == <<takes, open, run, want, tries, fails, lost, upload, order, stop, asked>>
users == <<upload, order, stop, asked>>

Closed == [by |-> "nobody", kind |-> "still", slot |-> 0]

TypeOK ==
    /\ takes \in [Scenes -> Seq(Take)]
    /\ open \in [Scenes -> [by : {"nobody", "run", "job"}, kind : Kinds, slot : Nat]]
    /\ run \in [state : {"on", "stopped", "failed", "done"}, kind : Kinds, pass : 1..Passes,
                todo : SUBSET Scenes, batch : SUBSET Scenes, left : SUBSET Scenes,
                stage : {"fill", "force", "tally"}, missing : SUBSET Scenes]
    /\ want \subseteq Scenes
    /\ tries \in [Kinds -> [Scenes -> Nat]]
    /\ fails \in [Kinds -> Nat]
    /\ lost \in [Scenes -> Nat]
    /\ upload \subseteq [scene : Scenes, slot : Nat, nth : Nat]
    /\ order \in [Scenes -> Seq(Nat)]
    /\ stop \in BOOLEAN /\ asked \in 0..Requests

Init ==
    /\ takes = [s \in Scenes |-> <<>>]
    /\ open = [s \in Scenes |-> Closed]
    /\ run = [state |-> "on", kind |-> "still", pass |-> 1, todo |-> Scenes, batch |-> {},
              left |-> {}, stage |-> "fill", missing |-> {}]
    /\ want = {}
    /\ tries = [k \in Kinds |-> [s \in Scenes |-> 0]]
    /\ fails = [k \in Kinds |-> 0] /\ lost = [s \in Scenes |-> 0]
    /\ upload = {} /\ order = [s \in Scenes |-> <<>>]
    /\ stop = FALSE /\ asked = 0

-----------------------------------------------------------------------------
(* A take's place.                                                         *)

Slots(s) == {takes[s][i].slot : i \in DOMAIN takes[s]}
Top(s) == CHOOSE n \in Slots(s) : \A m \in Slots(s) : m <= n
AboveTop(s) == IF takes[s] = <<>> THEN 0 ELSE Top(s) + 1

(* A mutant: places are counted by the highest one alone.                  *)
NextSlotByTop(s) == AboveTop(s)
NextSlot(s) == IF AboveTop(s) < Len(takes[s]) THEN Len(takes[s]) ELSE AboveTop(s)

(* int(mx or -1) + 1: none yet and 0 alike give 0.                         *)
UploadSlot(s) == IF AboveTop(s) = 1 THEN 0 ELSE AboveTop(s)

Free(s) == open[s].by = "nobody"

Good(k, s) ==
    Cardinality({i \in DOMAIN takes[s] : takes[s][i].kind = k /\ takes[s][i].status = "succeeded"})

Added(s, k, status, slot, by) ==
    takes' = [takes EXCEPT ![s] =
        Append(@, [kind |-> k, status |-> status, slot |-> slot, by |-> by])]

-----------------------------------------------------------------------------
(* The media tail.                                                         *)

AtLeast(k) == IF k = "still" THEN MinStills ELSE MinClips
Forced(k)  == IF k = "still" THEN ForceStills ELSE ForceClips
Width(k)   == IF k = "still" THEN Conc ELSE 1
Lacks(s)   == Good(run.kind, s) < AtLeast(run.kind)

On(stage) == run.state = "on" /\ run.stage = stage /\ run.batch # {}
Quiet == want = {} /\ \A s \in Scenes : open[s].by # "run"

(* One scene after the other, or all of them in rounds of Conc threads.    *)
TakeUp ==
    /\ run.state = "on" /\ run.batch = {} /\ ~stop
    /\ \E b \in (SUBSET run.todo) \ {{}} :
        /\ IF Width(run.kind) = 1 THEN Cardinality(b) = 1 ELSE b = run.todo
        /\ run' = [run EXCEPT !.batch = b, !.todo = @ \ b, !.stage = "fill", !.left = {}]
    /\ UNCHANGED <<takes, open, want, tries, fails, lost, users>>

Chunk(from) ==
    {c \in SUBSET from : c # {} /\ Cardinality(c) =
        IF Cardinality(from) < Width(run.kind) THEN Cardinality(from) ELSE Width(run.kind)}

Under == {s \in run.batch \ run.missing : Lacks(s)}

Fill ==
    /\ On("fill") /\ Quiet /\ ~stop
    /\ want' \in Chunk(Under)
    /\ UNCHANGED <<takes, open, run, tries, fails, lost, users>>

Counted(now) == [now EXCEPT !.stage = "tally", !.batch = @ \ now.missing]

Filled ==
    /\ On("fill") /\ Quiet /\ Under = {}
    /\ stop => Width(run.kind) = 1
    /\ run' = IF Forced(run.kind)
              THEN [run EXCEPT !.stage = "force", !.left = run.batch \ run.missing]
              ELSE Counted(run)
    /\ UNCHANGED <<takes, open, want, tries, fails, lost, users>>

(* With force_regen each scene gets one more take, needed or not.          *)
Redo ==
    /\ On("force") /\ Quiet /\ ~stop
    /\ \E c \in Chunk(run.left) : want' = c /\ run' = [run EXCEPT !.left = @ \ c]
    /\ UNCHANGED <<takes, open, tries, fails, lost, users>>

AllForced ==
    /\ On("force") /\ Quiet /\ run.left = {}
    /\ run' = Counted(run)
    /\ UNCHANGED <<takes, open, want, tries, fails, lost, users>>

(* A mutant: what the rounds have filled is not counted again.             *)
TallyUncounted(s) ==
    /\ On("tally") /\ s \in run.batch
    /\ run' = [run EXCEPT !.batch = @ \ {s}]
    /\ lost' = IF run.kind = "still" THEN [lost EXCEPT ![s] = 0] ELSE lost
    /\ UNCHANGED <<takes, open, want, tries, fails, users>>

(* The scene is counted once more: a take may have been rejected meanwhile. *)
Tally(s) ==
    /\ On("tally") /\ s \in run.batch
    /\ run' = [run EXCEPT !.batch = @ \ {s}, !.missing = IF Lacks(s) THEN @ \cup {s} ELSE @]
    /\ lost' = IF run.kind = "still" THEN [lost EXCEPT ![s] = 0] ELSE lost
    /\ UNCHANGED <<takes, open, want, tries, fails, users>>

PassOver == run.state = "on" /\ run.batch = {} /\ run.todo = {}

Retry ==
    /\ PassOver /\ run.missing # {} /\ run.pass < Passes
    /\ run' = [run EXCEPT !.pass = @ + 1, !.todo = run.missing, !.missing = {}]
    /\ UNCHANGED <<takes, open, want, tries, fails, lost, users>>

(* Stills that cannot be had fail the run; clips only if the run is told   *)
(* so (abort_on_auto_video_failure), which is left open.                   *)
GiveUp ==
    /\ PassOver /\ run.missing # {} /\ run.pass = Passes
    /\ \/ run' = [run EXCEPT !.state = "failed"]
       \/ run.kind = "clip" /\ run' = [run EXCEPT !.state = "done"]
    /\ UNCHANGED <<takes, open, want, tries, fails, lost, users>>

StepOver ==
    /\ PassOver /\ run.missing = {}
    /\ run' = IF run.kind = "still"
              THEN [run EXCEPT !.kind = "clip", !.pass = 1, !.todo = Scenes]
              ELSE [run EXCEPT !.state = "done"]
    /\ UNCHANGED <<takes, open, want, tries, fails, lost, users>>

(* The checkpoints of a pass, and the one a thread makes.                  *)
Halt ==
    /\ stop /\ run.state = "on" /\ Quiet
    /\ \/ run.batch = {} /\ run.todo # {}
       \/ On("fill") /\ (Width(run.kind) > 1 \/ Under # {})
       \/ On("force") /\ run.left # {}
    /\ run' = [run EXCEPT !.state = "stopped"]
    /\ UNCHANGED <<takes, open, want, tries, fails, lost, users>>

ThreadStops(s) ==
    /\ s \in want /\ stop
    /\ want' = want \ {s}
    /\ run' = [run EXCEPT !.state = "stopped"]
    /\ UNCHANGED <<takes, open, tries, fails, lost, users>>

(* A thread that has passed its checkpoint gets the scene's row.           *)
Generate(s) ==
    /\ s \in want /\ Free(s)
    /\ want' = want \ {s}
    /\ open' = [open EXCEPT ![s] = [by |-> "run", kind |-> run.kind, slot |-> NextSlot(s)]]
    /\ UNCHANGED <<takes, run, tries, fails, lost, users>>

(* A mutant: the image pass takes a failed still for an answer.            *)
MissedByException(k, result) == result = "raised"

(* The result a pass takes for a failure: _gen_one_video looks for an      *)
(* exception only, and goes on to count.                                   *)
Missed(k, result) == IF k = "still" THEN result # "ok" ELSE result = "raised"

Answer(s, result) ==
    /\ run' = IF run.state = "on" /\ Missed(run.kind, result)
              THEN [run EXCEPT !.missing = @ \cup {s}] ELSE run
    /\ IF result = "ok" THEN UNCHANGED <<tries, fails>>
       ELSE /\ tries' = [tries EXCEPT ![open[s].kind][s] = @ + 1]
            /\ fails[open[s].kind] < MaxFails[open[s].kind]
            /\ fails' = [fails EXCEPT ![open[s].kind] = @ + 1]
    /\ open' = [open EXCEPT ![s] = Closed]
    /\ UNCHANGED <<want, lost, users>>

Succeed(s) ==
    /\ open[s].by = "run"
    /\ Added(s, open[s].kind, "succeeded", open[s].slot, "worker")
    /\ Answer(s, "ok")

(* The provider answers that it could not.                                 *)
Refused(s) ==
    /\ open[s].by = "run"
    /\ Added(s, open[s].kind, "failed", open[s].slot, "worker")
    /\ Answer(s, "refused")

(* An exception: a thread of the pool rolls back; the main session does    *)
(* not, and its next commit leaves a take that is running for ever, unless *)
(* the exception came before there was one.                                *)
Raised(s) ==
    /\ open[s].by = "run"
    /\ \/ UNCHANGED takes
       \/ Width(open[s].kind) = 1 /\ Added(s, open[s].kind, "running", open[s].slot, "worker")
    /\ Answer(s, "raised")

-----------------------------------------------------------------------------
(* Users, and the worker that serves their requests for a take.            *)

Asks == asked < Requests /\ asked' = asked + 1
system == <<run, want, tries, fails>>

JobStart(s, k) ==
    /\ Asks /\ Free(s)
    /\ open' = [open EXCEPT ![s] = [by |-> "job", kind |-> k, slot |-> NextSlot(s)]]
    /\ UNCHANGED <<takes, system, lost, upload, order, stop>>

JobEnds(s, status) ==
    /\ open[s].by = "job"
    /\ Added(s, open[s].kind, status, open[s].slot, "worker")
    /\ open' = [open EXCEPT ![s] = Closed]
    /\ UNCHANGED <<system, lost, users>>

JobRaises(s) ==
    /\ open[s].by = "job"
    /\ open' = [open EXCEPT ![s] = Closed]
    /\ UNCHANGED <<takes, system, lost, users>>

(* An upload, or an import from a stock library, picks its place without   *)
(* the lock; the insert waits for whoever holds the scene's row.           *)
UploadPicks(s) ==
    /\ Asks
    /\ upload' = upload \cup {[scene |-> s, slot |-> UploadSlot(s), nth |-> asked]}
    /\ UNCHANGED <<takes, open, system, lost, order, stop>>

UploadInserts(u, k) ==
    /\ u \in upload /\ Free(u.scene)
    /\ Added(u.scene, k, "succeeded", u.slot, "user")
    /\ upload' = upload \ {u}
    /\ UNCHANGED <<open, system, lost, order, stop, asked>>

Marked(t, status) == [t EXCEPT !.status = status]
Changed(s, i, status) ==
    takes' = [takes EXCEPT ![s] = [takes[s] EXCEPT ![i] = Marked(takes[s][i], status)]]

(* Only usable takes are rejected: a take without its file never becomes   *)
(* usable again.                                                           *)
Reject(s, i) ==
    /\ Asks
    /\ i \in DOMAIN takes[s] /\ takes[s][i].status = "succeeded"
    /\ Changed(s, i, "rejected")
    /\ lost' = IF takes[s][i].kind = "still" THEN [lost EXCEPT ![s] = @ + 1] ELSE lost
    /\ UNCHANGED <<open, system, upload, order, stop>>

(* A take whose file is on disk is usable again; one without waits.        *)
Approve(s, i) ==
    /\ Asks
    /\ i \in DOMAIN takes[s] /\ takes[s][i].status \in {"rejected", "failed"}
    /\ Changed(s, i, IF takes[s][i].status = "rejected" THEN "succeeded" ELSE "pending")
    /\ UNCHANGED <<open, system, lost, upload, order, stop>>

(* Reordering reads the takes without the lock and numbers what it read;   *)
(* those of one scene follow each other.                                   *)
Places(n) == {p \in [1..n -> 0..(n - 1)] : \A i, j \in 1..n : i # j => p[i] # p[j]}

Moved(t, n) == [t EXCEPT !.slot = n]
Renumbered(ts, p) == [i \in 1..Len(ts) |-> IF i <= Len(p) THEN Moved(ts[i], p[i]) ELSE ts[i]]

OrderReads(s) ==
    /\ Asks /\ order[s] = <<>> /\ takes[s] # <<>>
    /\ \E p \in Places(Len(takes[s])) : order' = [order EXCEPT ![s] = p]
    /\ UNCHANGED <<takes, open, system, lost, upload, stop>>

OrderWrites(s) ==
    /\ order[s] # <<>>
    /\ takes' = [takes EXCEPT ![s] = Renumbered(takes[s], order[s])]
    /\ order' = [order EXCEPT ![s] = <<>>]
    /\ UNCHANGED <<open, system, lost, upload, stop, asked>>

Stop ==
    /\ Asks /\ ~stop /\ run.state = "on"
    /\ stop' = TRUE
    /\ UNCHANGED <<takes, open, system, lost, upload, order>>

-----------------------------------------------------------------------------
RunStep ==
    \/ TakeUp \/ Fill \/ Filled \/ Redo \/ AllForced
    \/ Retry \/ GiveUp \/ StepOver \/ Halt
    \/ \E s \in Scenes :
        \/ Tally(s) \/ ThreadStops(s) \/ Generate(s)
        \/ Succeed(s) \/ Refused(s) \/ Raised(s)

UserStep ==
    \/ Stop
    \/ \E u \in upload, k \in Kinds : UploadInserts(u, k)
    \/ \E s \in Scenes :
        \/ \E k \in Kinds : JobStart(s, k)
        \/ \E status \in {"succeeded", "failed"} : JobEnds(s, status)
        \/ JobRaises(s) \/ UploadPicks(s) \/ OrderReads(s) \/ OrderWrites(s)
        \/ \E i \in DOMAIN takes[s] : Reject(s, i) \/ Approve(s, i)

Next == RunStep \/ UserStep

Spec == Init /\ [][Next]_vars

-----------------------------------------------------------------------------
(* Two takes that workers made of one scene never have the same place,     *)
(* whatever was uploaded, imported and reordered while they were made: the *)
(* lock keeps generations apart, and counting the takes as well as their   *)
(* highest place keeps clear of a reordering that renumbers the others.    *)
GeneratedSlotsDiffer ==
    \A s \in Scenes : \A i, j \in DOMAIN takes[s] :
        i # j /\ takes[s][i].by = "worker" /\ takes[s][j].by = "worker"
            => takes[s][i].slot # takes[s][j].slot

(* When the run goes on to its clips, each scene has the stills it was     *)
(* asked for, but for those rejected after it was last counted.            *)
StillsAreIn ==
    (run.kind = "clip" \/ run.state = "done") =>
        \A s \in Scenes : Good("still", s) + lost[s] >= MinStills

(* However the provider fails, a scene's still is tried and missed once a  *)
(* pass at most, and the passes are counted (media_retry_passes_cap).      *)
StillTriesAreCapped == \A s \in Scenes : tries["still"][s] <= Passes

(* The same of its clips, which the event that starts the step and the one *)
(* that ends it ("after retries") both say.                                *)
ClipTriesAreCapped == \A s \in Scenes : tries["clip"][s] <= Passes
=============================================================================
