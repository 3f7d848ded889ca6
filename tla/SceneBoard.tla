----------------------------- MODULE SceneBoard -----------------------------
(* The chapters and scene rows of one project, and everybody who rewrites   *)
(* them: outline, script, planning, extension and outro jobs, each of which *)
(* reads the board, waits for a language model and writes in one            *)
(* transaction at the end; everybody who makes, drops or refreshes the hook *)
(* scene, which looks at the rows and writes by what it has seen of them;   *)
(* and the user's imports and edits.  Rows carry the order_index that the   *)
(* tables of db/models.py keep unique: a write that meets a taken index     *)
(* fails and is rolled back whole.                                          *)
EXTENDS Naturals, FiniteSets

CONSTANTS
    Workers,      \* workers that take these jobs, handlers of the hook requests
    Tasks,        \* bound: the kinds of jobs and hook requests there are
    MaxScenes,    \* scenes a chapter may hold when one more is asked for (48)
    MaxChapters,  \* bound: chapters of the project
    MaxIndex,     \* bound: order_index of a scene row
    Outlines,     \* numbers of chapters an outline may have
    Plans,        \* order_index sets a scene plan may have
    Summaries,    \* outlines have summaries that can be planned from
    None

Deeds == {"insert", "remove", "keep", "nothing"}  \* what a writer does to the hook scene

ASSUME SceneBoardAssumption ==
    /\ MaxScenes \in Nat \ {0}
    /\ MaxChapters \in Nat \ {0}
    /\ MaxIndex \in Nat
    /\ Outlines \subseteq 1..MaxChapters
    /\ Plans \subseteq (SUBSET Nat) \ {{}}
    /\ \A plan \in Plans : IsFiniteSet(plan) /\ Cardinality(plan) <= MaxScenes
    /\ Summaries \in BOOLEAN
    /\ None \notin Nat \cup Deeds

VARIABLES
    script,  \* the chapters, by order_index: TRUE once there is script text
    rows,    \* scene rows
    hook,    \* the project has an opening hook text
    phase,   \* workflow_phase
    job,     \* what each worker has read so far
    crossed  \* history: a hook was inserted while another insertion was under way

vars == <<script, rows, hook, phase, job, crossed>>

Roles  == {"beat", "hook", "outro"}
Phases == {"director_ready", "outline_ready", "chapters_ready", "thumbnail_ready",
           "hook_ready", "scenes_planned", "outro_ready"}
HookKinds == {"append", "cover", "patch", "remove", "text"}
Kinds  == {"outline", "scripts", "rewrite", "plan", "extend", "outro"} \cup HookKinds

\* seen: the order_index each worker has the row in memory with, if it has.
Row == [ch : 0..MaxChapters, idx : Nat, role : Roles, seen : [Workers -> Nat \cup {None}]]

(* of: the chapters the job works on, emptied when they are deleted; bare:  *)
(* those it loaded without a script; next: the order_index it will use, or  *)
(* that of the hook it found; loaded: workflow_phase as it was loaded, when *)
(* the job may set that value; text: the hook text it loaded or will write; *)
(* does: what it will do to the hook scene.                                 *)
ChapterSets == SUBSET (0..MaxChapters)
Job   == [kind : Kinds, of : ChapterSets, bare : ChapterSets, next : Nat \cup {None},
          loaded : Phases \cup {None}, text : BOOLEAN \cup {None},
          does : Deeds \cup {None}]
NoJob == [kind |-> "none", of |-> {}, bare |-> {}, next |-> None, loaded |-> None,
          text |-> None, does |-> None]
MaySet == [outline |-> {"outline_ready"}, scripts |-> {"chapters_ready"}, rewrite |-> {},
           plan |-> {"chapters_ready", "scenes_planned"}, extend |-> {"scenes_planned"},
           outro |-> {"outro_ready"}, append |-> {}, remove |-> {},
           cover |-> {"thumbnail_ready"}, text |-> {"hook_ready"},
           patch |-> {"chapters_ready", "thumbnail_ready"}]

Chapters == DOMAIN script
First(c) == c \in Chapters /\ \A d \in Chapters : c <= d
Last(c)  == c \in Chapters /\ \A d \in Chapters : d <= c
RowsOf(c, R) == {r \in R : r.ch = c}
Held(c)  == RowsOf(c, rows)
Beats(c) == {r \in Held(c) : r.role = "beat"}

(* No two rows share a chapter and an index, as the database has it.        *)
Distinct(R) == \A r, s \in R : r.ch = s.ch /\ r.idx = s.idx => r = s

TypeOK ==
    /\ Chapters \subseteq 0..MaxChapters /\ script \in [Chapters -> BOOLEAN]
    /\ rows \subseteq Row /\ Distinct(rows)
    /\ \A r \in rows : r.ch \in Chapters
    /\ hook \in BOOLEAN
    /\ phase \in Phases
    /\ job \in [Workers -> Job \cup {NoJob}]
    /\ \A w \in Workers : job[w].of \subseteq Chapters /\ job[w].bare \subseteq job[w].of
    /\ crossed \in BOOLEAN

Init ==
    /\ script = [c \in {} |-> TRUE]
    /\ rows = {}
    /\ hook = FALSE
    /\ phase = "director_ready"
    /\ job = [w \in Workers |-> NoJob]
    /\ crossed = FALSE

-----------------------------------------------------------------------------
(* Indexes, as the code computes them: "max or -1" takes a maximum of 0 for *)
(* none, and the next index is 0 again.                                     *)
OrMinusOne(top)       == IF top = 0 THEN 0 ELSE top + 1
IsTop(r, R)           == r \in R /\ \A s \in R : s.idx <= r.idx
IsNextAfter(n, c, R)  ==
    \/ RowsOf(c, R) = {} /\ n = 0
    \/ \E r \in RowsOf(c, R) : IsTop(r, RowsOf(c, R)) /\ n = OrMinusOne(r.idx)
IsNextChapter(n) ==
    \/ Chapters = {} /\ n = 0
    \/ \E c \in Chapters : Last(c) /\ n = OrMinusOne(c)

Unseen == [w \in Workers |-> None]
NewRows(c, at, role) == {[ch |-> c, idx |-> i, role |-> role, seen |-> Unseen] : i \in at}
Taken(c, at, R) == \E r \in R : r.ch = c /\ r.idx \in at
Offset(at, n)   == {i + n : i \in at}

(* What a replan keeps of its chapter, and where it starts numbering.       *)
\* A mutant: a replan that forgets the hook.
DoomedAll(c) == Held(c)
Doomed(c) == {r \in Held(c) : ~(First(c) /\ r.role = "hook")}
HookIn(R) == {r \in R : First(r.ch) /\ r.role = "hook"}
ReplanAt(c, plan) == Offset(plan, IF First(c) /\ HookIn(rows) # {} THEN 1 ELSE 0)

(* all_scripted_chapters_have_scenes, which counts what is flushed and sees *)
(* the scripts of the chapters a job loaded as they were then.              *)
\* A mutant: one planned chapter is enough.
SomePlanned(texts, R) == \E c \in DOMAIN texts : texts[c] /\ RowsOf(c, R) # {}
AllPlanned(texts, R) == \A c \in DOMAIN texts : texts[c] => RowsOf(c, R) # {}
Loaded(w) == [c \in Chapters |-> script[c] /\ c \notin job[w].bare]

(* Assigning the value that was loaded writes nothing.                      *)
Assign(w, new) == phase' = IF new = job[w].loaded THEN phase ELSE new

-----------------------------------------------------------------------------
(* A worker's job: it begins with what it reads, and ends by its write or   *)
(* by failing, which changes nothing.                                       *)
Idle(w)     == job[w] = NoJob
Takes(w, kind) == Idle(w) /\ kind \in Tasks
Fresh(kind) == [NoJob EXCEPT !.kind = kind,
                             !.loaded = IF phase \in MaySet[kind] THEN phase ELSE None]
Begins(w, kind, of, next) ==
    /\ Takes(w, kind)
    /\ job' = [job EXCEPT ![w] =
                  [Fresh(kind) EXCEPT !.of = of, !.next = next,
                      !.bare = {c \in of : kind \in {"plan", "extend"} /\ ~script[c]}]]
Writing(w, kind) == job[w].kind = kind
Ends(w)     == job' = [job EXCEPT ![w] = NoJob]
Forget(w, R) == {[r EXCEPT !.seen[w] = None] : r \in R}

\* A mutant: the deletion is committed before the new scenes are in.
FailHalfway(w) ==
    /\ ~Idle(w) /\ Ends(w)
    /\ rows' = Forget(w, rows \ {r \in rows : job[w].kind = "plan" /\ r.ch \in job[w].of})
    /\ UNCHANGED <<script, hook, phase, crossed>>
Fail(w) ==
    /\ ~Idle(w)
    /\ Ends(w) /\ rows' = Forget(w, rows)
    /\ UNCHANGED <<script, hook, phase, crossed>>

(* An outro job has deleted the row it found but not committed: whoever     *)
(* deletes it too waits.                                                    *)
Deleting(r)  ==
    {w \in Workers : r.seen[w] # None /\ Writing(w, "outro") /\ job[w].next # None}
Released(R)  == \A r \in R : Deleting(r) = {}

(* Outline: the erase gate is asked at the start, everything there is at    *)
(* the end is deleted.                                                      *)
OutlineBegin(w) ==
    /\ rows = {}
    /\ Begins(w, "outline", {}, None)
    /\ UNCHANGED <<script, rows, hook, phase, crossed>>
OutlineWrite(w, n) ==
    /\ Writing(w, "outline") /\ Released(rows)
    /\ script' = [c \in 0..(n - 1) |-> FALSE]
    /\ rows' = {}
    /\ job' = [v \in Workers |-> IF v = w THEN NoJob ELSE [job[v] EXCEPT !.of = {}, !.bare = {}]]
    /\ Assign(w, "outline_ready")
    /\ crossed' = FALSE
    /\ UNCHANGED hook

(* Scripts, of every chapter or of one: the rows it loaded must be there.   *)
ScriptsBegin(w) ==
    /\ Chapters # {}
    /\ Begins(w, "scripts", Chapters, None)
    /\ UNCHANGED <<script, rows, hook, phase, crossed>>
RewriteBegin(w, c) ==
    /\ c \in Chapters
    /\ Begins(w, "rewrite", {c}, None)
    /\ UNCHANGED <<script, rows, hook, phase, crossed>>
Scripted(of) == [c \in Chapters |-> script[c] \/ c \in of]
ScriptsWrite(w) ==
    /\ Writing(w, "scripts") /\ job[w].of # {}
    /\ script' = Scripted(job[w].of)
    /\ Assign(w, "chapters_ready")
    /\ Ends(w)
    /\ UNCHANGED <<rows, hook, crossed>>
RewriteWrite(w) ==
    /\ Writing(w, "rewrite") /\ job[w].of # {}
    /\ script' = Scripted(job[w].of)
    /\ Ends(w)
    /\ UNCHANGED <<rows, hook, phase, crossed>>

(* Planning: the erase gate is asked at the start, the chapter's scenes are *)
(* deleted and the new ones numbered at the end.                            *)
PlanBegin(w, c) ==
    /\ c \in Chapters /\ (script[c] \/ Summaries)
    /\ Held(c) = {}
    /\ Begins(w, "plan", {c}, None)
    /\ UNCHANGED <<script, rows, hook, phase, crossed>>
PlanWrite(w, c, plan) ==
    LET kept == rows \ Doomed(c)
        at   == ReplanAt(c, plan)
    IN /\ Writing(w, "plan") /\ job[w].of = {c} /\ Released(Doomed(c))
       /\ ~Taken(c, at, kept)
       /\ rows' = kept \cup NewRows(c, at, "beat")
       /\ Assign(w, IF AllPlanned(Loaded(w), kept) THEN "scenes_planned" ELSE "chapters_ready")
       /\ Ends(w)
       /\ UNCHANGED <<script, hook, crossed>>

(* One scene more, behind the last there was when the job began.            *)
ExtendBegin(w, r) ==
    /\ IsTop(r, Held(r.ch)) /\ r.idx < MaxIndex
    /\ Cardinality(Held(r.ch)) < MaxScenes
    /\ Begins(w, "extend", {r.ch}, r.idx + 1)
    /\ UNCHANGED <<script, rows, hook, phase, crossed>>
ExtendWrite(w, c) ==
    /\ Writing(w, "extend") /\ job[w].of = {c}
    /\ ~Taken(c, {job[w].next}, rows)
    /\ rows' = rows \cup NewRows(c, {job[w].next}, "beat")
    /\ IF AllPlanned(Loaded(w), rows) THEN Assign(w, "scenes_planned") ELSE UNCHANGED phase
    /\ Ends(w)
    /\ UNCHANGED <<script, hook, crossed>>

(* The outro: the one that is found goes, a new one follows the last scene  *)
(* of the last chapter.  A job that finds a row another one is deleting     *)
(* waits, and reads the index when that one is through.                     *)
TopOutro(r) ==
    /\ r \in rows /\ r.role = "outro"
    /\ \A s \in rows : s.role = "outro" => s.ch < r.ch \/ (s.ch = r.ch /\ s.idx <= r.idx)
Found(w)  == {r \in rows : r.role = "outro" /\ r.seen[w] # None}
OutroBegin(w, c, n) ==
    LET old == {r \in rows : TopOutro(r)}
    IN /\ Last(c)
       /\ IsNextAfter(n, c, rows \ old)
       /\ Begins(w, "outro", {c}, IF Released(old) THEN n ELSE None)
       /\ rows' = {IF r \in old THEN [r EXCEPT !.seen[w] = 0] ELSE r : r \in rows}
       /\ UNCHANGED <<script, hook, phase, crossed>>
OutroGo(w, c, n) ==
    /\ Writing(w, "outro") /\ job[w].next = None /\ job[w].of = {c}
    /\ Released(Found(w))
    /\ IsNextAfter(n, c, rows \ Found(w))
    /\ job' = [job EXCEPT ![w].next = n]
    /\ UNCHANGED <<script, rows, hook, phase, crossed>>
OutroWrite(w, c) ==
    LET kept == Forget(w, rows \ Found(w))
    IN /\ Writing(w, "outro") /\ job[w].next # None /\ job[w].of = {c}
       /\ ~Taken(c, {job[w].next}, kept)
       /\ rows' = kept \cup NewRows(c, {job[w].next}, "outro")
       /\ Assign(w, "outro_ready")
       /\ Ends(w)
       /\ UNCHANGED <<script, hook, crossed>>

-----------------------------------------------------------------------------
(* The hook scene.  Whoever writes it loads the rows of the first chapter,  *)
(* decides, and renumbers them by the indexes it has in memory; rows it has *)
(* not loaded, it reads then.  A hook that it found and that was deleted    *)
(* since makes no difference to a deletion, and fails an update.            *)
Opening      == {c \in Chapters : First(c)}
IsHookAt(n)  ==
    \/ HookIn(rows) = {} /\ n = None
    \/ \E r \in HookIn(rows) : n = r.idx /\ \A s \in HookIn(rows) : r.idx <= s.idx

\* sync_hook_scene_from_project, by the text it has in memory.
Sync(text) ==
    IF ~text THEN IF HookIn(rows) = {} THEN "nothing" ELSE "remove"
    ELSE IF HookIn(rows) # {} THEN "keep"
    ELSE IF \E c \in Opening : Held(c) # {} THEN "insert" ELSE "nothing"

\* The rows it will go by: those it renumbers, or the hook it refreshes.
Minds(r, does) == r.ch \in Opening /\ (does \in {"insert", "remove"}
                                       \/ (does = "keep" /\ IsHookAt(r.idx) /\ r.role = "hook"))
Looks(w, begun, does, n) ==
    /\ IsHookAt(n)
    /\ job' = [job EXCEPT ![w] = [begun EXCEPT !.of = Opening, !.next = n, !.does = does]]
    /\ rows' = {IF Minds(r, does) THEN [r EXCEPT !.seen[w] = r.idx] ELSE r : r \in rows}
    /\ UNCHANGED <<script, hook, phase, crossed>>

\* The job that makes the hook scene, and the request that deletes it.
AppendBegin(w, n) ==
    /\ Takes(w, "append") /\ hook /\ Chapters # {}
    /\ Looks(w, Fresh("append"), "insert", n)
RemoveBegin(w, n) ==
    /\ Takes(w, "remove")
    /\ Looks(w, Fresh("remove"), Sync(FALSE), n)
\* The request that changes the text: one that changes nothing writes none.
PatchBegin(w, text, n) ==
    /\ Takes(w, "patch")
    /\ \E to \in {text} \cup (IF text = hook THEN {None} ELSE {}) :
          Looks(w, [Fresh("patch") EXCEPT !.text = to], Sync(text), n)
\* The cover, from the providers or uploaded: the text is loaded at the
\* start, the rows only when the cover is there.
CoverBegin(w) ==
    /\ Takes(w, "cover")
    /\ job' = [job EXCEPT ![w] = [Fresh("cover") EXCEPT !.text = hook]]
    /\ UNCHANGED <<script, rows, hook, phase, crossed>>
CoverLook(w, n) ==
    /\ Writing(w, "cover") /\ job[w].does = None
    /\ Looks(w, [job[w] EXCEPT !.text = None], Sync(job[w].text), n)

SeenAs(r, w) == IF r.seen[w] = None THEN r.idx ELSE r.seen[w]
\* A mutant: the hook that is there is not replaced.
NoOld(w) == {}
Old(w) ==
    {r \in rows : r.role = "hook" /\ r.seen[w] # None /\ r.seen[w] = job[w].next}
Up(r, w)   == [r EXCEPT !.idx = SeenAs(r, w) + 1, !.seen[w] = None]
Down(r, w) == [r EXCEPT !.idx = IF SeenAs(r, w) > 0 THEN SeenAs(r, w) - 1 ELSE @,
                        !.seen[w] = None]
Renumbered(w) ==
    {IF r.ch \notin job[w].of THEN r
     ELSE IF job[w].does = "insert" THEN Up(r, w) ELSE Down(r, w) : r \in rows \ Old(w)}

\* Another insertion has looked and not written yet.
Inserting(w) == job[w].does = "insert" /\ job[w].of # {}

HookScene(w) ==
    \/ /\ job[w].does = "insert" /\ \E c \in job[w].of : rows' = Renumbered(w) \cup NewRows(c, {0}, "hook")
       /\ crossed' = (crossed \/ \E v \in Workers \ {w} : Inserting(v))
    \/ /\ job[w].does = "remove" /\ rows' = Renumbered(w)
       /\ UNCHANGED crossed
    \/ /\ job[w].does = "nothing" \/ (job[w].does = "keep" /\ Old(w) # {})
       /\ rows' = Forget(w, rows)
       /\ UNCHANGED crossed

(* Renumbering goes row by row in the order of their random keys, under the *)
(* unique index: with two rows or more that may fail on the way, too.       *)
Roomy(R) == \A r \in R : r.idx <= MaxIndex
HookWrite(w) ==
    /\ HookScene(w)
    /\ job[w].does \in {"insert", "remove"} =>
          Distinct(rows') /\ Roomy(rows') /\ \A c \in job[w].of : Released(Held(c))
    /\ hook' = IF job[w].text = None THEN hook ELSE job[w].text
    /\ CASE Writing(w, "cover") -> Assign(w, "thumbnail_ready")
         [] Writing(w, "patch") -> phase' = IF job[w].loaded # None THEN "hook_ready" ELSE phase
         [] OTHER               -> UNCHANGED phase
    /\ Ends(w)
    /\ UNCHANGED script

\* The job that writes the text, and leaves the scene alone.
TextBegin(w) ==
    /\ Begins(w, "text", {}, None)
    /\ UNCHANGED <<script, rows, hook, phase, crossed>>
TextWrite(w) ==
    /\ Writing(w, "text")
    /\ hook' = TRUE
    /\ Assign(w, "hook_ready")
    /\ Ends(w)
    /\ UNCHANGED <<script, rows, crossed>>

-----------------------------------------------------------------------------
(* What the user does, one request at a time.                               *)
DeleteOutro(r) ==
    /\ TopOutro(r) /\ Released({r})
    /\ rows' = rows \ {r}
    /\ UNCHANGED <<script, hook, phase, job, crossed>>

PatchScript(c) ==
    /\ c \in Chapters /\ ~script[c]
    /\ script' = [script EXCEPT ![c] = TRUE]
    /\ UNCHANGED <<rows, hook, phase, job, crossed>>

Early == {"director_ready", "outline_ready"}
AfterImport(texts, R) ==
    IF AllPlanned(texts, R) THEN "scenes_planned"
    ELSE IF phase \in Early THEN "chapters_ready" ELSE phase

(* A chapter made of pasted lines, one scene each.                          *)
ImportChapter(c, plan) ==
    LET texts == [d \in Chapters \cup {c} |-> IF d = c THEN TRUE ELSE script[d]]
    IN /\ IsNextChapter(c) /\ c \notin Chapters
       /\ script' = texts
       /\ rows' = rows \cup NewRows(c, plan, "beat")
       /\ phase' = AfterImport(texts, rows)
       /\ UNCHANGED <<hook, job, crossed>>

(* A chapter's scenes from pasted lines; replacing any takes a confirmation.*)
ImportScenes(c, plan, confirmed) ==
    LET kept  == rows \ Doomed(c)
        at    == ReplanAt(c, plan)
        texts == [script EXCEPT ![c] = TRUE]
    IN /\ c \in Chapters
       /\ Held(c) # {} => confirmed /\ Released(Doomed(c))
       /\ ~Taken(c, at, kept)
       /\ script' = texts
       /\ rows' = kept \cup NewRows(c, at, "beat")
       /\ phase' = AfterImport(texts, kept)
       /\ UNCHANGED <<hook, job, crossed>>

-----------------------------------------------------------------------------
JobBegins(w) ==
    \/ OutlineBegin(w) \/ ScriptsBegin(w)
    \/ \E c \in Chapters : RewriteBegin(w, c) \/ PlanBegin(w, c)
    \/ \E r \in rows : ExtendBegin(w, r)
    \/ \E c \in Chapters, n \in 0..MaxIndex : OutroBegin(w, c, n)
JobWrites(w) ==
    \/ \E n \in Outlines : OutlineWrite(w, n)
    \/ ScriptsWrite(w) \/ RewriteWrite(w)
    \/ \E c \in Chapters :
          \/ \E plan \in Plans : PlanWrite(w, c, plan)
          \/ \E n \in 0..MaxIndex : OutroGo(w, c, n)
          \/ ExtendWrite(w, c) \/ OutroWrite(w, c)
HookStep(w) ==
    \/ \E n \in 0..MaxIndex \cup {None} :
          \/ AppendBegin(w, n) \/ RemoveBegin(w, n) \/ CoverLook(w, n)
          \/ \E text \in BOOLEAN : PatchBegin(w, text, n)
    \/ CoverBegin(w) \/ TextBegin(w)
    \/ HookWrite(w) \/ TextWrite(w)
Edit ==
    \/ \E r \in rows : DeleteOutro(r)
    \/ \E c \in Chapters : PatchScript(c)
    \/ \E c \in 0..(MaxChapters - 1), plan \in Plans : ImportChapter(c, plan)
    \/ \E c \in Chapters, plan \in Plans, yes \in BOOLEAN : ImportScenes(c, plan, yes)

Next ==
    \/ \E w \in Workers : JobBegins(w) \/ JobWrites(w) \/ HookStep(w) \/ Fail(w)
    \/ Edit
Spec == Init /\ [][Next]_vars

-----------------------------------------------------------------------------
(* The hook opens the film: whatever is planned, extended, imported or      *)
(* renumbered meanwhile, and whoever else refreshes, replaces or drops the  *)
(* hook with rows loaded long ago, there is at most one hook scene, and it  *)
(* is the first scene of the first chapter (append_hook_scene,              *)
(* remove_hook_scene, the offset a replan leaves); unless two insertions    *)
(* crossed.                                                                 *)
HookOpens == ~crossed => \A r \in rows : r.role = "hook" => First(r.ch) /\ r.idx = 0

(* A replan or an import keeps the hook, also one that was added while the  *)
(* plan was being written (delete_chapter_scenes_preserving_hook), and so   *)
(* does who replaces it: it goes with the chapters, or by a writer that     *)
(* looked for it to remove it, because it was asked to or because the text  *)
(* it had loaded was empty.                                                 *)
HookSurvivesReplan ==
    [][HookIn(rows) # {} /\ HookIn(rows)' = {} =>
            \/ \E w \in Workers, n \in Outlines : OutlineWrite(w, n)
            \/ \E w \in Workers : HookWrite(w) /\ job[w].does = "remove"]_vars

(* A chapter that holds a plan is never left without one: replacing its     *)
(* scenes deletes and inserts in one transaction, and what fails on the way *)
(* takes the deletion back.  Only an outline, which deletes the chapters,   *)
(* takes the plan away.                                                     *)
PlannedStaysPlanned ==
    [][\A c \in Chapters : Beats(c) # {} =>
            Beats(c)' # {} \/ \E w \in Workers, n \in Outlines : OutlineWrite(w, n)]_vars

(* workflow_phase comes to say that the scenes are planned only when every  *)
(* scripted chapter has scenes, although the writer judges by what it loaded*)
(* and by what is flushed; resumed runs skip planning on its word.          *)
PlannedPhaseIsEarned ==
    [][phase # "scenes_planned" /\ phase' = "scenes_planned" =>
            \A c \in DOMAIN script' : script'[c] => RowsOf(c, rows') # {}]_vars

(* "Refuse without explicit consent": no planned scene is erased unless the *)
(* request said so (assert_chapter_replan_erase_consent and its siblings).  *)
EraseIsConfirmed ==
    [][\A w \in Workers :
          /\ \A n \in Outlines : OutlineWrite(w, n) => \A c \in Chapters : Beats(c) = {}
          /\ \A c \in Chapters, plan \in Plans : PlanWrite(w, c, plan) => Beats(c) = {}]_vars
=============================================================================
