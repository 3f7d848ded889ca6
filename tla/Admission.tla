------------------------------ MODULE Admission ------------------------------
(***************************************************************************)
(* How a request becomes a job.  A handler that starts paid work asks for  *)
(* an Idempotency-Key, looks the key up, checks the workspace's credits,   *)
(* commits a row of the jobs table, publishes its id and stores the answer *)
(* under the key: five accesses of two services with no lock around them,  *)
(* so requests interleave between any two, and the API may die there.      *)
(* Credits are recorded by the workers when a job has succeeded.           *)
(*                                                                         *)
(* Three paths leave out a part of it: chat commands have no key, the      *)
(* narration of all scenes has neither key nor check, and the repair of    *)
(* the rough cut's images publishes each job before it commits them all.   *)
(* A handler's own guard on the project refuses without a trace and is not *)
(* repeated here; what a worker does with a job is in other modules.       *)
(***************************************************************************)
EXTENDS Naturals, Sequences, FiniteSets

CONSTANTS
    Clients,      \* requests in progress at a time
    Keys, Bodies, \* Idempotency-Key values, hashes of the request's body
    Offered,      \* the keyed routes the clients use
    CreditCap,    \* monthly_credits of the workspace, enforced; a job costs one
    Scenes,       \* scenes the narration and the repair of a project queue
    MaxJobs,      \* bound: rows ever inserted
    MaxDeaths,    \* bound: requests cut off by a crash or a failed publish
    None

StoryRoutes     == {"script_outline", "script_chapters"}
RewriteRoutes   == {"script_chapter_regenerate"}
ResearchRoutes  == {"research_run"}
PlanRoutes      == {"scene_generate_image", "scene_generate"}
ExtendRoutes    == {"scene_extend"}
ClipRoutes      == {"scene_retry_image", "scene_generate_video"}
CritiqueRoutes  == {"scene_critique", "chapter_critique"}
RevisionRoutes  == {"scene_critic_revision"}
VoiceRoutes     == {"narration_generate"}
SceneVoiceRoutes == {"narration_generate_scene"}
CutRoutes       == {"rough_cut", "fine_cut"}
FilmRoutes      == {"subtitles_generate", "final_cut", "export"}
CoverRoutes     == {"thumbnail_generate"}
HookRoutes      == {"opening_hook_generate", "hook_scene_append"}
OutroRoutes     == {"outro_append"}
CharacterRoutes == {"characters_generate"}

Routes == UNION {StoryRoutes, RewriteRoutes, ResearchRoutes, PlanRoutes, ExtendRoutes,
                 ClipRoutes, CritiqueRoutes, RevisionRoutes, VoiceRoutes, SceneVoiceRoutes,
                 CutRoutes, FilmRoutes, CoverRoutes, HookRoutes, OutroRoutes, CharacterRoutes}

ASSUME AdmissionAssumption ==
    /\ IsFiniteSet(Clients)
    /\ Offered \subseteq Routes
    /\ CreditCap \in Nat
    /\ Scenes \in Nat \ {0} /\ MaxJobs \in Nat /\ MaxDeaths \in Nat
    /\ None \notin (Offered \X Keys) \cup Bodies \cup Clients
    /\ None \notin [body : Bodies, job : Nat]

VARIABLES
    records,   \* idempotency_keys: per route and key, the body and the job answered
    jobs,      \* rows in the order of their insertion, and the message of each
    used,      \* credits recorded in the last thirty days
    req,       \* each client's request
    told,      \* history: every 202 a client has been given for a key
    late,      \* history: checked rows inserted since the credits ran out
    cut,       \* history: jobs whose request was cut off before its publish
    deaths

vars == <<records, jobs, used, req, told, late, cut, deaths>>

Slots == Offered \X Keys
Idle  == [at |-> "idle", kind |-> "none", slot |-> None, body |-> None, left |-> 0, job |-> 0]
Steps == {"idle", "look", "check", "insert", "publish", "store", "commit"}
Kinds == {"keyed", "chat", "bulk", "repair"}
Rows  == {"flushed", "queued", "succeeded", "failed", "never"}

Jobs      == 1..Len(jobs)
Newest    == Len(jobs)
JobsOf(s) == {j \in Jobs : jobs[j].slot = s}
Exhausted == used >= CreditCap

Become(c, r) == req' = [req EXCEPT ![c] = r]
Go(c, step)  == Become(c, [req[c] EXCEPT !.at = step])
Start(c, kind, step, left) ==
    /\ req[c] = Idle
    /\ Become(c, [Idle EXCEPT !.at = step, !.kind = kind, !.left = left])
    /\ UNCHANGED <<records, jobs, used, told, late, cut, deaths>>

------------------------------------------------------------------------------
Init ==
    /\ records = [s \in Slots |-> None]
    /\ jobs = <<>>
    /\ used = 0
    /\ req = [c \in Clients |-> Idle]
    /\ told = {}
    /\ late = 0
    /\ cut = {}
    /\ deaths = 0

\* A keyed handler has passed its guards on the project.
Ask(c, s, b) ==
    /\ req[c] = Idle
    /\ Become(c, [Idle EXCEPT !.at = "look", !.kind = "keyed", !.slot = s, !.body = b])
    /\ UNCHANGED <<records, jobs, used, told, late, cut, deaths>>

\* A mutant: another body under the same key is taken for a new request.
Lookup_BUG(c) ==
    LET found == records[req[c].slot] IN
    /\ req[c].at = "look"
    /\ \/ /\ IF found = None THEN TRUE ELSE found.body # req[c].body
          /\ Go(c, "check")
          /\ UNCHANGED told
       \/ /\ found # None /\ found.body = req[c].body
          /\ Become(c, Idle)
          /\ told' = told \cup {[slot |-> req[c].slot, body |-> found.body, job |-> found.job]}
    /\ UNCHANGED <<records, jobs, used, late, cut, deaths>>

\* No record: go on.  Another body: 409.  Otherwise the stored answer again.
Lookup(c) ==
    LET found == records[req[c].slot] IN
    /\ req[c].at = "look"
    /\ \/ /\ found = None
          /\ Go(c, "check")
          /\ UNCHANGED told
       \/ /\ found # None /\ found.body # req[c].body
          /\ Become(c, Idle)
          /\ UNCHANGED told
       \/ /\ found # None /\ found.body = req[c].body
          /\ Become(c, Idle)
          /\ told' = told \cup {[slot |-> req[c].slot, body |-> found.body, job |-> found.job]}
    /\ UNCHANGED <<records, jobs, used, late, cut, deaths>>

\* A command of the chat has no key.
Command(c) == Start(c, "chat", "check", 1)

\* A job for every scene without narration; nothing looks at the credits.
NarrateAll(c) == Start(c, "bulk", "insert", Scenes)

\* A new picture for every scene whose picture the preflight flags.
RepairAll(c) == Start(c, "repair", "check", Scenes)

\* What an open transaction of c has flushed becomes row.
Settled(c, row) ==
    [j \in Jobs |-> IF jobs[j].by = c /\ jobs[j].row = "flushed"
                    THEN [jobs[j] EXCEPT !.row = row, !.by = None] ELSE jobs[j]]

\* A mutant: the last credit may be spent twice.
Check_BUG(c) ==
    /\ req[c].at = "check"
    /\ \/ /\ used <= CreditCap
          /\ Go(c, "insert")
          /\ UNCHANGED jobs
       \/ /\ used > CreditCap
          /\ Become(c, Idle)
          /\ jobs' = Settled(c, "never")
    /\ UNCHANGED <<records, used, told, late, cut, deaths>>

\* The sum of the records against the cap: 402 when it is reached.
Check(c) ==
    /\ req[c].at = "check"
    /\ \/ /\ ~Exhausted
          /\ Go(c, "insert")
          /\ UNCHANGED jobs
       \/ /\ Exhausted
          /\ Become(c, Idle)
          /\ jobs' = Settled(c, "never")
    /\ UNCHANGED <<records, used, told, late, cut, deaths>>

NewJob(c, row, mail) ==
    [kind |-> req[c].kind, slot |-> req[c].slot, body |-> req[c].body, row |-> row, mail |-> mail,
     by |-> IF row = "flushed" THEN c ELSE None]

\* A checked request adds a row: is it one more since the credits ran out?
CountLate(c) == late' = IF Exhausted /\ req[c].kind # "bulk" THEN late + 1 ELSE late

\* The row is committed, not yet published.
Insert(c) ==
    /\ req[c].at = "insert" /\ req[c].kind # "repair"
    /\ Newest < MaxJobs
    /\ jobs' = Append(jobs, NewJob(c, "queued", FALSE))
    /\ Become(c, [req[c] EXCEPT !.at = "publish", !.job = Newest + 1])
    /\ CountLate(c)
    /\ UNCHANGED <<records, used, told, cut, deaths>>

\* A mutant: the publish of a bulk request is out of its loop.
Publish_BUG(c) ==
    /\ req[c].at = "publish"
    /\ jobs' = IF req[c].kind = "bulk" /\ req[c].left > 1 THEN jobs
               ELSE [jobs EXCEPT ![req[c].job].mail = TRUE]
    /\ \/ /\ req[c].kind = "keyed"
          /\ Go(c, "store")
       \/ /\ req[c].kind = "bulk" /\ req[c].left > 1
          /\ Become(c, [req[c] EXCEPT !.at = "insert", !.left = @ - 1, !.job = 0])
       \/ /\ req[c].kind = "chat" \/ (req[c].kind = "bulk" /\ req[c].left = 1)
          /\ Become(c, Idle)
    /\ UNCHANGED <<records, used, told, late, cut, deaths>>

\* A keyed request goes on to store its answer, a narration of all scenes to
\* the next scene, a command is over.
Publish(c) ==
    /\ req[c].at = "publish"
    /\ jobs' = [jobs EXCEPT ![req[c].job].mail = TRUE]
    /\ \/ /\ req[c].kind = "keyed"
          /\ Go(c, "store")
       \/ /\ req[c].kind = "bulk" /\ req[c].left > 1
          /\ Become(c, [req[c] EXCEPT !.at = "insert", !.left = @ - 1, !.job = 0])
       \/ /\ req[c].kind = "chat" \/ (req[c].kind = "bulk" /\ req[c].left = 1)
          /\ Become(c, Idle)
    /\ UNCHANGED <<records, used, told, late, cut, deaths>>

\* The repair flushes a row and publishes it; its commit follows the last.
Flush(c) ==
    /\ req[c].at = "insert" /\ req[c].kind = "repair"
    /\ Newest < MaxJobs
    /\ jobs' = Append(jobs, NewJob(c, "flushed", TRUE))
    /\ Become(c, IF req[c].left > 1
                 THEN [req[c] EXCEPT !.at = "check", !.left = @ - 1]
                 ELSE [req[c] EXCEPT !.at = "commit", !.left = 0])
    /\ CountLate(c)
    /\ UNCHANGED <<records, used, told, cut, deaths>>

Commit(c) ==
    /\ req[c].at = "commit"
    /\ jobs' = Settled(c, "queued")
    /\ Become(c, Idle)
    /\ UNCHANGED <<records, used, told, late, cut, deaths>>

\* A mutant: no unique constraint, the last answer wins.
Store_BUG(c) ==
    LET s == req[c].slot IN
    /\ req[c].at = "store"
    /\ Become(c, Idle)
    /\ records' = [records EXCEPT ![s] = [body |-> req[c].body, job |-> req[c].job]]
    /\ told' = told \cup {[slot |-> s, body |-> req[c].body, job |-> req[c].job]}
    /\ UNCHANGED <<jobs, used, late, cut, deaths>>

\* One record per route and key: the second to store one gets a 500.
Store(c) ==
    LET s == req[c].slot IN
    /\ req[c].at = "store"
    /\ Become(c, Idle)
    /\ \/ /\ records[s] = None
          /\ records' = [records EXCEPT ![s] = [body |-> req[c].body, job |-> req[c].job]]
          /\ told' = told \cup {[slot |-> s, body |-> req[c].body, job |-> req[c].job]}
       \/ /\ records[s] # None
          /\ UNCHANGED <<records, told>>
    /\ UNCHANGED <<jobs, used, late, cut, deaths>>

\* The API dies, or the broker refuses: the request is over without an answer.
Die(c) ==
    /\ req[c] # Idle
    /\ deaths < MaxDeaths
    /\ jobs' = Settled(c, "never")
    /\ cut' = IF req[c].at = "publish" THEN cut \cup {req[c].job} ELSE cut
    /\ Become(c, Idle)
    /\ deaths' = deaths + 1
    /\ UNCHANGED <<records, used, told, late>>

------------------------------------------------------------------------------
\* A worker takes the message; a row it cannot see is none of its business.
NotFound(j) ==
    /\ jobs[j].mail /\ jobs[j].row \in {"flushed", "never"}
    /\ jobs' = [jobs EXCEPT ![j].mail = FALSE]
    /\ UNCHANGED <<records, used, req, told, late, cut, deaths>>

\* A success records its credits; a failure rolls back what it had recorded.
Serve(j) ==
    /\ jobs[j].mail /\ jobs[j].row = "queued"
    /\ \/ /\ jobs' = [jobs EXCEPT ![j].row = "succeeded", ![j].mail = FALSE]
          /\ used' = used + 1
       \/ /\ jobs' = [jobs EXCEPT ![j].row = "failed", ![j].mail = FALSE]
          /\ UNCHANGED used
    /\ UNCHANGED <<records, req, told, late, cut, deaths>>

\* The oldest record is more than thirty days old.
Expire ==
    /\ used > 0
    /\ used' = used - 1
    /\ late' = IF used' < CreditCap THEN 0 ELSE late
    /\ UNCHANGED <<records, jobs, req, told, cut, deaths>>

Request(c) ==
    \/ \E s \in Slots, b \in Bodies : Ask(c, s, b)
    \/ Lookup(c) \/ Check(c) \/ Insert(c) \/ Publish(c) \/ Store(c) \/ Die(c)
    \/ Command(c) \/ NarrateAll(c) \/ RepairAll(c) \/ Flush(c) \/ Commit(c)

Next ==
    \/ \E c \in Clients : Request(c)
    \/ \E j \in Jobs : Serve(j) \/ NotFound(j)
    \/ Expire

Spec == Init /\ [][Next]_vars

------------------------------------------------------------------------------
Requests == [at : Steps, kind : Kinds \cup {"none"}, slot : Slots \cup {None},
             body : Bodies \cup {None}, left : Nat, job : Nat]
JobRows  == [kind : Kinds, slot : Slots \cup {None}, body : Bodies \cup {None}, row : Rows,
             mail : BOOLEAN, by : Clients \cup {None}]

\* The types of the variables.
TypeOK ==
    /\ records \in [Slots -> [body : Bodies, job : Nat] \cup {None}]
    /\ jobs \in Seq(JobRows)
    /\ used \in Nat /\ late \in Nat /\ deaths \in 0..MaxDeaths
    /\ req \in [Clients -> Requests]
    /\ told \subseteq [slot : Slots, body : Bodies, job : Nat]
    /\ cut \subseteq Nat

\* However requests overlap, die and are repeated, all the answers 202 that
\* clients hold for one route and key name one job, and that job was inserted
\* for this route and key with the body the client sent.
ToldOfOneJob ==
    /\ \A x, y \in told : x.slot = y.slot => x = y
    /\ \A x \in told : x.job \in Jobs /\ jobs[x.job].slot = x.slot
                                      /\ jobs[x.job].body = x.body

\* Once an answer is stored under a key, the requests that missed it can only
\* get fewer, and when none is left no repetition inserts another job.
Missed(s) == {c \in Clients : req[c].slot = s /\ req[c].at \in {"check", "insert"}}
SpentKeyIsSpent ==
    [][\A s \in Slots : records[s] # None =>
          /\ Missed(s)' \subseteq Missed(s)
          /\ Missed(s) = {} => JobsOf(s)' = JobsOf(s)]_vars

\* The check and the insert are apart, so work is admitted after the credits
\* have run out: at most one row for each client, whatever it asks and however
\* often.  Late rows and requests past their check are never more than clients.
Cleared == {c \in Clients : req[c].at = "insert" /\ req[c].kind # "bulk"}
OvershootIsBounded == late + Cardinality(Cleared) <= Cardinality(Clients)

\* A queued row that no message will ever serve belongs to a request that was
\* cut off before its publish, or to a repair, which publishes first.
LostOnlyWhenCut ==
    \A j \in Jobs : jobs[j].row = "queued" /\ ~jobs[j].mail =>
        \/ j \in cut
        \/ \E c \in Clients : req[c].at = "publish" /\ req[c].job = j
        \/ jobs[j].kind = "repair"
==============================================================================
