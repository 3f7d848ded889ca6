----------------------------- MODULE ExportCuts -----------------------------
(***************************************************************************)
(* The rough, fine and final cuts of one timeline version, made by worker  *)
(* jobs of tasks/phase5_compile_impl.py while an editor works on the same  *)
(* project.  A job goes through stages; a stage ends where the code        *)
(* commits, refreshes, probes the disk or spends its time in ffmpeg.  A cut*)
(* made for another one is nested: it goes back where it is needed.  The   *)
(* three films are files beside the database: no rollback takes them back. *)
(*                                                                         *)
(* A worker keeps its own copy of the timeline row: what it loaded (seen)  *)
(* and what it made of it (now).  The session has autoflush off, so that a *)
(* commit writes the columns that differ and a refresh forgets them.  It is*)
(* the same with assets: a repair or a request that approves has loaded the*)
(* rows before, and its UPDATE leaves their status as it has become.  A    *)
(* rejection in between ends rejected and approved, and may be exported.   *)
(*                                                                         *)
(* One read of the library stands for all those of a repair, and approvals *)
(* are ranked in the order of their commits, where the code stamps them    *)
(* with the time of the read.  Rejections, edits and media jobs are one    *)
(* step each: a rejection that an approval overtakes between its read and  *)
(* its commit ends as one that came before the approval was committed.     *)
(***************************************************************************)
EXTENDS TimelineRepair

CONSTANTS
    Workers,         \* worker processes
    CompileEnabled,  \* ffmpeg_compile_enabled
    Timelines,       \* the documents a new timeline version may be created with
    Library0,        \* the media there are at the start
    Narration0,      \* and how long the voice tracks are
    Lasts,           \* durations, of clips and of narrations, an editor may choose
    MaxJobs,         \* bound: export jobs
    MaxEdits         \* bound: edits, requests and media arriving or lost

Clips == Seq([asset : Assets \cup {None}, dur : Nat])
Docs  == [clips : Clips, titled : BOOLEAN]
Kinds == {"rough", "fine", "final"}
NoFilm == [clips |-> <<>>, slots |-> <<>>, meant |-> <<>>, barred |-> {},
           kept |-> FALSE]

ASSUME ExportAssumption ==
    /\ CompileEnabled \in BOOLEAN
    /\ Timelines \subseteq Docs
    /\ Library0 \in Libraries
    /\ \A a \in Assets : Library0.status[a] = "absent" => ~Signed(Library0, a)
    /\ Narration0 \in [Scenes -> Nat]
    /\ Lasts \subseteq Nat \ {0}
    /\ MaxJobs \in Nat /\ MaxEdits \in Nat

VARIABLES
    lib,        \* asset rows, approvals, readable files
    narration,  \* length of each scene's voice track, 0 without one
    row,        \* the timeline version: its document and render_status
    rough,      \* rough_cut.mp4: the clips it shows, <<>> when there is no file
    fine,       \* fine_cut.mp4, likewise
    final,      \* final_cut.mp4, and the narration mixed into it
    job,        \* what each worker is doing
    request,    \* what a request that approves or repairs has yet to commit
    jobs,       \* export jobs taken up so far
    edits       \* edits so far

vars == <<lib, narration, row, rough, fine, final, job, request, jobs, edits>>

NoRow == [doc |-> [clips |-> <<>>, titled |-> FALSE], status |-> "draft"]
Stages == {"idle", "heal", "commit", "gate", "compile", "needRough", "refresh", "burn",
           "needBase", "save", "plan", "clear", "reburn", "mux", "end"}

(* at: the stage; then: the one after the repair; back: the one after the  *)
(* pictures; stills, shown: approvals to commit; given: whether the rough  *)
(* cut's manifest is the final cut's; kept: whether it goes to the mix with*)
(* the pictures that are there.  Two fields only say what happened: stale, *)
(* that the media changed since the repair read them, and barred, the takes*)
(* out of use when a final cut began and ever since.                       *)
Idle == [kind |-> "rough", lax |-> FALSE, at |-> "idle", then |-> "end", back |-> "end",
         stills |-> {}, shown |-> {}, stale |-> FALSE, given |-> FALSE, kept |-> FALSE,
         plan |-> <<>>, slots |-> <<>>, meant |-> <<>>, titled |-> FALSE,
         barred |-> {}, seen |-> NoRow, now |-> NoRow]

(* No request is open.  mend: the status an approval gives its asset.      *)
Quiet == [open |-> FALSE, stills |-> {}, shown |-> {}, mend |-> "same",
          seen |-> NoRow, now |-> NoRow]

AfterRepair(kind) ==
    CASE kind = "rough" -> "gate" [] kind = "fine" -> "needRough" [] kind = "final" -> "needBase"

TypeOK ==
    /\ lib \in Libraries
    /\ narration \in [Scenes -> Nat]
    /\ row \in [doc : Docs,
                status : {"draft", "manifest_ready", "compiled", "final_compiled"}]
    /\ rough \in Clips /\ fine \in Clips
    /\ final.clips \in Clips /\ final.slots \in Clips /\ final.meant \in Seq(Assets)
    /\ request.open \in BOOLEAN /\ request.mend \in {"same", "succeeded", "pending"}
    /\ jobs \in 0..MaxJobs /\ edits \in 0..MaxEdits
    /\ \A w \in Workers : job[w].kind \in Kinds /\ job[w].at \in Stages

Init ==
    /\ lib = Library0
    /\ narration = Narration0
    /\ row \in [doc : Timelines, status : {"draft"}]
    /\ rough = <<>> /\ fine = <<>> /\ final = NoFilm
    /\ job = [w \in Workers |-> Idle] /\ request = Quiet
    /\ jobs = 0 /\ edits = 0

(* Rejected, and no approval written over the rejection.                   *)
OutOfUse(l, a) == l.status[a] = "rejected" /\ ~Signed(l, a)

(* How long a scene's new clip lasts: as planned, or as its voice track.   *)
SceneLasts == [s \in Scenes |-> IF narration[s] > 0 THEN narration[s] + VoicePad ELSE 1]

Healed(j) == Heal(lib, j.now.doc.clips, j.lax, SceneLasts)

(* The library after the approvals of a job or a request are committed.    *)
Approved(j) == Sign(Sign(lib, j.stills), j.shown)

(* The jobs as they are when the media have become l.                      *)
Noticed(js, l) ==
    [w \in Workers |-> [js[w] EXCEPT !.barred = {a \in @ : OutOfUse(l, a)},
                                      !.stale  = @ \/ js[w].at = "commit"]]

(* The row after the session commits, and a session that has just read it. *)
Written(j) == [f \in DOMAIN row |-> IF j.now[f] # j.seen[f] THEN j.now[f] ELSE row[f]]
Fresh(j, r) == [j EXCEPT !.seen = r, !.now = r]
To(j, stage) == [j EXCEPT !.at = stage]
Repair(j, then) == [j EXCEPT !.at = "heal", !.then = then]
RoughFor(j, back) == [Repair(j, "gate") EXCEPT !.back = back]

At(w, stage) == job[w].at = stage
Go(w, j)     == job' = [job EXCEPT ![w] = j]

-----------------------------------------------------------------------------
(* Stages of a worker's job.                                               *)

Begin(w, kind, lax) ==
    /\ At(w, "idle")
    /\ jobs < MaxJobs /\ jobs' = jobs + 1
    /\ Go(w, Repair([Fresh(Idle, row) EXCEPT
                        !.kind = kind, !.lax = lax,
                        !.barred = {a \in Assets : kind = "final" /\ OutOfUse(lib, a)}],
                     AfterRepair(kind)))
    /\ UNCHANGED <<lib, narration, row, rough, fine, final, request, edits>>

(* The repair works on what its session has read.  It commits only if it   *)
(* counted something; what it did uncounted stays in the session.          *)
HealTimeline(w) ==
    LET j == job[w]
        h == Healed(j)
    IN  /\ At(w, "heal")
        /\ Go(w, To([j EXCEPT !.now.doc.clips = h.clips, !.stills = h.stills, !.shown = h.shown],
                    IF h.counted THEN "commit" ELSE j.then))
        /\ UNCHANGED <<lib, narration, row, rough, fine, final, request, jobs, edits>>

HealCommit(w) ==
    LET j    == job[w]
        done == [Fresh(j, Written(j)) EXCEPT !.stills = {}, !.shown = {}, !.stale = FALSE]
    IN  /\ At(w, "commit")
        /\ lib' = Approved(j)
        /\ row' = Written(j)
        /\ job' = Noticed([job EXCEPT ![w] = To(done, j.then)], lib')
        /\ UNCHANGED <<narration, rough, fine, final, request, jobs, edits>>

(* Mutant: the manifest a final cut brings is not used.                    *)
Gate_BUG(w) ==
    LET j == job[w] IN
    /\ At(w, "gate")
    /\ Exportable(lib, j.now.doc.clips, j.lax)
    /\ Go(w, To([j EXCEPT !.plan = j.now.doc.clips], "compile"))
    /\ UNCHANGED <<lib, narration, row, rough, fine, final, request, jobs, edits>>

(* Preflight and manifest of the rough cut; a final cut that recompiles    *)
(* brings its own manifest, made before this repair.                       *)
Gate(w) ==
    LET j == job[w] IN
    /\ At(w, "gate")
    /\ Exportable(lib, j.now.doc.clips, j.lax)
    /\ Go(w, To([j EXCEPT !.plan = IF j.given THEN @ ELSE j.now.doc.clips], "compile"))
    /\ UNCHANGED <<lib, narration, row, rough, fine, final, request, jobs, edits>>

(* Mutant: a status the row does not have.                                 *)
Compile_BUG(w) ==
    /\ At(w, "compile")
    /\ rough' = IF CompileEnabled THEN job[w].plan ELSE rough
    /\ Go(w, To([job[w] EXCEPT !.now.status = "rough_compiled"], job[w].back))
    /\ UNCHANGED <<lib, narration, row, fine, final, request, jobs, edits>>

Compile(w) ==
    LET j == job[w] IN
    /\ At(w, "compile")
    /\ rough' = IF CompileEnabled THEN j.plan ELSE rough
    /\ Go(w, To([j EXCEPT !.now.status = IF CompileEnabled THEN "compiled" ELSE "manifest_ready"],
                 j.back))
    /\ UNCHANGED <<lib, narration, row, fine, final, request, jobs, edits>>

(* Without a rough cut a fine cut makes one, then refreshes the row.       *)
NeedRough(w) ==
    LET j == job[w] IN
    /\ At(w, "needRough")
    /\ Go(w, IF rough = <<>> THEN RoughFor(j, "refresh") ELSE To(j, "burn"))
    /\ UNCHANGED <<lib, narration, row, rough, fine, final, request, jobs, edits>>

Refresh(w) ==
    /\ At(w, "refresh")
    /\ Go(w, To(Fresh(job[w], row), "burn"))
    /\ UNCHANGED <<lib, narration, row, rough, fine, final, request, jobs, edits>>

Burn(w) ==
    LET j == job[w] IN
    /\ At(w, "burn")
    /\ Exportable(lib, j.now.doc.clips, j.lax) /\ rough # <<>>
    /\ fine' = rough
    /\ Go(w, To(j, "end"))
    /\ UNCHANGED <<lib, narration, row, rough, final, request, jobs, edits>>

(* Without any cut a final cut makes a rough one, and commits it.          *)
NeedBase(w) ==
    LET j == job[w] IN
    /\ At(w, "needBase")
    /\ Go(w, IF fine = <<>> /\ rough = <<>> THEN RoughFor(j, "save") ELSE To(j, "plan"))
    /\ UNCHANGED <<lib, narration, row, rough, fine, final, request, jobs, edits>>

Save(w) ==
    /\ At(w, "save")
    /\ row' = Written(job[w])
    /\ Go(w, To(Fresh(job[w], row'), IF job[w].given THEN "mux" ELSE "plan"))
    /\ UNCHANGED <<lib, narration, rough, fine, final, request, jobs, edits>>

(* A fine cut whose length is not the narration's is dropped.              *)
KeptFine(wide) == IF fine # <<>> /\ Length(fine) # Length(wide) THEN <<>> ELSE fine

(* The visuals are made again when the narration needs more time than the  *)
(* clips have, or when the film there is has another length.               *)
Recompiles(old, wide) ==
    LET probe == IF rough # <<>> THEN rough ELSE KeptFine(wide)
    IN  CompileEnabled /\ (\/ Length(wide) > Length(old)
                           \/ probe # <<>> /\ Length(probe) # Length(wide))

(* Mutant: the pictures are made again without the time for the narration. *)
Plan_BUG(w) ==
    LET clips == row.doc.clips
        wide  == Widened(clips, narration)
        j     == [Fresh(job[w], row) EXCEPT !.plan = clips, !.slots = wide,
                      !.meant = Shows(clips), !.titled = row.doc.titled, !.given = TRUE,
                      !.kept = ~Recompiles(clips, wide)]
    IN  /\ At(w, "plan")
        /\ Exportable(lib, clips, j.lax)
        /\ rough # <<>> \/ fine # <<>>
        /\ fine' = KeptFine(wide)
        /\ Go(w, IF j.kept THEN To(j, "mux") ELSE RoughFor(j, "clear"))
        /\ UNCHANGED <<lib, narration, row, rough, final, request, jobs, edits>>

Plan(w) ==
    LET clips == row.doc.clips
        wide  == Widened(clips, narration)
        j     == [Fresh(job[w], row) EXCEPT !.plan = wide, !.slots = wide,
                      !.meant = Shows(clips), !.titled = row.doc.titled, !.given = TRUE,
                      !.kept = ~Recompiles(clips, wide)]
    IN  /\ At(w, "plan")
        /\ Exportable(lib, clips, j.lax)
        /\ rough # <<>> \/ fine # <<>>
        /\ fine' = KeptFine(wide)
        /\ Go(w, IF j.kept THEN To(j, "mux") ELSE RoughFor(j, "clear"))
        /\ UNCHANGED <<lib, narration, row, rough, final, request, jobs, edits>>

(* After a recompile the old fine cut goes; the overlays are burned anew.  *)
Clear(w) ==
    LET j == job[w] IN
    /\ At(w, "clear")
    /\ fine' = <<>>
    /\ Go(w, IF j.titled THEN Repair(j, "reburn") ELSE To(j, "save"))
    /\ UNCHANGED <<lib, narration, row, rough, final, request, jobs, edits>>

(* A fine cut refused or failed here is only logged.                       *)
Reburn(w) ==
    LET j == job[w] IN
    /\ At(w, "reburn")
    /\ \/ Exportable(lib, j.now.doc.clips, j.lax) /\ fine' = rough
       \/ UNCHANGED fine
    /\ Go(w, To(j, "save"))
    /\ UNCHANGED <<lib, narration, row, rough, final, request, jobs, edits>>

Mux(w) ==
    LET j == job[w]
        base == IF fine # <<>> THEN fine ELSE rough
    IN  /\ At(w, "mux")
        /\ base # <<>>
        /\ final' = [clips |-> base, slots |-> j.slots, meant |-> j.meant, barred |-> j.barred,
                     kept |-> j.kept]
        /\ Go(w, To([j EXCEPT !.now.status = "final_compiled"], "end"))
        /\ UNCHANGED <<lib, narration, row, rough, fine, request, jobs, edits>>

End(w) ==
    /\ At(w, "end")
    /\ row' = Written(job[w])
    /\ Go(w, Idle)
    /\ UNCHANGED <<lib, narration, rough, fine, final, request, jobs, edits>>

(* A refused preflight, an ffmpeg error, a time limit or a crash.          *)
Fail(w) ==
    /\ ~At(w, "idle")
    /\ Go(w, Idle)
    /\ UNCHANGED <<lib, narration, row, rough, fine, final, request, jobs, edits>>

-----------------------------------------------------------------------------
(* What the editor and the media jobs do meanwhile.                        *)

Edit == edits < MaxEdits /\ edits' = edits + 1

Patch(clips, titled) ==
    /\ Edit
    /\ row' = [row EXCEPT !.doc = [clips |-> clips, titled |-> titled]]
    /\ UNCHANGED <<lib, narration, rough, fine, final, job, request, jobs>>

Patches ==
    LET clips == row.doc.clips
        shown == {a \in Assets : lib.status[a] = "succeeded"}
    IN  \/ Patch(clips, ~row.doc.titled)
        \/ \E a \in shown, d \in Lasts :
              \/ Patch(Append(clips, [asset |-> a, dur |-> d]), row.doc.titled)
              \/ \E i \in DOMAIN clips :
                    Patch([clips EXCEPT ![i] = [asset |-> a, dur |-> d]], row.doc.titled)

Become(l) == lib' = l /\ job' = Noticed(job, l)

Touch(status, rank, onDisk) ==
    /\ Edit
    /\ Become([status |-> status, rank |-> rank, onDisk |-> onDisk])
    /\ UNCHANGED <<narration, row, rough, fine, final, request, jobs>>

Arrive(a) ==
    /\ lib.status[a] = "absent"
    /\ Touch([lib.status EXCEPT ![a] = "succeeded"], lib.rank, lib.onDisk \cup {a})

Lose(a) == a \in lib.onDisk /\ Touch(lib.status, lib.rank, lib.onDisk \ {a})

Refuse(S) == Touch([a \in Assets |-> IF a \in S THEN "rejected" ELSE lib.status[a]],
                   [a \in Assets |-> IF a \in S THEN 0 ELSE lib.rank[a]], lib.onDisk)

Reject(a) == lib.status[a] # "absent" /\ Refuse({a})

(* The stills of the timeline that the preflight flags are rejected; their *)
(* replacements arrive later.                                              *)
RejectFlagged(lax) ==
    LET flagged == {a \in Assets : /\ \E i \in DOMAIN row.doc.clips : row.doc.clips[i].asset = a
                                   /\ KindOf[a] = "image" /\ SceneOf[a] # 0
                                   /\ lib.status[a] # "absent" /\ ~Ready(lib, a, lax)}
    IN  flagged # {} /\ Refuse(flagged)

Narrate(s, d) ==
    /\ Edit
    /\ narration' = [narration EXCEPT ![s] = d]
    /\ UNCHANGED <<lib, row, rough, fine, final, job, request, jobs>>

(* Requests that approve or repair: what they read, and their commit.      *)
Ask(r) ==
    /\ ~request.open /\ Edit
    /\ request' = [r EXCEPT !.open = TRUE]
    /\ UNCHANGED <<lib, narration, row, rough, fine, final, job, jobs>>

(* Approving stamps the row anew and mends the status it has read.         *)
ApproveRead(a) ==
    /\ lib.status[a] # "absent"
    /\ Ask([Quiet EXCEPT
               !.stills = {a},
               !.mend = IF a \in lib.onDisk
                        THEN (IF lib.status[a] \in {"pending", "rejected"} THEN "succeeded" ELSE @)
                        ELSE (IF lib.status[a] = "rejected" THEN "pending" ELSE @)])

ApproveAllRead ==
    Ask([Quiet EXCEPT
           !.stills = {a \in Assets : lib.status[a] = "succeeded" /\ ~Signed(lib, a)}])

ReconcileRead(lax) ==
    LET h == Heal(lib, row.doc.clips, lax, SceneLasts)
    IN  /\ h.counted
        /\ Ask([Quiet EXCEPT !.stills = h.stills, !.shown = h.shown,
                             !.seen = row, !.now = [row EXCEPT !.doc.clips = h.clips]])

RequestCommit ==
    LET mended == [a \in Assets |-> IF a \in request.stills /\ request.mend # "same"
                                    THEN request.mend ELSE lib.status[a]]
    IN  /\ request.open /\ request' = Quiet
        /\ Become([Approved(request) EXCEPT !.status = mended])
        /\ row' = Written(request)
        /\ UNCHANGED <<narration, rough, fine, final, jobs, edits>>

-----------------------------------------------------------------------------
Step(w) ==
    \/ HealTimeline(w) \/ HealCommit(w) \/ Gate(w) \/ Compile(w)
    \/ NeedRough(w) \/ Refresh(w) \/ Burn(w)
    \/ NeedBase(w) \/ Save(w) \/ Plan(w) \/ Clear(w) \/ Reburn(w) \/ Mux(w) \/ End(w)

Editing ==
    \/ Patches
    \/ \E a \in Assets : Arrive(a) \/ Lose(a) \/ Reject(a)
    \/ \E lax \in BOOLEAN : RejectFlagged(lax)
    \/ \E s \in Scenes, d \in Lasts : Narrate(s, d)

Requests ==
    \/ ApproveAllRead \/ RequestCommit
    \/ \E a \in Assets : ApproveRead(a)
    \/ \E lax \in BOOLEAN : ReconcileRead(lax)

Next ==
    \/ \E w \in Workers, kind \in Kinds, lax \in BOOLEAN : Begin(w, kind, lax)
    \/ \E w \in Workers : Step(w) \/ Fail(w)
    \/ Editing
    \/ Requests

Spec == Init /\ [][Next]_vars

-----------------------------------------------------------------------------
(* The narration mixed into a final cut lasts exactly as long as its       *)
(* pictures, whatever cuts, edits and failed jobs went before: the fine    *)
(* cut of another length is dropped, the visuals are made again.           *)
FinalInSync == Length(final.clips) = Length(final.slots)

(* A final cut that made its pictures again shows the takes of the         *)
(* timeline it was planned from, in that order, whatever the nested repair *)
(* and the edits since then made of the row.  (One that found pictures of  *)
(* the length the narration needs keeps them, whatever they show.)         *)
FinalShowsTimeline == ~final.kept => Shows(final.clips) = final.meant

(* In such a film is no take that was out of use when the job began, and   *)
(* ever since.                                                             *)
NoRejectedTake ==
    ~final.kept => \A i \in DOMAIN final.clips : final.clips[i].asset \notin final.barred

(* Someone has read the take as one to approve and not committed it yet.   *)
InHand(a) ==
    \/ a \in request.stills \cup request.shown
    \/ \E w \in Workers : a \in job[w].stills \cup job[w].shown

Refused(a) == OutOfUse(lib, a) /\ ~InHand(a)

(* A rejection stands until a person takes it back: a rejected take that   *)
(* nobody was about to approve when it was rejected is not approved by any *)
(* repair, export or bulk approval, but only by a request for that take.   *)
RejectionStands ==
    [][\A a \in Assets : Refused(a) => Refused(a)' \/ ApproveRead(a)]_vars

(* The repair is stable and puts every scene at its place: a second one    *)
(* would find nothing to do, and a scene that has a usable take shows one  *)
(* of its own; unless the media changed while it worked, or the timeline   *)
(* after it was read: the job goes on with that edit, unrepaired.          *)
RepairSettles ==
    [][\A w \in Workers :
           (/\ job[w].at \in {"heal", "commit"} /\ job'[w].at = job[w].then
            /\ ~job[w].stale /\ job[w].seen.doc = row.doc) =>
           LET j     == job'[w]
               again == Heal(lib', j.now.doc.clips, j.lax, SceneLasts)
           IN  /\ ~again.counted /\ again.clips = j.now.doc.clips
               /\ UseAll \/ \A s \in Scenes :
                      (\E a \in Assets : SceneOf[a] = s /\ Ready(lib', a, j.lax))
                          => SceneOf[again.clips[s].asset] = s]_vars
=============================================================================
