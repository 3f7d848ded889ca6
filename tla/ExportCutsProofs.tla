-------------------------- MODULE ExportCutsProofs --------------------------
(***************************************************************************)
(* Proofs about ExportCuts: the types; a rejection stands; a repair leaves *)
(* nothing to repair; and, with one worker, a final cut's narration fits   *)
(* its pictures, and pictures made again are those of the timeline it was  *)
(* planned from, none of them of a take out of use.                        *)
(***************************************************************************)
EXTENDS ExportCuts, TimelineRepairProofs

-----------------------------------------------------------------------------
(* Types.  A job is a record of these fields.                              *)
Fields == {"kind", "lax", "at", "then", "back", "stills", "shown", "stale", "given", "kept",
           "plan", "slots", "meant", "titled", "barred", "seen", "now"}
IsJob(j) == j = [f \in Fields |-> j[f]]

Thens == {"end", "gate", "needRough", "needBase", "reburn"}
Backs == {"end", "refresh", "save", "clear"}

RowStatuses == {"draft", "manifest_ready", "compiled", "final_compiled"}
Rows == [doc : Docs, status : RowStatuses]

JobType(j) ==
    /\ IsJob(j)
    /\ j.kind \in Kinds /\ j.lax \in BOOLEAN
    /\ j.at \in Stages /\ j.then \in Thens /\ j.back \in Backs
    /\ j.stills \in SUBSET Assets /\ j.shown \in SUBSET Assets /\ j.stale \in BOOLEAN
    /\ j.given \in BOOLEAN /\ j.kept \in BOOLEAN /\ j.titled \in BOOLEAN
    /\ j.plan \in Clips /\ j.slots \in Clips
    /\ j.meant \in Seq(Assets) /\ j.barred \in SUBSET Assets
    /\ j.seen \in Rows /\ j.now \in Rows

(* What bars a take is that it is out of use; approvals are of rows that   *)
(* are there; and a repair that nothing overtook is one of this library.   *)
BarredOK(j, l) == \A a \in j.barred : OutOfUse(l, a)
HandsOK(j, l)  == \A a \in j.stills \cup j.shown : l.status[a] # "absent"
HealedOK(j, l) ==
    j.at = "commit" /\ ~j.stale =>
        \E clips \in Seq(Clip), lasts \in [Scenes -> Nat] :
            LET h == Heal(l, clips, j.lax, lasts)
            IN  j.now.doc.clips = h.clips /\ j.stills = h.stills /\ j.shown = h.shown

JobOK(j, l) == JobType(j) /\ BarredOK(j, l) /\ HandsOK(j, l) /\ HealedOK(j, l)

RequestOK(q, l) ==
    /\ q.open \in BOOLEAN /\ q.mend \in {"same", "succeeded", "pending"}
    /\ q.stills \in SUBSET Assets /\ q.shown \in SUBSET Assets
    /\ q.seen \in Rows /\ q.now \in Rows
    /\ HandsOK(q, l)

LibInv ==
    /\ TypeOK
    /\ job = [w \in Workers |-> job[w]]
    /\ \A w \in Workers : JobOK(job[w], lib)
    /\ RequestOK(request, lib)
    /\ Sound(lib)

LEMMA ClipsAre == Clips = Seq(Clip)
BY DEF Clips, Clip, Pick

LEMMA NoRowType == NoRow \in Rows
<1>1. <<>> \in Clips
  BY DEF Clips
<1> QED BY <1>1 DEF NoRow, Rows, Docs, RowStatuses

LEMMA IdleType ==
    /\ JobType(Idle) /\ Idle.barred = {} /\ Idle.stills = {} /\ Idle.shown = {} /\ Idle.at = "idle"
    /\ \A l : JobOK(Idle, l)
<1>1. IsJob(Idle)
  BY DEF IsJob, Idle, Fields
<1>2. <<>> \in Clips /\ <<>> \in Seq(Assets)
  BY DEF Clips
<1>3. JobType(Idle)
  BY <1>1, <1>2, NoRowType DEF JobType, Idle, Kinds, Stages, Thens, Backs
<1>4. Idle.barred = {} /\ Idle.stills = {} /\ Idle.shown = {} /\ Idle.at = "idle"
  BY DEF Idle
<1> QED BY <1>3, <1>4 DEF JobOK, BarredOK, HandsOK, HealedOK

LEMMA QuietType ==
    /\ Quiet.open = FALSE /\ Quiet.mend = "same" /\ Quiet.stills = {} /\ Quiet.shown = {}
    /\ Quiet.seen = NoRow /\ Quiet.now = NoRow
    /\ \A l : RequestOK(Quiet, l)
<1>1. /\ Quiet.open = FALSE /\ Quiet.mend = "same" /\ Quiet.stills = {} /\ Quiet.shown = {}
      /\ Quiet.seen = NoRow /\ Quiet.now = NoRow
  BY DEF Quiet
<1> QED BY <1>1, NoRowType DEF RequestOK, HandsOK

(* Two jobs that have the same takes in hand and barred.                   *)
SameMedia(j, k) == k.barred = j.barred /\ k.stills = j.stills /\ k.shown = j.shown

LEMMA ToType ==
    ASSUME NEW j, JobType(j), NEW stage \in Stages
    PROVE  JobType(To(j, stage)) /\ SameMedia(j, To(j, stage)) /\ To(j, stage).at = stage
BY DEF JobType, IsJob, To, Fields, SameMedia

LEMMA RepairType ==
    ASSUME NEW j, JobType(j), NEW then \in Thens
    PROVE  JobType(Repair(j, then)) /\ SameMedia(j, Repair(j, then)) /\ Repair(j, then).at = "heal"
BY DEF JobType, IsJob, Repair, Fields, Stages, SameMedia

LEMMA RoughForType ==
    ASSUME NEW j, JobType(j), NEW back \in Backs
    PROVE  JobType(RoughFor(j, back)) /\ SameMedia(j, RoughFor(j, back)) /\ RoughFor(j, back).at = "heal"
BY DEF JobType, IsJob, RoughFor, Repair, Fields, Stages, Thens, SameMedia

LEMMA FreshType ==
    ASSUME NEW j, JobType(j), NEW r \in Rows
    PROVE  JobType(Fresh(j, r)) /\ SameMedia(j, Fresh(j, r))
BY DEF JobType, IsJob, Fresh, Fields, SameMedia

(* A job that has noticed what became of the media.                        *)
Told(j, l) == [j EXCEPT !.barred = {a \in @ : OutOfUse(l, a)}, !.stale = @ \/ j.at = "commit"]

LEMMA NoticedIsTold ==
    ASSUME NEW js, NEW l
    PROVE  Noticed(js, l) = [v \in Workers |-> Told(js[v], l)]
BY DEF Noticed, Told

LEMMA ToldType ==
    ASSUME NEW j, JobType(j), NEW l, HandsOK(j, l)
    PROVE  /\ JobOK(Told(j, l), l)
           /\ \A f \in Fields \ {"barred", "stale"} : Told(j, l)[f] = j[f]
           /\ Told(j, l).barred \in SUBSET j.barred
<1> DEFINE k == Told(j, l)
<1>1. /\ IsJob(k) /\ \A f \in Fields \ {"barred", "stale"} : k[f] = j[f]
      /\ k.barred = {a \in j.barred : OutOfUse(l, a)} /\ k.stale = (j.stale \/ j.at = "commit")
  BY DEF JobType, IsJob, Fields, Told
<1> HIDE DEF k
<1>2. /\ k.kind = j.kind /\ k.lax = j.lax /\ k.at = j.at /\ k.then = j.then /\ k.back = j.back
      /\ k.stills = j.stills /\ k.shown = j.shown /\ k.given = j.given /\ k.kept = j.kept
      /\ k.plan = j.plan /\ k.slots = j.slots /\ k.meant = j.meant /\ k.titled = j.titled
      /\ k.seen = j.seen /\ k.now = j.now
  BY <1>1 DEF Fields
<1>3. JobType(k)
  BY <1>1, <1>2 DEF JobType
<1>4. BarredOK(k, l) /\ HandsOK(k, l) /\ HealedOK(k, l)
  BY <1>1, <1>2 DEF BarredOK, HandsOK, HealedOK
<1> QED BY <1>1, <1>3, <1>4 DEF JobOK, k

LEMMA WrittenType ==
    ASSUME NEW j, j.seen \in Rows, j.now \in Rows, row \in Rows
    PROVE  Written(j) \in Rows
BY DEF Written, Rows

(* What exportable clips show.                                             *)
LEMMA ExportableShows ==
    ASSUME NEW l \in Libraries, NEW clips \in Clips, NEW lax, Exportable(l, clips, lax)
    PROVE  /\ clips # <<>> /\ Shows(clips) \in Seq(Assets)
           /\ \A i \in DOMAIN clips : clips[i].asset # None /\ Ready(l, clips[i].asset, lax)
<1>1. clips # <<>> /\ \A i \in DOMAIN clips : clips[i].asset # None /\ Ready(l, clips[i].asset, lax)
  BY DEF Exportable, ClipsReady
<1>2. clips \in Seq(Clip) /\ DOMAIN clips = 1..Len(clips) /\ Len(clips) \in Nat
  BY ClipsAre
<1>3. \A i \in 1..Len(clips) : clips[i].asset \in Assets
  <2>1. \A i \in 1..Len(clips) : clips[i] \in Clip
    BY <1>2
  <2>2. \A c \in Clip : c.asset \in Assets \cup {None}
    BY DEF Clip, Pick
  <2> QED BY <1>1, <1>2, <2>1, <2>2
<1>4. Shows(clips) \in [1..Len(clips) -> Assets]
  BY <1>2, <1>3 DEF Shows
<1> QED BY <1>1, <1>2, <1>4

LEMMA SceneLastsType ==
    ASSUME narration \in [Scenes -> Nat]
    PROVE  SceneLasts \in [Scenes -> Nat]
<1>1. VoicePad \in Nat
  BY RepairAssumption
<1> QED BY <1>1 DEF SceneLasts

FinalType == final.clips \in Clips /\ final.slots \in Clips /\ final.meant \in Seq(Assets)

LEMMA InitTypes == Init => LibInv
<1> SUFFICES ASSUME Init PROVE LibInv
  OBVIOUS
<1>1. job = [w \in Workers |-> Idle]
  BY DEF Init
<1>2. \A w \in Workers : JobOK(job[w], lib)
  BY <1>1, IdleType
<1>3. job = [w \in Workers |-> job[w]]
  BY <1>1
<1>4. RequestOK(request, lib) /\ request = Quiet
  BY QuietType DEF Init
<1>5. TypeOK
  <2>1. \A w \in Workers : job[w].kind \in Kinds /\ job[w].at \in Stages
    BY <1>2 DEF JobOK, JobType
  <2>2. lib \in Libraries /\ narration \in [Scenes -> Nat]
    BY ExportAssumption DEF Init
  <2>3. row \in [doc : Docs, status : {"draft", "manifest_ready", "compiled", "final_compiled"}]
    BY ExportAssumption DEF Init
  <2>4. rough \in Clips /\ fine \in Clips
    BY DEF Init, Clips
  <2>5. final.clips \in Clips /\ final.slots \in Clips /\ final.meant \in Seq(Assets)
    BY DEF Init, NoFilm, Clips
  <2>6. jobs \in 0..MaxJobs /\ edits \in 0..MaxEdits
    BY ExportAssumption DEF Init
  <2>7. request.open \in BOOLEAN /\ request.mend \in {"same", "succeeded", "pending"}
    BY <1>4, QuietType
  <2> QED BY <2>1, <2>2, <2>3, <2>4, <2>5, <2>6, <2>7 DEF TypeOK
<1>6. Sound(lib)
  BY ExportAssumption DEF Init, Sound
<1> QED BY <1>2, <1>3, <1>4, <1>5, <1>6 DEF LibInv

(* No row goes away.                                                       *)
NoneGone(l, m) == \A a \in Assets : m.status[a] = "absent" => l.status[a] = "absent"

(* A step that changes the media, and may move a job along with it.        *)
LEMMA ByLibrary ==
    ASSUME LibInv, NEW js, job' = Noticed(js, lib'),
           \A v \in Workers : JobType(js[v]) /\ HandsOK(js[v], lib),
           lib' \in Libraries, Sound(lib'), NoneGone(lib, lib'),
           request' \in {request, Quiet}, row' \in Rows, edits' \in 0..MaxEdits,
           UNCHANGED <<narration, rough, fine, final, jobs>>
    PROVE  LibInv'
<1>1. ASSUME NEW v \in Workers PROVE JobOK(job'[v], lib')
  <2>1. HandsOK(js[v], lib')
    BY DEF HandsOK, NoneGone, JobType
  <2>2. job'[v] = Told(js[v], lib')
    BY NoticedIsTold
  <2> QED BY <2>1, <2>2, ToldType
<1>2. job' = [v \in Workers |-> job'[v]]
  BY NoticedIsTold
<1>3. RequestOK(request', lib')
  <2>1. RequestOK(request, lib')
    BY DEF LibInv, RequestOK, HandsOK, NoneGone
  <2> QED BY <2>1, QuietType
<1>4. \A v \in Workers : job'[v].kind \in Kinds /\ job'[v].at \in Stages
  BY <1>1 DEF JobOK, JobType
<1>5. TypeOK'
  BY <1>3, <1>4 DEF LibInv, TypeOK, RequestOK, Rows, RowStatuses
<1> QED BY <1>1, <1>2, <1>3, <1>5 DEF LibInv

(* Approvals in hand are of rows that are there.                           *)
LEMMA ApprovedType ==
    ASSUME NEW l \in Libraries, Sound(l), NEW j, HandsOK(j, l),
           j.stills \in SUBSET Assets, j.shown \in SUBSET Assets
    PROVE  LET m == Sign(Sign(l, j.stills), j.shown)
           IN  /\ m \in Libraries /\ Sound(m) /\ m.status = l.status /\ m.onDisk = l.onDisk
               /\ \A a \in Assets : Signed(m, a) <=> Signed(l, a) \/ a \in j.stills \cup j.shown
<1> DEFINE k == Sign(l, j.stills)
           m == Sign(k, j.shown)
<1>1. /\ k \in Libraries /\ Sound(k) /\ k.status = l.status /\ k.onDisk = l.onDisk
      /\ \A a \in Assets : Signed(k, a) <=> Signed(l, a) \/ a \in j.stills
  <2>1. k.status = l.status /\ k.onDisk = l.onDisk
    BY DEF Sign
  <2> QED BY <2>1, SignType, SignSound DEF HandsOK
<1> HIDE DEF k
<1>2. /\ m \in Libraries /\ Sound(m) /\ m.status = k.status /\ m.onDisk = k.onDisk
      /\ \A a \in Assets : Signed(m, a) <=> Signed(k, a) \/ a \in j.shown
  <2>1. m.status = k.status /\ m.onDisk = k.onDisk
    BY DEF Sign
  <2> QED BY <1>1, <2>1, SignType, SignSound DEF HandsOK
<1> QED BY <1>1, <1>2 DEF k

LEMMA WorkerTypes ==
    ASSUME LibInv, NEW w \in Workers,
           Step(w) \/ Fail(w) \/ \E kind \in Kinds, lax \in BOOLEAN : Begin(w, kind, lax)
    PROVE  LibInv'
<1> DEFINE j == job[w]
<1>a. /\ JobType(j) /\ BarredOK(j, lib) /\ HandsOK(j, lib) /\ HealedOK(j, lib)
      /\ lib \in Libraries /\ Sound(lib) /\ row \in Rows
      /\ narration \in [Scenes -> Nat] /\ rough \in Clips /\ fine \in Clips /\ FinalType
      /\ jobs \in 0..MaxJobs /\ edits \in 0..MaxEdits
  BY DEF LibInv, JobOK, TypeOK, Rows, RowStatuses, FinalType
<1>b. ASSUME NEW k, Go(w, k), JobOK(k, lib),
             UNCHANGED <<lib, narration, request, edits>>, row' \in Rows, rough' \in Clips,
             fine' \in Clips, FinalType', jobs' \in 0..MaxJobs
      PROVE  LibInv'
  <2>1. job' = [v \in Workers |-> IF v = w THEN k ELSE job[v]]
    BY <1>b DEF Go, LibInv
  <2>2. \A v \in Workers : JobOK(job'[v], lib')
    BY <1>b, <2>1 DEF LibInv
  <2>3. \A v \in Workers : job'[v].kind \in Kinds /\ job'[v].at \in Stages
    BY <2>2 DEF JobOK, JobType
  <2>4. RequestOK(request', lib')
    BY <1>b DEF LibInv
  <2>5. TypeOK'
    BY <1>a, <1>b, <2>3, <2>4 DEF TypeOK, RequestOK, FinalType, Rows, RowStatuses
  <2> QED BY <1>a, <1>b, <2>1, <2>2, <2>4, <2>5 DEF LibInv
<1>c. ASSUME NEW k, Go(w, k), JobType(k), SameMedia(j, k), k.at # "commit",
             UNCHANGED <<lib, narration, request, edits, jobs>>,
             row' \in Rows, rough' \in Clips, fine' \in Clips, FinalType'
      PROVE  LibInv'
  <2>1. JobOK(k, lib)
    BY <1>a, <1>c DEF JobOK, BarredOK, HandsOK, HealedOK, SameMedia
  <2> QED BY <1>a, <1>b, <1>c, <2>1
<1>1. ASSUME NEW kind \in Kinds, NEW lax \in BOOLEAN, Begin(w, kind, lax) PROVE LibInv'
  <2> DEFINE base  == Fresh(Idle, row)
             fresh == [base EXCEPT !.kind = kind, !.lax = lax,
                          !.barred = {a \in Assets : kind = "final" /\ OutOfUse(lib, a)}]
             k     == Repair(fresh, AfterRepair(kind))
  <2>1. JobType(base) /\ base.stills = {} /\ base.shown = {}
    BY <1>a, IdleType, FreshType DEF SameMedia
  <2>2. /\ Go(w, k) /\ jobs' = jobs + 1 /\ jobs < MaxJobs
        /\ UNCHANGED <<lib, narration, row, rough, fine, final, request, edits>>
    BY <1>1 DEF Begin
  <2> HIDE DEF base
  <2>3. /\ JobType(fresh) /\ \A a \in fresh.barred : OutOfUse(lib, a)
        /\ fresh.stills = {} /\ fresh.shown = {}
    BY <2>1 DEF JobType, IsJob, Fields
  <2> HIDE DEF fresh
  <2>4. AfterRepair(kind) \in Thens
    BY DEF AfterRepair, Kinds, Thens
  <2>5. JobType(k) /\ SameMedia(fresh, k) /\ k.at = "heal"
    BY <2>3, <2>4, RepairType
  <2> HIDE DEF k
  <2>6. JobOK(k, lib)
    BY <2>3, <2>5 DEF JobOK, BarredOK, HandsOK, HealedOK, SameMedia
  <2>7. jobs' \in 0..MaxJobs
    BY <1>a, <2>2, ExportAssumption
  <2> QED BY <1>a, <1>b, <2>2, <2>6, <2>7 DEF FinalType
<1>2. ASSUME HealTimeline(w) PROVE LibInv'
  <2> DEFINE clips == j.now.doc.clips
             h     == Heal(lib, clips, j.lax, SceneLasts)
             after == [j EXCEPT !.now.doc.clips = h.clips, !.stills = h.stills, !.shown = h.shown]
             stage == IF h.counted THEN "commit" ELSE j.then
             k     == To(after, stage)
  <2>1. clips \in Seq(Clip) /\ j.lax \in BOOLEAN /\ SceneLasts \in [Scenes -> Nat]
    BY <1>a, ClipsAre, SceneLastsType DEF JobType, Rows, Docs
  <2>2. /\ h.clips \in Clips /\ h.stills \in SUBSET Assets /\ h.shown \in SUBSET Assets
        /\ \A a \in h.stills \cup h.shown : lib.status[a] = "succeeded"
    BY <1>a, <2>1, HealType, HealApproves, ClipsAre
  <2>3. /\ Go(w, k) /\ UNCHANGED <<lib, narration, row, rough, fine, final, request, jobs, edits>>
    BY <1>2 DEF HealTimeline, Healed
  <2>4. stage \in Stages
    BY <1>a DEF JobType, Stages, Thens
  <2>5. \E cs \in Seq(Clip), lasts \in [Scenes -> Nat] :
            LET g == Heal(lib, cs, j.lax, lasts)
            IN  h.clips = g.clips /\ h.stills = g.stills /\ h.shown = g.shown
    <3> HIDE DEF clips
    <3> QED BY <2>1
  <2> HIDE DEF h, clips, stage
  <2>6. /\ JobType(after) /\ after.barred = j.barred /\ after.lax = j.lax
        /\ after.stills = h.stills /\ after.shown = h.shown /\ after.now.doc.clips = h.clips
    <3>1. after.now \in Rows /\ after.now.doc.clips = h.clips
      BY <1>a, <2>2 DEF JobType, IsJob, Fields, Rows, Docs
    <3>2. /\ IsJob(after) /\ \A f \in Fields \ {"now", "stills", "shown"} : after[f] = j[f]
          /\ after.stills = h.stills /\ after.shown = h.shown
      BY <1>a DEF JobType, IsJob, Fields
    <3> HIDE DEF after
    <3> QED BY <1>a, <2>2, <3>1, <3>2 DEF JobType, Fields
  <2> HIDE DEF after
  <2>7. JobType(k) /\ SameMedia(after, k) /\ k.lax = after.lax /\ k.now = after.now
    <3>1. k.lax = after.lax /\ k.now = after.now
      BY <2>6 DEF JobType, IsJob, Fields, To
    <3> HIDE DEF k
    <3> QED BY <2>4, <2>6, <3>1, ToType DEF k
  <2> HIDE DEF k
  <2>8. JobOK(k, lib)
    <3>1. BarredOK(k, lib) /\ HandsOK(k, lib)
      BY <1>a, <2>2, <2>6, <2>7 DEF BarredOK, HandsOK, SameMedia
    <3>2. HealedOK(k, lib)
      BY <2>5, <2>6, <2>7 DEF HealedOK, SameMedia
    <3> QED BY <2>7, <3>1, <3>2 DEF JobOK
  <2> QED BY <1>a, <1>b, <2>3, <2>8 DEF FinalType
<1>13. ASSUME HealCommit(w) PROVE LibInv'
  <2> DEFINE done == [Fresh(j, Written(j)) EXCEPT !.stills = {}, !.shown = {}, !.stale = FALSE]
             k    == To(done, j.then)
             js   == [job EXCEPT ![w] = k]
  <2>1. /\ lib' = Approved(j) /\ row' = Written(j) /\ job' = Noticed(js, lib')
        /\ UNCHANGED <<narration, rough, fine, final, request, jobs, edits>>
    BY <1>13 DEF HealCommit
  <2>2. Written(j) \in Rows
    BY <1>a, WrittenType DEF JobType
  <2>3. JobType(done) /\ done.stills = {} /\ done.shown = {}
    <3>1. JobType(Fresh(j, Written(j)))
      BY <1>a, <2>2, FreshType
    <3> QED BY <3>1 DEF JobType, IsJob, Fields
  <2> HIDE DEF done
  <2>4. JobType(k) /\ SameMedia(done, k)
    <3>1. j.then \in Stages
      BY <1>a DEF JobType, Stages, Thens
    <3> QED BY <2>3, <3>1, ToType
  <2> HIDE DEF k
  <2>5. /\ lib' \in Libraries /\ Sound(lib') /\ NoneGone(lib, lib')
    BY <1>a, <2>1, ApprovedType DEF Approved, NoneGone, JobType
  <2>6. ASSUME NEW v \in Workers PROVE JobType(js[v]) /\ HandsOK(js[v], lib)
    <3>1. js[v] = IF v = w THEN k ELSE job[v]
      BY DEF LibInv
    <3>2. HandsOK(k, lib)
      BY <2>3, <2>4 DEF HandsOK, SameMedia
    <3> QED BY <2>4, <3>1, <3>2 DEF LibInv, JobOK
  <2> HIDE DEF js
  <2> QED BY <1>a, <2>1, <2>2, <2>5, <2>6, ByLibrary
<1>3. ASSUME Gate(w) PROVE LibInv'
  <2> DEFINE made == [j EXCEPT !.plan = IF j.given THEN @ ELSE j.now.doc.clips]
  <2>1. JobType(made) /\ SameMedia(j, made)
    BY <1>a DEF JobType, IsJob, Fields, Rows, Docs, SameMedia
  <2>2. Go(w, To(made, "compile")) /\ UNCHANGED <<lib, narration, row, rough, fine, final, request, jobs, edits>>
    BY <1>3 DEF Gate
  <2> HIDE DEF made
  <2> QED BY <1>a, <1>c, <2>1, <2>2, ToType DEF FinalType, Stages, SameMedia
<1>4. ASSUME Compile(w) PROVE LibInv'
  <2> DEFINE told == [j EXCEPT !.now.status = IF CompileEnabled THEN "compiled" ELSE "manifest_ready"]
  <2>1. JobType(told) /\ SameMedia(j, told) /\ j.back \in Stages /\ j.plan \in Clips
    <3>1. told.now \in Rows
      BY <1>a DEF JobType, IsJob, Fields, Rows, RowStatuses
    <3>2. IsJob(told) /\ \A f \in Fields \ {"now"} : told[f] = j[f]
      BY <1>a DEF JobType, IsJob, Fields
    <3>3. j.back \in Stages /\ j.plan \in Clips
      BY <1>a DEF JobType, Backs, Stages
    <3> HIDE DEF told
    <3> QED BY <1>a, <3>1, <3>2, <3>3 DEF JobType, Fields, SameMedia
  <2>2. /\ Go(w, To(told, j.back)) /\ UNCHANGED <<lib, narration, row, fine, final, request, jobs, edits>>
        /\ rough' \in {j.plan, rough}
    BY <1>4 DEF Compile
  <2> HIDE DEF told
  <2>3. j.back # "commit"
    BY <1>a DEF JobType, Backs
  <2> QED BY <1>a, <1>c, <2>1, <2>2, <2>3, ToType DEF FinalType, SameMedia
<1>5. ASSUME NeedRough(w) PROVE LibInv'
  <2>1. UNCHANGED <<lib, narration, row, rough, fine, final, request, jobs, edits>>
    BY <1>5 DEF NeedRough
  <2>2. CASE Go(w, RoughFor(j, "refresh"))
    BY <1>a, <1>c, <2>1, <2>2, RoughForType DEF FinalType, Backs
  <2>3. CASE Go(w, To(j, "burn"))
    BY <1>a, <1>c, <2>1, <2>3, ToType DEF FinalType, Stages
  <2> QED BY <1>5, <2>2, <2>3 DEF NeedRough
<1>6. ASSUME Refresh(w) PROVE LibInv'
  <2>1. UNCHANGED <<lib, narration, row, rough, fine, final, request, jobs, edits>> /\ Go(w, To(Fresh(j, row), "burn"))
    BY <1>6 DEF Refresh
  <2>2. JobType(Fresh(j, row)) /\ SameMedia(j, Fresh(j, row))
    BY <1>a, FreshType
  <2> QED BY <1>a, <1>c, <2>1, <2>2, ToType DEF FinalType, Stages, SameMedia
<1>7. ASSUME Burn(w) \/ Reburn(w) \/ Clear(w) PROVE LibInv'
  <2>1. /\ UNCHANGED <<lib, narration, row, rough, final, request, jobs, edits>> /\ fine' \in {rough, fine, <<>>}
        /\ \/ Go(w, To(j, "end")) \/ Go(w, To(j, "save")) \/ Go(w, Repair(j, "reburn"))
    BY <1>7 DEF Burn, Reburn, Clear
  <2>2. fine' \in Clips
    <3>1. <<>> \in Clips
      BY DEF Clips
    <3> QED BY <1>a, <2>1, <3>1
  <2> QED BY <1>a, <1>c, <2>1, <2>2, ToType, RepairType DEF FinalType, Stages, Thens
<1>8. ASSUME NeedBase(w) PROVE LibInv'
  <2>1. UNCHANGED <<lib, narration, row, rough, fine, final, request, jobs, edits>>
    BY <1>8 DEF NeedBase
  <2>2. CASE Go(w, RoughFor(j, "save"))
    BY <1>a, <1>c, <2>1, <2>2, RoughForType DEF FinalType, Backs
  <2>3. CASE Go(w, To(j, "plan"))
    BY <1>a, <1>c, <2>1, <2>3, ToType DEF FinalType, Stages
  <2> QED BY <1>8, <2>2, <2>3 DEF NeedBase
<1>9. ASSUME Save(w) PROVE LibInv'
  <2>1. /\ UNCHANGED <<lib, narration, rough, fine, final, request, jobs, edits>> /\ row' = Written(j)
        /\ Go(w, To(Fresh(j, row'), IF j.given THEN "mux" ELSE "plan"))
    BY <1>9 DEF Save
  <2>2. row' \in Rows
    BY <1>a, <2>1, WrittenType DEF JobType
  <2>3. JobType(Fresh(j, row')) /\ SameMedia(j, Fresh(j, row'))
    BY <1>a, <2>2, FreshType
  <2> QED BY <1>a, <1>c, <2>1, <2>2, <2>3, ToType DEF FinalType, Stages, SameMedia
<1>10. ASSUME Plan(w) PROVE LibInv'
  <2> DEFINE clips == row.doc.clips
             wide  == Widened(clips, narration)
             base  == Fresh(j, row)
             given == [base EXCEPT !.plan = wide, !.slots = wide, !.meant = Shows(clips),
                                   !.titled = row.doc.titled, !.given = TRUE,
                                   !.kept = ~Recompiles(clips, wide)]
  <2>1. clips \in Clips /\ row.doc.titled \in BOOLEAN
    BY <1>a DEF Rows, Docs
  <2>2. /\ Exportable(lib, clips, given.lax) /\ fine' = KeptFine(wide)
        /\ \/ Go(w, RoughFor(given, "clear"))
           \/ Go(w, To(given, "mux"))
        /\ UNCHANGED <<lib, narration, row, rough, final, request, jobs, edits>>
    BY <1>10 DEF Plan
  <2> HIDE DEF clips
  <2>3. Shows(clips) \in Seq(Assets) /\ \A i \in DOMAIN clips : clips[i].asset # None
    BY <1>a, <2>1, <2>2, ExportableShows
  <2>4. wide \in Clips
    BY <1>a, <2>1, <2>3, ClipsAre, WidenedShows
  <2>5. JobType(base) /\ SameMedia(j, base)
    BY <1>a, FreshType
  <2> HIDE DEF base, wide
  <2>6. JobType(given) /\ SameMedia(j, given)
    <3>1. Recompiles(clips, wide) \in BOOLEAN
      BY ExportAssumption DEF Recompiles
    <3> QED BY <2>1, <2>3, <2>4, <2>5, <3>1 DEF JobType, IsJob, Fields, SameMedia
  <2> HIDE DEF given
  <2>7. fine' \in Clips
    BY <1>a, <2>2 DEF KeptFine, Clips
  <2> QED BY <1>a, <1>c, <2>2, <2>6, <2>7, ToType, RoughForType DEF FinalType, Stages, Backs, SameMedia
<1>11. ASSUME Mux(w) PROVE LibInv'
  <2> DEFINE told == [j EXCEPT !.now.status = "final_compiled"]
             base == IF fine # <<>> THEN fine ELSE rough
  <2>1. JobType(told) /\ SameMedia(j, told)
    <3>1. told.now \in Rows
      BY <1>a DEF JobType, IsJob, Fields, Rows, RowStatuses
    <3>2. IsJob(told) /\ \A f \in Fields \ {"now"} : told[f] = j[f]
      BY <1>a DEF JobType, IsJob, Fields
    <3> HIDE DEF told
    <3> QED BY <1>a, <3>1, <3>2 DEF JobType, Fields, SameMedia
  <2>2. /\ Go(w, To(told, "end")) /\ UNCHANGED <<lib, narration, row, rough, fine, request, jobs, edits>>
        /\ final' = [clips |-> base, slots |-> j.slots, meant |-> j.meant, barred |-> j.barred,
                     kept |-> j.kept]
    BY <1>11 DEF Mux
  <2> HIDE DEF told
  <2>3. FinalType'
    BY <1>a, <2>2 DEF FinalType, JobType
  <2> QED BY <1>a, <1>c, <2>1, <2>2, <2>3, ToType DEF Stages, SameMedia
<1>12. ASSUME End(w) \/ Fail(w) PROVE LibInv'
  <2>1. /\ UNCHANGED <<lib, narration, rough, fine, final, request, jobs, edits>> /\ row' \in {row, Written(j)}
        /\ Go(w, Idle)
    BY <1>12 DEF End, Fail
  <2>2. row' \in Rows
    BY <1>a, <2>1, WrittenType DEF JobType
  <2> QED BY <1>a, <1>b, <2>1, <2>2, IdleType DEF FinalType
<1> QED BY <1>1, <1>2, <1>3, <1>4, <1>5, <1>6, <1>7, <1>8, <1>9, <1>10, <1>11, <1>12, <1>13, Zenon DEF Step

(* What an editor does, and what requests read and commit, keeps the types.*)
LEMMA EditTypes ==
    ASSUME LibInv, Editing \/ Requests
    PROVE  LibInv'
<1>a. /\ lib \in Libraries /\ row \in Rows /\ narration \in [Scenes -> Nat]
      /\ rough \in Clips /\ fine \in Clips /\ FinalType /\ jobs \in 0..MaxJobs /\ edits \in 0..MaxEdits
      /\ \A v \in Workers : JobOK(job[v], lib)
      /\ RequestOK(request, lib) /\ Sound(lib)
  BY DEF LibInv, TypeOK, Rows, RowStatuses, FinalType
<1>b. /\ lib.status \in [Assets -> Statuses] /\ lib.rank \in [Assets -> Nat]
      /\ lib.onDisk \in SUBSET Assets
  BY <1>a DEF Libraries
<1>e. Edit => edits' \in 0..MaxEdits
  BY <1>a, ExportAssumption DEF Edit
<1>q. ASSUME RequestOK(request', lib), row' \in Rows, narration' \in [Scenes -> Nat],
             Edit, UNCHANGED <<lib, rough, fine, final, job, jobs>>
      PROVE  LibInv'
  <2>1. \A v \in Workers : JobOK(job'[v], lib')
    BY <1>a, <1>q
  <2>2. \A v \in Workers : job'[v].kind \in Kinds /\ job'[v].at \in Stages
    BY <2>1 DEF JobOK, JobType
  <2>3. request'.open \in BOOLEAN /\ request'.mend \in {"same", "succeeded", "pending"}
    BY <1>q DEF RequestOK
  <2>4. TypeOK'
    BY <1>a, <1>e, <1>q, <2>2, <2>3 DEF TypeOK, FinalType, Rows, RowStatuses
  <2>5. job' = [v \in Workers |-> job'[v]]
    BY <1>q DEF LibInv
  <2> QED BY <1>a, <1>q, <2>1, <2>4, <2>5 DEF LibInv
<1>l. ASSUME NEW l \in Libraries, Sound(l), NoneGone(lib, l), Become(l),
             request' \in {request, Quiet}, row' \in Rows, edits' \in 0..MaxEdits,
             UNCHANGED <<narration, rough, fine, final, jobs>>
      PROVE  LibInv'
  <2>1. lib' = l /\ job' = Noticed(job, lib')
    BY <1>l DEF Become
  <2>2. \A v \in Workers : JobType(job[v]) /\ HandsOK(job[v], lib)
    BY <1>a DEF JobOK
  <2> QED BY <1>l, <2>1, <2>2, ByLibrary
<1>t. ASSUME NEW status \in [Assets -> Statuses], NEW rank \in [Assets -> Nat],
             NEW disk \in SUBSET Assets, Touch(status, rank, disk),
             \A a \in Assets : status[a] = "absent" => lib.status[a] = "absent" /\ rank[a] = 0
      PROVE  LibInv'
  <2> DEFINE l == [status |-> status, rank |-> rank, onDisk |-> disk]
  <2>1. l \in Libraries /\ Sound(l) /\ NoneGone(lib, l)
    BY <1>t DEF Libraries, Sound, Signed, NoneGone
  <2>2. Become(l) /\ Edit /\ UNCHANGED <<narration, row, rough, fine, final, request, jobs>>
    BY <1>t DEF Touch
  <2> HIDE DEF l
  <2> QED BY <1>a, <1>e, <1>l, <2>1, <2>2
<1>1. ASSUME Patches PROVE LibInv'
  <2> DEFINE clips == row.doc.clips
  <2>1. clips \in Seq(Clip) /\ row.doc.titled \in BOOLEAN
    BY <1>a, ClipsAre DEF Rows, Docs
  <2>2. ASSUME NEW new \in Seq(Clip), NEW titled \in BOOLEAN, Patch(new, titled) PROVE LibInv'
    <3>1. [clips |-> new, titled |-> titled] \in Docs
      BY <2>2, ClipsAre DEF Docs
    <3>2. row' \in Rows
      BY <1>a, <2>2, <3>1 DEF Patch, Rows
    <3> QED BY <1>a, <1>q, <2>2, <3>2 DEF Patch
  <2>3. ASSUME NEW a \in Assets, NEW d \in Lasts PROVE [asset |-> a, dur |-> d] \in Clip
    BY ExportAssumption DEF Clip, Pick
  <2>4. ASSUME NEW c \in Clip, NEW i \in DOMAIN clips
        PROVE  Append(clips, c) \in Seq(Clip) /\ [clips EXCEPT ![i] = c] \in Seq(Clip)
    BY <2>1
  <2>5. ASSUME NEW c \in Clip PROVE Append(clips, c) \in Seq(Clip)
    BY <2>1
  <2>6. \/ Patch(clips, ~row.doc.titled)
        \/ \E a \in Assets, d \in Lasts : Patch(Append(clips, [asset |-> a, dur |-> d]), row.doc.titled)
        \/ \E a \in Assets, d \in Lasts, i \in DOMAIN clips :
               Patch([clips EXCEPT ![i] = [asset |-> a, dur |-> d]], row.doc.titled)
    BY <1>1, Zenon DEF Patches
  <2> HIDE DEF clips
  <2>7. CASE Patch(clips, ~row.doc.titled)
    BY <2>1, <2>2, <2>7
  <2>8. ASSUME NEW a \in Assets, NEW d \in Lasts,
               Patch(Append(clips, [asset |-> a, dur |-> d]), row.doc.titled)
        PROVE  LibInv'
    BY <2>1, <2>2, <2>3, <2>5, <2>8
  <2>9. ASSUME NEW a \in Assets, NEW d \in Lasts, NEW i \in DOMAIN clips,
               Patch([clips EXCEPT ![i] = [asset |-> a, dur |-> d]], row.doc.titled)
        PROVE  LibInv'
    BY <2>1, <2>2, <2>3, <2>4, <2>9
  <2> QED BY <2>6, <2>7, <2>8, <2>9
<1>2. ASSUME NEW a \in Assets, Arrive(a) PROVE LibInv'
  <2> DEFINE status == [lib.status EXCEPT ![a] = "succeeded"]
  <2>1. Touch(status, lib.rank, lib.onDisk \cup {a}) /\ lib.onDisk \cup {a} \in SUBSET Assets
    BY <1>2, <1>b DEF Arrive
  <2>2. status \in [Assets -> Statuses] /\ \A b \in Assets : status[b] \in {lib.status[b], "succeeded"}
    BY <1>b DEF Statuses
  <2> HIDE DEF status
  <2>3. \A b \in Assets : status[b] = "absent" => lib.status[b] = "absent" /\ lib.rank[b] = 0
    BY <1>a, <2>2 DEF Signed, Sound
  <2> QED BY <1>b, <1>t, <2>1, <2>2, <2>3
<1>3. ASSUME NEW a \in Assets, Lose(a) PROVE LibInv'
  <2>1. Touch(lib.status, lib.rank, lib.onDisk \ {a}) /\ lib.onDisk \ {a} \in SUBSET Assets
    BY <1>3, <1>b DEF Lose
  <2>2. \A b \in Assets : lib.status[b] = "absent" => lib.status[b] = "absent" /\ lib.rank[b] = 0
    BY <1>a DEF Signed, Sound
  <2> QED BY <1>b, <1>t, <2>1, <2>2
<1>4. ASSUME NEW S, Refuse(S) PROVE LibInv'
  <2> DEFINE status == [a \in Assets |-> IF a \in S THEN "rejected" ELSE lib.status[a]]
             rank   == [a \in Assets |-> IF a \in S THEN 0 ELSE lib.rank[a]]
  <2>1. Touch(status, rank, lib.onDisk)
    BY <1>4 DEF Refuse
  <2>2. status \in [Assets -> Statuses] /\ rank \in [Assets -> Nat]
    BY <1>b DEF Statuses
  <2>3. \A b \in Assets : status[b] = "absent" => lib.status[b] = "absent" /\ rank[b] = 0
    BY <1>a DEF Signed, Sound
  <2> HIDE DEF status, rank
  <2> QED BY <1>b, <1>t, <2>1, <2>2, <2>3
<1>5. ASSUME NEW s \in Scenes, NEW d \in Lasts, Narrate(s, d) PROVE LibInv'
  <2>1. narration' \in [Scenes -> Nat]
    BY <1>a, <1>5, ExportAssumption DEF Narrate
  <2> QED BY <1>a, <1>q, <1>5, <2>1 DEF Narrate
<1>r. ASSUME NEW q, RequestOK(q, lib), q = [f \in DOMAIN Quiet |-> q[f]], Ask(q) PROVE LibInv'
  <2>1. /\ request' = [q EXCEPT !.open = TRUE] /\ Edit
        /\ UNCHANGED <<lib, narration, row, rough, fine, final, job, jobs>>
    BY <1>r DEF Ask
  <2>2. DOMAIN Quiet = {"open", "stills", "shown", "mend", "seen", "now"}
    BY DEF Quiet
  <2>3. /\ request'.open = TRUE /\ request'.stills = q.stills /\ request'.shown = q.shown
        /\ request'.mend = q.mend /\ request'.seen = q.seen /\ request'.now = q.now
    BY <1>r, <2>1, <2>2
  <2>4. RequestOK(request', lib)
    BY <1>r, <2>3 DEF RequestOK, HandsOK
  <2> QED BY <1>a, <1>q, <2>1, <2>4
<1>6. ASSUME NEW a \in Assets, ApproveRead(a) PROVE LibInv'
  <2> DEFINE mend == IF a \in lib.onDisk
                     THEN (IF lib.status[a] \in {"pending", "rejected"} THEN "succeeded" ELSE "same")
                     ELSE (IF lib.status[a] = "rejected" THEN "pending" ELSE "same")
             q == [Quiet EXCEPT !.stills = {a}, !.mend = mend]
  <2>1. Ask(q) /\ lib.status[a] # "absent"
    BY <1>6, QuietType DEF ApproveRead, Quiet
  <2>2. /\ q = [f \in DOMAIN Quiet |-> q[f]] /\ q.open = FALSE /\ q.stills = {a} /\ q.shown = {}
        /\ q.mend \in {"same", "succeeded", "pending"} /\ q.seen = NoRow /\ q.now = NoRow
    BY DEF Quiet
  <2> HIDE DEF q
  <2>3. RequestOK(q, lib)
    BY <2>1, <2>2, NoRowType DEF RequestOK, HandsOK
  <2> QED BY <1>r, <2>1, <2>2, <2>3
<1>7. ASSUME ApproveAllRead PROVE LibInv'
  <2> DEFINE all == {a \in Assets : lib.status[a] = "succeeded" /\ ~Signed(lib, a)}
             q   == [Quiet EXCEPT !.stills = all]
  <2>1. Ask(q)
    BY <1>7 DEF ApproveAllRead
  <2>2. /\ q = [f \in DOMAIN Quiet |-> q[f]] /\ q.open = FALSE /\ q.stills = all /\ q.shown = {}
        /\ q.mend = "same" /\ q.seen = NoRow /\ q.now = NoRow
    BY DEF Quiet
  <2> HIDE DEF q
  <2>3. RequestOK(q, lib)
    BY <2>2, NoRowType DEF RequestOK, HandsOK
  <2> QED BY <1>r, <2>1, <2>2, <2>3
<1>8. ASSUME NEW lax \in BOOLEAN, ReconcileRead(lax) PROVE LibInv'
  <2> DEFINE h   == Heal(lib, row.doc.clips, lax, SceneLasts)
             now == [row EXCEPT !.doc.clips = h.clips]
             q   == [Quiet EXCEPT !.stills = h.stills, !.shown = h.shown, !.seen = row, !.now = now]
  <2>1. Ask(q)
    BY <1>8 DEF ReconcileRead
  <2>2. row.doc.clips \in Seq(Clip) /\ SceneLasts \in [Scenes -> Nat]
    BY <1>a, ClipsAre, SceneLastsType DEF Rows, Docs
  <2>3. /\ h.clips \in Clips /\ h.stills \in SUBSET Assets /\ h.shown \in SUBSET Assets
        /\ \A a \in h.stills \cup h.shown : lib.status[a] = "succeeded"
    BY <1>a, <2>2, HealType, HealApproves, ClipsAre
  <2> HIDE DEF h
  <2>4. now \in Rows
    BY <1>a, <2>3 DEF Rows, Docs
  <2> HIDE DEF now
  <2>5. /\ q = [f \in DOMAIN Quiet |-> q[f]] /\ q.open = FALSE /\ q.stills = h.stills /\ q.shown = h.shown
        /\ q.mend = "same" /\ q.seen = row /\ q.now = now
    BY DEF Quiet
  <2> HIDE DEF q
  <2>6. RequestOK(q, lib)
    BY <1>a, <2>3, <2>4, <2>5 DEF RequestOK, HandsOK
  <2> QED BY <1>r, <2>1, <2>5, <2>6
<1>9. ASSUME RequestCommit PROVE LibInv'
  <2> DEFINE m      == Approved(request)
             mended == [a \in Assets |-> IF a \in request.stills /\ request.mend # "same"
                                         THEN request.mend ELSE lib.status[a]]
             l      == [m EXCEPT !.status = mended]
  <2>1. /\ Become(l) /\ row' = Written(request) /\ request' = Quiet
        /\ UNCHANGED <<narration, rough, fine, final, jobs, edits>>
    BY <1>9 DEF RequestCommit
  <2>2. m \in Libraries /\ Sound(m) /\ m.status = lib.status
    BY <1>a, ApprovedType DEF Approved, RequestOK
  <2> HIDE DEF m
  <2>3. /\ mended \in [Assets -> Statuses]
        /\ \A a \in Assets : mended[a] = "absent" => lib.status[a] = "absent"
    BY <1>a, <1>b DEF RequestOK, Statuses
  <2> HIDE DEF mended
  <2>4. l \in Libraries /\ l.rank = m.rank /\ l.status = mended
    BY <2>2, <2>3 DEF Libraries
  <2> HIDE DEF l
  <2>5. Sound(l) /\ NoneGone(lib, l)
    BY <2>2, <2>3, <2>4 DEF Sound, Signed, NoneGone
  <2>6. row' \in Rows
    BY <1>a, <2>1, WrittenType DEF RequestOK
  <2> QED BY <1>a, <1>l, <2>1, <2>4, <2>5, <2>6
<1>10. ASSUME Editing PROVE LibInv'
  BY <1>1, <1>2, <1>3, <1>4, <1>5, <1>10, Zenon DEF Editing, Reject, RejectFlagged
<1>11. ASSUME Requests PROVE LibInv'
  BY <1>6, <1>7, <1>8, <1>9, <1>11, Zenon DEF Requests
<1> QED BY <1>10, <1>11

LEMMA LibStep == LibInv /\ [Next]_vars => LibInv'
<1>1. ASSUME LibInv, UNCHANGED vars PROVE LibInv'
  BY <1>1 DEF vars, LibInv, TypeOK
<1> QED BY <1>1, WorkerTypes, EditTypes, Zenon DEF Next

LEMMA LibHolds == Spec => []LibInv
BY InitTypes, LibStep, PTL DEF Spec

(* Whatever edits and jobs there are, the rows, the library and the films  *)
(* stay well formed: a repair writes a clip for every slot, an asset of the*)
(* project into every clip, and an approval only on its rows.              *)
THEOREM ExportTypes == Spec => []TypeOK
<1>1. LibInv => TypeOK
  BY DEF LibInv
<1> QED BY <1>1, LibHolds, PTL

-----------------------------------------------------------------------------
(* What a job has in hand: taken by a repair that reads, given back by one *)
(* that commits; every other stage keeps it or drops it with the job.      *)
NoMore(j, k) == k.stills \subseteq j.stills /\ k.shown \subseteq j.shown

LEMMA ToldIs ==
    ASSUME NEW j, IsJob(j), NEW l
    PROVE  /\ IsJob(Told(j, l)) /\ Told(j, l).barred \subseteq j.barred
           /\ \A f \in Fields \ {"barred", "stale"} : Told(j, l)[f] = j[f]
BY DEF IsJob, Fields, Told

LEMMA OtherStages ==
    ASSUME LibInv, NEW w \in Workers, ~HealTimeline(w), ~HealCommit(w),
           Step(w) \/ Fail(w) \/ \E kind \in Kinds, lax \in BOOLEAN : Begin(w, kind, lax)
    PROVE  UNCHANGED <<lib, request>> /\ \E k : Go(w, k) /\ NoMore(job[w], k)
<1> DEFINE j == job[w]
<1>a. IsJob(j)
  BY DEF LibInv, JobOK, JobType
<1>b. ASSUME NEW i, IsJob(i), i.stills = j.stills, i.shown = j.shown, NEW at
      PROVE  NoMore(j, To(i, at)) /\ NoMore(j, Repair(i, at)) /\ NoMore(j, RoughFor(i, at))
  BY <1>b DEF IsJob, Fields, NoMore, To, Repair, RoughFor
<1>c. ASSUME NEW r PROVE IsJob(Fresh(j, r)) /\ Fresh(j, r).stills = j.stills /\ Fresh(j, r).shown = j.shown
  BY <1>a DEF IsJob, Fields, Fresh
<1>d. NoMore(j, Idle)
  BY IdleType DEF NoMore
<1>1. ASSUME NEW kind, NEW lax, Begin(w, kind, lax)
      PROVE  UNCHANGED <<lib, request>> /\ \E k : Go(w, k) /\ NoMore(j, k)
  <2> DEFINE fresh == [Fresh(Idle, row) EXCEPT !.kind = kind, !.lax = lax,
                          !.barred = {a \in Assets : kind = "final" /\ OutOfUse(lib, a)}]
             k     == Repair(fresh, AfterRepair(kind))
  <2>1. k.stills = {} /\ k.shown = {}
    BY DEF Fresh, Idle, Repair
  <2>2. Go(w, k) /\ UNCHANGED <<lib, request>>
    BY <1>1 DEF Begin
  <2> HIDE DEF k
  <2> QED BY <2>1, <2>2 DEF NoMore
<1>2. CASE Gate(w)
  <2> DEFINE made == [j EXCEPT !.plan = IF j.given THEN @ ELSE j.now.doc.clips]
  <2>1. IsJob(made) /\ made.stills = j.stills /\ made.shown = j.shown
    BY <1>a DEF IsJob, Fields
  <2>2. Go(w, To(made, "compile")) /\ UNCHANGED <<lib, request>>
    BY <1>2 DEF Gate
  <2> HIDE DEF made
  <2> QED BY <1>b, <2>1, <2>2
<1>3. CASE Compile(w)
  <2> DEFINE told == [j EXCEPT !.now.status = IF CompileEnabled THEN "compiled" ELSE "manifest_ready"]
  <2>1. IsJob(told) /\ told.stills = j.stills /\ told.shown = j.shown
    BY <1>a DEF IsJob, Fields
  <2>2. Go(w, To(told, j.back)) /\ UNCHANGED <<lib, request>>
    BY <1>3 DEF Compile
  <2> HIDE DEF told
  <2> QED BY <1>b, <2>1, <2>2
<1>4. CASE NeedRough(w) \/ NeedBase(w) \/ Burn(w) \/ Clear(w) \/ Reburn(w)
  <2>1. /\ UNCHANGED <<lib, request>>
        /\ \E at : Go(w, To(j, at)) \/ Go(w, Repair(j, at)) \/ Go(w, RoughFor(j, at))
    BY <1>4 DEF NeedRough, NeedBase, Burn, Clear, Reburn
  <2> QED BY <1>a, <1>b, <2>1
<1>5. CASE Refresh(w) \/ Save(w)
  <2>1. UNCHANGED <<lib, request>> /\ \E r, at : Go(w, To(Fresh(j, r), at))
    BY <1>5 DEF Refresh, Save
  <2> QED BY <1>b, <1>c, <2>1
<1>6. CASE Plan(w)
  <2> DEFINE base == Fresh(j, row)
             wide == Widened(row.doc.clips, narration)
             given == [base EXCEPT !.plan = wide, !.slots = wide, !.meant = Shows(row.doc.clips),
                                   !.titled = row.doc.titled, !.given = TRUE,
                                   !.kept = ~Recompiles(row.doc.clips, wide)]
  <2>1. UNCHANGED <<lib, request>> /\ (Go(w, To(given, "mux")) \/ Go(w, RoughFor(given, "clear")))
    BY <1>6 DEF Plan
  <2>2. IsJob(base) /\ base.stills = j.stills /\ base.shown = j.shown
    BY <1>c
  <2> HIDE DEF base, wide
  <2>3. IsJob(given) /\ given.stills = j.stills /\ given.shown = j.shown
    BY <2>2 DEF IsJob, Fields
  <2> HIDE DEF given
  <2> QED BY <1>b, <2>1, <2>3
<1>7. CASE Mux(w)
  <2> DEFINE told == [j EXCEPT !.now.status = "final_compiled"]
  <2>1. IsJob(told) /\ told.stills = j.stills /\ told.shown = j.shown
    BY <1>a DEF IsJob, Fields
  <2>2. Go(w, To(told, "end")) /\ UNCHANGED <<lib, request>>
    BY <1>7 DEF Mux
  <2> HIDE DEF told
  <2> QED BY <1>b, <2>1, <2>2
<1>8. CASE End(w) \/ Fail(w)
  BY <1>8, <1>d DEF End, Fail
<1> QED BY <1>1, <1>2, <1>3, <1>4, <1>5, <1>6, <1>7, <1>8, Zenon DEF Step

(* A take that is out of use and in nobody's hand is taken in hand only by *)
(* a request to approve it: repairs and bulk approvals take what they read *)
(* as succeeded, and a commit signs what is in hand and nothing else.      *)
LEMMA RejectionStep ==
    ASSUME LibInv, [Next]_vars, NEW a \in Assets, Refused(a)
    PROVE  Refused(a)' \/ ApproveRead(a)
<1>a. /\ lib.status[a] = "rejected" /\ ~Signed(lib, a) /\ a \notin request.stills \cup request.shown
      /\ \A v \in Workers : a \notin job[v].stills \cup job[v].shown
  BY DEF Refused, OutOfUse, InHand
<1>b. /\ lib \in Libraries /\ Sound(lib) /\ row \in Rows /\ narration \in [Scenes -> Nat]
      /\ RequestOK(request, lib)
      /\ \A v \in Workers : JobType(job[v]) /\ IsJob(job[v]) /\ HandsOK(job[v], lib)
  BY DEF LibInv, TypeOK, Rows, RowStatuses, JobOK, JobType
<1>c. ASSUME OutOfUse(lib', a), a \notin request'.stills \cup request'.shown,
             \A v \in Workers : NoMore(job[v], job'[v])
      PROVE  Refused(a)'
  BY <1>a, <1>c DEF Refused, InHand, NoMore
<1>d. ASSUME NEW l, OutOfUse(l, a), Become(l), request' \in {request, Quiet} PROVE Refused(a)'
  <2>1. \A v \in Workers : job'[v] = Told(job[v], l)
    BY <1>d, NoticedIsTold DEF Become
  <2>2. \A v \in Workers : NoMore(job[v], job'[v])
    BY <1>b, <2>1, ToldIs DEF NoMore, Fields
  <2>3. lib' = l /\ a \notin request'.stills \cup request'.shown
    BY <1>a, <1>d, QuietType DEF Become
  <2> QED BY <1>c, <1>d, <2>2, <2>3
<1>e. ASSUME UNCHANGED <<lib, job>>, a \notin request'.stills \cup request'.shown PROVE Refused(a)'
  BY <1>a, <1>c, <1>e DEF OutOfUse, NoMore
<1>f. ASSUME NEW q, q = [f \in DOMAIN Quiet |-> q[f]], Ask(q), a \notin q.stills \cup q.shown PROVE Refused(a)'
  <2>1. request' = [q EXCEPT !.open = TRUE] /\ UNCHANGED <<lib, job>>
    BY <1>f DEF Ask
  <2>2. DOMAIN Quiet = {"open", "stills", "shown", "mend", "seen", "now"}
    BY DEF Quiet
  <2>3. request'.stills = q.stills /\ request'.shown = q.shown
    BY <1>f, <2>1, <2>2
  <2> QED BY <1>e, <1>f, <2>1, <2>3
<1>1. ASSUME NEW w \in Workers, ~HealTimeline(w), ~HealCommit(w),
             Step(w) \/ Fail(w) \/ \E kind \in Kinds, lax \in BOOLEAN : Begin(w, kind, lax)
      PROVE  Refused(a)'
  <2>1. PICK k : UNCHANGED <<lib, request>> /\ Go(w, k) /\ NoMore(job[w], k)
    BY <1>1, OtherStages
  <2>2. \A v \in Workers : job'[v] = IF v = w THEN k ELSE job[v]
    BY <2>1 DEF Go, LibInv
  <2>3. \A v \in Workers : NoMore(job[v], job'[v])
    BY <2>1, <2>2 DEF NoMore
  <2> QED BY <1>a, <1>c, <2>1, <2>3 DEF OutOfUse
<1>2. ASSUME NEW w \in Workers, HealTimeline(w) PROVE Refused(a)'
  <2> DEFINE j     == job[w]
             h     == Healed(j)
             after == [j EXCEPT !.now.doc.clips = h.clips, !.stills = h.stills, !.shown = h.shown]
             k     == To(after, IF h.counted THEN "commit" ELSE j.then)
  <2>1. Go(w, k) /\ UNCHANGED <<lib, request>>
    BY <1>2 DEF HealTimeline
  <2>2. a \notin h.stills \cup h.shown
    BY <1>a, HealApproves DEF Healed
  <2> HIDE DEF h
  <2>3. k.stills = h.stills /\ k.shown = h.shown
    BY <1>b DEF IsJob, Fields, To
  <2> HIDE DEF k
  <2>4. \A v \in Workers : job'[v] = IF v = w THEN k ELSE job[v]
    BY <2>1 DEF Go, LibInv
  <2> QED BY <1>a, <2>1, <2>2, <2>3, <2>4 DEF Refused, InHand, OutOfUse
<1>3. ASSUME NEW w \in Workers, HealCommit(w) PROVE Refused(a)'
  <2> DEFINE j    == job[w]
             done == [Fresh(j, Written(j)) EXCEPT !.stills = {}, !.shown = {}, !.stale = FALSE]
             k    == To(done, j.then)
             js   == [job EXCEPT ![w] = k]
  <2>1. lib' = Approved(j) /\ job' = Noticed(js, lib') /\ UNCHANGED request
    BY <1>3 DEF HealCommit
  <2>2. OutOfUse(lib', a)
    BY <1>a, <1>b, <2>1, ApprovedType DEF OutOfUse, Approved, JobType
  <2>3. IsJob(k) /\ k.stills = {} /\ k.shown = {}
    BY <1>b DEF IsJob, Fields, To, Fresh
  <2> HIDE DEF k
  <2>4. \A v \in Workers : js[v] = IF v = w THEN k ELSE job[v]
    BY DEF LibInv
  <2>5. \A v \in Workers : IsJob(js[v]) /\ NoMore(job[v], js[v])
    BY <1>b, <2>3, <2>4 DEF NoMore
  <2> HIDE DEF js
  <2>6. \A v \in Workers : job'[v] = Told(js[v], lib')
    BY <2>1, NoticedIsTold
  <2>7. \A v \in Workers : NoMore(job[v], job'[v])
    BY <2>5, <2>6, ToldIs DEF NoMore, Fields
  <2> QED BY <1>a, <1>c, <2>1, <2>2, <2>7
<1>4. ASSUME Editing PROVE Refused(a)'
  <2>1. CASE Patches \/ \E s \in Scenes, d \in Lasts : Narrate(s, d)
    <3>1. UNCHANGED <<lib, job, request>>
      BY <2>1 DEF Patches, Patch, Narrate
    <3> QED BY <1>a, <1>e, <3>1
  <2>2. ASSUME NEW b \in Assets, Arrive(b) \/ Lose(b) PROVE Refused(a)'
    <3>1. PICK l : /\ Become(l) /\ request' = request /\ l.rank = lib.rank
                   /\ l.status = lib.status \/ (l.status = [lib.status EXCEPT ![b] = "succeeded"] /\ b # a)
      BY <1>a, <2>2 DEF Arrive, Lose, Touch
    <3>2. OutOfUse(l, a)
      BY <1>a, <1>b, <3>1 DEF OutOfUse, Signed, Libraries
    <3> QED BY <1>d, <3>1, <3>2
  <2>3. ASSUME NEW S, Refuse(S) PROVE Refused(a)'
    <3> DEFINE l == [status |-> [b \in Assets |-> IF b \in S THEN "rejected" ELSE lib.status[b]],
                     rank   |-> [b \in Assets |-> IF b \in S THEN 0 ELSE lib.rank[b]],
                     onDisk |-> lib.onDisk]
    <3>1. Become(l) /\ request' = request
      BY <2>3 DEF Refuse, Touch
    <3>2. OutOfUse(l, a)
      BY <1>a, <3>1 DEF OutOfUse, Signed
    <3> QED BY <1>d, <3>1, <3>2
  <2> QED BY <1>4, <2>1, <2>2, <2>3, Zenon DEF Editing, Reject, RejectFlagged
<1>5. ASSUME NEW b \in Assets, ApproveRead(b) PROVE Refused(a)' \/ ApproveRead(a)
  <2>1. CASE b = a
    BY <1>5, <2>1
  <2>2. CASE b # a
    <3>1. PICK m : Ask([Quiet EXCEPT !.stills = {b}, !.mend = m])
      BY <1>5, QuietType DEF ApproveRead
    <3>2. LET q == [Quiet EXCEPT !.stills = {b}, !.mend = m]
          IN  q = [f \in DOMAIN Quiet |-> q[f]] /\ q.stills = {b} /\ q.shown = {}
      BY DEF Quiet
    <3> QED BY <1>f, <2>2, <3>1, <3>2
  <2> QED BY <2>1, <2>2
<1>6. ASSUME ApproveAllRead PROVE Refused(a)'
  <2> DEFINE all == {b \in Assets : lib.status[b] = "succeeded" /\ ~Signed(lib, b)}
             q   == [Quiet EXCEPT !.stills = all]
  <2>1. Ask(q)
    BY <1>6 DEF ApproveAllRead
  <2>2. q = [f \in DOMAIN Quiet |-> q[f]] /\ q.stills = all /\ q.shown = {}
    BY DEF Quiet
  <2> HIDE DEF q
  <2>3. a \notin all
    BY <1>a
  <2> QED BY <1>f, <2>1, <2>2, <2>3
<1>7. ASSUME NEW lax \in BOOLEAN, ReconcileRead(lax) PROVE Refused(a)'
  <2> DEFINE h == Heal(lib, row.doc.clips, lax, SceneLasts)
             q == [Quiet EXCEPT !.stills = h.stills, !.shown = h.shown, !.seen = row,
                                !.now = [row EXCEPT !.doc.clips = h.clips]]
  <2>1. Ask(q)
    BY <1>7 DEF ReconcileRead
  <2>2. a \notin h.stills \cup h.shown
    BY <1>a, HealApproves
  <2> HIDE DEF h
  <2>3. q = [f \in DOMAIN Quiet |-> q[f]] /\ q.stills = h.stills /\ q.shown = h.shown
    BY DEF Quiet
  <2> HIDE DEF q
  <2> QED BY <1>f, <2>1, <2>2, <2>3
<1>8. ASSUME RequestCommit PROVE Refused(a)'
  <2> DEFINE m      == Approved(request)
             mended == [b \in Assets |-> IF b \in request.stills /\ request.mend # "same"
                                         THEN request.mend ELSE lib.status[b]]
             l      == [m EXCEPT !.status = mended]
  <2>1. Become(l) /\ request' = Quiet
    BY <1>8 DEF RequestCommit
  <2>2. m \in Libraries /\ ~Signed(m, a)
    BY <1>a, <1>b, ApprovedType DEF Approved, RequestOK
  <2> HIDE DEF m
  <2>3. mended[a] = "rejected"
    BY <1>a
  <2> HIDE DEF mended
  <2>4. l.rank = m.rank /\ l.status = mended
    BY <2>2 DEF Libraries
  <2> HIDE DEF l
  <2>5. OutOfUse(l, a)
    BY <2>2, <2>3, <2>4 DEF OutOfUse, Signed
  <2> QED BY <1>d, <2>1, <2>5
<1>9. CASE UNCHANGED vars
  BY <1>9, <1>a, <1>e DEF vars
<1>10. ASSUME Requests PROVE Refused(a)' \/ ApproveRead(a)
  BY <1>5, <1>6, <1>7, <1>8, <1>10, Zenon DEF Requests
<1>11. ASSUME NEW w \in Workers,
              Step(w) \/ Fail(w) \/ \E kind \in Kinds, lax \in BOOLEAN : Begin(w, kind, lax)
       PROVE  Refused(a)'
  BY <1>1, <1>2, <1>3, <1>11, Zenon
<1> QED BY <1>4, <1>9, <1>10, <1>11, Zenon DEF Next

(* No repair, export or bulk approval overrides a rejection made while     *)
(* none had read the take as one to approve, whatever is read, rejected    *)
(* and committed around it; only a request for that very take does.        *)
THEOREM RejectionHolds == Spec => RejectionStands
<1>1. LibInv /\ [Next]_vars =>
          [\A a \in Assets : Refused(a) => Refused(a)' \/ ApproveRead(a)]_vars
  BY RejectionStep
<1> QED BY <1>1, LibHolds, PTL DEF Spec, RejectionStands
-----------------------------------------------------------------------------
(* A step that moves only what a job knows of the media moves no stage.    *)
LEMMA BecomeMovesNone ==
    ASSUME LibInv, NEW l, Become(l), NEW w \in Workers
    PROVE  job'[w].at = job[w].at
<1>1. job'[w] = Told(job[w], l)
  BY NoticedIsTold DEF Become
<1>2. IsJob(job[w])
  BY DEF LibInv, JobOK, JobType
<1> QED BY <1>1, <1>2, ToldIs DEF Fields

(* A repair that goes on is a repair: nothing else takes a job from there. *)
LEMMA OnlyRepairGoesOn ==
    ASSUME LibInv, Next, NEW w \in Workers,
           job[w].at \in {"heal", "commit"}, job'[w].at = job[w].then
    PROVE  HealTimeline(w) \/ HealCommit(w)
<1>1. job'[w].at \notin {"heal", "commit", "idle"}
  <2>1. job[w].then \in Thens
    BY DEF LibInv, JobOK, JobType
  <2> QED BY <2>1 DEF Thens
<1>2. job'[w].at # job[w].at
  BY <1>1
<1>3. \A v \in Workers : \A k : Go(v, k) => v = w /\ job'[w] = k
  BY <1>2 DEF Go, LibInv
<1>4. ASSUME NEW v \in Workers, ~HealTimeline(v), ~HealCommit(v),
             Step(v) \/ Fail(v) \/ \E kind \in Kinds, lax \in BOOLEAN : Begin(v, kind, lax)
      PROVE  FALSE
  <2>1. v = w
    BY <1>3, <1>4, OtherStages
  <2>2. CASE Fail(v)
    <3>1. job'[w] = Idle
      BY <1>3, <2>2 DEF Fail
    <3> QED BY <1>1, <3>1, IdleType
  <2>3. CASE ~Fail(v)
    <3>1. \/ At(v, "idle")
          \/ At(v, "gate") \/ At(v, "compile") \/ At(v, "needRough") \/ At(v, "refresh")
          \/ At(v, "burn") \/ At(v, "needBase") \/ At(v, "save") \/ At(v, "plan")
          \/ At(v, "clear") \/ At(v, "reburn") \/ At(v, "mux") \/ At(v, "end")
      BY <1>4, <2>3, Zenon DEF Step, Begin, Gate, Compile, NeedRough, Refresh, Burn, NeedBase, Save,
         Plan, Clear, Reburn, Mux, End
    <3> QED BY <2>1, <3>1 DEF At
  <2> QED BY <2>2, <2>3
<1>5. ASSUME NEW v \in Workers, HealTimeline(v) PROVE v = w
  BY <1>3, <1>5, Zenon DEF HealTimeline
<1>6. ASSUME NEW v \in Workers, HealCommit(v) PROVE v = w
  <2> DEFINE k  == To([Fresh(job[v], Written(job[v])) EXCEPT !.stills = {}, !.shown = {}, !.stale = FALSE],
                      job[v].then)
             js == [job EXCEPT ![v] = k]
  <2>1. job' = Noticed(js, lib')
    BY <1>6 DEF HealCommit
  <2> HIDE DEF k
  <2>2. ASSUME v # w PROVE job'[w].at = job[w].at
    <3>1. js[w] = job[w]
      BY <2>2
    <3> HIDE DEF js
    <3>2. job'[w] = Told(job[w], lib')
      BY <2>1, <3>1, NoticedIsTold
    <3>3. IsJob(job[w])
      BY DEF LibInv, JobOK, JobType
    <3> QED BY <3>2, <3>3, ToldIs DEF Fields
  <2> QED BY <1>2, <2>2
<1>7. ASSUME Editing \/ Requests PROVE FALSE
  <2>1. UNCHANGED job \/ \E l : Become(l)
    BY <1>7, Zenon DEF Editing, Patches, Patch, Arrive, Lose, Reject, Refuse, RejectFlagged, Touch, Narrate,
       Requests, ApproveAllRead, ApproveRead, ReconcileRead, Ask, RequestCommit
  <2> QED BY <1>2, <2>1, BecomeMovesNone
<1>8. ASSUME NEW v \in Workers,
             Step(v) \/ Fail(v) \/ \E kind \in Kinds, lax \in BOOLEAN : Begin(v, kind, lax)
      PROVE  HealTimeline(w) \/ HealCommit(w)
  BY <1>4, <1>5, <1>6, <1>8, Zenon
<1> QED BY <1>7, <1>8, Zenon DEF Next

(* What a repair leaves when it counted nothing: its clips, and the media  *)
(* as they are.                                                            *)
LEMMA UncountedRepair ==
    ASSUME LibInv, NEW w \in Workers, HealTimeline(w), job'[w].at = job[w].then
    PROVE  /\ job'[w].now.doc.clips = Healed(job[w]).clips
           /\ job'[w].lax = job[w].lax
           /\ lib' = Healed(job[w]).lib
<1> DEFINE j     == job[w]
           h     == Healed(j)
           after == [j EXCEPT !.now.doc.clips = h.clips, !.stills = h.stills, !.shown = h.shown]
           stage == IF h.counted THEN "commit" ELSE j.then
           k     == To(after, stage)
<1>1. JobType(j) /\ IsJob(j) /\ lib \in Libraries /\ narration \in [Scenes -> Nat]
  BY DEF LibInv, TypeOK, JobOK, JobType
<1>2. Go(w, k) /\ lib' = lib
  BY DEF HealTimeline
<1>3. job'[w] = k
  BY <1>2 DEF Go, LibInv
<1>4. j.now.doc.clips \in Seq(Clip) /\ j.lax \in BOOLEAN /\ SceneLasts \in [Scenes -> Nat]
  BY <1>1, ClipsAre, SceneLastsType DEF JobType, Rows, Docs
<1>5. (~h.counted => h.stills = {} /\ h.shown = {}) /\ h.lib = Sign(Sign(lib, h.stills), h.shown)
  BY <1>1, <1>4, HealType DEF Healed
<1> HIDE DEF h, stage
<1>6. k.now.doc.clips = h.clips /\ k.lax = j.lax /\ k.at = stage
  <2>1. after.now.doc.clips = h.clips /\ after.lax = j.lax /\ IsJob(after)
    BY <1>1 DEF JobType, IsJob, Fields, Rows, Docs
  <2> HIDE DEF after
  <2> QED BY <2>1 DEF To, IsJob, Fields
<1> HIDE DEF k
<1>7. ~h.counted
  BY <1>1, <1>3, <1>6 DEF stage, JobType, Thens
<1>8. h.lib = lib
  BY <1>1, <1>5, <1>7, SignNothing
<1> QED BY <1>2, <1>3, <1>6, <1>8 DEF h

(* And when it commits, nothing having overtaken it: what it made of the   *)
(* media that are still there, and the timeline it had read.               *)
LEMMA CommittedRepair ==
    ASSUME LibInv, NEW w \in Workers, HealCommit(w), ~job[w].stale, job[w].seen.doc = row.doc
    PROVE  \E clips \in Seq(Clip), lasts \in [Scenes -> Nat] :
               LET h == Heal(lib, clips, job[w].lax, lasts)
               IN  /\ job'[w].now.doc.clips = h.clips
                   /\ job'[w].lax = job[w].lax
                   /\ lib' = h.lib
<1> DEFINE j    == job[w]
           done == [Fresh(j, Written(j)) EXCEPT !.stills = {}, !.shown = {}, !.stale = FALSE]
           k    == To(done, j.then)
           js   == [job EXCEPT ![w] = k]
<1>1. JobType(j) /\ IsJob(j) /\ HealedOK(j, lib) /\ lib \in Libraries /\ row \in Rows
  BY DEF LibInv, TypeOK, JobOK, JobType, Rows, RowStatuses
<1>2. j.at = "commit" /\ lib' = Approved(j) /\ job' = Noticed(js, lib')
  BY DEF HealCommit, At
<1>3. PICK clips \in Seq(Clip), lasts \in [Scenes -> Nat] :
          LET h == Heal(lib, clips, j.lax, lasts)
          IN  j.now.doc.clips = h.clips /\ j.stills = h.stills /\ j.shown = h.shown
  BY <1>1, <1>2 DEF HealedOK
<1> DEFINE h == Heal(lib, clips, j.lax, lasts)
<1>4. lib' = h.lib
  <2>1. h.lib = Sign(Sign(lib, h.stills), h.shown) /\ j.lax \in BOOLEAN
    BY <1>1, HealType DEF JobType
  <2> QED BY <1>2, <1>3, <2>1 DEF Approved
<1>5. Written(j).doc = j.now.doc
  <2>1. DOMAIN row = {"doc", "status"}
    BY <1>1 DEF Rows
  <2> QED BY <2>1 DEF Written
<1>6. IsJob(done) /\ done.now = Written(j) /\ done.lax = j.lax
  BY <1>1 DEF IsJob, Fields, Fresh
<1> HIDE DEF done
<1>7. IsJob(k) /\ k.now = Written(j) /\ k.lax = j.lax
  BY <1>6 DEF IsJob, Fields, To
<1> HIDE DEF k
<1>8. js[w] = k
  BY DEF LibInv
<1> HIDE DEF js
<1>9. job'[w] = Told(k, lib')
  BY <1>2, <1>8, NoticedIsTold
<1>10. job'[w].now = Written(j) /\ job'[w].lax = j.lax
  BY <1>7, <1>9, ToldIs DEF Fields
<1> HIDE DEF h
<1>11. /\ job'[w].now.doc.clips = h.clips /\ job'[w].lax = j.lax /\ lib' = h.lib
  BY <1>3, <1>4, <1>5, <1>10 DEF h
<1> QED BY <1>11 DEF h

(* Whatever the library, the timeline and the edits before: a job that goes*)
(* on after its repair has nothing left to repair, and every scene that has*)
(* a ready take shows one of its own, unless the storyboard names the takes*)
(* or the media or the timeline changed since the repair read them.        *)
THEOREM RepairsSettle == Spec => RepairSettles
<1> DEFINE Settled(w) ==
        LET j     == job'[w]
            again == Heal(lib', j.now.doc.clips, j.lax, SceneLasts)
        IN  /\ ~again.counted /\ again.clips = j.now.doc.clips
            /\ UseAll \/ \A s \in Scenes :
                   (\E a \in Assets : SceneOf[a] = s /\ Ready(lib', a, j.lax))
                       => SceneOf[again.clips[s].asset] = s
           GoesOn(w) ==
        /\ job[w].at \in {"heal", "commit"} /\ job'[w].at = job[w].then
        /\ ~job[w].stale /\ job[w].seen.doc = row.doc
<1>1. ASSUME LibInv, Next, NEW w \in Workers, GoesOn(w) PROVE Settled(w)
  <2> DEFINE lax == job[w].lax
             made(clips, lasts) == Heal(lib, clips, lax, lasts)
  <2>1. lib \in Libraries /\ Sound(lib) /\ lax \in BOOLEAN /\ job[w].now.doc.clips \in Seq(Clip)
        /\ SceneLasts \in [Scenes -> Nat]
    BY <1>1, ClipsAre, SceneLastsType DEF LibInv, TypeOK, JobOK, JobType, Rows, Docs
  <2>2. \E clips \in Seq(Clip), lasts \in [Scenes -> Nat] :
            /\ job'[w].now.doc.clips = made(clips, lasts).clips
            /\ job'[w].lax = lax /\ lib' = made(clips, lasts).lib
    <3>1. CASE HealTimeline(w)
      BY <1>1, <2>1, <3>1, UncountedRepair DEF Healed
    <3>2. CASE HealCommit(w)
      BY <1>1, <3>2, CommittedRepair
    <3> QED BY <1>1, <3>1, <3>2, OnlyRepairGoesOn
  <2>3. PICK clips \in Seq(Clip), lasts \in [Scenes -> Nat] :
            /\ job'[w].now.doc.clips = made(clips, lasts).clips
            /\ job'[w].lax = lax /\ lib' = made(clips, lasts).lib
    BY <2>2
  <2> DEFINE h     == made(clips, lasts)
             again == Heal(h.lib, h.clips, lax, SceneLasts)
  <2> HIDE DEF lax
  <2>4. /\ ~again.counted /\ again.clips = h.clips
        /\ UseAll \/ \A s \in Scenes :
               (\E a \in Assets : SceneOf[a] = s /\ Ready(h.lib, a, lax))
                   => SceneOf[again.clips[s].asset] = s
    BY <2>1, RepairIsStable
  <2> HIDE DEF made, h
  <2>5. lib' = h.lib /\ job'[w].now.doc.clips = h.clips /\ job'[w].lax = lax
    BY <2>3 DEF h
  <2>6. again = Heal(lib', job'[w].now.doc.clips, job'[w].lax, SceneLasts)
    BY <2>5
  <2> HIDE DEF again
  <2> QED BY <2>4, <2>5, <2>6, Zenon
<1>2. LibInv /\ [Next]_vars => [\A w \in Workers : GoesOn(w) => Settled(w)]_vars
  BY <1>1
<1> QED BY <1>2, LibHolds, PTL DEF Spec, RepairSettles
-----------------------------------------------------------------------------
(* Two jobs that agree on what the film will be; the second may have fewer *)
(* takes barred from it.                                                   *)
SameFilm(j, k) ==
    /\ k.given = j.given /\ k.kept = j.kept /\ k.plan = j.plan /\ k.slots = j.slots /\ k.meant = j.meant
    /\ k.barred \subseteq j.barred
SameWay(j, k)  == SameFilm(j, k) /\ k.then = j.then /\ k.back = j.back

LEMMA ToWay ==
    ASSUME NEW j, IsJob(j), NEW stage
    PROVE  IsJob(To(j, stage)) /\ SameWay(j, To(j, stage)) /\ To(j, stage).at = stage
  BY DEF IsJob, To, SameWay, SameFilm, Fields

LEMMA RepairWay ==
    ASSUME NEW j, IsJob(j), NEW then
    PROVE  LET k == Repair(j, then)
           IN  IsJob(k) /\ SameFilm(j, k) /\ k.back = j.back /\ k.at = "heal" /\ k.then = then
  BY DEF IsJob, Repair, SameFilm, Fields

LEMMA RoughForWay ==
    ASSUME NEW j, IsJob(j), NEW back
    PROVE  LET k == RoughFor(j, back)
           IN  IsJob(k) /\ SameFilm(j, k) /\ k.back = back /\ k.at = "heal" /\ k.then = "gate"
  BY DEF IsJob, RoughFor, Repair, SameFilm, Fields

LEMMA FreshWay ==
    ASSUME NEW j, IsJob(j), NEW r
    PROVE  IsJob(Fresh(j, r)) /\ SameWay(j, Fresh(j, r)) /\ Fresh(j, r).at = j.at
  BY DEF IsJob, Fresh, SameWay, SameFilm, Fields

LEMMA IdleIsJob == IsJob(Idle) /\ ~Idle.given /\ ~Idle.kept /\ Idle.back = "end" /\ Idle.then = "end" /\ Idle.at = "idle"
  BY DEF IsJob, Idle, Fields
(* Where a job may be: only a final cut that has its manifest makes        *)
(* pictures to go back to "clear", and it compiles what it mixes for.      *)
Healing(j) == j.at \in {"heal", "commit"}

WayOK(j) ==
    /\ j.then \in Thens /\ j.back \in Backs
    /\ ~j.given => /\ j.at \notin {"clear", "reburn", "mux"}
                   /\ j.then # "reburn" /\ j.back # "clear"
    /\ j.given => /\ j.at \in {"heal", "commit", "gate", "compile", "clear", "reburn", "save", "mux", "end"}
                  /\ Healing(j) => j.then \in {"gate", "reburn"}

Making(j)  == j.at \in {"gate", "compile"} \/ (Healing(j) /\ j.then = "gate")
Cleared(j) == j.at \in {"reburn", "save"} \/ (Healing(j) /\ j.then = "reburn")

(* What the films are while a final cut is being made.                     *)
FilmOK(j, r, f) ==
    j.given =>
        /\ Making(j) => CompileEnabled /\ j.plan = j.slots /\ j.back = "clear"
        /\ j.at = "clear" \/ Cleared(j) => Length(r) = Length(j.slots)
        /\ Cleared(j) => f \in {<<>>, r}
        /\ j.at = "mux" => LET base == IF f # <<>> THEN f ELSE r
                           IN  base # <<>> => Length(base) = Length(j.slots)

(* And what they show, unless it keeps the pictures that are there.        *)
ShownOK(j, r, f) ==
    j.given /\ ~j.kept =>
        /\ \A i \in DOMAIN j.meant : j.meant[i] \notin j.barred
        /\ Making(j) => Shows(j.plan) = j.meant
        /\ j.at \in {"clear", "mux"} \/ Cleared(j) => Shows(r) = j.meant
        /\ j.at = "mux" => f \in {<<>>, r}

NoFilmWithoutCompile == CompileEnabled \/ (rough = <<>> /\ fine = <<>>)
FilmsShown == FinalShowsTimeline /\ NoRejectedTake

SyncInv ==
    /\ job = [w \in Workers |-> job[w]]
    /\ \A w \in Workers : /\ IsJob(job[w]) /\ WayOK(job[w])
                          /\ FilmOK(job[w], rough, fine) /\ ShownOK(job[w], rough, fine)
    /\ NoFilmWithoutCompile
    /\ FinalInSync /\ FilmsShown

(* A step of the only worker is judged by the job it leaves.               *)
LEMMA OneGoes ==
    ASSUME NEW w, Workers = {w}, SyncInv, NEW j, Go(w, j)
    PROVE  job' = [v \in Workers |-> job'[v]] /\ job'[w] = j
  BY DEF Go, SyncInv

(* Edits, approvals and lost media touch no film and no job's way.         *)
LEMMA SyncByEdit ==
    ASSUME SyncInv, UNCHANGED <<rough, fine, final>>, job' = [v \in Workers |-> job'[v]],
           \A v \in Workers : /\ IsJob(job'[v]) /\ SameWay(job[v], job'[v])
                              /\ job'[v].at = job[v].at
    PROVE  SyncInv'
<1>1. ASSUME NEW v \in Workers
      PROVE  WayOK(job'[v]) /\ FilmOK(job'[v], rough', fine') /\ ShownOK(job'[v], rough', fine')
  <2> DEFINE j == job[v]
             k == job'[v]
  <2>1. WayOK(j) /\ FilmOK(j, rough, fine) /\ ShownOK(j, rough, fine)
    BY DEF SyncInv
  <2>2. SameWay(j, k) /\ k.at = j.at /\ rough' = rough /\ fine' = fine
    OBVIOUS
  <2> HIDE DEF j, k
  <2>3. WayOK(k) /\ FilmOK(k, rough', fine')
    BY <2>1, <2>2 DEF WayOK, FilmOK, SameWay, SameFilm, Making, Cleared, Healing
  <2>4. ShownOK(k, rough', fine')
    BY <2>1, <2>2 DEF ShownOK, SameWay, SameFilm, Making, Cleared, Healing
  <2> QED BY <2>3, <2>4 DEF k
<1>2. NoFilmWithoutCompile' /\ FinalInSync' /\ FilmsShown'
  BY DEF SyncInv, NoFilmWithoutCompile, FinalInSync, FilmsShown, FinalShowsTimeline, NoRejectedTake
<1> QED BY <1>1, <1>2 DEF SyncInv

LEMMA SyncByStutter ==
    ASSUME SyncInv, UNCHANGED <<rough, fine, final, job>>
    PROVE  SyncInv'
<1>1. \A v \in Workers : IsJob(job'[v]) /\ SameWay(job[v], job'[v]) /\ job'[v].at = job[v].at
  BY DEF SyncInv, SameWay, SameFilm
<1>2. job' = [v \in Workers |-> job'[v]]
  BY DEF SyncInv
<1> QED BY <1>1, <1>2, SyncByEdit

LEMMA ToldWay ==
    ASSUME NEW j, IsJob(j), NEW l
    PROVE  IsJob(Told(j, l)) /\ SameWay(j, Told(j, l)) /\ Told(j, l).at = j.at
  BY ToldIs DEF SameWay, SameFilm, Fields

LEMMA SyncEdits ==
    ASSUME SyncInv, Editing \/ Requests
    PROVE  SyncInv'
<1>1. UNCHANGED <<rough, fine, final>> /\ (UNCHANGED job \/ \E l : Become(l))
  BY Zenon DEF Editing, Patches, Patch, Arrive, Lose, Reject, Refuse, RejectFlagged, Touch, Narrate,
     Requests, ApproveAllRead, ApproveRead, ReconcileRead, Ask, RequestCommit
<1>2. CASE UNCHANGED job
  BY <1>1, <1>2, SyncByStutter
<1>3. ASSUME NEW l, Become(l) PROVE SyncInv'
  <2>1. job' = [v \in Workers |-> Told(job[v], l)]
    BY <1>3, NoticedIsTold DEF Become
  <2>2. \A v \in Workers : /\ IsJob(job'[v]) /\ SameWay(job[v], job'[v])
                           /\ job'[v].at = job[v].at
    BY <2>1, ToldWay DEF SyncInv
  <2> QED BY <1>1, <2>1, <2>2, SyncByEdit
<1> QED BY <1>1, <1>2, <1>3

LEMMA SyncStep ==
    ASSUME NEW w, Workers = {w}, LibInv, SyncInv, [Next]_vars
    PROVE  SyncInv'
<1> DEFINE j == job[w]
<1>a. /\ IsJob(j) /\ WayOK(j) /\ FilmOK(j, rough, fine) /\ ShownOK(j, rough, fine)
      /\ NoFilmWithoutCompile /\ FinalInSync /\ FilmsShown
  BY DEF SyncInv
<1>b. ASSUME NEW k, Go(w, k), IsJob(k), WayOK(k), FilmOK(k, rough', fine'), ShownOK(k, rough', fine'),
             NoFilmWithoutCompile', FinalInSync', FilmsShown'
      PROVE  SyncInv'
  <2>1. job' = [v \in Workers |-> job'[v]] /\ job'[w] = k
    BY <1>b, OneGoes
  <2>2. IsJob(job'[w]) /\ WayOK(job'[w]) /\ FilmOK(job'[w], rough', fine') /\ ShownOK(job'[w], rough', fine')
    BY <1>b, <2>1
  <2> QED BY <1>b, <2>1, <2>2 DEF SyncInv
<1>c. ASSUME NEW k, Go(w, k), IsJob(k), WayOK(k), FilmOK(k, rough', fine'), ShownOK(k, rough', fine'),
             NoFilmWithoutCompile', UNCHANGED final
      PROVE  SyncInv'
  BY <1>a, <1>b, <1>c DEF FinalInSync, FilmsShown, FinalShowsTimeline, NoRejectedTake
<1>1. ASSUME NEW kind \in Kinds, NEW lax, Begin(w, kind, lax) PROVE SyncInv'
  <2> DEFINE fresh == [Fresh(Idle, row) EXCEPT !.kind = kind, !.lax = lax,
                          !.barred = {a \in Assets : kind = "final" /\ OutOfUse(lib, a)}]
             k == Repair(fresh, AfterRepair(kind))
  <2>1. IsJob(fresh) /\ ~fresh.given /\ fresh.back = "end"
    BY DEF IsJob, Fields, Fresh, Idle
  <2>2. Go(w, k) /\ UNCHANGED <<rough, fine, final>>
    BY <1>1 DEF Begin
  <2> HIDE DEF fresh
  <2>3. IsJob(k) /\ ~k.given /\ k.back = "end" /\ k.at = "heal" /\ k.then = AfterRepair(kind)
    BY <2>1, RepairWay DEF SameFilm
  <2> HIDE DEF k
  <2>4. AfterRepair(kind) \in {"gate", "needRough", "needBase"}
    BY DEF AfterRepair, Kinds
  <2>5. WayOK(k) /\ FilmOK(k, rough', fine') /\ ShownOK(k, rough', fine')
    BY <2>3, <2>4 DEF WayOK, FilmOK, ShownOK, Thens, Backs
  <2> QED BY <1>a, <1>c, <2>2, <2>3, <2>5 DEF NoFilmWithoutCompile
<1>2. ASSUME HealTimeline(w) PROVE SyncInv'
  <2> DEFINE h     == Healed(j)
             after == [j EXCEPT !.now.doc.clips = h.clips, !.stills = h.stills, !.shown = h.shown]
             k     == To(after, IF h.counted THEN "commit" ELSE j.then)
  <2>1. IsJob(after) /\ SameWay(j, after)
    BY <1>a DEF IsJob, Fields, SameWay, SameFilm
  <2>2. Go(w, k) /\ UNCHANGED <<rough, fine, final>> /\ j.at = "heal"
    BY <1>2 DEF HealTimeline, At
  <2> HIDE DEF after, h
  <2>3. IsJob(k) /\ SameWay(j, k) /\ k.at \in {"commit", j.then}
    BY <2>1, ToWay DEF SameWay, SameFilm
  <2> HIDE DEF k
  <2>4. WayOK(k) /\ FilmOK(k, rough', fine') /\ ShownOK(k, rough', fine')
    BY <1>a, <2>2, <2>3 DEF WayOK, FilmOK, SameWay, SameFilm, ShownOK, Making, Cleared, Healing, Thens
  <2> QED BY <1>a, <1>c, <2>2, <2>3, <2>4 DEF NoFilmWithoutCompile
<1>18. ASSUME HealCommit(w) PROVE SyncInv'
  <2> DEFINE done == [Fresh(j, Written(j)) EXCEPT !.stills = {}, !.shown = {}, !.stale = FALSE]
             past == To(done, j.then)
             js   == [job EXCEPT ![w] = past]
             k    == Told(past, lib')
  <2>1. IsJob(done) /\ SameWay(j, done)
    BY <1>a DEF IsJob, Fields, SameWay, SameFilm, Fresh
  <2>2. job' = Noticed(js, lib') /\ UNCHANGED <<rough, fine, final>> /\ j.at = "commit"
    BY <1>18 DEF HealCommit, At
  <2> HIDE DEF done
  <2>3. IsJob(past) /\ SameWay(j, past) /\ past.at = j.then
    BY <2>1, ToWay DEF SameWay, SameFilm
  <2> HIDE DEF past
  <2>4. IsJob(k) /\ SameWay(j, k) /\ k.at = j.then
    BY <2>3, ToldWay DEF SameWay, SameFilm
  <2>5. job' = [v \in Workers |-> job'[v]] /\ job'[w] = k
    <3>1. js[w] = past
      BY DEF SyncInv
    <3> HIDE DEF js
    <3> QED BY <2>2, <3>1, NoticedIsTold
  <2> HIDE DEF k
  <2>6. WayOK(k) /\ FilmOK(k, rough', fine') /\ ShownOK(k, rough', fine')
    BY <1>a, <2>2, <2>4 DEF WayOK, FilmOK, SameWay, SameFilm, ShownOK, Making, Cleared, Healing, Thens
  <2>7. NoFilmWithoutCompile' /\ FinalInSync' /\ FilmsShown'
    BY <1>a, <2>2 DEF NoFilmWithoutCompile, FinalInSync, FilmsShown, FinalShowsTimeline, NoRejectedTake
  <2> QED BY <2>4, <2>5, <2>6, <2>7 DEF SyncInv
<1>3. ASSUME Gate(w) PROVE SyncInv'
  <2> DEFINE made == [j EXCEPT !.plan = IF j.given THEN @ ELSE j.now.doc.clips]
             k    == To(made, "compile")
  <2>1. IsJob(made) /\ (j.given => SameWay(j, made)) /\ made.given = j.given
        /\ made.back = j.back /\ made.then = j.then
    BY <1>a DEF IsJob, Fields, SameWay, SameFilm
  <2>2. Go(w, k) /\ UNCHANGED <<rough, fine, final>> /\ j.at = "gate"
    BY <1>3 DEF Gate, At
  <2> HIDE DEF made
  <2>3. IsJob(k) /\ SameWay(made, k) /\ k.at = "compile"
    BY <2>1, ToWay
  <2> HIDE DEF k
  <2>4. WayOK(k) /\ FilmOK(k, rough', fine') /\ ShownOK(k, rough', fine')
    BY <1>a, <2>1, <2>2, <2>3 DEF WayOK, FilmOK, SameWay, SameFilm, ShownOK, Making, Cleared, Healing, Thens, Backs
  <2> QED BY <1>a, <1>c, <2>2, <2>3, <2>4 DEF NoFilmWithoutCompile
<1>4. ASSUME Compile(w) PROVE SyncInv'
  <2> DEFINE told == [j EXCEPT !.now.status = IF CompileEnabled THEN "compiled" ELSE "manifest_ready"]
             k    == To(told, j.back)
  <2>1. IsJob(told) /\ SameWay(j, told)
    BY <1>a DEF IsJob, Fields, SameWay, SameFilm
  <2>2. Go(w, k) /\ UNCHANGED <<fine, final>> /\ j.at = "compile"
        /\ rough' = IF CompileEnabled THEN j.plan ELSE rough
    BY <1>4 DEF Compile, At
  <2> HIDE DEF told
  <2>3. IsJob(k) /\ SameWay(j, k) /\ k.at = j.back
    BY <2>1, ToWay DEF SameWay, SameFilm
  <2> HIDE DEF k
  <2>4. WayOK(k) /\ FilmOK(k, rough', fine') /\ ShownOK(k, rough', fine')
    BY <1>a, <2>2, <2>3 DEF WayOK, FilmOK, SameWay, SameFilm, ShownOK, Making, Cleared, Healing, Thens, Backs
  <2> QED BY <1>a, <1>c, <2>2, <2>3, <2>4 DEF NoFilmWithoutCompile
<1>5. ASSUME NeedRough(w) PROVE SyncInv'
  <2> DEFINE k == IF rough = <<>> THEN RoughFor(j, "refresh") ELSE To(j, "burn")
  <2>1. Go(w, k) /\ UNCHANGED <<rough, fine, final>> /\ j.at = "needRough"
    BY <1>5 DEF NeedRough, At
  <2>2. IsJob(k) /\ SameFilm(j, k) /\ k.back \in {j.back, "refresh"} /\ k.then \in {j.then, "gate"}
        /\ k.at \in {"heal", "burn"}
    BY <1>a, RoughForWay, ToWay DEF SameWay
  <2> HIDE DEF k
  <2>3. WayOK(k) /\ FilmOK(k, rough', fine') /\ ShownOK(k, rough', fine')
    BY <1>a, <2>1, <2>2 DEF WayOK, FilmOK, SameFilm, ShownOK, Making, Cleared, Healing, Thens, Backs
  <2> QED BY <1>a, <1>c, <2>1, <2>2, <2>3 DEF NoFilmWithoutCompile
<1>6. ASSUME Refresh(w) PROVE SyncInv'
  <2> DEFINE k == To(Fresh(j, row), "burn")
  <2>1. Go(w, k) /\ UNCHANGED <<rough, fine, final>> /\ j.at = "refresh"
    BY <1>6 DEF Refresh, At
  <2>2. IsJob(k) /\ SameWay(j, k) /\ k.at = "burn"
    BY <1>a, FreshWay, ToWay DEF SameWay, SameFilm
  <2> HIDE DEF k
  <2>3. WayOK(k) /\ FilmOK(k, rough', fine') /\ ShownOK(k, rough', fine')
    BY <1>a, <2>1, <2>2 DEF WayOK, FilmOK, SameWay, SameFilm, ShownOK, Making, Cleared, Healing, Thens, Backs
  <2> QED BY <1>a, <1>c, <2>1, <2>2, <2>3 DEF NoFilmWithoutCompile
<1>7. ASSUME Burn(w) PROVE SyncInv'
  <2> DEFINE k == To(j, "end")
  <2>1. Go(w, k) /\ UNCHANGED <<rough, final>> /\ fine' = rough /\ j.at = "burn"
    BY <1>7 DEF Burn, At
  <2>2. IsJob(k) /\ SameWay(j, k) /\ k.at = "end"
    BY <1>a, ToWay
  <2> HIDE DEF k
  <2>3. WayOK(k) /\ FilmOK(k, rough', fine') /\ ShownOK(k, rough', fine')
    BY <1>a, <2>1, <2>2 DEF WayOK, FilmOK, SameWay, SameFilm, ShownOK, Making, Cleared, Healing, Thens, Backs
  <2> QED BY <1>a, <1>c, <2>1, <2>2, <2>3 DEF NoFilmWithoutCompile
<1>8. ASSUME NeedBase(w) PROVE SyncInv'
  <2> DEFINE k == IF fine = <<>> /\ rough = <<>> THEN RoughFor(j, "save") ELSE To(j, "plan")
  <2>1. Go(w, k) /\ UNCHANGED <<rough, fine, final>> /\ j.at = "needBase"
    BY <1>8 DEF NeedBase, At
  <2>2. IsJob(k) /\ SameFilm(j, k) /\ k.back \in {j.back, "save"} /\ k.then \in {j.then, "gate"}
        /\ k.at \in {"heal", "plan"}
    BY <1>a, RoughForWay, ToWay DEF SameWay
  <2> HIDE DEF k
  <2>3. WayOK(k) /\ FilmOK(k, rough', fine') /\ ShownOK(k, rough', fine')
    BY <1>a, <2>1, <2>2 DEF WayOK, FilmOK, SameFilm, ShownOK, Making, Cleared, Healing, Thens, Backs
  <2> QED BY <1>a, <1>c, <2>1, <2>2, <2>3 DEF NoFilmWithoutCompile
<1>9. ASSUME Save(w) PROVE SyncInv'
  <2> DEFINE k == To(Fresh(j, row'), IF j.given THEN "mux" ELSE "plan")
  <2>1. Go(w, k) /\ UNCHANGED <<rough, fine, final>> /\ j.at = "save"
    BY <1>9 DEF Save, At
  <2>2. IsJob(k) /\ SameWay(j, k) /\ k.at = IF j.given THEN "mux" ELSE "plan"
    BY <1>a, FreshWay, ToWay DEF SameWay, SameFilm
  <2> HIDE DEF k
  <2>3. WayOK(k) /\ FilmOK(k, rough', fine') /\ ShownOK(k, rough', fine')
    BY <1>a, <2>1, <2>2 DEF WayOK, FilmOK, SameWay, SameFilm, ShownOK, Making, Cleared, Healing, Thens, Backs
  <2> QED BY <1>a, <1>c, <2>1, <2>2, <2>3 DEF NoFilmWithoutCompile
<1>10. ASSUME Plan(w) PROVE SyncInv'
  <2> DEFINE clips == row.doc.clips
             wide  == Widened(clips, narration)
             given == [Fresh(j, row) EXCEPT !.plan = wide, !.slots = wide, !.meant = Shows(clips),
                                            !.titled = row.doc.titled, !.given = TRUE,
                                            !.kept = ~Recompiles(clips, wide)]
             k     == IF given.kept THEN To(given, "mux") ELSE RoughFor(given, "clear")
  <2>1. IsJob(given) /\ given.given /\ given.plan = wide /\ given.slots = wide
        /\ given.meant = Shows(clips) /\ given.barred = j.barred
        /\ given.then = j.then /\ given.back = j.back /\ given.kept = ~Recompiles(clips, wide)
    BY <1>a DEF IsJob, Fields, Fresh
  <2>2. Go(w, k) /\ UNCHANGED <<rough, final>> /\ fine' = KeptFine(wide)
        /\ j.at = "plan" /\ (rough # <<>> \/ fine # <<>>) /\ Exportable(lib, clips, given.lax)
    BY <1>10 DEF Plan, At
  <2>3. clips \in Clips /\ lib \in Libraries /\ narration \in [Scenes -> Nat]
    BY DEF LibInv, TypeOK, Docs
  <2>4. /\ clips # <<>>
        /\ \A i \in DOMAIN clips : clips[i].asset # None /\ Ready(lib, clips[i].asset, given.lax)
        /\ Shows(clips) \in Seq(Assets)
    BY <2>2, <2>3, ExportableShows
  <2>5. Shows(wide) = Shows(clips)
    BY <2>3, <2>4, ClipsAre, WidenedShows
  <2>6. \A i \in DOMAIN Shows(clips) : Shows(clips)[i] \notin j.barred
    <3>1. ASSUME NEW i \in DOMAIN clips PROVE clips[i].asset \notin j.barred
      <4>1. ~OutOfUse(lib, clips[i].asset)
        BY <2>4 DEF Ready, OutOfUse
      <4>2. \A a \in j.barred : OutOfUse(lib, a)
        BY DEF LibInv, JobOK, BarredOK
      <4> QED BY <4>1, <4>2
    <3> QED BY <3>1 DEF Shows
  <2> HIDE DEF given, wide, clips
  <2>7. /\ IsJob(k) /\ k.given /\ k.plan = wide /\ k.slots = wide
        /\ k.meant = Shows(clips) /\ k.barred \subseteq j.barred
        /\ k.kept = ~Recompiles(clips, wide)
        /\ IF Recompiles(clips, wide) THEN k.at = "heal" /\ k.then = "gate" /\ k.back = "clear"
           ELSE k.at = "mux" /\ k.then = j.then /\ k.back = j.back
    <3>1. CASE Recompiles(clips, wide)
      <4>1. given.kept = FALSE /\ k = RoughFor(given, "clear")
        BY <2>1, <3>1
      <4> HIDE DEF k
      <4> QED BY <2>1, <3>1, <4>1, RoughForWay DEF SameWay, SameFilm
    <3>2. CASE ~Recompiles(clips, wide)
      <4>1. given.kept = TRUE /\ k = To(given, "mux")
        BY <2>1, <3>2
      <4> HIDE DEF k
      <4> QED BY <2>1, <3>2, <4>1, ToWay DEF SameWay, SameFilm
    <3> QED BY <3>1, <3>2
  <2> HIDE DEF k
  <2>8. WayOK(k)
    BY <1>a, <2>2, <2>7 DEF WayOK, Healing, Thens, Backs
  <2>9. CompileEnabled
    BY <1>a, <2>2 DEF NoFilmWithoutCompile
  <2>10. FilmOK(k, rough', fine')
    <3>1. CASE Recompiles(clips, wide)
      BY <3>1, <2>7 DEF FilmOK, Making, Cleared, Healing, Recompiles
    <3>2. CASE ~Recompiles(clips, wide)
      <4>1. fine' # <<>> => Length(fine') = Length(wide)
        BY <2>2 DEF KeptFine
      <4>2. rough # <<>> => Length(rough) = Length(wide)
        BY <3>2, <2>9 DEF Recompiles
      <4> QED BY <2>2, <2>7, <3>2, <4>1, <4>2 DEF FilmOK, Making, Cleared, Healing
    <3> QED BY <3>1, <3>2
  <2>11. ShownOK(k, rough', fine')
    BY <2>5, <2>6, <2>7 DEF ShownOK, Making, Cleared, Healing
  <2>12. NoFilmWithoutCompile'
    BY <1>a, <2>2 DEF NoFilmWithoutCompile
  <2> QED BY <1>c, <2>2, <2>7, <2>8, <2>10, <2>11, <2>12
<1>11. ASSUME Clear(w) PROVE SyncInv'
  <2> DEFINE k == IF j.titled THEN Repair(j, "reburn") ELSE To(j, "save")
  <2>1. Go(w, k) /\ UNCHANGED <<rough, final>> /\ fine' = <<>> /\ j.at = "clear"
    BY <1>11 DEF Clear, At
  <2>2. /\ IsJob(k) /\ SameFilm(j, k) /\ k.back = j.back
        /\ \/ k.at = "heal" /\ k.then = "reburn"
           \/ k.at = "save" /\ k.then = j.then
    BY <1>a, RepairWay, ToWay DEF SameWay
  <2> HIDE DEF k
  <2>3. WayOK(k) /\ FilmOK(k, rough', fine') /\ ShownOK(k, rough', fine')
    BY <1>a, <2>1, <2>2 DEF WayOK, FilmOK, SameFilm, ShownOK, Making, Cleared, Healing, Thens, Backs
  <2> QED BY <1>a, <1>c, <2>1, <2>2, <2>3 DEF NoFilmWithoutCompile
<1>12. ASSUME Reburn(w) PROVE SyncInv'
  <2> DEFINE k == To(j, "save")
  <2>1. Go(w, k) /\ UNCHANGED <<rough, final>> /\ fine' \in {rough, fine} /\ j.at = "reburn"
    BY <1>12 DEF Reburn, At
  <2>2. IsJob(k) /\ SameWay(j, k) /\ k.at = "save"
    BY <1>a, ToWay
  <2> HIDE DEF k
  <2>3. WayOK(k) /\ FilmOK(k, rough', fine') /\ ShownOK(k, rough', fine')
    BY <1>a, <2>1, <2>2 DEF WayOK, FilmOK, SameWay, SameFilm, ShownOK, Making, Cleared, Healing, Thens, Backs
  <2> QED BY <1>a, <1>c, <2>1, <2>2, <2>3 DEF NoFilmWithoutCompile
<1>13. ASSUME Mux(w) PROVE SyncInv'
  <2> DEFINE told == [j EXCEPT !.now.status = "final_compiled"]
             k    == To(told, "end")
             base == IF fine # <<>> THEN fine ELSE rough
  <2>1. IsJob(told) /\ SameWay(j, told)
    BY <1>a DEF IsJob, Fields, SameWay, SameFilm
  <2>2. Go(w, k) /\ UNCHANGED <<rough, fine>> /\ j.at = "mux" /\ base # <<>>
        /\ final' = [clips |-> base, slots |-> j.slots, meant |-> j.meant, barred |-> j.barred,
                     kept |-> j.kept]
    BY <1>13 DEF Mux, At
  <2> HIDE DEF told
  <2>3. IsJob(k) /\ SameWay(j, k) /\ k.at = "end"
    BY <2>1, ToWay DEF SameWay, SameFilm
  <2> HIDE DEF k
  <2>4. WayOK(k) /\ FilmOK(k, rough', fine') /\ ShownOK(k, rough', fine')
    BY <1>a, <2>2, <2>3 DEF WayOK, FilmOK, SameWay, SameFilm, ShownOK, Making, Cleared, Healing, Thens, Backs
  <2>5. Length(base) = Length(j.slots)
    BY <1>a, <2>2 DEF WayOK, FilmOK
  <2>6. FinalInSync'
    BY <2>2, <2>5 DEF FinalInSync
  <2>7. FilmsShown'
    <3>1. ~j.kept => Shows(base) = j.meant /\ \A i \in DOMAIN j.meant : j.meant[i] \notin j.barred
      BY <1>a, <2>2 DEF WayOK, ShownOK
    <3>2. ASSUME NEW i \in DOMAIN base PROVE base[i].asset = Shows(base)[i] /\ i \in DOMAIN Shows(base)
      BY DEF Shows
    <3> HIDE DEF base
    <3>3. final'.clips = base /\ final'.meant = j.meant /\ final'.barred = j.barred
          /\ final'.kept = j.kept
      BY <2>2
    <3> QED BY <3>1, <3>2, <3>3 DEF FilmsShown, FinalShowsTimeline, NoRejectedTake
  <2> QED BY <1>a, <1>b, <2>2, <2>3, <2>4, <2>6, <2>7 DEF NoFilmWithoutCompile
<1>14. ASSUME End(w) \/ Fail(w) PROVE SyncInv'
  <2>1. Go(w, Idle) /\ UNCHANGED <<rough, fine, final>>
    BY <1>14 DEF End, Fail
  <2>2. WayOK(Idle) /\ FilmOK(Idle, rough', fine') /\ ShownOK(Idle, rough', fine')
    BY IdleIsJob DEF WayOK, FilmOK, ShownOK, Healing, Thens, Backs
  <2> QED BY <1>a, <1>c, <2>1, <2>2, IdleIsJob DEF NoFilmWithoutCompile
<1>15. ASSUME Editing \/ Requests PROVE SyncInv'
  BY <1>15, SyncEdits
<1>16. CASE UNCHANGED vars
  BY <1>16, SyncByStutter DEF vars
<1>17. \A v \in Workers : v = w
  OBVIOUS
<1> QED BY <1>1, <1>2, <1>3, <1>4, <1>5, <1>6, <1>7, <1>8, <1>9, <1>10, <1>11, <1>12, <1>13, <1>14,
           <1>15, <1>16, <1>17, <1>18 DEF Next, Step

LEMMA SyncHolds ==
    ASSUME NEW w, Workers = {w}
    PROVE  Spec => []SyncInv
<1>1. Init => SyncInv
  <2> SUFFICES ASSUME Init PROVE SyncInv
    OBVIOUS
  <2>1. job = [v \in Workers |-> Idle] /\ rough = <<>> /\ fine = <<>> /\ final = NoFilm
    BY DEF Init
  <2>2. WayOK(Idle) /\ FilmOK(Idle, rough, fine) /\ ShownOK(Idle, rough, fine)
    BY IdleIsJob DEF WayOK, FilmOK, ShownOK, Healing, Thens, Backs
  <2>3. FinalInSync /\ FilmsShown
    BY <2>1 DEF FinalInSync, FilmsShown, FinalShowsTimeline, NoRejectedTake, NoFilm, Shows
  <2>4. job = [v \in Workers |-> job[v]] /\ \A v \in Workers : job[v] = Idle
    BY <2>1
  <2> HIDE DEF Init
  <2> QED BY <2>1, <2>2, <2>3, <2>4, IdleIsJob DEF SyncInv, NoFilmWithoutCompile
<1>2. LibInv /\ SyncInv /\ [Next]_vars => SyncInv'
  BY SyncStep
<1> QED BY <1>1, <1>2, LibHolds, PTL DEF Spec

(* With one worker, or a lock the code does not take, the narration mixed  *)
(* into a final cut is as long as its pictures, for any cuts, edits, and   *)
(* failures before it and any length of any clip or narration.             *)
THEOREM FinalCutsAreInSync ==
    ASSUME NEW w, Workers = {w}
    PROVE  Spec => []FinalInSync
<1>1. SyncInv => FinalInSync
  BY DEF SyncInv
<1> QED BY <1>1, SyncHolds, PTL

(* With one worker, a final cut that made its pictures again shows the     *)
(* takes of the timeline it was planned from, and none else, whatever the  *)
(* repairs, edits and requests since then made of the row and the media.   *)
THEOREM FinalCutsShowTheTimeline ==
    ASSUME NEW w, Workers = {w}
    PROVE  Spec => []FinalShowsTimeline
<1>1. SyncInv => FinalShowsTimeline
  BY DEF SyncInv, FilmsShown
<1> QED BY <1>1, SyncHolds, PTL

(* Under the same conditions no take that was out of use when the job      *)
(* began, and stayed so until the film was mixed, is in it, whatever is    *)
(* rejected, approved, read and committed while it is made.                *)
THEOREM RejectedTakesAreNotShown ==
    ASSUME NEW w, Workers = {w}
    PROVE  Spec => []NoRejectedTake
<1>1. SyncInv => NoRejectedTake
  BY DEF SyncInv, FilmsShown
<1> QED BY <1>1, SyncHolds, PTL
=============================================================================
