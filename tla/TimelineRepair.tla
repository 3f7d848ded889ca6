--------------------------- MODULE TimelineRepair ---------------------------
(***************************************************************************)
(* How an export repairs the clips of a timeline and decides whether it    *)
(* may be compiled: services/timeline_image_repair.py and the preflight of *)
(* services/phase5_readiness.py, as operators on a media library.          *)
(*                                                                         *)
(* A library is a record: the status of each asset row, the rank of its    *)
(* approval in the order of approved_at, 0 without one, and the assets     *)
(* whose file can be read.  Assets are numbered in the order of creation,  *)
(* also the order of timeline_sequence.  A clip: an asset and a duration.  *)
(***************************************************************************)
EXTENDS Integers, FiniteSets, SequencesExt

CONSTANTS
    NScenes,   \* scenes of the project, in story order
    NAssets,   \* asset rows the project may come to have
    SceneOf,   \* the scene of an asset, 0 when it has none
    KindOf,    \* "image" or "video"
    UseAll,    \* projects.use_all_approved_scene_media
    VoicePad,  \* scene_vo_tail_padding_sec
    Outro      \* export_outro_music_tail_sec

Scenes == 1..NScenes
Assets == 1..NAssets
None   == 0

ASSUME RepairAssumption ==
    /\ NScenes \in Nat \ {0}
    /\ NAssets \in Nat
    /\ SceneOf \in [Assets -> Scenes \cup {0}]
    /\ KindOf \in [Assets -> {"image", "video"}]
    /\ UseAll \in BOOLEAN
    /\ VoicePad \in Nat /\ Outro \in Nat

Statuses == {"absent", "pending", "succeeded", "rejected"}

(* The largest of a set of naturals, the smallest; a pick, or else another.*)
Newest(S) == CHOOSE a \in S : \A b \in S : b <= a
Oldest(S) == CHOOSE a \in S : \A b \in S : a <= b
NewestOf(S) == IF S = {} THEN None ELSE Newest(S)
a ?? b      == IF a # None THEN a ELSE b

(* Assets in the order of creation.                                        *)
InOrder(S) ==
    CHOOSE f \in [1..Cardinality(S) -> S] : \A i, j \in DOMAIN f : i < j => f[i] < f[j]

Libraries == [status : [Assets -> Statuses], rank : [Assets -> Nat], onDisk : SUBSET Assets]
Signed(lib, a) == lib.rank[a] # 0

(* Mutant: a rejected take is exported where approval is not asked for.    *)
Ready_BUG(lib, a, lax) ==
    /\ a \in lib.onDisk
    /\ Signed(lib, a) \/ (lax /\ lib.status[a] # "absent")

(* No issue code: approved with a readable file, or else neither rejected  *)
(* nor unapproved where approval is asked for.                             *)
Ready(lib, a, lax) ==
    /\ a \in lib.onDisk
    /\ Signed(lib, a) \/ (lax /\ lib.status[a] \notin {"absent", "rejected"})

Takes(lib, s, kind) ==
    {a \in Assets : lib.status[a] # "absent" /\ SceneOf[a] = s /\ KindOf[a] = kind}

(* Approved images first, by latest approval; else the newest.             *)
BestImage(lib, images) ==
    LET signed == {a \in images : Signed(lib, a)}
    IN  IF signed # {} THEN CHOOSE a \in signed : \A b \in signed : lib.rank[b] <= lib.rank[a]
        ELSE NewestOf(images)

FirstVideo(videos) == IF videos = {} THEN None ELSE Oldest(videos)

Primary(lib, s, lax) ==
    LET fit(kind) == {a \in Takes(lib, s, kind) : Ready(lib, a, lax)}
    IN  FirstVideo(fit("video")) ?? BestImage(lib, fit("image"))

(* Rows only, without a look at the disk: approved ones, then any.         *)
RowsOnly(lib, s) ==
    LET done(kind) == {a \in Takes(lib, s, kind) : lib.status[a] = "succeeded"}
        both(kind) == {a \in done(kind) : Signed(lib, a)}
    IN  (FirstVideo(both("video")) ?? BestImage(lib, both("image")))
            ?? (FirstVideo(done("video")) ?? BestImage(lib, done("image")))

ForScene(lib, s, lax) ==
    (Primary(lib, s, lax) ?? Primary(lib, s, TRUE)) ?? RowsOnly(lib, s)

(* Mutant: the story is searched from its start, not from the scene.       *)
Scan_BUG(lib, s, lax) ==
    LET found == {t \in Scenes : ForScene(lib, t, lax) # None}
    IN  IF found = {} THEN None ELSE ForScene(lib, Oldest(found), lax)

(* The scene itself, then every scene in story order.                      *)
Scan(lib, s, lax) ==
    LET others == {t \in Scenes : ForScene(lib, t, lax) # None}
    IN  ForScene(lib, s, lax)
            ?? (IF others = {} THEN None ELSE ForScene(lib, Oldest(others), lax))

(* Any visual of the project, whatever its scene.                          *)
AnyVisual(lib, lax) ==
    LET fit(kind, l) == {a \in Assets : KindOf[a] = kind /\ Ready(lib, a, l)}
        pass(l)      == NewestOf(fit("video", l)) ?? NewestOf(fit("image", l))
    IN  IF lax THEN pass(TRUE) ELSE pass(FALSE) ?? pass(TRUE)

Substitute(lib, s, lax) == Scan(lib, s, lax) ?? AnyVisual(lib, lax)

(* The clips the storyboard asks for: one per scene, or one per usable     *)
(* visual of a scene, named in advance.                                    *)
Storyboard(lib, lax) ==
    LET fit(s) == {a \in Assets : SceneOf[a] = s /\ Ready(lib, a, lax)}
        open(s) == <<[scene |-> s, fixed |-> None]>>
        each(s) == LET order == InOrder(fit(s))
                   IN  [i \in DOMAIN order |-> [scene |-> s, fixed |-> order[i]]]
    IN  FlattenSeq([s \in Scenes |-> IF UseAll /\ fit(s) # {} THEN each(s) ELSE open(s)])

(* Clip i takes the place of clip i as it was and keeps its duration; a    *)
(* new clip lasts as its scene does; clips past the storyboard are dropped.*)
(* The code's last resort, the take of the clip before, is never reached:  *)
(* Substitute finds none only in a project that has none.                  *)
Sync(lib, clips, lax, lasts) ==
    LET board == Storyboard(lib, lax)
        was(i) == IF i \in DOMAIN clips THEN clips[i]
                  ELSE [asset |-> None, dur |-> lasts[board[i].scene]]
        pick(i) == board[i].fixed ?? Substitute(lib, board[i].scene, lax)
    IN  [i \in DOMAIN board |-> [was(i) EXCEPT !.asset = pick(i) ?? @]]

(* A clip whose asset row is gone.                                         *)
Rebound(lib, c, s, lax) ==
    IF c.asset # None /\ lib.status[c.asset] = "absent"
    THEN [c EXCEPT !.asset = Substitute(lib, s, lax) ?? @]
    ELSE c

(* Another take of the scene: approved in the database, then any allowed.  *)
OtherTake(lib, known, s, lax, not) ==
    LET fit(kind, l) == {a \in Takes(lib, s, kind) \ {not} :
                            Ready(lib, a, l) /\ (l \/ a \in known)}
        pass(l) == NewestOf(fit("video", l)) ?? NewestOf(fit("image", l))
    IN  pass(FALSE) ?? (IF lax THEN pass(TRUE) ELSE None)

(* A clip whose take may not be exported.                                  *)
Reconciled(lib, known, c, lax) ==
    IF /\ c.asset # None /\ lib.status[c.asset] # "absent"
       /\ SceneOf[c.asset] # 0 /\ ~Ready(lib, c.asset, lax)
    THEN LET s == SceneOf[c.asset]
         IN  [c EXCEPT !.asset =
                 (OtherTake(lib, known, s, lax, @) ?? Substitute(lib, s, lax)) ?? @]
    ELSE c

(* Approve assets in order, after all that were approved before.           *)
Sign(lib, S) ==
    LET last == Newest({lib.rank[a] : a \in Assets})
        rank == [a \in Assets |->
                    IF a \in S THEN last + Cardinality({b \in S : b <= a}) ELSE lib.rank[a]]
    IN  [status |-> lib.status, rank |-> rank, onDisk |-> lib.onDisk]

(* Mutant: the status of the still is not looked at.                       *)
UnsignedStills_BUG(lib) ==
    LET had(s)  == {a \in Takes(lib, s, "image") : a \in lib.onDisk}
        open    == {s \in Scenes : had(s) # {} /\ \A a \in had(s) : ~Signed(lib, a)}
    IN  {Newest(had(s)) : s \in open}

(* One succeeded still on disk of every scene that has no approved one.    *)
UnsignedStills(lib) ==
    LET done(s) == {a \in Takes(lib, s, "image") : lib.status[a] = "succeeded"}
        open == {s \in Scenes : /\ \A a \in done(s) : ~Signed(lib, a)
                                /\ done(s) \cap lib.onDisk # {}}
    IN  {Newest(done(s) \cap lib.onDisk) : s \in open}

UnsignedOnTimeline(lib, clips) ==
    {a \in Assets : /\ \E i \in DOMAIN clips : clips[i].asset = a
                    /\ ~Signed(lib, a) /\ lib.status[a] = "succeeded"
                    /\ a \in lib.onDisk}

(* The repair before every export: approve stills, follow the storyboard,  *)
(* then rebind and reconcile, which treat each clip by itself, approve what*)
(* the clips show.  It counts what it did, but not the clips it dropped.   *)
(* lib is what its session sees; stills and shown are the approvals that a *)
(* commit has still to write.                                              *)
Heal(lib, clips, lax, lasts) ==
    LET stills == IF lax THEN {} ELSE UnsignedStills(lib)
        ours   == Sign(lib, stills)
        board  == Storyboard(ours, lax)
        synced == Sync(ours, clips, lax, lasts)
        known  == {a \in Assets : Signed(lib, a)}
        mended == [i \in DOMAIN synced |->
                      Reconciled(ours, known, Rebound(ours, synced[i], board[i].scene, lax), lax)]
        shown  == IF lax THEN {} ELSE UnsignedOnTimeline(ours, mended)
        moved(i) == (IF i \in DOMAIN clips THEN clips[i].asset ELSE None) # synced[i].asset
    IN  [lib |-> Sign(ours, shown), clips |-> mended, stills |-> stills, shown |-> shown,
         counted |-> \/ stills \cup shown # {}
                     \/ \E i \in DOMAIN synced : moved(i) \/ mended[i] # synced[i]]

(* compute_phase5_readiness, as far as pictures go.                        *)
ScenesCovered(lib, lax) ==
    \A s \in Scenes : \E a \in Assets :
        SceneOf[a] = s /\ lib.status[a] = "succeeded" /\ (lax \/ Signed(lib, a))

ClipsReady(lib, clips, lax) ==
    /\ clips # <<>>
    /\ \A i \in DOMAIN clips : clips[i].asset # None /\ Ready(lib, clips[i].asset, lax)

Exportable(lib, clips, lax) == ScenesCovered(lib, lax) /\ ClipsReady(lib, clips, lax)

(* The first clip of a scene is held for the scene's narration and its     *)
(* padding, the last clip for the outro.                                   *)
Widened(clips, narration) ==
    LET scene(i) == SceneOf[clips[i].asset]
        leads(i) == scene(i) # 0 /\ \A j \in 1..(i - 1) : scene(j) # scene(i)
        needs(i) == IF leads(i) /\ narration[scene(i)] > 0 THEN narration[scene(i)] + VoicePad ELSE 0
        held(i)  == IF needs(i) > clips[i].dur THEN needs(i) ELSE clips[i].dur
    IN  [i \in DOMAIN clips |->
            [clips[i] EXCEPT !.dur = held(i) + (IF i = Len(clips) THEN Outro ELSE 0)]]

Length(clips) == FoldLeft(LAMBDA total, c : total + c.dur, 0, clips)
Shows(clips)  == [i \in DOMAIN clips |-> clips[i].asset]
=============================================================================
