-------------------------- MODULE SceneBoardProofs --------------------------
(***************************************************************************)
(* Proofs about SceneBoard for any number of workers, chapters and scenes: *)
(* the hook opens the film, plans and hooks are not lost on the way, and   *)
(* the phase says "planned" only when it is so.                            *)
(***************************************************************************)
EXTENDS SceneBoard, TLAPS

FirstOf(c, C) == c \in C /\ \A d \in C : c <= d

\* What the rows of a board over the chapters C are like.
GoodRows(R, C) ==
    /\ R \subseteq Row
    /\ Distinct(R)
    /\ \A r \in R : r.ch \in C
    /\ \A r \in R : r.role = "hook" => FirstOf(r.ch, C)

GoodTexts(C, f) == C \subseteq 0..MaxChapters /\ f \in [C -> BOOLEAN]

GoodJobs(C, j) ==
    /\ j \in [Workers -> Job \cup {NoJob}]
    /\ \A w \in Workers : j[w].of \subseteq C /\ j[w].bare \subseteq j[w].of
    /\ \A w \in Workers : j[w].bare # {} => j[w].kind \in {"plan", "extend"}
    /\ \A w \in Workers : j[w].kind = "extend" => j[w].next # None
    /\ \A w \in Workers : j[w].does # None =>
          j[w].kind \in HookKinds /\ \A c \in j[w].of : FirstOf(c, C)

\* A hook stands at index 0, nobody has it in memory anywhere else, and
\* whoever is about to insert one has found it and will replace it.
InsertJob(j) == j.does = "insert" /\ j.of # {}
HooksTidy(R, j) ==
    \A r \in R : r.role = "hook" =>
        /\ r.idx = 0
        /\ \A v \in Workers : r.seen[v] \in {None, 0}
        /\ \A v \in Workers : InsertJob(j[v]) => j[v].next = 0 /\ r.seen[v] = 0

\* HookOpens is not inductive by itself: the second hook comes of what a
\* writer has in memory, so the invariant says what that may be.
IInv ==
    /\ GoodRows(rows, Chapters)
    /\ GoodTexts(Chapters, script)
    /\ GoodJobs(Chapters, job)
    /\ ~crossed => HooksTidy(rows, job)
    /\ hook \in BOOLEAN
    /\ phase \in Phases
    /\ crossed \in BOOLEAN

HasBeat(c, R) == \E r \in R : r.ch = c /\ r.role = "beat"
HasHook(R)    == \E r \in R : r.role = "hook"

------------------------------------------------------------------------------
(* Sets of rows.                                                           *)

LEMMA SubsetIsGood ==
    ASSUME NEW R, NEW S, NEW C, S \subseteq R, GoodRows(R, C)
    PROVE  GoodRows(S, C)
BY DEF GoodRows, Distinct

\* The hooks of S were in R, but for what w has in memory of them.
HooksStay(w, R, S) ==
    \A s \in S : s.role = "hook" =>
        \E r \in R : /\ r.role = "hook" /\ s.idx = r.idx
                     /\ \A v \in Workers : s.seen[v] = r.seen[v] \/ (v = w /\ s.seen[v] = None)

\* A change of nothing but what is in memory.
LEMMA MarkedIsGood ==
    ASSUME NEW R, NEW C, NEW f \in [R -> Row], GoodRows(R, C),
           \A r \in R : f[r].ch = r.ch /\ f[r].idx = r.idx /\ f[r].role = r.role
    PROVE  /\ GoodRows({f[r] : r \in R}, C)
           /\ \A c : HasBeat(c, R) => HasBeat(c, {f[r] : r \in R})
           /\ HasHook(R) => HasHook({f[r] : r \in R})
<1> DEFINE S == {f[r] : r \in R}
<1>1. S \subseteq Row
  OBVIOUS
<1>2. Distinct(S)
  <2> SUFFICES ASSUME NEW s \in S, NEW t \in S, s.ch = t.ch, s.idx = t.idx PROVE s = t
    BY DEF Distinct
  <2>1. PICK q \in R : s = f[q]
    OBVIOUS
  <2>2. PICK r \in R : t = f[r]
    OBVIOUS
  <2>3. q = r
    BY <2>1, <2>2 DEF GoodRows, Distinct
  <2> QED BY <2>1, <2>2, <2>3
<1>3. \A s \in S : s.ch \in C /\ (s.role = "hook" => FirstOf(s.ch, C))
  BY DEF GoodRows
<1>4. ASSUME NEW c, HasBeat(c, R) PROVE HasBeat(c, S)
  BY <1>4 DEF HasBeat
<1>5. HasHook(R) => HasHook(S)
  BY DEF HasHook
<1> QED BY <1>1, <1>2, <1>3, <1>4, <1>5 DEF GoodRows

LEMMA ForgetIsGood ==
    ASSUME NEW R, NEW C, NEW w \in Workers, GoodRows(R, C)
    PROVE  /\ GoodRows(Forget(w, R), C)
           /\ \A c : HasBeat(c, R) => HasBeat(c, Forget(w, R))
           /\ HasHook(R) => HasHook(Forget(w, R))
           /\ HooksStay(w, R, Forget(w, R))
<1> DEFINE f == [r \in R |-> [r EXCEPT !.seen[w] = None]]
<1>1. ASSUME NEW r \in R
      PROVE  /\ f[r] \in Row /\ f[r].ch = r.ch /\ f[r].idx = r.idx /\ f[r].role = r.role
             /\ \A v \in Workers : f[r].seen[v] = IF v = w THEN None ELSE r.seen[v]
  <2>1. r \in Row
    BY DEF GoodRows
  <2> QED BY <2>1 DEF Row
<1>2. f \in [R -> Row]
  BY <1>1
<1>3. Forget(w, R) = {f[r] : r \in R}
  BY DEF Forget
<1> HIDE DEF f
<1>4. HooksStay(w, R, Forget(w, R))
  BY <1>1, <1>3 DEF HooksStay
<1>5. \A r \in R : f[r].ch = r.ch /\ f[r].idx = r.idx /\ f[r].role = r.role
  BY <1>1
<1>6. /\ GoodRows({f[r] : r \in R}, C)
      /\ \A c : HasBeat(c, R) => HasBeat(c, {f[r] : r \in R})
      /\ HasHook(R) => HasHook({f[r] : r \in R})
  BY <1>2, <1>5, MarkedIsGood
<1> QED BY <1>3, <1>4, <1>6

\* New rows on free indexes; a hook only where a hook may be.
LEMMA NewIsGood ==
    ASSUME NEW R, NEW C, NEW c \in C, NEW at \in SUBSET Nat, NEW role \in Roles,
           C \subseteq 0..MaxChapters, GoodRows(R, C), ~Taken(c, at, R),
           role = "hook" => FirstOf(c, C)
    PROVE  GoodRows(R \cup NewRows(c, at, role), C)
<1> DEFINE N == NewRows(c, at, role)
<1>1. \A r \in N : /\ r \in Row /\ r.ch = c /\ r.idx \in at /\ r.role = role
                   /\ r = [ch |-> c, idx |-> r.idx, role |-> role, seen |-> Unseen]
  BY DEF NewRows, Row, Unseen
<1>2. Distinct(R \cup N)
  <2> SUFFICES ASSUME NEW s \in R \cup N, NEW t \in R \cup N, s.ch = t.ch, s.idx = t.idx
               PROVE  s = t
    BY DEF Distinct
  <2>1. CASE s \in R /\ t \in R
    BY <2>1 DEF GoodRows, Distinct
  <2>2. CASE s \in N /\ t \in N
    <3> HIDE DEF N
    <3> QED BY <2>2, <1>1
  <2>3. CASE s \in R /\ t \in N
    <3> HIDE DEF N
    <3> QED BY <2>3, <1>1 DEF Taken
  <2>4. CASE s \in N /\ t \in R
    <3> HIDE DEF N
    <3> QED BY <2>4, <1>1 DEF Taken
  <2> QED BY <2>1, <2>2, <2>3, <2>4
<1> HIDE DEF N
<1>3. R \cup N \subseteq Row
  BY <1>1 DEF GoodRows
<1>4. \A r \in R \cup N : r.ch \in C /\ (r.role = "hook" => FirstOf(r.ch, C))
  BY <1>1 DEF GoodRows
<1> QED BY <1>2, <1>3, <1>4 DEF GoodRows, N

------------------------------------------------------------------------------
(* What the jobs have in memory of the hooks.                              *)

\* A step of w that is not an insertion and brings no hook keeps them tidy.
LEMMA TidyKeeps ==
    ASSUME IInv, NEW w \in Workers, ~InsertJob(job'[w]),
           \A v \in Workers : v # w => job'[v] = job[v],
           HooksStay(w, rows, rows'), crossed' = crossed
    PROVE  (~crossed)' => HooksTidy(rows, job)'
<1> SUFFICES ASSUME ~crossed, NEW s \in rows', s.role = "hook"
             PROVE  /\ s.idx = 0
                    /\ \A v \in Workers : s.seen[v] \in {None, 0}
                    /\ \A v \in Workers : InsertJob(job'[v]) => job'[v].next = 0 /\ s.seen[v] = 0
  BY DEF HooksTidy
<1>1. PICK r \in rows : /\ r.role = "hook" /\ s.idx = r.idx
                        /\ \A v \in Workers : s.seen[v] = r.seen[v] \/ (v = w /\ s.seen[v] = None)
  BY DEF HooksStay
<1>2. /\ r.idx = 0
      /\ \A v \in Workers : r.seen[v] \in {None, 0}
      /\ \A v \in Workers : InsertJob(job[v]) => job[v].next = 0 /\ r.seen[v] = 0
  BY <1>1 DEF IInv, HooksTidy
<1> QED BY <1>1, <1>2

\* A step of nobody's job.
LEMMA TidyStays ==
    ASSUME IInv, job' = job, crossed' = crossed,
           \A s \in rows' : s.role = "hook" => s \in rows
    PROVE  (~crossed)' => HooksTidy(rows, job)'
BY DEF IInv, HooksTidy

LEMMA SubsetStays ==
    ASSUME NEW w, NEW R, NEW S, \A s \in S : s.role = "hook" => s \in R
    PROVE  HooksStay(w, R, S)
BY DEF HooksStay

LEMMA EndsTidily ==
    ASSUME IInv, NEW w \in Workers, Ends(w), HooksStay(w, rows, rows'), crossed' = crossed
    PROVE  (~crossed)' => HooksTidy(rows, job)'
<1>1. \A v \in Workers : job'[v] = IF v = w THEN NoJob ELSE job[v]
  BY DEF Ends, IInv, GoodJobs
<1>2. ~InsertJob(NoJob)
  BY DEF InsertJob, NoJob
<1> QED BY <1>1, <1>2, TidyKeeps

------------------------------------------------------------------------------
(* The jobs.                                                               *)

BeatsKept == \A c \in Chapters : HasBeat(c, rows) => HasBeat(c, rows')
HooksKept == HasHook(rows) => HasHook(rows')
Earned    == phase # "scenes_planned" /\ phase' = "scenes_planned" =>
                \A c \in DOMAIN script' : script'[c] => RowsOf(c, rows') # {}

LEMMA FreshJob ==
    ASSUME IInv, NEW kind \in Kinds
    PROVE  LET j == Fresh(kind)
           IN  /\ j \in Job /\ j.kind = kind /\ j.bare = {} /\ j.of = {}
               /\ j.does = None /\ j.next = None
<1>1. (IF phase \in MaySet[kind] THEN phase ELSE None) \in Phases \cup {None}
  BY DEF IInv
<1> QED BY <1>1 DEF Fresh, NoJob, Job, ChapterSets

LEMMA BeginsIsGood ==
    ASSUME IInv, NEW w \in Workers, NEW kind \in Kinds, NEW of \in SUBSET Chapters,
           NEW next \in Nat \cup {None}, kind = "extend" => next # None,
           Begins(w, kind, of, next)
    PROVE  /\ GoodJobs(Chapters, job')
           /\ ~InsertJob(job'[w]) /\ \A v \in Workers : v # w => job'[v] = job[v]
<1> DEFINE bare   == {c \in of : kind \in {"plan", "extend"} /\ ~script[c]}
           new    == [Fresh(kind) EXCEPT !.of = of, !.next = next, !.bare = bare]
<1>1. bare \subseteq of /\ of \in ChapterSets
      /\ (bare # {} => kind \in {"plan", "extend"})
  BY DEF IInv, GoodTexts, ChapterSets
<1>2. job' = [job EXCEPT ![w] = new]
  BY DEF Begins
<1>a. /\ Fresh(kind) \in Job /\ Fresh(kind).kind = kind /\ Fresh(kind).does = None
  BY FreshJob
<1> HIDE DEF bare
<1>3. new \in Job /\ new.of = of /\ new.bare = bare /\ new.kind = kind /\ new.next = next
      /\ new.does = None
  <2> DEFINE j == Fresh(kind)
  <2>1. j \in Job /\ j.kind = kind /\ j.does = None
    BY <1>a
  <2>2. new = [j EXCEPT !.of = of, !.next = next, !.bare = bare]
    OBVIOUS
  <2>3. bare \in ChapterSets
    BY <1>1 DEF ChapterSets
  <2> HIDE DEF j
  <2> QED BY <1>1, <2>1, <2>2, <2>3 DEF Job
<1> HIDE DEF new
<1>4. \A v \in Workers : job'[v] = IF v = w THEN new ELSE job[v]
  BY <1>2 DEF IInv, GoodJobs
<1>5. job' \in [Workers -> Job \cup {NoJob}]
  BY <1>2, <1>3 DEF IInv, GoodJobs
<1>6. ~InsertJob(new)
  BY <1>3, SceneBoardAssumption DEF InsertJob, Deeds
<1> QED BY <1>1, <1>3, <1>4, <1>5, <1>6 DEF IInv, GoodJobs

LEMMA EndsIsGood ==
    ASSUME NEW C, GoodJobs(C, job), NEW w \in Workers, Ends(w)
    PROVE  GoodJobs(C, job')
<1>1. job' = [job EXCEPT ![w] = NoJob]
  BY DEF Ends
<1>2. \A v \in Workers : job'[v] = IF v = w THEN NoJob ELSE job[v]
  BY <1>1 DEF GoodJobs
<1>3. job' \in [Workers -> Job \cup {NoJob}]
  BY <1>1 DEF GoodJobs
<1>4. NoJob.of = {} /\ NoJob.bare = {} /\ NoJob.kind # "extend" /\ NoJob.does = None
  BY DEF NoJob
<1> QED BY <1>2, <1>3, <1>4 DEF GoodJobs

LEMMA BeginKeeps ==
    ASSUME IInv, NEW w \in Workers,
           \/ OutlineBegin(w) \/ ScriptsBegin(w) \/ TextBegin(w)
           \/ \E c \in Chapters : RewriteBegin(w, c) \/ PlanBegin(w, c)
           \/ \E r \in rows : ExtendBegin(w, r)
    PROVE  IInv' /\ BeatsKept /\ HooksKept /\ Earned
<1> DEFINE Good == /\ GoodJobs(Chapters, job') /\ ~InsertJob(job'[w])
                   /\ \A v \in Workers : v # w => job'[v] = job[v]
<1>1. Good
  <2> USE DEF Kinds, HookKinds
  <2>1. CASE OutlineBegin(w)
    BY <2>1, BeginsIsGood DEF OutlineBegin
  <2>2. CASE ScriptsBegin(w)
    BY <2>2, BeginsIsGood DEF ScriptsBegin
  <2>3. ASSUME NEW c \in Chapters, RewriteBegin(w, c) PROVE Good
    BY <2>3, BeginsIsGood DEF RewriteBegin
  <2>4. ASSUME NEW c \in Chapters, PlanBegin(w, c) PROVE Good
    BY <2>4, BeginsIsGood DEF PlanBegin
  <2>5. ASSUME NEW r \in rows, ExtendBegin(w, r) PROVE Good
    <3>1. r.idx \in Nat /\ r.ch \in Chapters
      BY DEF IInv, GoodRows, Row
    <3>2. r.idx + 1 \in Nat /\ r.idx + 1 # None
      BY <3>1, SceneBoardAssumption
    <3>3. {r.ch} \in SUBSET Chapters /\ "extend" \in Kinds
      BY <3>1
    <3>4. Begins(w, "extend", {r.ch}, r.idx + 1)
      BY <2>5 DEF ExtendBegin
    <3> QED BY <3>2, <3>3, <3>4, BeginsIsGood
  <2>6. CASE TextBegin(w)
    BY <2>6, BeginsIsGood DEF TextBegin
  <2> HIDE DEF Good
  <2> QED BY <2>1, <2>2, <2>3, <2>4, <2>5, <2>6
<1>2. UNCHANGED <<script, rows, hook, phase, crossed>>
  BY DEF OutlineBegin, ScriptsBegin, RewriteBegin, PlanBegin, ExtendBegin, TextBegin
<1>4. (~crossed)' => HooksTidy(rows, job)'
  BY <1>1, <1>2, SubsetStays, TidyKeeps
<1>3. IInv'
  BY <1>1, <1>2, <1>4 DEF IInv, Chapters
<1> QED BY <1>2, <1>3 DEF BeatsKept, HooksKept, Earned

LEMMA MarkedRow ==
    ASSUME NEW r \in Row, NEW w \in Workers, NEW n \in Nat
    PROVE  LET f == [r EXCEPT !.seen[w] = n]
           IN  /\ f \in Row /\ f.ch = r.ch /\ f.idx = r.idx /\ f.role = r.role
               /\ \A v \in Workers : f.seen[v] = IF v = w THEN n ELSE r.seen[v]
BY DEF Row

\* Some rows are loaded by w, nothing else changes on the board.
Loading(w, O, R) == {IF r \in O THEN [r EXCEPT !.seen[w] = r.idx] ELSE r : r \in R}

LEMMA LoadedIsGood ==
    ASSUME NEW R, NEW C, NEW w \in Workers, NEW O, GoodRows(R, C)
    PROVE  /\ GoodRows(Loading(w, O, R), C)
           /\ \A c : HasBeat(c, R) => HasBeat(c, Loading(w, O, R))
           /\ HasHook(R) => HasHook(Loading(w, O, R))
<1> DEFINE f == [r \in R |-> IF r \in O THEN [r EXCEPT !.seen[w] = r.idx] ELSE r]
<1>1. ASSUME NEW r \in R
      PROVE  f[r] \in Row /\ f[r].ch = r.ch /\ f[r].idx = r.idx /\ f[r].role = r.role
  <2>1. r \in Row /\ r.idx \in Nat
    BY DEF GoodRows, Row
  <2> QED BY <2>1, MarkedRow
<1>2. f \in [R -> Row]
  BY <1>1
<1>3. Loading(w, O, R) = {f[r] : r \in R}
  BY DEF Loading
<1> HIDE DEF f
<1> QED BY <1>1, <1>2, <1>3, MarkedIsGood

\* The outro that is found is marked.
LEMMA OutroBeginKeeps ==
    ASSUME IInv, NEW w \in Workers, NEW c \in Chapters, NEW n \in 0..MaxIndex, OutroBegin(w, c, n)
    PROVE  IInv' /\ BeatsKept /\ HooksKept /\ Earned
<1> DEFINE old  == {r \in rows : TopOutro(r)}
           next == IF Released(old) THEN n ELSE None
           f    == [r \in rows |-> IF r \in old THEN [r EXCEPT !.seen[w] = 0] ELSE r]
<1>1. rows' = {f[r] : r \in rows}
  BY DEF OutroBegin
<1>2. \A r \in old : r.role = "outro"
  BY DEF TopOutro
<1>3. n \in Nat
  BY SceneBoardAssumption
<1>4. next \in Nat \cup {None} /\ {c} \in SUBSET Chapters /\ "outro" \in Kinds
  BY <1>3 DEF Kinds
<1>5. Begins(w, "outro", {c}, next) /\ UNCHANGED <<script, hook, phase, crossed>>
  BY DEF OutroBegin
<1> HIDE DEF next
<1>6. ASSUME NEW r \in rows
      PROVE  f[r] \in Row /\ f[r].ch = r.ch /\ f[r].idx = r.idx /\ f[r].role = r.role
  BY MarkedRow DEF IInv, GoodRows
<1>7. f \in [rows -> Row]
  BY <1>6
<1>a. \A r \in rows : r.role = "hook" => f[r] = r
  BY <1>2
<1> HIDE DEF f, old
<1>8. /\ GoodRows(rows', Chapters)
      /\ \A d : HasBeat(d, rows) => HasBeat(d, rows')
      /\ HasHook(rows) => HasHook(rows')
  BY <1>1, <1>6, <1>7, MarkedIsGood DEF IInv
<1>9. /\ GoodJobs(Chapters, job') /\ ~InsertJob(job'[w])
      /\ \A v \in Workers : v # w => job'[v] = job[v]
  BY <1>4, <1>5, BeginsIsGood
<1>b. \A s \in rows' : s.role = "hook" => s \in rows
  BY <1>1, <1>6, <1>a
<1>c. (~crossed)' => HooksTidy(rows, job)'
  BY <1>5, <1>9, <1>b, SubsetStays, TidyKeeps
<1>10. IInv'
  BY <1>5, <1>8, <1>9, <1>c DEF IInv, Chapters
<1> QED BY <1>5, <1>8, <1>10 DEF BeatsKept, HooksKept, Earned

LEMMA OutroGoKeeps ==
    ASSUME IInv, NEW w \in Workers, NEW c \in Chapters, NEW n \in 0..MaxIndex, OutroGo(w, c, n)
    PROVE  IInv' /\ BeatsKept /\ HooksKept /\ Earned
<1>1. n \in Nat
  BY SceneBoardAssumption
<1>2. job[w] \in Job /\ job[w].kind = "outro"
  <2>1. job[w] \in Job \cup {NoJob}
    BY DEF IInv, GoodJobs
  <2> QED BY <2>1 DEF OutroGo, Writing, NoJob
<1> DEFINE new == [job[w] EXCEPT !.next = n]
<1>3. /\ new \in Job /\ new.of = job[w].of /\ new.bare = job[w].bare /\ new.kind = "outro"
      /\ new.does = job[w].does
  BY <1>1, <1>2 DEF Job
<1>4. job' = [job EXCEPT ![w] = new]
  BY DEF OutroGo
<1> HIDE DEF new
<1>5. \A v \in Workers : job'[v] = IF v = w THEN new ELSE job[v]
  BY <1>4 DEF IInv, GoodJobs
<1>6. job' \in [Workers -> Job \cup {NoJob}]
  BY <1>3, <1>4 DEF IInv, GoodJobs
<1>7. GoodJobs(Chapters, job')
  BY <1>2, <1>3, <1>5, <1>6 DEF IInv, GoodJobs
<1>8. UNCHANGED <<script, rows, hook, phase, crossed>>
  BY DEF OutroGo
<1>a. ~InsertJob(new)
  BY <1>2, <1>3, SceneBoardAssumption DEF IInv, GoodJobs, HookKinds, InsertJob, Deeds
<1>b. (~crossed)' => HooksTidy(rows, job)'
  BY <1>5, <1>8, <1>a, SubsetStays, TidyKeeps
<1>9. IInv'
  BY <1>7, <1>8, <1>b DEF IInv, Chapters
<1> QED BY <1>8, <1>9 DEF BeatsKept, HooksKept, Earned

LEMMA OutlineKeeps ==
    ASSUME IInv, NEW w \in Workers, NEW n \in Outlines, OutlineWrite(w, n)
    PROVE  IInv' /\ Earned
<1> DEFINE C == 0..(n - 1)
<1>1. n \in 1..MaxChapters
  BY SceneBoardAssumption
<1>2. C \subseteq 0..MaxChapters
  BY <1>1, SceneBoardAssumption
<1>3. script' = [c \in C |-> FALSE] /\ rows' = {}
  BY DEF OutlineWrite
<1>4. DOMAIN script' = C /\ script' \in [C -> BOOLEAN] /\ \A c \in C : ~script'[c]
  BY <1>3
<1> HIDE DEF C
<1>5. GoodRows(rows', C) /\ GoodTexts(C, script')
  BY <1>2, <1>3, <1>4 DEF GoodRows, GoodTexts, Distinct
<1>6. GoodJobs(C, job')
  <2>1. ASSUME NEW v \in Workers
        PROVE  /\ job'[v] \in Job \cup {NoJob} /\ job'[v].of = {} /\ job'[v].bare = {}
               /\ job'[v].kind = "extend" => job'[v].next # None
               /\ job'[v].does # None => job'[v].kind \in HookKinds
    <3>1. /\ job[v] \in Job \cup {NoJob} /\ (job[v].kind = "extend" => job[v].next # None)
          /\ job[v].does # None => job[v].kind \in HookKinds
      BY DEF IInv, GoodJobs
    <3>2. CASE v = w
      BY <3>2 DEF OutlineWrite, NoJob
    <3>3. CASE v # w /\ job[v] = NoJob
      <4>1. job'[v] = [NoJob EXCEPT !.of = {}, !.bare = {}]
        BY <3>3 DEF OutlineWrite
      <4> QED BY <4>1 DEF NoJob
    <3>4. CASE v # w /\ job[v] \in Job
      <4>1. job'[v] = [job[v] EXCEPT !.of = {}, !.bare = {}]
        BY <3>4 DEF OutlineWrite
      <4>2. {} \in ChapterSets
        BY DEF ChapterSets
      <4>3. /\ job'[v] \in Job /\ job'[v].of = {} /\ job'[v].bare = {}
            /\ job'[v].kind = job[v].kind /\ job'[v].next = job[v].next
            /\ job'[v].does = job[v].does
        BY <3>4, <4>1, <4>2 DEF Job
      <4> QED BY <3>1, <4>3
    <3> QED BY <3>1, <3>2, <3>3, <3>4
  <2>2. job' \in [Workers -> Job \cup {NoJob}]
    BY <2>1 DEF OutlineWrite
  <2> QED BY <2>1, <2>2 DEF GoodJobs
<1>7. hook' = hook /\ phase' \in Phases /\ crossed' = FALSE
  BY DEF OutlineWrite, Assign, IInv, Phases
<1>a. HooksTidy(rows, job)'
  BY <1>3 DEF HooksTidy
<1>8. IInv'
  BY <1>4, <1>5, <1>6, <1>7, <1>a DEF IInv, Chapters
<1> QED BY <1>4, <1>8 DEF Earned

LEMMA ScriptedKeeps ==
    ASSUME IInv, NEW w \in Workers, ScriptsWrite(w) \/ RewriteWrite(w)
    PROVE  IInv' /\ BeatsKept /\ HooksKept /\ Earned
<1>1. /\ script' = Scripted(job[w].of) /\ rows' = rows /\ hook' = hook /\ Ends(w)
      /\ crossed' = crossed
  BY DEF ScriptsWrite, RewriteWrite
<1>2. GoodTexts(Chapters, script') /\ DOMAIN script' = Chapters
  BY <1>1 DEF Scripted, IInv, GoodTexts
<1>3. GoodJobs(Chapters, job')
  BY <1>1, EndsIsGood DEF IInv
<1>4. phase' = phase \/ phase' = "chapters_ready"
  BY DEF ScriptsWrite, RewriteWrite, Assign
<1>5. phase' \in Phases
  BY <1>4 DEF IInv, Phases
<1>a. (~crossed)' => HooksTidy(rows, job)'
  BY <1>1, SubsetStays, EndsTidily
<1>6. IInv'
  BY <1>1, <1>2, <1>3, <1>5, <1>a DEF IInv, Chapters
<1> QED BY <1>1, <1>4, <1>6 DEF BeatsKept, HooksKept, Earned

\* What a replan or an import of the chapter's scenes leaves and adds.
LEMMA ReplannedIsGood ==
    ASSUME IInv, NEW c \in Chapters, NEW plan \in Plans,
           ~Taken(c, ReplanAt(c, plan), rows \ Doomed(c)),
           rows' = (rows \ Doomed(c)) \cup NewRows(c, ReplanAt(c, plan), "beat")
    PROVE  /\ GoodRows(rows', Chapters)
           /\ BeatsKept /\ HooksKept
           /\ RowsOf(c, rows') # {}
           /\ \A d : RowsOf(d, rows \ Doomed(c)) # {} => RowsOf(d, rows') # {}
           /\ \A s \in rows' : s.role = "hook" => s \in rows
<1> DEFINE at == ReplanAt(c, plan)
           kept == rows \ Doomed(c)
<1>1. plan \in SUBSET Nat /\ plan # {}
  BY SceneBoardAssumption
<1>2. at \in SUBSET Nat /\ at # {}
  <2>1. PICK n \in {0, 1} : at = {i + n : i \in plan}
    BY DEF ReplanAt, Offset
  <2>2. \A i \in plan : i \in Nat /\ i + n \in Nat
    BY <1>1
  <2> HIDE DEF at
  <2>3. at \subseteq Nat
    BY <2>1, <2>2
  <2>4. PICK i \in plan : TRUE
    BY <1>1
  <2>5. i + n \in at
    BY <2>1, <2>4
  <2> QED BY <2>3, <2>5
<1>3. GoodRows(kept, Chapters)
  BY SubsetIsGood DEF IInv
<1>4. /\ rows' = kept \cup NewRows(c, at, "beat") /\ ~Taken(c, at, kept)
      /\ "beat" \in Roles /\ Chapters \subseteq 0..MaxChapters
  BY DEF Roles, IInv, GoodTexts
<1>5. PICK r \in NewRows(c, at, "beat") : r.ch = c /\ r.role = "beat"
  <2>1. PICK i \in at : TRUE
    BY <1>2
  <2> HIDE DEF at
  <2>2. [ch |-> c, idx |-> i, role |-> "beat", seen |-> Unseen] \in NewRows(c, at, "beat")
    BY <2>1 DEF NewRows
  <2> QED BY <2>2, Zenon
<1>6. \A q \in Doomed(c) : q.ch = c /\ q.role # "hook"
  BY DEF Doomed, Held, RowsOf, IInv, GoodRows, First, FirstOf
<1> HIDE DEF at, kept
<1>7. GoodRows(rows', Chapters)
  BY <1>2, <1>3, <1>4, NewIsGood
<1>8. r \in rows'
  BY <1>4, <1>5
<1>9. BeatsKept
  <2> SUFFICES ASSUME NEW d \in Chapters, NEW q \in rows, q.ch = d, q.role = "beat"
               PROVE  HasBeat(d, rows')
    BY DEF BeatsKept, HasBeat
  <2>1. CASE q \in Doomed(c)
    BY <2>1, <1>5, <1>6, <1>8 DEF HasBeat
  <2>2. CASE q \notin Doomed(c)
    BY <2>2, <1>4 DEF HasBeat, kept
  <2> QED BY <2>1, <2>2
<1>10. HooksKept
  BY <1>4, <1>6 DEF HooksKept, HasHook, kept
<1>11. RowsOf(c, rows') # {}
  BY <1>5, <1>8 DEF RowsOf
<1>12. \A d : RowsOf(d, kept) # {} => RowsOf(d, rows') # {}
  BY <1>4 DEF RowsOf
<1>13. \A s \in NewRows(c, at, "beat") : s.role = "beat"
  BY DEF NewRows
<1>14. \A s \in rows' : s.role = "hook" => s \in rows
  BY <1>4, <1>13 DEF kept
<1> QED BY <1>7, <1>9, <1>10, <1>11, <1>12, <1>14 DEF kept

LEMMA PlanKeeps ==
    ASSUME IInv, NEW w \in Workers, NEW c \in Chapters, NEW plan \in Plans, PlanWrite(w, c, plan)
    PROVE  IInv' /\ BeatsKept /\ HooksKept /\ Earned
<1>1. /\ GoodRows(rows', Chapters) /\ BeatsKept /\ HooksKept
      /\ RowsOf(c, rows') # {}
      /\ \A d : RowsOf(d, rows \ Doomed(c)) # {} => RowsOf(d, rows') # {}
      /\ \A s \in rows' : s.role = "hook" => s \in rows
  BY ReplannedIsGood DEF PlanWrite
<1>2. GoodJobs(Chapters, job')
  BY EndsIsGood DEF PlanWrite, IInv
<1>3. script' = script /\ hook' = hook /\ crossed' = crossed /\ Ends(w)
  BY DEF PlanWrite
<1>4. phase' \in Phases
  BY DEF PlanWrite, Assign, IInv, Phases
<1>5. Earned
  <2> SUFFICES ASSUME phase # "scenes_planned", phase' = "scenes_planned",
                      NEW d \in Chapters, script[d]
               PROVE  RowsOf(d, rows') # {}
    BY <1>3 DEF Earned, Chapters
  <2>1. AllPlanned(Loaded(w), rows \ Doomed(c))
    BY DEF PlanWrite, Assign
  <2>2. CASE d \in job[w].bare
    <3>1. job[w].bare \subseteq {c}
      BY DEF PlanWrite, IInv, GoodJobs
    <3> QED BY <2>2, <3>1, <1>1
  <2>3. CASE d \notin job[w].bare
    BY <2>1, <2>3, <1>1 DEF AllPlanned, Loaded
  <2> QED BY <2>2, <2>3
<1>a. (~crossed)' => HooksTidy(rows, job)'
  BY <1>1, <1>3, SubsetStays, EndsTidily
<1>6. IInv'
  BY <1>1, <1>2, <1>3, <1>4, <1>a DEF IInv, Chapters
<1> QED BY <1>1, <1>5, <1>6

LEMMA ExtendKeeps ==
    ASSUME IInv, NEW w \in Workers, NEW c \in Chapters, ExtendWrite(w, c)
    PROVE  IInv' /\ BeatsKept /\ HooksKept /\ Earned
<1> DEFINE next == job[w].next
<1>1. next \in Nat
  BY DEF ExtendWrite, Writing, IInv, GoodJobs, Job, NoJob
<1>2. /\ rows' = rows \cup NewRows(c, {next}, "beat") /\ ~Taken(c, {next}, rows)
      /\ script' = script /\ hook' = hook /\ crossed' = crossed /\ Ends(w)
  BY DEF ExtendWrite
<1>3. /\ GoodRows(rows, Chapters) /\ Chapters \subseteq 0..MaxChapters
      /\ "beat" \in Roles /\ {next} \in SUBSET Nat
  BY <1>1 DEF IInv, GoodTexts, Roles
<1> HIDE DEF next
<1>4. GoodRows(rows', Chapters)
  BY <1>2, <1>3, NewIsGood
<1>5. GoodJobs(Chapters, job')
  BY EndsIsGood DEF ExtendWrite, IInv
<1>6. phase' \in Phases
  BY DEF ExtendWrite, Assign, IInv, Phases
<1>7. BeatsKept /\ HooksKept
  BY <1>2 DEF BeatsKept, HooksKept, HasBeat, HasHook
<1>8. Earned
  <2> SUFFICES ASSUME phase # "scenes_planned", phase' = "scenes_planned",
                      NEW d \in Chapters, script[d]
               PROVE  RowsOf(d, rows') # {}
    BY <1>2 DEF Earned, Chapters
  <2>1. AllPlanned(Loaded(w), rows)
    BY DEF ExtendWrite
  <2>2. CASE d \in job[w].bare
    <3>1. job[w].bare \subseteq {c}
      BY DEF ExtendWrite, IInv, GoodJobs
    <3>2. [ch |-> c, idx |-> next, role |-> "beat", seen |-> Unseen] \in rows'
      BY <1>2 DEF NewRows
    <3>3. [ch |-> c, idx |-> next, role |-> "beat", seen |-> Unseen].ch = d
      BY <2>2, <3>1
    <3> QED BY <3>2, <3>3, Zenon DEF RowsOf
  <2>3. CASE d \notin job[w].bare
    <3>1. RowsOf(d, rows) # {}
      BY <2>1, <2>3 DEF AllPlanned, Loaded
    <3> QED BY <3>1, <1>2 DEF RowsOf
  <2> QED BY <2>2, <2>3
<1>a. \A s \in NewRows(c, {next}, "beat") : s.role = "beat"
  BY DEF NewRows
<1>b. (~crossed)' => HooksTidy(rows, job)'
  BY <1>2, <1>a, SubsetStays, EndsTidily
<1>9. IInv'
  BY <1>2, <1>4, <1>5, <1>6, <1>b DEF IInv, Chapters
<1> QED BY <1>7, <1>8, <1>9

LEMMA OutroKeeps ==
    ASSUME IInv, NEW w \in Workers, NEW c \in Chapters, OutroWrite(w, c)
    PROVE  IInv' /\ BeatsKept /\ HooksKept /\ Earned
<1> DEFINE next == job[w].next
           left == rows \ Found(w)
           kept == Forget(w, left)
<1>1. next \in Nat
  BY DEF OutroWrite, Writing, IInv, GoodJobs, Job, NoJob
<1>2. /\ rows' = kept \cup NewRows(c, {next}, "outro") /\ ~Taken(c, {next}, kept)
      /\ script' = script /\ hook' = hook /\ crossed' = crossed /\ Ends(w)
  BY DEF OutroWrite
<1>3. \A r \in rows : r.role # "outro" => r \in left
  BY DEF Found
<1>4. GoodRows(left, Chapters)
  BY SubsetIsGood DEF IInv
<1>5. /\ \A d : HasBeat(d, rows) => HasBeat(d, left)
      /\ HasHook(rows) => HasHook(left)
  BY <1>3 DEF HasBeat, HasHook
<1>b. left \subseteq rows
  OBVIOUS
<1> HIDE DEF left
<1>6. /\ GoodRows(kept, Chapters)
      /\ \A d : HasBeat(d, left) => HasBeat(d, kept)
      /\ HasHook(left) => HasHook(kept)
      /\ HooksStay(w, left, kept)
  BY <1>4, ForgetIsGood
<1>7. /\ Chapters \subseteq 0..MaxChapters
      /\ "outro" \in Roles /\ {next} \in SUBSET Nat
  BY <1>1 DEF IInv, GoodTexts, Roles
<1> HIDE DEF next, kept
<1>8. GoodRows(rows', Chapters)
  BY <1>2, <1>6, <1>7, NewIsGood
<1>9. GoodJobs(Chapters, job')
  BY EndsIsGood DEF OutroWrite, IInv
<1>10. phase' \in Phases /\ (phase' = "scenes_planned" => phase = "scenes_planned")
  BY DEF OutroWrite, Assign, IInv, Phases
<1>11. BeatsKept /\ HooksKept
  BY <1>2, <1>5, <1>6 DEF BeatsKept, HooksKept, HasBeat, HasHook
<1>c. \A s \in NewRows(c, {next}, "outro") : s.role = "outro"
  BY DEF NewRows
<1>d. HooksStay(w, rows, rows')
  BY <1>2, <1>6, <1>b, <1>c DEF HooksStay
<1>e. (~crossed)' => HooksTidy(rows, job)'
  BY <1>2, <1>d, EndsTidily
<1>12. IInv'
  BY <1>2, <1>8, <1>9, <1>10, <1>e DEF IInv, Chapters
<1> QED BY <1>10, <1>11, <1>12 DEF Earned

LEMMA FailKeeps ==
    ASSUME IInv, NEW w \in Workers, Fail(w)
    PROVE  IInv' /\ BeatsKept /\ HooksKept /\ Earned
<1>1. Ends(w) /\ rows' = Forget(w, rows) /\ UNCHANGED <<script, hook, phase, crossed>>
  BY DEF Fail
<1>2. /\ GoodRows(rows', Chapters)
      /\ \A d : HasBeat(d, rows) => HasBeat(d, rows')
      /\ HasHook(rows) => HasHook(rows')
      /\ HooksStay(w, rows, rows')
  BY <1>1, ForgetIsGood DEF IInv
<1>3. GoodJobs(Chapters, job')
  BY <1>1, EndsIsGood DEF IInv
<1>a. (~crossed)' => HooksTidy(rows, job)'
  BY <1>1, <1>2, EndsTidily
<1>4. IInv'
  BY <1>1, <1>2, <1>3, <1>a DEF IInv, Chapters
<1> QED BY <1>1, <1>2, <1>4 DEF BeatsKept, HooksKept, Earned

------------------------------------------------------------------------------
(* The hook and the user's edits.                                          *)

\* In a good board the hooks are the hooks of the first chapter.
LEMMA HooksAreInTheFirst ==
    ASSUME IInv
    PROVE  /\ \A r \in rows : r.role = "hook" <=> r \in HookIn(rows)
           /\ \A r \in rows : r.role = "hook" => r.ch \in Opening
           /\ HookIn(rows) # {} <=> HasHook(rows)
BY DEF IInv, GoodRows, HookIn, First, FirstOf, HasHook, Opening

\* Whoever looks at a tidy board finds the hook, if there is one, at 0.
LEMMA LooksKeeps ==
    ASSUME IInv, NEW w \in Workers, NEW begun \in Job, NEW does \in Deeds,
           NEW n \in 0..MaxIndex \cup {None},
           begun.kind \in HookKinds, begun.bare = {}, Looks(w, begun, does, n)
    PROVE  IInv' /\ BeatsKept /\ HooksKept /\ Earned
<1> DEFINE new == [begun EXCEPT !.of = Opening, !.next = n, !.does = does]
           f   == [r \in rows |-> IF Minds(r, does) THEN [r EXCEPT !.seen[w] = r.idx] ELSE r]
<1>1. n \in Nat \cup {None}
  BY SceneBoardAssumption
<1>2. /\ Opening \in ChapterSets /\ Opening \subseteq Chapters
      /\ \A c \in Opening : FirstOf(c, Chapters)
  BY DEF IInv, GoodTexts, Opening, ChapterSets, First, FirstOf
<1>3. /\ new \in Job /\ new.of = Opening /\ new.bare = {} /\ new.kind # "extend"
      /\ new.kind \in HookKinds /\ new.does = does /\ new.next = n
  BY <1>1, <1>2 DEF Job, HookKinds
<1>4. job' = [job EXCEPT ![w] = new] /\ UNCHANGED <<script, hook, phase, crossed>>
  BY DEF Looks
<1>5. rows' = {f[r] : r \in rows} /\ IsHookAt(n)
  BY DEF Looks
<1>6. ASSUME NEW r \in rows
      PROVE  /\ f[r] \in Row /\ f[r].ch = r.ch /\ f[r].idx = r.idx /\ f[r].role = r.role
             /\ \A v \in Workers : f[r].seen[v] \in {r.seen[v], r.idx}
             /\ \A v \in Workers : v # w => f[r].seen[v] = r.seen[v]
             /\ Minds(r, does) => f[r].seen[w] = r.idx
  <2>1. r \in Row /\ r.idx \in Nat
    BY DEF IInv, GoodRows, Row
  <2> QED BY <2>1, MarkedRow
<1>7. f \in [rows -> Row]
  BY <1>6
<1> HIDE DEF f, new
<1>8. /\ GoodRows(rows', Chapters)
      /\ \A d : HasBeat(d, rows) => HasBeat(d, rows')
      /\ HasHook(rows) => HasHook(rows')
  <2>1. rows' = {IF Minds(r, does) THEN [r EXCEPT !.seen[w] = r.idx] ELSE r : r \in rows}
    BY DEF Looks
  <2>2. rows' = Loading(w, {r \in rows : Minds(r, does)}, rows)
    BY <2>1 DEF Loading
  <2>3. GoodRows(rows, Chapters)
    BY DEF IInv
  <2> QED BY <2>2, <2>3, LoadedIsGood
<1>9. \A v \in Workers : job'[v] = IF v = w THEN new ELSE job[v]
  BY <1>4 DEF IInv, GoodJobs
<1>10. GoodJobs(Chapters, job')
  <2>1. job' \in [Workers -> Job \cup {NoJob}]
    BY <1>3, <1>4 DEF IInv, GoodJobs
  <2> QED BY <2>1, <1>2, <1>3, <1>9 DEF IInv, GoodJobs
<1>11. ASSUME ~crossed PROVE HooksTidy(rows', job')
  <2> SUFFICES ASSUME NEW r \in rows, r.role = "hook"
               PROVE  /\ f[r].idx = 0
                      /\ \A v \in Workers : f[r].seen[v] \in {None, 0}
                      /\ \A v \in Workers : InsertJob(job'[v]) =>
                             job'[v].next = 0 /\ f[r].seen[v] = 0
    BY <1>5, <1>6 DEF HooksTidy
  <2>1. /\ r.idx = 0 /\ \A v \in Workers : r.seen[v] \in {None, 0}
        /\ \A v \in Workers : InsertJob(job[v]) => job[v].next = 0 /\ r.seen[v] = 0
    BY <1>11 DEF IInv, HooksTidy
  <2>2. r \in HookIn(rows) /\ r.ch \in Opening
    BY HooksAreInTheFirst
  <2>3. n = 0
    BY <1>5, <1>11, <2>2 DEF IsHookAt, IInv, HooksTidy, HookIn
  <2>4. InsertJob(new) => f[r].seen[w] = 0
    BY <1>3, <1>6, <2>1, <2>2 DEF InsertJob, Minds
  <2> QED BY <1>3, <1>6, <1>9, <2>1, <2>3, <2>4
<1>12. IInv'
  BY <1>4, <1>8, <1>10, <1>11 DEF IInv, Chapters
<1> QED BY <1>4, <1>8, <1>12 DEF BeatsKept, HooksKept, Earned

LEMMA HookLooksKeep ==
    ASSUME IInv, NEW w \in Workers, NEW n \in 0..MaxIndex \cup {None},
           \/ AppendBegin(w, n) \/ RemoveBegin(w, n) \/ CoverLook(w, n)
           \/ \E text \in BOOLEAN : PatchBegin(w, text, n)
    PROVE  IInv' /\ BeatsKept /\ HooksKept /\ Earned
<1> DEFINE Goal == IInv' /\ BeatsKept /\ HooksKept /\ Earned
<1> SUFFICES Goal
  OBVIOUS
<1>1. \A text \in BOOLEAN : Sync(text) \in Deeds
  BY DEF Sync, Deeds
<1>2. \A kind \in HookKinds : kind \in Kinds
  BY DEF Kinds
<1> HIDE DEF Goal
<1>3. CASE AppendBegin(w, n)
  <2>1. "insert" \in Deeds /\ "append" \in HookKinds
    BY DEF Deeds, HookKinds
  <2>2. Looks(w, Fresh("append"), "insert", n)
    BY <1>3 DEF AppendBegin
  <2> QED BY <1>2, <2>1, <2>2, FreshJob, LooksKeeps DEF Goal
<1>4. CASE RemoveBegin(w, n)
  <2>1. "remove" \in HookKinds
    BY DEF HookKinds
  <2>2. Looks(w, Fresh("remove"), Sync(FALSE), n)
    BY <1>4 DEF RemoveBegin
  <2> QED BY <1>1, <1>2, <2>1, <2>2, FreshJob, LooksKeeps DEF Goal
<1>5. ASSUME NEW text \in BOOLEAN, PatchBegin(w, text, n) PROVE Goal
  <2>1. PICK to \in BOOLEAN \cup {None} :
            Looks(w, [Fresh("patch") EXCEPT !.text = to], Sync(text), n)
    BY <1>5 DEF PatchBegin
  <2>2. "patch" \in HookKinds /\ Fresh("patch") \in Job /\ Fresh("patch").bare = {}
        /\ Fresh("patch").kind = "patch"
    BY <1>2, FreshJob DEF HookKinds
  <2> DEFINE begun == [Fresh("patch") EXCEPT !.text = to]
  <2>3. begun \in Job /\ begun.kind = "patch" /\ begun.bare = {}
    BY <2>2 DEF Job
  <2> HIDE DEF begun
  <2>4. Looks(w, begun, Sync(text), n)
    BY <2>1 DEF begun
  <2> QED BY <1>1, <2>2, <2>3, <2>4, LooksKeeps DEF Goal
<1>6. CASE CoverLook(w, n)
  <2> DEFINE begun == [job[w] EXCEPT !.text = None]
  <2>1. job[w] \in Job /\ job[w].kind = "cover" /\ job[w].bare = {}
    <3>1. job[w] \in Job \cup {NoJob} /\ job[w].kind = "cover"
      BY <1>6 DEF CoverLook, Writing, IInv, GoodJobs
    <3>2. job[w].bare # {} => job[w].kind \in {"plan", "extend"}
      BY DEF IInv, GoodJobs
    <3> QED BY <3>1, <3>2 DEF NoJob
  <2>2. begun \in Job /\ begun.kind = "cover" /\ begun.bare = {}
    BY <2>1 DEF Job
  <2> HIDE DEF begun
  <2>3. Looks(w, begun, Sync(job[w].text), n)
    BY <1>6 DEF CoverLook, begun
  <2>4. Sync(job[w].text) \in Deeds /\ "cover" \in HookKinds
    BY DEF Sync, Deeds, HookKinds
  <2> QED BY <2>2, <2>3, <2>4, LooksKeeps DEF Goal
<1> QED BY <1>3, <1>4, <1>5, <1>6

LEMMA CoverBeginKeeps ==
    ASSUME IInv, NEW w \in Workers, CoverBegin(w)
    PROVE  IInv' /\ BeatsKept /\ HooksKept /\ Earned
<1> DEFINE new == [Fresh("cover") EXCEPT !.text = hook]
<1>1. /\ Fresh("cover") \in Job /\ Fresh("cover").kind = "cover"
      /\ Fresh("cover").bare = {} /\ Fresh("cover").of = {} /\ Fresh("cover").does = None
  BY FreshJob DEF Kinds, HookKinds
<1>2. /\ new \in Job /\ new.kind = "cover" /\ new.bare = {} /\ new.of = {} /\ new.does = None
  BY <1>1 DEF Job, IInv
<1>3. job' = [job EXCEPT ![w] = new] /\ UNCHANGED <<script, rows, hook, phase, crossed>>
  BY DEF CoverBegin
<1> HIDE DEF new
<1>4. \A v \in Workers : job'[v] = IF v = w THEN new ELSE job[v]
  BY <1>3 DEF IInv, GoodJobs
<1>5. GoodJobs(Chapters, job')
  <2>1. job' \in [Workers -> Job \cup {NoJob}]
    BY <1>2, <1>3 DEF IInv, GoodJobs
  <2> QED BY <2>1, <1>2, <1>4 DEF IInv, GoodJobs
<1>6. ~InsertJob(new)
  BY <1>2 DEF InsertJob
<1>7. (~crossed)' => HooksTidy(rows, job)'
  BY <1>3, <1>4, <1>6, SubsetStays, TidyKeeps
<1>8. IInv'
  BY <1>3, <1>5, <1>7 DEF IInv, Chapters
<1> QED BY <1>3, <1>8 DEF BeatsKept, HooksKept, Earned

LEMMA TextWriteKeeps ==
    ASSUME IInv, NEW w \in Workers, TextWrite(w)
    PROVE  IInv' /\ BeatsKept /\ HooksKept /\ Earned
<1>1. /\ UNCHANGED <<script, rows, crossed>> /\ hook' = TRUE /\ Ends(w)
      /\ phase' \in {phase, "hook_ready"}
  BY DEF TextWrite, Assign
<1>2. GoodJobs(Chapters, job')
  BY <1>1, EndsIsGood DEF IInv
<1>3. (~crossed)' => HooksTidy(rows, job)'
  BY <1>1, SubsetStays, EndsTidily
<1>4. IInv'
  BY <1>1, <1>2, <1>3 DEF IInv, Chapters, Phases
<1> QED BY <1>1, <1>4 DEF BeatsKept, HooksKept, Earned

\* One row of a board that is renumbered: only its index moves.
Moved(r, w) == IF r.ch \notin job[w].of THEN r
               ELSE IF job[w].does = "insert" THEN Up(r, w) ELSE Down(r, w)

LEMMA MovedRow ==
    ASSUME NEW r \in Row, NEW w \in Workers
    PROVE  /\ Moved(r, w) \in Row
           /\ Moved(r, w).ch = r.ch /\ Moved(r, w).role = r.role
           /\ \A v \in Workers : \/ Moved(r, w).seen[v] = r.seen[v]
                                 \/ v = w /\ Moved(r, w).seen[v] = None
           /\ job[w].does # "insert" /\ r.idx = 0 /\ r.seen[w] \in {None, 0}
                 => Moved(r, w).idx = 0
<1> DEFINE at == SeenAs(r, w)
<1>1. /\ r.idx \in Nat /\ r.seen \in [Workers -> Nat \cup {None}]
      /\ at \in Nat /\ (r.idx = 0 /\ r.seen[w] \in {None, 0} => at = 0)
  BY DEF Row, SeenAs
<1> HIDE DEF at
<1>2. Up(r, w) = [r EXCEPT !.idx = at + 1, !.seen[w] = None]
  BY DEF Up, at
<1>3. Down(r, w) = [r EXCEPT !.idx = IF at > 0 THEN at - 1 ELSE @, !.seen[w] = None]
  BY DEF Down, at
<1>a. at + 1 \in Nat
  BY <1>1
<1>4. /\ Up(r, w) \in Row /\ Up(r, w).ch = r.ch /\ Up(r, w).role = r.role
      /\ \A v \in Workers : Up(r, w).seen[v] = IF v = w THEN None ELSE r.seen[v]
  <2> DEFINE to == at + 1
             f  == Up(r, w)
             g  == [r EXCEPT !.idx = to]
  <2>1. f = [r EXCEPT !.idx = to, !.seen[w] = None]
    BY <1>2
  <2>2. to \in Nat
    BY <1>a
  <2>4. f = [g EXCEPT !.seen[w] = None]
    BY <2>1
  <2>5. g \in Row /\ g.ch = r.ch /\ g.idx = to /\ g.role = r.role /\ g.seen = r.seen
    BY <2>2 DEF Row
  <2> HIDE DEF to, f, g
  <2>3. /\ f \in Row /\ f.ch = r.ch /\ f.role = r.role
        /\ \A v \in Workers : f.seen[v] = IF v = w THEN None ELSE r.seen[v]
    BY <2>4, <2>5 DEF Row
  <2> QED BY <2>3 DEF f
<1>5. /\ Down(r, w) \in Row /\ Down(r, w).ch = r.ch /\ Down(r, w).role = r.role
      /\ \A v \in Workers : Down(r, w).seen[v] = IF v = w THEN None ELSE r.seen[v]
      /\ at = 0 => Down(r, w).idx = r.idx
  <2> DEFINE to == IF at > 0 THEN at - 1 ELSE r.idx
             f  == Down(r, w)
             g  == [r EXCEPT !.idx = to]
  <2>1. to \in Nat /\ (at = 0 => to = r.idx)
    BY <1>1
  <2>2. f = [r EXCEPT !.idx = to, !.seen[w] = None]
    BY <1>3
  <2>4. f = [g EXCEPT !.seen[w] = None]
    BY <2>2
  <2>5. g \in Row /\ g.ch = r.ch /\ g.idx = to /\ g.role = r.role /\ g.seen = r.seen
    BY <2>1 DEF Row
  <2> HIDE DEF to, f, g
  <2>3. /\ f \in Row /\ f.ch = r.ch /\ f.role = r.role /\ f.idx = to
        /\ \A v \in Workers : f.seen[v] = IF v = w THEN None ELSE r.seen[v]
    BY <2>4, <2>5 DEF Row
  <2> QED BY <2>1, <2>3 DEF f
<1> QED BY <1>1, <1>4, <1>5 DEF Moved

LEMMA RenumberedIsGood ==
    ASSUME IInv, NEW w \in Workers, Distinct(Renumbered(w))
    PROVE  /\ GoodRows(Renumbered(w), Chapters)
           /\ \A d : HasBeat(d, rows) => HasBeat(d, Renumbered(w))
           /\ \A s \in Renumbered(w) : \E r \in rows \ Old(w) : s = Moved(r, w)
<1>1. Renumbered(w) = {Moved(r, w) : r \in rows \ Old(w)}
  BY DEF Renumbered, Moved
<1>2. ASSUME NEW r \in rows
      PROVE  /\ Moved(r, w) \in Row /\ Moved(r, w).ch = r.ch /\ Moved(r, w).role = r.role
             /\ r.ch \in Chapters /\ (r.role = "hook" => FirstOf(r.ch, Chapters))
  BY MovedRow DEF IInv, GoodRows
<1>3. GoodRows(Renumbered(w), Chapters)
  BY <1>1, <1>2 DEF GoodRows
<1>4. \A r \in rows : r.role = "beat" => r \notin Old(w)
  BY DEF Old
<1>5. \A d : HasBeat(d, rows) => HasBeat(d, Renumbered(w))
  BY <1>1, <1>2, <1>4 DEF HasBeat
<1> QED BY <1>1, <1>3, <1>5

\* Who inserts while nobody else is about to replaces the hook there is.
LEMMA InsertKeeps ==
    ASSUME IInv, NEW w \in Workers, NEW c \in job[w].of, job[w].does = "insert",
           rows' = Renumbered(w) \cup NewRows(c, {0}, "hook"), Distinct(rows'),
           crossed' = (crossed \/ \E v \in Workers \ {w} : Inserting(v)), Ends(w)
    PROVE  /\ GoodRows(rows', Chapters)
           /\ BeatsKept /\ HooksKept
           /\ (~crossed)' => HooksTidy(rows, job)'
<1> DEFINE h == [ch |-> c, idx |-> 0, role |-> "hook", seen |-> Unseen]
<1>1. NewRows(c, {0}, "hook") = {h}
  BY DEF NewRows
<1>2. c \in Chapters /\ FirstOf(c, Chapters)
  BY SceneBoardAssumption DEF IInv, GoodJobs, Deeds
<1>3. h \in Row /\ h.ch = c /\ h.idx = 0 /\ h.role = "hook"
      /\ \A v \in Workers : h.seen[v] = None
  BY <1>2 DEF Row, Roles, Unseen, IInv, GoodTexts
<1> HIDE DEF h
<1>4. rows' = Renumbered(w) \cup {h}
  BY <1>1
<1>5. Distinct(Renumbered(w))
  BY <1>4 DEF Distinct
<1>6. /\ GoodRows(Renumbered(w), Chapters)
      /\ \A d : HasBeat(d, rows) => HasBeat(d, Renumbered(w))
      /\ \A s \in Renumbered(w) : \E r \in rows \ Old(w) : s = Moved(r, w)
  BY <1>5, RenumberedIsGood
<1>7. GoodRows(rows', Chapters)
  BY <1>2, <1>3, <1>4, <1>6 DEF GoodRows
<1>8. BeatsKept /\ HooksKept
  BY <1>3, <1>4, <1>6 DEF BeatsKept, HooksKept, HasBeat, HasHook
<1>9. ASSUME ~crossed' PROVE HooksTidy(rows', job')
  <2>1. HooksTidy(rows, job) /\ \A v \in Workers : v # w => ~Inserting(v)
    BY <1>9 DEF IInv
  <2>2. \A r \in rows : r.role = "hook" => r \in Old(w)
    BY <2>1, SceneBoardAssumption DEF HooksTidy, InsertJob, Old
  <2>3. \A s \in Renumbered(w) : s.role # "hook"
    BY <1>6, <2>2, MovedRow DEF IInv, GoodRows
  <2>4. \A v \in Workers : ~InsertJob(job'[v])
    <3>1. \A v \in Workers : job'[v] = IF v = w THEN NoJob ELSE job[v]
      BY DEF Ends, IInv, GoodJobs
    <3> QED BY <2>1, <3>1 DEF InsertJob, Inserting, NoJob
  <2> QED BY <1>3, <1>4, <2>3, <2>4 DEF HooksTidy
<1> QED BY <1>7, <1>8, <1>9

LEMMA RemoveKeeps ==
    ASSUME IInv, NEW w \in Workers, job[w].does = "remove", rows' = Renumbered(w),
           Distinct(rows'), crossed' = crossed, Ends(w)
    PROVE  /\ GoodRows(rows', Chapters)
           /\ BeatsKept
           /\ (~crossed)' => HooksTidy(rows, job)'
<1>1. /\ GoodRows(rows', Chapters)
      /\ \A d : HasBeat(d, rows) => HasBeat(d, rows')
      /\ \A s \in rows' : \E r \in rows \ Old(w) : s = Moved(r, w)
  BY RenumberedIsGood
<1>2. ASSUME ~crossed PROVE HooksStay(w, rows, rows')
  <2> SUFFICES ASSUME NEW s \in rows', s.role = "hook"
               PROVE  \E r \in rows : /\ r.role = "hook" /\ s.idx = r.idx
                         /\ \A v \in Workers : \/ s.seen[v] = r.seen[v]
                                               \/ v = w /\ s.seen[v] = None
    BY DEF HooksStay
  <2>1. PICK r \in rows : s = Moved(r, w)
    BY <1>1
  <2>2. r \in Row
    BY DEF IInv, GoodRows
  <2>3. r.role = "hook"
    BY <2>1, <2>2, MovedRow
  <2>4. r.idx = 0 /\ r.seen[w] \in {None, 0}
    BY <1>2, <2>3 DEF IInv, HooksTidy
  <2>5. job[w].does # "insert"
    OBVIOUS
  <2> QED BY <2>1, <2>2, <2>3, <2>4, <2>5, MovedRow
<1>3. (~crossed)' => HooksTidy(rows, job)'
  BY <1>2, EndsTidily
<1> QED BY <1>1, <1>3 DEF BeatsKept

\* The text and the phase that a writer of the hook leaves.
LEMMA AfterWrite ==
    ASSUME IInv, NEW w \in Workers, HookWrite(w), GoodRows(rows', Chapters),
           (~crossed)' => HooksTidy(rows, job)'
    PROVE  IInv' /\ Earned
<1>1. script' = script /\ Ends(w)
  BY DEF HookWrite
<1>2. GoodJobs(Chapters, job')
  BY <1>1, EndsIsGood DEF IInv
<1>3. phase' \in {phase, "thumbnail_ready", "hook_ready"}
  BY DEF HookWrite, Assign
<1>4. crossed' \in BOOLEAN
  BY DEF HookWrite, HookScene, IInv
<1>5. hook' \in BOOLEAN
  <2>1. job[w] \in Job \cup {NoJob}
    BY DEF IInv, GoodJobs
  <2>2. job[w].text \in BOOLEAN \cup {None}
    BY <2>1 DEF Job, NoJob
  <2>3. hook' = IF job[w].text = None THEN hook ELSE job[w].text
    BY DEF HookWrite
  <2> QED BY <2>2, <2>3 DEF IInv
<1>6. IInv'
  BY <1>1, <1>2, <1>3, <1>4, <1>5 DEF IInv, Chapters, Phases
<1> QED BY <1>3, <1>6 DEF Earned

LEMMA HookWriteKeeps ==
    ASSUME IInv, NEW w \in Workers, HookWrite(w)
    PROVE  /\ IInv' /\ BeatsKept /\ Earned
           /\ job[w].does # "remove" => HooksKept
<1>1. HookScene(w) /\ Ends(w) /\ script' = script
  BY DEF HookWrite
<1>2. CASE job[w].does = "insert"
  <2>1. PICK c \in job[w].of : rows' = Renumbered(w) \cup NewRows(c, {0}, "hook")
    BY <1>1, <1>2 DEF HookScene
  <2>2. crossed' = (crossed \/ \E v \in Workers \ {w} : Inserting(v))
    BY <1>1, <1>2 DEF HookScene
  <2>3. Distinct(rows')
    BY <1>2 DEF HookWrite
  <2> QED BY <1>1, <1>2, <2>1, <2>2, <2>3, InsertKeeps, AfterWrite
<1>3. CASE job[w].does = "remove"
  <2>1. rows' = Renumbered(w) /\ crossed' = crossed
    BY <1>1, <1>3 DEF HookScene
  <2>2. Distinct(rows')
    BY <1>3 DEF HookWrite
  <2> QED BY <1>1, <1>3, <2>1, <2>2, RemoveKeeps, AfterWrite
<1>4. CASE job[w].does \notin {"insert", "remove"}
  <2>1. rows' = Forget(w, rows) /\ crossed' = crossed
    BY <1>1, <1>4 DEF HookScene
  <2>2. /\ GoodRows(rows', Chapters)
        /\ \A d : HasBeat(d, rows) => HasBeat(d, rows')
        /\ HasHook(rows) => HasHook(rows')
        /\ HooksStay(w, rows, rows')
    BY <2>1, ForgetIsGood DEF IInv
  <2>3. (~crossed)' => HooksTidy(rows, job)'
    BY <1>1, <2>1, <2>2, EndsTidily
  <2>4. BeatsKept /\ HooksKept
    BY <2>2 DEF BeatsKept, HooksKept
  <2> QED BY <2>1, <2>2, <2>3, <2>4, AfterWrite
<1> QED BY <1>2, <1>3, <1>4

LEMMA SmallEditKeeps ==
    ASSUME IInv,
           \/ \E r \in rows : DeleteOutro(r)
           \/ \E c \in Chapters : PatchScript(c)
    PROVE  IInv' /\ BeatsKept /\ HooksKept /\ Earned
<1>1. UNCHANGED <<hook, phase, job, crossed>>
  BY DEF DeleteOutro, PatchScript
<1>2. ASSUME NEW r \in rows, DeleteOutro(r)
      PROVE  GoodRows(rows', Chapters) /\ BeatsKept /\ HooksKept /\ script' = script
  <2>1. rows' = rows \ {r} /\ r.role = "outro" /\ script' = script
    BY <1>2 DEF DeleteOutro, TopOutro
  <2>2. GoodRows(rows', Chapters)
    BY <2>1, SubsetIsGood DEF IInv
  <2> QED BY <2>1, <2>2 DEF BeatsKept, HooksKept, HasBeat, HasHook
<1>3. ASSUME NEW c \in Chapters, PatchScript(c)
      PROVE  /\ rows' = rows /\ DOMAIN script' = Chapters
             /\ GoodTexts(Chapters, script')
  BY <1>3 DEF PatchScript, Chapters, IInv, GoodTexts
<1>4. /\ GoodRows(rows', Chapters) /\ BeatsKept /\ HooksKept
      /\ DOMAIN script' = Chapters /\ GoodTexts(Chapters, script')
  BY <1>2, <1>3 DEF IInv, BeatsKept, HooksKept, Chapters
<1>a. \A s \in rows' : s.role = "hook" => s \in rows
  BY DEF DeleteOutro, PatchScript
<1>b. (~crossed)' => HooksTidy(rows, job)'
  BY <1>1, <1>a, TidyStays
<1>5. IInv'
  BY <1>1, <1>4, <1>b DEF IInv, Chapters
<1> QED BY <1>1, <1>4, <1>5 DEF Earned

\* A chapter behind the others does not move the first.
LEMMA ImportChapterKeeps ==
    ASSUME IInv, NEW c \in 0..(MaxChapters - 1), NEW plan \in Plans, ImportChapter(c, plan)
    PROVE  IInv' /\ BeatsKept /\ HooksKept /\ Earned
<1> DEFINE C == Chapters \cup {c}
           texts == [d \in C |-> IF d = c THEN TRUE ELSE script[d]]
<1>1. c \in Nat /\ c \in 0..MaxChapters /\ 0..MaxChapters \subseteq Nat
  BY SceneBoardAssumption
<1>2. Chapters \subseteq 0..MaxChapters /\ Chapters \subseteq Nat
  BY <1>1 DEF IInv, GoodTexts
<1>3. \A d \in Chapters : d <= c
  <2> SUFFICES ASSUME NEW d \in Chapters PROVE d <= c
    OBVIOUS
  <2>1. IsNextChapter(c) /\ c \notin Chapters
    BY DEF ImportChapter
  <2>2. PICK e \in Chapters : Last(e) /\ c = OrMinusOne(e)
    BY <2>1 DEF IsNextChapter
  <2>3. d \in Nat /\ e \in Nat /\ d <= e
    BY <1>2, <2>2 DEF Last
  <2>4. c = e + 1
    BY <2>1, <2>2 DEF OrMinusOne
  <2> QED BY <2>3, <2>4
<1>4. script' = texts /\ hook' = hook /\ job' = job /\ crossed' = crossed
  BY DEF ImportChapter
<1>5. DOMAIN script' = C /\ script' \in [C -> BOOLEAN]
  BY <1>4 DEF IInv, GoodTexts
<1>6. rows' = rows \cup NewRows(c, plan, "beat")
  BY DEF ImportChapter
<1>7. phase' \in Phases /\ (phase' = "scenes_planned" => phase = "scenes_planned"
                                                       \/ AllPlanned(texts, rows))
  BY DEF ImportChapter, AfterImport, IInv, Phases, Early
<1> HIDE DEF texts
<1>a. \A d \in Chapters : FirstOf(d, Chapters) => FirstOf(d, C)
  BY <1>3 DEF FirstOf
<1>8. GoodRows(rows, C)
  BY <1>a DEF IInv, GoodRows
<1>9. GoodTexts(C, script') /\ C \subseteq 0..MaxChapters
  BY <1>1, <1>2, <1>5 DEF GoodTexts
<1>10. GoodJobs(C, job')
  BY <1>4, <1>a DEF IInv, GoodJobs
<1>b. \A s \in NewRows(c, plan, "beat") : s.role = "beat"
  BY DEF NewRows
<1>c. (~crossed)' => HooksTidy(rows, job)'
  BY <1>4, <1>6, <1>b, TidyStays
<1>11. ~Taken(c, plan, rows)
  BY DEF Taken, ImportChapter, IInv, GoodRows
<1>12. c \in C /\ plan \in SUBSET Nat /\ "beat" \in Roles
  BY SceneBoardAssumption DEF Roles
<1> HIDE DEF C
<1>13. GoodRows(rows', C)
  BY <1>6, <1>8, <1>9, <1>11, <1>12, NewIsGood
<1>14. IInv'
  BY <1>4, <1>5, <1>7, <1>9, <1>10, <1>13, <1>c DEF IInv, Chapters
<1>15. BeatsKept /\ HooksKept
  BY <1>6 DEF BeatsKept, HooksKept, HasBeat, HasHook
<1>16. Earned
  BY <1>4, <1>6, <1>7 DEF Earned, AllPlanned, RowsOf
<1> QED BY <1>14, <1>15, <1>16

LEMMA ImportScenesKeeps ==
    ASSUME IInv, NEW c \in Chapters, NEW plan \in Plans, NEW confirmed \in BOOLEAN,
           ImportScenes(c, plan, confirmed)
    PROVE  IInv' /\ BeatsKept /\ HooksKept /\ Earned
<1> DEFINE texts == [script EXCEPT ![c] = TRUE]
<1>1. /\ GoodRows(rows', Chapters) /\ BeatsKept /\ HooksKept
      /\ RowsOf(c, rows') # {}
      /\ \A d : RowsOf(d, rows \ Doomed(c)) # {} => RowsOf(d, rows') # {}
      /\ \A s \in rows' : s.role = "hook" => s \in rows
  BY ReplannedIsGood DEF ImportScenes
<1>2. script' = texts /\ hook' = hook /\ job' = job /\ crossed' = crossed
  BY DEF ImportScenes
<1>3. GoodTexts(Chapters, script') /\ DOMAIN script' = Chapters
  BY <1>2 DEF IInv, GoodTexts
<1>4. phase' \in Phases /\ (phase' = "scenes_planned" => phase = "scenes_planned"
                                           \/ AllPlanned(texts, rows \ Doomed(c)))
  BY DEF ImportScenes, AfterImport, IInv, Phases, Early
<1> HIDE DEF texts
<1>a. (~crossed)' => HooksTidy(rows, job)'
  BY <1>1, <1>2, TidyStays
<1>5. IInv'
  BY <1>1, <1>2, <1>3, <1>4, <1>a DEF IInv, Chapters
<1>6. Earned
  BY <1>1, <1>2, <1>4 DEF Earned, AllPlanned
<1> QED BY <1>1, <1>5, <1>6

------------------------------------------------------------------------------
(* The theorems.                                                           *)

Outlined == \E w \in Workers, n \in Outlines : OutlineWrite(w, n)
Removed  == \E w \in Workers : HookWrite(w) /\ job[w].does = "remove"

LEMMA StepKeeps ==
    ASSUME IInv, [Next]_vars
    PROVE  /\ IInv' /\ Earned
           /\ Outlined \/ BeatsKept
           /\ Outlined \/ Removed \/ HooksKept
<1> DEFINE Goal == /\ IInv' /\ Earned
                   /\ Outlined \/ BeatsKept
                   /\ Outlined \/ Removed \/ HooksKept
<1> SUFFICES Goal
  OBVIOUS
<1>1. ASSUME NEW w \in Workers, JobBegins(w) PROVE Goal
  BY <1>1, BeginKeeps, OutroBeginKeeps DEF JobBegins
<1>2. ASSUME NEW w \in Workers, JobWrites(w) PROVE Goal
  <2>1. ASSUME NEW n \in Outlines, OutlineWrite(w, n) PROVE Goal
    BY <2>1, OutlineKeeps DEF Outlined
  <2>2. CASE ScriptsWrite(w) \/ RewriteWrite(w)
    BY <2>2, ScriptedKeeps
  <2>3. ASSUME NEW c \in Chapters, NEW plan \in Plans, PlanWrite(w, c, plan) PROVE Goal
    BY <2>3, PlanKeeps
  <2>4. ASSUME NEW c \in Chapters, NEW n \in 0..MaxIndex, OutroGo(w, c, n) PROVE Goal
    BY <2>4, OutroGoKeeps
  <2>5. ASSUME NEW c \in Chapters, ExtendWrite(w, c) PROVE Goal
    BY <2>5, ExtendKeeps
  <2>6. ASSUME NEW c \in Chapters, OutroWrite(w, c) PROVE Goal
    BY <2>6, OutroKeeps
  <2> HIDE DEF Goal
  <2> QED BY <1>2, <2>1, <2>2, <2>3, <2>4, <2>5, <2>6 DEF JobWrites
<1>3. ASSUME NEW w \in Workers, Fail(w) PROVE Goal
  BY <1>3, FailKeeps
<1>4. ASSUME NEW w \in Workers, HookStep(w) PROVE Goal
  <2>1. CASE HookWrite(w)
    BY <2>1, HookWriteKeeps DEF Removed
  <2>2. CASE TextBegin(w)
    BY <2>2, BeginKeeps
  <2> HIDE DEF Goal
  <2>3. CASE CoverBegin(w) \/ TextWrite(w)
    BY <2>3, CoverBeginKeeps, TextWriteKeeps DEF Goal
  <2>4. CASE \E n \in 0..MaxIndex \cup {None} :
                \/ AppendBegin(w, n) \/ RemoveBegin(w, n) \/ CoverLook(w, n)
                \/ \E text \in BOOLEAN : PatchBegin(w, text, n)
    BY <2>4, HookLooksKeep DEF Goal
  <2> QED BY <1>4, <2>1, <2>2, <2>3, <2>4 DEF HookStep
<1>5. CASE Edit
  <2>1. ASSUME NEW c \in 0..(MaxChapters - 1), NEW plan \in Plans, ImportChapter(c, plan)
        PROVE  Goal
    BY <2>1, ImportChapterKeeps
  <2>2. ASSUME NEW c \in Chapters, NEW plan \in Plans, NEW yes \in BOOLEAN,
               ImportScenes(c, plan, yes)
        PROVE  Goal
    BY <2>2, ImportScenesKeeps
  <2>3. CASE (\E r \in rows : DeleteOutro(r)) \/ (\E c \in Chapters : PatchScript(c))
    BY <2>3, SmallEditKeeps
  <2> HIDE DEF Goal
  <2> QED BY <1>5, <2>1, <2>2, <2>3 DEF Edit
<1>6. CASE UNCHANGED vars
  BY <1>6 DEF vars, IInv, Chapters, Earned, BeatsKept, HooksKept
<1> HIDE DEF Goal
<1> QED BY <1>1, <1>2, <1>3, <1>4, <1>5, <1>6 DEF Next

\* The board is always good.
THEOREM Inductive == Spec => []IInv
<1>1. Init => IInv
  <2> SUFFICES ASSUME Init PROVE IInv
    OBVIOUS
  <2>1. Chapters = {} /\ script \in [{} -> BOOLEAN] /\ rows = {}
    BY DEF Init, Chapters
  <2>2. GoodRows(rows, Chapters) /\ GoodTexts(Chapters, script)
    BY <2>1 DEF GoodRows, GoodTexts, Distinct
  <2>a. HooksTidy(rows, job)
    BY <2>1 DEF HooksTidy
  <2>3. GoodJobs(Chapters, job)
    BY DEF Init, GoodJobs, NoJob
  <2> QED BY <2>2, <2>3, <2>a DEF Init, IInv, Phases
<1>2. IInv /\ [Next]_vars => IInv'
  BY StepKeeps
<1> QED BY <1>1, <1>2, PTL DEF Spec

\* Rows, chapters and jobs stay what they are: in particular no step leaves
\* two rows of a chapter with one index or a row without its chapter.
THEOREM TypeCorrect == Spec => []TypeOK
<1>1. IInv => TypeOK
  BY DEF IInv, TypeOK, GoodRows, GoodTexts, GoodJobs
<1> QED BY <1>1, Inductive, PTL

\* The hook is the first scene of the first chapter, and there is at most one
\* (append_hook_scene, remove_hook_scene, plan and import offsets), unless an
\* insertion was committed while another one was under way.
THEOREM HookIsFirst == Spec => []HookOpens
<1>1. IInv => HookOpens
  BY DEF IInv, HookOpens, HooksTidy, GoodRows, First, FirstOf
<1> QED BY <1>1, Inductive, PTL

\* A planned chapter keeps a plan until an outline deletes the chapters.
THEOREM PlansAreKept == Spec => PlannedStaysPlanned
<1>1. \A c : Beats(c) # {} <=> HasBeat(c, rows)
  BY DEF Beats, Held, RowsOf, HasBeat
<1>2. \A c : Beats(c)' # {} <=> HasBeat(c, rows')
  BY DEF Beats, Held, RowsOf, HasBeat
<1>3. IInv /\ [Next]_vars =>
        [\A c \in Chapters : Beats(c) # {} =>
            Beats(c)' # {} \/ \E w \in Workers, n \in Outlines : OutlineWrite(w, n)]_vars
  BY <1>1, <1>2, StepKeeps DEF BeatsKept, Outlined
<1> QED BY <1>3, Inductive, PTL DEF Spec, PlannedStaysPlanned

\* Replanning, extending, importing and replacing keep the hook scene: it goes
\* with the chapters, or by a writer that found it and meant to remove it.
THEOREM HooksAreKept == Spec => HookSurvivesReplan
<1> DEFINE Kept == HookIn(rows) # {} /\ HookIn(rows)' = {} =>
                      \/ \E w \in Workers, n \in Outlines : OutlineWrite(w, n)
                      \/ \E w \in Workers : HookWrite(w) /\ job[w].does = "remove"
<1>1. IInv => (HookIn(rows) # {} <=> HasHook(rows))
  BY HooksAreInTheFirst
<1>2. IInv' => (HookIn(rows)' # {} <=> HasHook(rows'))
  BY DEF IInv, GoodRows, HookIn, First, FirstOf, HasHook
<1>3. IInv /\ [Next]_vars => Kept
  BY <1>1, <1>2, StepKeeps DEF HooksKept, Outlined, Removed
<1>4. IInv /\ [Next]_vars => [Kept]_vars
  BY <1>3
<1> QED BY <1>4, Inductive, PTL DEF Spec, HookSurvivesReplan

\* workflow_phase becomes "scenes_planned" only when every scripted chapter has
\* scenes, whatever the writer had loaded.
THEOREM PhaseIsEarned == Spec => PlannedPhaseIsEarned
<1>1. IInv /\ [Next]_vars => Earned
  BY StepKeeps
<1>2. IInv /\ [Next]_vars => [Earned]_vars
  BY <1>1
<1> QED BY <1>2, Inductive, PTL DEF Spec, PlannedPhaseIsEarned, Earned
=============================================================================
