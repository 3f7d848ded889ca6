-------------------------- MODULE SceneTakesProofs --------------------------
(***************************************************************************)
(* Proofs about SceneTakes: the types, that workers' takes of a scene have *)
(* different places, that a still is missed once a pass at most, and that  *)
(* the run goes on to its clips only with the stills it was asked for.     *)
(***************************************************************************)
EXTENDS SceneTakes, WellFoundedInduction, SequenceTheorems, FiniteSetTheorems, TLAPS

-----------------------------------------------------------------------------
(* A non-empty bounded set of naturals has a greatest element.             *)
LEMMA TopExists ==
    ASSUME NEW S \in SUBSET Nat, S # {}, NEW b \in Nat, \A n \in S : n <= b
    PROVE  \E m \in S : \A n \in S : n <= m
<1> DEFINE R == OpToRel(<, Nat)
           Down == {b - n : n \in S}
<1>1. \A x \in Nat, y \in Nat : <<x, y>> \in R <=> x < y
  BY Zenon DEF OpToRel
<1>2. \A n \in S : n \in Nat /\ b - n \in Nat
  OBVIOUS
<1>3. Down \subseteq Nat /\ Down # {}
  BY <1>2
<1>4. IsWellFoundedOn(R, Nat)
  BY NatLessThanWellFounded, Zenon
<1> HIDE DEF R
<1>5. PICK d \in Down : \A e \in Down : ~(<<e, d>> \in R)
  BY <1>3, <1>4, WFMin
<1>6. \A e \in Down : ~(e < d)
  BY <1>1, <1>3, <1>5
<1>7. PICK m \in S : d = b - m
  OBVIOUS
<1>8. ASSUME NEW n \in S PROVE n <= m
  <2>1. ~(b - n < d)
    BY <1>6
  <2> QED BY <1>2, <1>7, <2>1
<1> QED BY <1>8

-----------------------------------------------------------------------------
(* How a step changes the takes of one scene.                              *)

TakesOK == takes \in [Scenes -> Seq(Take)]

LEMMA AddedOne ==
    ASSUME TakesOK, NEW s \in Scenes, NEW k \in Kinds, NEW status \in Statuses,
           NEW n \in Nat, NEW by \in {"worker", "user"}, Added(s, k, status, n, by)
    PROVE  /\ TakesOK'
           /\ \A t \in Scenes \ {s} : takes'[t] = takes[t]
           /\ Len(takes'[s]) = Len(takes[s]) + 1
           /\ \A i \in DOMAIN takes[s] : takes'[s][i] = takes[s][i]
           /\ takes'[s][Len(takes[s]) + 1].slot = n
           /\ takes'[s][Len(takes[s]) + 1].by = by
<1> DEFINE row == [kind |-> k, status |-> status, slot |-> n, by |-> by]
<1>1. row \in Take /\ row.slot = n /\ row.by = by
  BY DEF Take
<1> HIDE DEF row
<1>2. takes[s] \in Seq(Take) /\ Append(takes[s], row) \in Seq(Take)
  BY <1>1 DEF TakesOK
<1>3. takes' = [takes EXCEPT ![s] = Append(takes[s], row)]
  BY DEF Added, row
<1>4. takes'[s] = Append(takes[s], row)
  BY <1>3 DEF TakesOK
<1> QED BY <1>1, <1>2, <1>3, <1>4 DEF TakesOK

LEMMA ChangedOne ==
    ASSUME TakesOK, NEW s \in Scenes, NEW i \in DOMAIN takes[s], NEW status \in Statuses,
           Changed(s, i, status)
    PROVE  /\ TakesOK'
           /\ \A t \in Scenes \ {s} : takes'[t] = takes[t]
           /\ Len(takes'[s]) = Len(takes[s])
           /\ \A j \in DOMAIN takes[s] : /\ takes'[s][j].slot = takes[s][j].slot
                                         /\ takes'[s][j].by = takes[s][j].by
                                         /\ takes'[s][j].kind = takes[s][j].kind
                                         /\ j # i => takes'[s][j] = takes[s][j]
           /\ takes'[s][i].status = status
<1> DEFINE row == Marked(takes[s][i], status)
           new == [takes[s] EXCEPT ![i] = row]
<1>1. takes[s] \in Seq(Take) /\ takes[s][i] \in Take
  BY DEF TakesOK
<1>2. /\ row \in Take /\ row.slot = takes[s][i].slot /\ row.by = takes[s][i].by
      /\ row.kind = takes[s][i].kind /\ row.status = status
  BY <1>1 DEF Take, Marked
<1>3. takes' = [takes EXCEPT ![s] = new]
  BY DEF Changed
<1> HIDE DEF row
<1>4. new \in Seq(Take) /\ Len(new) = Len(takes[s]) /\ new[i] = row
  BY <1>1, <1>2
<1>5. \A j \in DOMAIN takes[s] : j # i => new[j] = takes[s][j]
  BY <1>1
<1> HIDE DEF new
<1>6. takes'[s] = new
  BY <1>3 DEF TakesOK
<1> QED BY <1>1, <1>2, <1>3, <1>4, <1>5, <1>6 DEF TakesOK

LEMMA RenumberedOne ==
    ASSUME TakesOK, NEW s \in Scenes, NEW p \in Seq(Nat), Len(p) <= Len(takes[s]),
           takes' = [takes EXCEPT ![s] = Renumbered(takes[s], p)]
    PROVE  /\ TakesOK'
           /\ \A t \in Scenes \ {s} : takes'[t] = takes[t]
           /\ Len(takes'[s]) = Len(takes[s])
           /\ \A i \in DOMAIN takes[s] : takes'[s][i].by = takes[s][i].by
           /\ \A i \in DOMAIN takes[s] : /\ takes'[s][i].kind = takes[s][i].kind
                                         /\ takes'[s][i].status = takes[s][i].status
           /\ \A i \in DOMAIN takes[s] :
                takes'[s][i].slot = IF i <= Len(p) THEN p[i] ELSE takes[s][i].slot
<1> DEFINE new == Renumbered(takes[s], p)
<1>1. takes[s] \in Seq(Take) /\ DOMAIN takes[s] = 1..Len(takes[s]) /\ Len(takes[s]) \in Nat
  BY DEF TakesOK
<1>2. \A i \in 1..Len(p) : p[i] \in Nat
  OBVIOUS
<1>3. \A t \in Take : \A n \in Nat : /\ Moved(t, n) \in Take
                                   /\ Moved(t, n).slot = n /\ Moved(t, n).by = t.by
                                   /\ Moved(t, n).kind = t.kind
                                   /\ Moved(t, n).status = t.status
  BY DEF Take, Moved
<1>4. \A i \in 1..Len(takes[s]) :
        /\ new[i] = IF i <= Len(p) THEN Moved(takes[s][i], p[i]) ELSE takes[s][i]
        /\ takes[s][i] \in Take /\ (i <= Len(p) => p[i] \in Nat)
  BY <1>1, <1>2 DEF Renumbered
<1>5. \A i \in 1..Len(takes[s]) : /\ new[i] \in Take
                                 /\ new[i].by = takes[s][i].by
                                 /\ new[i].kind = takes[s][i].kind
                                 /\ new[i].status = takes[s][i].status
                                 /\ new[i].slot = IF i <= Len(p) THEN p[i] ELSE takes[s][i].slot
  <2> TAKE i \in 1..Len(takes[s])
  <2>1. CASE i <= Len(p)
    <3>1. takes[s][i] \in Take /\ p[i] \in Nat /\ new[i] = Moved(takes[s][i], p[i])
      BY <1>4, <2>1
    <3> DEFINE row == Moved(takes[s][i], p[i])
    <3>2. /\ row \in Take /\ row.slot = p[i] /\ row.by = takes[s][i].by
          /\ row.kind = takes[s][i].kind /\ row.status = takes[s][i].status
      BY <1>3, <3>1, Zenon
    <3> HIDE DEF new, row
    <3>3. new[i] = row
      BY <3>1 DEF row
    <3> QED BY <2>1, <3>2, <3>3
  <2>2. CASE ~(i <= Len(p))
    BY <1>4, <2>2
  <2> QED BY <2>1, <2>2
<1>6. new \in [1..Len(takes[s]) -> Take]
  <2> DEFINE e(i) == IF i <= Len(p) THEN Moved(takes[s][i], p[i]) ELSE takes[s][i]
  <2>1. new = [i \in 1..Len(takes[s]) |-> e(i)]
    BY Zenon DEF Renumbered
  <2>2. \A i \in 1..Len(takes[s]) : e(i) \in Take
    BY <1>3, <1>4
  <2> HIDE DEF e
  <2> QED BY <2>1, <2>2
<1> HIDE DEF new
<1>7. new \in Seq(Take) /\ Len(new) = Len(takes[s])
  <2>1. new \in Seq(Take)
    BY <1>1, <1>6, SeqDef
  <2>2. DOMAIN new = 1..Len(new) /\ DOMAIN new = 1..Len(takes[s]) /\ Len(new) \in Nat
    BY <1>6, <2>1
  <2> QED BY <1>1, <2>1, <2>2
<1>8. takes'[s] = new /\ takes' = [takes EXCEPT ![s] = new]
  BY DEF TakesOK, new
<1> QED BY <1>1, <1>5, <1>7, <1>8 DEF TakesOK

-----------------------------------------------------------------------------
(* The places of a scene's takes: bounded, workers' takes apart, a take in *)
(* the making above the rest, a pending reordering below what came later.  *)
Worker(s, i) == takes[s][i].by = "worker"
Bounded(s)  == \E b \in Nat : \A i \in DOMAIN takes[s] : takes[s][i].slot <= b
Apart(s)    == \A i, j \in DOMAIN takes[s] :
                 i # j /\ Worker(s, i) /\ Worker(s, j) => takes[s][i].slot # takes[s][j].slot
OnTop(s)    == open[s].by # "nobody" =>
                 /\ Len(takes[s]) <= open[s].slot
                 /\ \A i \in DOMAIN takes[s] : takes[s][i].slot < open[s].slot
Pending(s)  == order[s] # <<>> =>
                 /\ order[s] \in Places(Len(order[s])) /\ Len(order[s]) <= Len(takes[s])
                 /\ \A i \in DOMAIN takes[s] :
                      Len(order[s]) < i /\ Worker(s, i) => Len(order[s]) <= takes[s][i].slot
SlotsOK == \A s \in Scenes : Bounded(s) /\ Apart(s) /\ OnTop(s) /\ Pending(s)

(* The place a generation takes is above all others, and counts them.      *)
LEMMA NextIsAbove ==
    ASSUME TakesOK, NEW s \in Scenes, Bounded(s)
    PROVE  /\ NextSlot(s) \in Nat /\ Len(takes[s]) <= NextSlot(s)
           /\ \A i \in DOMAIN takes[s] : takes[s][i].slot < NextSlot(s)
           /\ UploadSlot(s) \in Nat
<1>1. takes[s] \in Seq(Take) /\ Len(takes[s]) \in Nat /\ DOMAIN takes[s] = 1..Len(takes[s])
  BY DEF TakesOK
<1>2. \A i \in DOMAIN takes[s] : takes[s][i].slot \in Nat
  <2> TAKE i \in DOMAIN takes[s]
  <2>1. takes[s][i] \in Take
    BY <1>1
  <2> QED BY <2>1 DEF Take
<1>3. AboveTop(s) \in Nat /\ \A i \in DOMAIN takes[s] : takes[s][i].slot < AboveTop(s)
  <2>1. CASE takes[s] = <<>>
    <3>1. Len(takes[s]) = 0
      BY <2>1
    <3>2. DOMAIN takes[s] = {}
      BY <1>1, <3>1
    <3> QED BY <2>1, <3>2 DEF AboveTop
  <2>2. CASE takes[s] # <<>>
    <3>1. Slots(s) \in SUBSET Nat
      BY <1>2 DEF Slots
    <3>2. 1 \in DOMAIN takes[s]
      BY <1>1, <2>2, EmptySeq
    <3>3. Slots(s) # {}
      BY <3>2 DEF Slots
    <3>4. PICK b \in Nat : \A n \in Slots(s) : n <= b
      BY DEF Bounded, Slots
    <3>5. \E m \in Slots(s) : \A n \in Slots(s) : n <= m
      BY <3>1, <3>3, <3>4, TopExists
    <3>6. Top(s) \in Slots(s) /\ \A n \in Slots(s) : n <= Top(s)
      BY <3>5, Zenon DEF Top
    <3>7. \A i \in DOMAIN takes[s] : takes[s][i].slot \in Slots(s)
      BY DEF Slots
    <3>8. Top(s) \in Nat /\ AboveTop(s) = Top(s) + 1
      BY <2>2, <3>1, <3>6 DEF AboveTop
    <3>9. \A i \in DOMAIN takes[s] : takes[s][i].slot <= Top(s)
      BY <3>6, <3>7
    <3> QED BY <1>2, <3>8, <3>9
  <2> QED BY <2>1, <2>2
<1> QED BY <1>1, <1>2, <1>3 DEF NextSlot, UploadSlot

-----------------------------------------------------------------------------
(* Types.                                                                  *)

LEMMA InitTypes == Init => TypeOK
<1> SUFFICES ASSUME Init PROVE TypeOK
  OBVIOUS
<1>1. 1 \in 1..Passes /\ 0 \in 0..Requests
  BY SceneTakesAssumption
<1>2. takes \in [Scenes -> Seq(Take)] /\ order \in [Scenes -> Seq(Nat)]
  BY EmptySeq DEF Init
<1>3. /\ open \in [Scenes -> [by : {"nobody", "run", "job"}, kind : Kinds, slot : Nat]]
      /\ tries \in [Kinds -> [Scenes -> Nat]] /\ fails \in [Kinds -> Nat]
      /\ lost \in [Scenes -> Nat]
  BY DEF Init, Closed, Kinds
<1> QED BY <1>1, <1>2, <1>3 DEF Init, TypeOK, Kinds

LEMMA ChunkIsPart ==
    ASSUME NEW from, NEW c \in Chunk(from)
    PROVE  c \subseteq from
  BY DEF Chunk

LEMMA AnswerTypes ==
    ASSUME TypeOK, NEW s \in Scenes, NEW result, open[s].by = "run", Answer(s, result)
    PROVE  /\ open' \in [Scenes -> [by : {"nobody", "run", "job"}, kind : Kinds, slot : Nat]]
           /\ run' \in [state : {"on", "stopped", "failed", "done"}, kind : Kinds,
                       pass : 1..Passes, todo : SUBSET Scenes, batch : SUBSET Scenes,
                       left : SUBSET Scenes, stage : {"fill", "force", "tally"},
                       missing : SUBSET Scenes]
           /\ tries' \in [Kinds -> [Scenes -> Nat]] /\ fails' \in [Kinds -> Nat]
<1>1. open[s].kind \in Kinds
  BY DEF TypeOK
<1>2. tries' \in [Kinds -> [Scenes -> Nat]] /\ fails' \in [Kinds -> Nat]
  <2>1. CASE result = "ok"
    BY <2>1 DEF Answer, TypeOK
  <2>2. CASE result # "ok"
    <3> DEFINE k == open[s].kind
               now == [tries[k] EXCEPT ![s] = tries[k][s] + 1]
    <3>1. k \in Kinds /\ tries[k] \in [Scenes -> Nat] /\ fails[k] \in Nat
      BY <1>1 DEF TypeOK
    <3>2. now \in [Scenes -> Nat]
      BY <3>1
    <3>3. tries' = [tries EXCEPT ![k] = now] /\ fails' = [fails EXCEPT ![k] = fails[k] + 1]
      BY <1>1, <2>2 DEF Answer, TypeOK
    <3> HIDE DEF now, k
    <3> QED BY <3>1, <3>2, <3>3 DEF TypeOK
  <2> QED BY <2>1, <2>2
<1>3. Closed \in [by : {"nobody", "run", "job"}, kind : Kinds, slot : Nat]
  BY DEF Closed, Kinds
<1> QED BY <1>2, <1>3 DEF Answer, TypeOK

LEMMA NextTypes ==
    ASSUME TypeOK, SlotsOK, [Next]_vars
    PROVE  TypeOK'
<1> USE DEF users, system
<1>a. TakesOK /\ \A s \in Scenes : Bounded(s)
  BY DEF TypeOK, TakesOK, SlotsOK
<1>b. Asks => asked' \in 0..Requests
  <2>1. asked \in Nat /\ Requests \in Nat
    BY SceneTakesAssumption DEF TypeOK
  <2> QED BY <2>1 DEF Asks
<1>1. CASE TakeUp
  <2>1. PICK b \in SUBSET run.todo :
          run' = [run EXCEPT !.batch = b, !.todo = run.todo \ b, !.stage = "fill", !.left = {}]
    BY <1>1 DEF TakeUp
  <2> QED BY <1>1, <2>1 DEF TakeUp, TypeOK
<1>2. CASE Fill
  BY <1>2, ChunkIsPart DEF Fill, Under, TypeOK
<1>3. CASE Filled
  BY <1>3 DEF Filled, Counted, TypeOK
<1>4. CASE Redo
  <2>1. PICK c \in Chunk(run.left) : want' = c /\ run' = [run EXCEPT !.left = @ \ c]
    BY <1>4, Zenon DEF Redo
  <2>2. c \subseteq run.left
    BY ChunkIsPart
  <2>3. UNCHANGED <<takes, open, tries, fails, lost, users>>
    BY <1>4, Zenon DEF Redo
  <2> QED BY <2>1, <2>2, <2>3 DEF TypeOK
<1>5. CASE AllForced
  BY <1>5 DEF AllForced, Counted, TypeOK
<1>6. CASE Retry
  <2>a. run.pass \in 1..Passes /\ Passes \in Nat
    BY SceneTakesAssumption, Zenon DEF TypeOK
  <2>b. run.pass < Passes
    BY <1>6, Zenon DEF Retry
  <2>1. run.pass + 1 \in 1..Passes
    BY <2>a, <2>b
  <2>2. run' \in [state : {"on", "stopped", "failed", "done"}, kind : Kinds, pass : 1..Passes,
                  todo : SUBSET Scenes, batch : SUBSET Scenes, left : SUBSET Scenes,
                  stage : {"fill", "force", "tally"}, missing : SUBSET Scenes]
    BY <1>6, <2>1 DEF Retry, TypeOK
  <2>3. UNCHANGED <<takes, open, want, tries, fails, lost, users>>
    BY <1>6, Zenon DEF Retry
  <2> QED BY <2>2, <2>3 DEF TypeOK
<1>7. CASE GiveUp
  BY <1>7 DEF GiveUp, TypeOK
<1>8. CASE StepOver
  <2>1. 1 \in 1..Passes
    BY SceneTakesAssumption
  <2> QED BY <1>8, <2>1 DEF StepOver, TypeOK, Kinds
<1>9. CASE Halt
  BY <1>9 DEF Halt, TypeOK
<1>10. ASSUME NEW s \in Scenes, Tally(s) PROVE TypeOK'
  BY <1>10 DEF Tally, TypeOK
<1>11. ASSUME NEW s \in Scenes, ThreadStops(s) PROVE TypeOK'
  BY <1>11 DEF ThreadStops, TypeOK
<1>12. ASSUME NEW s \in Scenes, Generate(s) PROVE TypeOK'
  <2>1. NextSlot(s) \in Nat
    BY <1>a, NextIsAbove
  <2> QED BY <1>12, <2>1 DEF Generate, TypeOK
<1>13. ASSUME NEW s \in Scenes, NEW status \in Statuses, NEW result, open[s].by = "run",
              Added(s, open[s].kind, status, open[s].slot, "worker"), Answer(s, result)
       PROVE  TypeOK'
  <2>1. takes' \in [Scenes -> Seq(Take)]
    BY <1>a, <1>13, AddedOne DEF TypeOK, TakesOK
  <2> QED BY <1>13, <2>1, AnswerTypes DEF Answer, TypeOK
<1>14. ASSUME NEW s \in Scenes, open[s].by = "run", UNCHANGED takes, Answer(s, "raised")
       PROVE  TypeOK'
  BY <1>14, AnswerTypes DEF Answer, TypeOK
<1>15. ASSUME NEW s \in Scenes, NEW k \in Kinds, JobStart(s, k) PROVE TypeOK'
  <2>1. NextSlot(s) \in Nat
    BY <1>a, NextIsAbove
  <2> QED BY <1>15, <2>1, <1>b DEF JobStart, TypeOK
<1>16. ASSUME NEW s \in Scenes, NEW status \in {"succeeded", "failed"}, JobEnds(s, status)
       PROVE TypeOK'
  <2>1. takes' \in [Scenes -> Seq(Take)]
    BY <1>a, <1>16, AddedOne DEF JobEnds, TypeOK, TakesOK, Statuses
  <2> QED BY <1>16, <2>1 DEF JobEnds, Closed, Kinds, TypeOK
<1>17. ASSUME NEW s \in Scenes, JobRaises(s) PROVE TypeOK'
  BY <1>17 DEF JobRaises, Closed, Kinds, TypeOK
<1>18. ASSUME NEW s \in Scenes, UploadPicks(s) PROVE TypeOK'
  <2>1. UploadSlot(s) \in Nat
    BY <1>a, NextIsAbove
  <2>2. asked \in Nat
    BY DEF TypeOK
  <2>3. upload' \subseteq [scene : Scenes, slot : Nat, nth : Nat]
    BY <1>18, <2>1, <2>2 DEF UploadPicks, TypeOK
  <2>4. asked' \in 0..Requests
    BY <1>18, <1>b DEF UploadPicks
  <2> QED BY <1>18, <2>3, <2>4 DEF UploadPicks, TypeOK
<1>19. ASSUME NEW u \in upload, NEW k \in Kinds, UploadInserts(u, k) PROVE TypeOK'
  <2>1. u.scene \in Scenes /\ u.slot \in Nat
    BY DEF TypeOK
  <2>2. takes' \in [Scenes -> Seq(Take)]
    BY <1>a, <1>19, <2>1, AddedOne DEF UploadInserts, TypeOK, TakesOK, Statuses
  <2> QED BY <1>19, <2>2 DEF UploadInserts, TypeOK
<1>20. ASSUME NEW s \in Scenes, NEW i \in DOMAIN takes[s], Reject(s, i) PROVE TypeOK'
  <2>1. takes' \in [Scenes -> Seq(Take)]
    BY <1>a, <1>20, ChangedOne DEF Reject, TakesOK, Statuses
  <2>2. lost' \in [Scenes -> Nat]
    BY <1>20 DEF Reject, TypeOK
  <2> QED BY <1>20, <2>1, <2>2, <1>b DEF Reject, TypeOK
<1>21. ASSUME NEW s \in Scenes, NEW i \in DOMAIN takes[s], Approve(s, i) PROVE TypeOK'
  <2>1. takes' \in [Scenes -> Seq(Take)]
    BY <1>a, <1>21, ChangedOne DEF Approve, TakesOK, Statuses
  <2> QED BY <1>21, <2>1, <1>b DEF Approve, TypeOK
<1>22. ASSUME NEW s \in Scenes, OrderReads(s) PROVE TypeOK'
  <2>1. takes[s] \in Seq(Take) /\ Len(takes[s]) \in Nat
    BY <1>a DEF TakesOK
  <2>2. \A p \in Places(Len(takes[s])) : p \in Seq(Nat)
    <3> TAKE p \in Places(Len(takes[s]))
    <3>1. p \in [1..Len(takes[s]) -> Nat]
      BY <2>1 DEF Places
    <3> QED BY <2>1, <3>1, SeqDef
  <2> QED BY <1>22, <2>2, <1>b DEF OrderReads, TypeOK
<1>23. ASSUME NEW s \in Scenes, OrderWrites(s) PROVE TypeOK'
  <2>1. order[s] \in Seq(Nat) /\ Len(order[s]) <= Len(takes[s])
    BY <1>23 DEF OrderWrites, SlotsOK, Pending, TypeOK
  <2>2. takes' \in [Scenes -> Seq(Take)]
    BY <1>a, <1>23, <2>1, RenumberedOne DEF OrderWrites, TakesOK
  <2> QED BY <1>23, <2>2 DEF OrderWrites, TypeOK
<1>24. CASE Stop
  BY <1>24, <1>b DEF Stop, TypeOK
<1>25. CASE UNCHANGED vars
  BY <1>25 DEF vars, TypeOK
<1>26. ASSUME NEW s \in Scenes, Succeed(s) \/ Refused(s) \/ Raised(s) PROVE TypeOK'
  BY <1>13, <1>14, <1>26, Zenon DEF Succeed, Refused, Raised, Statuses
<1>27. CASE RunStep
  BY <1>1, <1>2, <1>3, <1>4, <1>5, <1>6, <1>7, <1>8, <1>9, <1>10, <1>11, <1>12, <1>26,
     <1>27, Zenon DEF RunStep
<1>28. CASE UserStep
  BY <1>15, <1>16, <1>17, <1>18, <1>19, <1>20, <1>21, <1>22, <1>23, <1>24, <1>28, Zenon
     DEF UserStep
<1> QED BY <1>25, <1>27, <1>28 DEF Next

-----------------------------------------------------------------------------
(* Places.                                                                 *)

Sound(s) == Bounded(s) /\ Apart(s) /\ OnTop(s) /\ Pending(s)

(* A scene whose takes are left alone, and which is at most let go.        *)
LEMMA Unmoved ==
    ASSUME NEW s \in Scenes, Sound(s), takes'[s] = takes[s], order'[s] = order[s],
           open'[s] = open[s] \/ open'[s].by = "nobody"
    PROVE  Sound(s)'
<1>1. /\ \A i : Worker(s, i)' = Worker(s, i)
      /\ Bounded(s)' /\ Apart(s)'
  BY DEF Worker, Bounded, Apart, Sound
<1>2. OnTop(s)'
  BY DEF OnTop, Sound
<1>3. Pending(s)'
  BY <1>1 DEF Pending, Sound
<1> QED BY <1>1, <1>2, <1>3 DEF Sound

(* A new take: a worker's takes the place that was kept for it.            *)
LEMMA AddedSound ==
    ASSUME TypeOK, NEW s \in Scenes, Sound(s), NEW k \in Kinds, NEW status \in Statuses,
           NEW n \in Nat, NEW by \in {"worker", "user"}, Added(s, k, status, n, by),
           by = "worker" => open[s].by # "nobody" /\ n = open[s].slot,
           open'[s].by = "nobody", order'[s] = order[s]
    PROVE  Sound(s)'
<1> DEFINE len == Len(takes[s])
<1>1. TakesOK
  BY DEF TypeOK, TakesOK
<1>2. /\ takes[s] \in Seq(Take) /\ DOMAIN takes[s] = 1..len /\ len \in Nat
      /\ takes'[s] \in Seq(Take) /\ DOMAIN takes'[s] = 1..(len + 1)
  <2>1. takes'[s] \in Seq(Take) /\ Len(takes'[s]) = len + 1
    BY <1>1, AddedOne DEF TakesOK
  <2> QED BY <1>1, <2>1 DEF TakesOK
<1>3. \A i \in 1..len : takes'[s][i] = takes[s][i]
  BY <1>1, <1>2, AddedOne
<1>4. takes'[s][len + 1].slot = n /\ takes'[s][len + 1].by = by
  BY <1>1, AddedOne
<1>5. Len(takes'[s]) = len + 1
  BY <1>1, AddedOne
<1>6. \A i \in 1..len : takes[s][i].slot \in Nat
  <2> TAKE i \in 1..len
  <2>1. takes[s][i] \in Take
    BY <1>2
  <2> QED BY <2>1 DEF Take
<1>7. by = "worker" => len <= n /\ \A i \in 1..len : takes[s][i].slot < n
  BY <1>2 DEF Sound, OnTop
<1> HIDE DEF len
<1>8. \A i \in 1..(len + 1) : i \in 1..len \/ i = len + 1
  BY <1>2
<1>9. Bounded(s)'
  <2>1. PICK b \in Nat : \A i \in 1..len : takes[s][i].slot <= b
    BY <1>2 DEF Sound, Bounded
  <2>2. b + n \in Nat /\ \A i \in 1..(len + 1) : takes'[s][i].slot <= b + n
    BY <1>3, <1>4, <1>6, <1>8, <2>1
  <2> QED BY <1>2, <2>2 DEF Bounded
<1>10. Apart(s)'
  <2> SUFFICES ASSUME NEW i \in 1..(len + 1), NEW j \in 1..(len + 1), i # j,
                      takes'[s][i].by = "worker", takes'[s][j].by = "worker"
               PROVE  takes'[s][i].slot # takes'[s][j].slot
    BY <1>2 DEF Apart, Worker
  <2>1. CASE i \in 1..len /\ j \in 1..len
    BY <1>2, <1>3, <2>1 DEF Sound, Apart, Worker
  <2>2. CASE i = len + 1
    <3>1. j \in 1..len /\ by = "worker"
      BY <1>4, <1>8, <2>2
    <3> QED BY <1>3, <1>4, <1>6, <1>7, <2>2, <3>1
  <2>3. CASE j = len + 1
    <3>1. i \in 1..len /\ by = "worker"
      BY <1>4, <1>8, <2>3
    <3> QED BY <1>3, <1>4, <1>6, <1>7, <2>3, <3>1
  <2> QED BY <1>8, <2>1, <2>2, <2>3
<1>11. OnTop(s)'
  BY DEF OnTop
<1>12. Pending(s)'
  <2> SUFFICES ASSUME order[s] # <<>> PROVE Pending(s)'
    BY DEF Pending
  <2>1. /\ order[s] \in Places(Len(order[s])) /\ Len(order[s]) <= len
        /\ \A i \in 1..len : Len(order[s]) < i /\ Worker(s, i)
             => Len(order[s]) <= takes[s][i].slot
    BY <1>2 DEF Sound, Pending, len
  <2>2. Len(order[s]) \in Nat
    BY DEF TypeOK
  <2>3. Len(order[s]) <= len + 1
    BY <1>2, <2>1, <2>2
  <2>4. ASSUME NEW i \in 1..(len + 1), Len(order[s]) < i, takes'[s][i].by = "worker"
        PROVE  Len(order[s]) <= takes'[s][i].slot
    <3>1. CASE i \in 1..len
      BY <1>3, <2>1, <2>4, <3>1 DEF Worker
    <3>2. CASE i = len + 1
      <4>1. by = "worker" /\ len <= n
        BY <1>4, <1>7, <2>4, <3>2
      <4> QED BY <1>2, <1>4, <2>1, <2>2, <3>2, <4>1
    <3> QED BY <1>8, <3>1, <3>2
  <2> QED BY <1>2, <1>5, <2>1, <2>3, <2>4 DEF Pending, Worker
<1> QED BY <1>9, <1>10, <1>11, <1>12 DEF Sound

(* A take approved or rejected keeps its place.                            *)
LEMMA ChangedSound ==
    ASSUME TakesOK, NEW s \in Scenes, Sound(s), NEW i \in DOMAIN takes[s],
           NEW status \in Statuses, Changed(s, i, status),
           open'[s] = open[s], order'[s] = order[s]
    PROVE  Sound(s)'
<1>1. /\ takes'[s] \in Seq(Take) /\ takes[s] \in Seq(Take) /\ Len(takes'[s]) = Len(takes[s])
      /\ \A j \in DOMAIN takes[s] : /\ takes'[s][j].slot = takes[s][j].slot
                                    /\ takes'[s][j].by = takes[s][j].by
  BY ChangedOne DEF TakesOK
<1>2. DOMAIN takes'[s] = DOMAIN takes[s]
  BY <1>1
<1>3. Bounded(s)'
  BY <1>1, <1>2 DEF Sound, Bounded
<1>4. Apart(s)'
  BY <1>1, <1>2 DEF Sound, Apart, Worker
<1>5. OnTop(s)'
  BY <1>1, <1>2 DEF Sound, OnTop
<1>6. Pending(s)'
  BY <1>1, <1>2 DEF Sound, Pending, Worker
<1> QED BY <1>3, <1>4, <1>5, <1>6 DEF Sound

LEMMA PlacesFit ==
    ASSUME NEW n \in Nat, NEW p \in Places(n)
    PROVE  /\ \A i \in 1..n : p[i] \in Nat /\ p[i] < n
           /\ \A i, j \in 1..n : i # j => p[i] # p[j]
<1>1. /\ p \in [1..n -> 0..(n - 1)]
      /\ \A i, j \in 1..n : i # j => p[i] # p[j]
  BY DEF Places
<1> QED BY <1>1

(* A reordering puts what it read below its own length, and what came      *)
(* meanwhile from a worker is not below it.                                *)
LEMMA OrderedSound ==
    ASSUME TypeOK, NEW s \in Scenes, Sound(s), OrderWrites(s)
    PROVE  Sound(s)'
<1> DEFINE n == Len(order[s])
           p == order[s]
<1>1. TakesOK
  BY DEF TypeOK, TakesOK
<1>2. p \in Seq(Nat) /\ p # <<>> /\ n \in Nat
  BY DEF OrderWrites, TypeOK
<1>3. /\ p \in Places(n) /\ n <= Len(takes[s])
      /\ \A i \in DOMAIN takes[s] : n < i /\ Worker(s, i) => n <= takes[s][i].slot
  BY <1>2 DEF Sound, Pending
<1>4. /\ takes' = [takes EXCEPT ![s] = Renumbered(takes[s], p)]
      /\ order'[s] = <<>> /\ open' = open
  BY DEF OrderWrites, TypeOK
<1> HIDE DEF n, p
<1>5. /\ \A i \in 1..n : p[i] \in Nat /\ p[i] < n
      /\ \A i, j \in 1..n : i # j => p[i] # p[j]
  BY <1>2, <1>3, PlacesFit, Zenon
<1>6. /\ takes'[s] \in Seq(Take) /\ Len(takes'[s]) = Len(takes[s])
      /\ \A i \in DOMAIN takes[s] : takes'[s][i].by = takes[s][i].by
      /\ \A i \in DOMAIN takes[s] :
           takes'[s][i].slot = IF i <= n THEN p[i] ELSE takes[s][i].slot
  <2>1. Len(p) = n
    BY DEF n, p
  <2>2. Len(p) <= Len(takes[s])
    BY <1>3, <2>1
  <2>3. TakesOK'
    BY <1>1, <1>2, <1>4, <2>2, RenumberedOne, Zenon
  <2>4. /\ Len(takes'[s]) = Len(takes[s])
        /\ \A i \in DOMAIN takes[s] : takes'[s][i].by = takes[s][i].by
        /\ \A i \in DOMAIN takes[s] :
             takes'[s][i].slot = IF i <= Len(p) THEN p[i] ELSE takes[s][i].slot
    BY <1>1, <1>2, <1>4, <2>2, RenumberedOne, Zenon
  <2> QED BY <2>1, <2>3, <2>4 DEF TakesOK
<1>7. /\ takes[s] \in Seq(Take) /\ Len(takes[s]) \in Nat
      /\ DOMAIN takes[s] = 1..Len(takes[s]) /\ DOMAIN takes'[s] = DOMAIN takes[s]
  BY <1>1, <1>6 DEF TakesOK
<1>8. \A i \in DOMAIN takes[s] : /\ i \in Nat /\ takes[s][i].slot \in Nat
                                 /\ (i <= n => i \in 1..n)
  <2> TAKE i \in DOMAIN takes[s]
  <2>1. takes[s][i] \in Take /\ i \in Nat /\ (i <= n => i \in 1..n)
    BY <1>2, <1>7
  <2> QED BY <2>1 DEF Take
<1>9. Bounded(s)'
  <2>1. PICK b \in Nat : \A i \in DOMAIN takes[s] : takes[s][i].slot <= b
    BY DEF Sound, Bounded
  <2>2. b + n \in Nat
    BY <1>2
  <2>3. ASSUME NEW i \in DOMAIN takes[s] PROVE takes'[s][i].slot <= b + n
    <3>1. CASE i <= n
      <4>1. takes'[s][i].slot = p[i] /\ p[i] \in Nat /\ p[i] < n
        BY <1>5, <1>6, <1>8, <3>1
      <4> QED BY <1>2, <4>1
    <3>2. CASE ~(i <= n)
      <4>1. takes'[s][i].slot = takes[s][i].slot /\ takes[s][i].slot \in Nat
        BY <1>6, <1>8, <3>2
      <4> QED BY <1>2, <2>1, <4>1
    <3> QED BY <3>1, <3>2
  <2> QED BY <1>7, <2>2, <2>3 DEF Bounded
<1>10. Apart(s)'
  <2> SUFFICES ASSUME NEW i \in DOMAIN takes[s], NEW j \in DOMAIN takes[s], i # j,
                      Worker(s, i), Worker(s, j)
               PROVE  takes'[s][i].slot # takes'[s][j].slot
    BY <1>6, <1>7 DEF Apart, Worker
  <2>1. CASE i <= n /\ j <= n
    BY <1>5, <1>6, <1>8, <2>1
  <2>2. CASE i <= n /\ ~(j <= n)
    <3>1. takes'[s][i].slot = p[i] /\ p[i] \in Nat /\ p[i] < n
      BY <1>5, <1>6, <1>8, <2>2
    <3>2. takes'[s][j].slot = takes[s][j].slot /\ n <= takes[s][j].slot
      BY <1>2, <1>3, <1>6, <1>8, <2>2
    <3> QED BY <1>2, <1>8, <3>1, <3>2
  <2>3. CASE ~(i <= n) /\ j <= n
    <3>1. takes'[s][j].slot = p[j] /\ p[j] \in Nat /\ p[j] < n
      BY <1>5, <1>6, <1>8, <2>3
    <3>2. takes'[s][i].slot = takes[s][i].slot /\ n <= takes[s][i].slot
      BY <1>2, <1>3, <1>6, <1>8, <2>3
    <3> QED BY <1>2, <1>8, <3>1, <3>2
  <2>4. CASE ~(i <= n) /\ ~(j <= n)
    BY <1>6, <2>4 DEF Sound, Apart
  <2> QED BY <2>1, <2>2, <2>3, <2>4
<1>11. OnTop(s)'
  <2> SUFFICES ASSUME open[s].by # "nobody"
               PROVE  /\ Len(takes'[s]) <= open[s].slot
                      /\ \A i \in DOMAIN takes[s] : takes'[s][i].slot < open[s].slot
    BY <1>4, <1>7 DEF OnTop
  <2>1. /\ Len(takes[s]) <= open[s].slot /\ open[s].slot \in Nat
        /\ \A i \in DOMAIN takes[s] : takes[s][i].slot < open[s].slot
    BY DEF Sound, OnTop, TypeOK
  <2>2. n <= open[s].slot
    BY <1>2, <1>3, <1>7, <2>1
  <2>3. ASSUME NEW i \in DOMAIN takes[s] PROVE takes'[s][i].slot < open[s].slot
    <3>1. CASE i <= n
      BY <1>2, <1>5, <1>6, <1>8, <2>1, <2>2, <3>1
    <3>2. CASE ~(i <= n)
      BY <1>6, <2>1, <3>2
    <3> QED BY <3>1, <3>2
  <2> QED BY <1>6, <2>1, <2>3
<1>12. Pending(s)'
  BY <1>4 DEF Pending
<1> QED BY <1>9, <1>10, <1>11, <1>12 DEF Sound

LEMMA InitSlots == Init => SlotsOK
<1> SUFFICES ASSUME Init, NEW s \in Scenes PROVE Sound(s)
  BY DEF SlotsOK, Sound
<1>1. takes[s] = <<>> /\ order[s] = <<>> /\ open[s].by = "nobody"
  BY DEF Init, Closed
<1>2. DOMAIN takes[s] = {}
  BY <1>1
<1>3. \E b \in Nat : \A i \in DOMAIN takes[s] : takes[s][i].slot <= b
  BY <1>2
<1> QED BY <1>1, <1>2, <1>3 DEF Sound, Bounded, Apart, OnTop, Pending

LEMMA SlotsKept ==
    ASSUME TypeOK, SlotsOK, [Next]_vars
    PROVE  SlotsOK'
<1> USE DEF users, system
<1>a. TakesOK /\ \A s \in Scenes : Sound(s)
  BY DEF TypeOK, TakesOK, SlotsOK, Sound
<1> SUFFICES ASSUME NEW t \in Scenes PROVE Sound(t)'
  BY DEF SlotsOK, Sound
<1>b. Sound(t)
  BY <1>a
<1>c. UNCHANGED <<takes, open, order>> => Sound(t)'
  BY <1>b, Unmoved
<1>d. ASSUME NEW s \in Scenes, s # t, \A u \in Scenes \ {s} : takes'[u] = takes[u],
             \A u \in Scenes \ {s} : open'[u] = open[u],
             \A u \in Scenes \ {s} : order'[u] = order[u]
      PROVE  Sound(t)'
  <2>1. takes'[t] = takes[t] /\ open'[t] = open[t] /\ order'[t] = order[t]
    BY <1>d
  <2> QED BY <1>b, <2>1, Unmoved
<1>1. CASE TakeUp \/ Fill \/ Filled \/ Redo \/ AllForced
  BY <1>c, <1>1 DEF TakeUp, Fill, Filled, Redo, AllForced
<1>2. CASE Retry \/ GiveUp \/ StepOver \/ Halt \/ Stop
  BY <1>c, <1>2 DEF Retry, GiveUp, StepOver, Halt, Stop
<1>3. ASSUME NEW s \in Scenes, Tally(s) \/ ThreadStops(s) \/ UploadPicks(s) PROVE Sound(t)'
  BY <1>c, <1>3 DEF Tally, ThreadStops, UploadPicks
(* Somebody gets the row of s, and the place above all others.             *)
<1>4. ASSUME NEW s \in Scenes, NEW k \in Kinds, NEW by \in {"run", "job"},
             open' = [open EXCEPT ![s] = [by |-> by, kind |-> k, slot |-> NextSlot(s)]],
             takes' = takes, order' = order
      PROVE  Sound(t)'
  <2>1. CASE s # t
    BY <1>d, <1>4, <2>1 DEF TypeOK
  <2>2. CASE s = t
    <3>1. /\ Len(takes[s]) <= NextSlot(s)
          /\ \A i \in DOMAIN takes[s] : takes[s][i].slot < NextSlot(s)
      BY <1>a, NextIsAbove DEF Sound
    <3>2. open'[s].slot = NextSlot(s)
      BY <1>4 DEF TypeOK
    <3>3. OnTop(s)'
      BY <1>4, <3>1, <3>2 DEF OnTop
    <3>4. Bounded(s)' /\ Apart(s)' /\ Pending(s)'
      BY <1>a, <1>4 DEF Sound, Bounded, Apart, Pending, Worker
    <3> QED BY <2>2, <3>3, <3>4 DEF Sound
  <2> QED BY <2>1, <2>2
<1>5. ASSUME NEW s \in Scenes, Generate(s) PROVE Sound(t)'
  <2>1. run.kind \in Kinds
    BY DEF TypeOK
  <2> QED BY <1>4, <1>5, <2>1 DEF Generate
<1>6. ASSUME NEW s \in Scenes, NEW k \in Kinds, JobStart(s, k) PROVE Sound(t)'
  BY <1>4, <1>6 DEF JobStart
(* The take is committed and the row let go, or let go with nothing.       *)
<1>7. ASSUME NEW s \in Scenes, NEW status \in Statuses, open[s].by # "nobody",
             Added(s, open[s].kind, status, open[s].slot, "worker"),
             open' = [open EXCEPT ![s] = Closed], order' = order
      PROVE  Sound(t)'
  <2>1. open[s].kind \in Kinds /\ open[s].slot \in Nat /\ open'[s].by = "nobody"
    BY <1>7 DEF TypeOK, Closed
  <2>2. CASE s = t
    BY <1>b, <1>7, <2>1, <2>2, AddedSound
  <2>3. CASE s # t
    <3>1. \A u \in Scenes \ {s} : takes'[u] = takes[u]
      BY <1>a, <1>7, <2>1, AddedOne
    <3> QED BY <1>d, <1>7, <2>3, <3>1 DEF TypeOK
  <2> QED BY <2>2, <2>3
<1>8. ASSUME NEW s \in Scenes, takes' = takes, open' = [open EXCEPT ![s] = Closed],
             order' = order
      PROVE  Sound(t)'
  <2>1. open'[t] = open[t] \/ open'[t].by = "nobody"
    BY <1>8 DEF TypeOK, Closed
  <2> QED BY <1>b, <1>8, <2>1, Unmoved
<1>9. ASSUME NEW s \in Scenes, Succeed(s) \/ Refused(s) \/ Raised(s) PROVE Sound(t)'
  <2>1. /\ open[s].by # "nobody" /\ order' = order
        /\ open' = [open EXCEPT ![s] = Closed]
        /\ \/ takes' = takes
           \/ \E status \in Statuses :
                Added(s, open[s].kind, status, open[s].slot, "worker")
    BY <1>9 DEF Succeed, Refused, Raised, Answer, Statuses
  <2> QED BY <1>7, <1>8, <2>1
<1>10. ASSUME NEW s \in Scenes, NEW status \in {"succeeded", "failed"}, JobEnds(s, status)
       PROVE  Sound(t)'
  BY <1>7, <1>10 DEF JobEnds, Statuses
<1>11. ASSUME NEW s \in Scenes, JobRaises(s) PROVE Sound(t)'
  BY <1>8, <1>11 DEF JobRaises
<1>12. ASSUME NEW u \in upload, NEW k \in Kinds, UploadInserts(u, k) PROVE Sound(t)'
  <2>1. u.scene \in Scenes /\ u.slot \in Nat
    BY DEF TypeOK
  <2>2. /\ Added(u.scene, k, "succeeded", u.slot, "user") /\ open[u.scene].by = "nobody"
        /\ open' = open /\ order' = order
    BY <1>12 DEF UploadInserts, Free
  <2>3. CASE u.scene = t
    BY <1>b, <2>1, <2>2, <2>3, AddedSound DEF Statuses
  <2>4. CASE u.scene # t
    <3>1. \A v \in Scenes \ {u.scene} : takes'[v] = takes[v]
      BY <1>a, <2>1, <2>2, AddedOne DEF Statuses
    <3> QED BY <1>d, <2>1, <2>2, <2>4, <3>1
  <2> QED BY <2>3, <2>4
<1>13. ASSUME NEW s \in Scenes, NEW i \in DOMAIN takes[s], NEW status \in Statuses,
              Changed(s, i, status), open' = open, order' = order
       PROVE  Sound(t)'
  <2>1. CASE s = t
    BY <1>a, <1>13, <2>1, ChangedSound
  <2>2. CASE s # t
    <3>1. \A u \in Scenes \ {s} : takes'[u] = takes[u]
      BY <1>a, <1>13, ChangedOne
    <3> QED BY <1>d, <1>13, <2>2, <3>1
  <2> QED BY <2>1, <2>2
<1>14. ASSUME NEW s \in Scenes, NEW i \in DOMAIN takes[s], Reject(s, i) \/ Approve(s, i)
       PROVE  Sound(t)'
  <2>1. open' = open /\ order' = order
    BY <1>14 DEF Reject, Approve
  <2>2. \E status \in Statuses : Changed(s, i, status)
    BY <1>14 DEF Reject, Approve, Statuses
  <2> QED BY <1>13, <2>1, <2>2
<1>15. ASSUME NEW s \in Scenes, OrderReads(s) PROVE Sound(t)'
  <2>1. PICK p \in Places(Len(takes[s])) : order' = [order EXCEPT ![s] = p]
    BY <1>15 DEF OrderReads
  <2>2. takes' = takes /\ open' = open
    BY <1>15 DEF OrderReads
  <2>3. CASE s # t
    BY <1>d, <2>1, <2>2, <2>3 DEF TypeOK
  <2>4. CASE s = t
    <3> DEFINE n == Len(takes[s])
    <3>1. /\ n \in Nat /\ DOMAIN takes[s] = 1..n /\ order'[s] = p
      BY <1>a, <2>1 DEF TakesOK, TypeOK
    <3>2. Len(p) = n
      <4>1. p \in [1..n -> Nat]
        BY <3>1 DEF Places
      <4>2. p \in Seq(Nat) /\ DOMAIN p = 1..n
        BY <3>1, <4>1, SeqDef
      <4>3. DOMAIN p = 1..Len(p) /\ Len(p) \in Nat
        BY <4>2
      <4> QED BY <3>1, <4>2, <4>3
    <3>3. \A i \in DOMAIN takes[s] : ~(n < i)
      BY <3>1
    <3>4. n <= n
      BY <3>1
    <3> HIDE DEF n
    <3>5. p \in Places(n) /\ Len(takes[s]) = n
      BY DEF n
    <3>6. Pending(s)'
      BY <2>2, <3>1, <3>2, <3>3, <3>4, <3>5 DEF Pending
    <3>7. Bounded(s)' /\ Apart(s)' /\ OnTop(s)'
      BY <1>a, <2>2 DEF Sound, Bounded, Apart, OnTop, Worker
    <3> QED BY <2>4, <3>6, <3>7 DEF Sound
  <2> QED BY <2>3, <2>4
<1>16. ASSUME NEW s \in Scenes, OrderWrites(s) PROVE Sound(t)'
  <2>1. CASE s = t
    BY <1>b, <1>16, <2>1, OrderedSound
  <2>2. CASE s # t
    BY <1>d, <1>16, <2>2 DEF OrderWrites, TypeOK
  <2> QED BY <2>1, <2>2
<1>17. CASE UNCHANGED vars
  BY <1>c, <1>17 DEF vars
<1>18. CASE RunStep
  BY <1>1, <1>2, <1>3, <1>5, <1>9, <1>18, Zenon DEF RunStep
<1>19. CASE UserStep
  BY <1>2, <1>3, <1>6, <1>10, <1>11, <1>12, <1>14, <1>15, <1>16, <1>19, Zenon DEF UserStep
<1> QED BY <1>17, <1>18, <1>19 DEF Next

LEMMA Invariants == Spec => [](TypeOK /\ SlotsOK)
<1>1. Init => TypeOK /\ SlotsOK
  BY InitTypes, InitSlots
<1>2. TypeOK /\ SlotsOK /\ [Next]_vars => (TypeOK /\ SlotsOK)'
  BY NextTypes, SlotsKept
<1> QED BY <1>1, <1>2, PTL DEF Spec

(* Every variable keeps its type (tasks/agent_impl.py, phase3_impl.py).    *)
THEOREM TypeCorrect == Spec => []TypeOK
  BY Invariants, PTL

(* Two takes that workers made of one scene never have the same place      *)
(* (tasks/worker_helpers.py, _next_scene_timeline_slot, under the row      *)
(* lock), however many scenes, takes, uploads and reorderings there are.   *)
THEOREM SlotsApart == Spec => []GeneratedSlotsDiffer
<1>1. SlotsOK => GeneratedSlotsDiffer
  BY DEF SlotsOK, Apart, Worker, GeneratedSlotsDiffer
<1> QED BY <1>1, Invariants, PTL

-----------------------------------------------------------------------------
(* How often a still is tried.                                             *)

(* Tries are at most the passes, fewer for whoever may be tried again in   *)
(* this one; a try in the making is of the step's kind; the scenes whose   *)
(* forced take is left have not been missed; nothing is in the making      *)
(* between two scenes and while they are counted.                          *)
InHand(s) == s \in want \/ open[s].by = "run"
Cap     == IF run.kind = "still" THEN run.pass ELSE Passes
Tried   == \A s \in Scenes : tries["still"][s] <= Cap
MayTry  == run.kind = "still" => \A s \in Scenes :
             InHand(s) \/ (run.state = "on" /\ s \notin run.missing)
               => tries["still"][s] < run.pass
OfKind  == \A s \in Scenes : open[s].by = "run" => open[s].kind = run.kind /\ s \notin want
LeftOver == run.stage = "force" => \A s \in run.left : s \notin run.missing /\ ~InHand(s)
Between == run.state = "on" /\ (run.batch = {} \/ run.stage = "tally") => Quiet
Capped  == Tried /\ MayTry /\ OfKind /\ LeftOver /\ Between

LEMMA InitCapped == Init => Capped
<1> SUFFICES ASSUME Init PROVE Capped
  OBVIOUS
<1>1. \A s \in Scenes : tries["still"][s] = 0 /\ open[s].by = "nobody" /\ s \notin want
  BY DEF Init, Closed, Kinds
<1>2. run.kind = "still" /\ run.pass = 1 /\ run.stage = "fill" /\ want = {}
  BY DEF Init
<1> QED BY <1>1, <1>2 DEF Capped, Tried, Cap, MayTry, InHand, OfKind, LeftOver, Between, Quiet

(* A step of the run that only moves on to other scenes.                   *)
LEMMA RunMoves ==
    ASSUME TypeOK, Capped, run'.kind = run.kind, run'.pass = run.pass,
           UNCHANGED <<open, tries>>,
           run'.state = "on" => run.state = "on" /\ run.missing \subseteq run'.missing,
           \A s \in want' : s \in want \/ (run.state = "on" /\ s \in Scenes \ run.missing
                                             /\ open[s].by # "run"),
           LeftOver', Between'
    PROVE  Capped'
<1>1. Tried'
  BY DEF Capped, Tried, Cap
<1>2. MayTry'
  BY DEF Capped, MayTry, InHand
<1>3. OfKind'
  BY DEF Capped, OfKind
<1> QED BY <1>1, <1>2, <1>3 DEF Capped

(* A step of somebody else.                                                *)
LEMMA OthersMove ==
    ASSUME TypeOK, Capped, UNCHANGED <<run, want, tries>>,
           \A s \in Scenes : open'[s] = open[s] \/ open'[s].by # "run"
    PROVE  Capped'
<1>1. \A s \in Scenes : InHand(s)' => InHand(s)
  BY DEF InHand
<1>2. Quiet => Quiet'
  BY DEF Quiet
<1>3. Tried' /\ MayTry' /\ OfKind'
  BY <1>1 DEF Capped, Tried, Cap, MayTry, OfKind
<1>4. LeftOver'
  <2>1. \A s \in run.left : s \in Scenes
    BY DEF TypeOK
  <2> QED BY <1>1, <2>1 DEF Capped, LeftOver
<1>5. Between'
  BY <1>2 DEF Capped, Between
<1> QED BY <1>3, <1>4, <1>5 DEF Capped

(* The answer of a generation, of whatever result.                         *)
LEMMA AnswerCapped ==
    ASSUME TypeOK, Capped, NEW s \in Scenes, open[s].by = "run", NEW result,
           Answer(s, result)
    PROVE  Capped'
<1>1. /\ open[s].kind = run.kind /\ s \notin want /\ InHand(s) /\ ~Quiet
      /\ run.kind \in Kinds /\ run.pass \in Nat /\ Passes \in Nat
  BY SceneTakesAssumption DEF Capped, OfKind, InHand, Quiet, TypeOK
<1>2. /\ open' = [open EXCEPT ![s] = Closed] /\ want' = want
      /\ open'[s].by = "nobody" /\ \A t \in Scenes \ {s} : open'[t] = open[t]
  BY DEF Answer, Closed, TypeOK
<1>3. /\ run'.kind = run.kind /\ run'.pass = run.pass /\ run'.stage = run.stage
      /\ run'.state = run.state /\ run'.batch = run.batch /\ run'.left = run.left
      /\ run.missing \subseteq run'.missing /\ run'.missing \subseteq run.missing \cup {s}
      /\ run.state = "on" /\ Missed(run.kind, result) => s \in run'.missing
  BY DEF Answer, TypeOK
<1>4. \A t \in Scenes : InHand(t)' => InHand(t) /\ t # s
  BY <1>1, <1>2 DEF InHand
<1>5. \A t \in Scenes \ {s} : tries'["still"][t] = tries["still"][t]
  BY <1>1 DEF Answer, TypeOK, Kinds
<1>6. run.kind = "clip" \/ result = "ok" => tries'["still"] = tries["still"]
  BY <1>1 DEF Answer, TypeOK, Kinds
<1>7. run.kind = "still" /\ result # "ok" =>
        tries'["still"][s] = tries["still"][s] + 1 /\ Missed(run.kind, result)
  BY <1>1 DEF Answer, TypeOK, Kinds, Missed
<1>8. \A t \in Scenes : tries["still"][t] \in Nat
  BY DEF TypeOK, Kinds
<1>9. run.kind = "still" => tries["still"][s] < run.pass
  BY <1>1 DEF Capped, MayTry
<1>10. Tried'
  <2> SUFFICES ASSUME NEW t \in Scenes PROVE tries'["still"][t] <= Cap'
    BY DEF Tried
  <2>1. Cap' = Cap /\ tries["still"][t] <= Cap
    BY <1>3 DEF Capped, Tried, Cap
  <2>2. CASE t # s
    BY <1>5, <2>1, <2>2
  <2>3. CASE run.kind = "clip" \/ result = "ok"
    BY <1>6, <2>1, <2>3
  <2>4. CASE t = s /\ run.kind = "still" /\ result # "ok"
    BY <1>1, <1>7, <1>8, <1>9, <2>1, <2>4 DEF Cap
  <2> QED BY <1>1, <2>2, <2>3, <2>4 DEF Kinds
<1>11. MayTry'
  <2> SUFFICES ASSUME run.kind = "still", NEW t \in Scenes,
                      InHand(t)' \/ (run.state = "on" /\ t \notin run'.missing)
               PROVE  tries'["still"][t] < run.pass
    BY <1>3 DEF MayTry
  <2>1. CASE t # s
    BY <1>3, <1>4, <1>5, <2>1 DEF Capped, MayTry
  <2>2. CASE t = s
    <3>1. result = "ok"
      BY <1>3, <1>4, <1>7, <2>2
    <3> QED BY <1>6, <1>9, <2>2, <3>1
  <2> QED BY <2>1, <2>2
<1>12. OfKind'
  BY <1>2, <1>3 DEF Capped, OfKind
<1>13. LeftOver'
  <2>1. \A t \in run.left : t \in Scenes
    BY DEF TypeOK
  <2> QED BY <1>1, <1>3, <1>4, <2>1 DEF Capped, LeftOver
<1>14. Between'
  BY <1>1, <1>3 DEF Capped, Between
<1> QED BY <1>10, <1>11, <1>12, <1>13, <1>14 DEF Capped

LEMMA CappedKept ==
    ASSUME TypeOK, Capped, [Next]_vars
    PROVE  Capped'
<1> USE DEF users, system
<1>a. /\ run.kind \in Kinds /\ run.pass \in Nat /\ Passes \in Nat /\ run.pass <= Passes
      /\ \A s \in Scenes : tries["still"][s] \in Nat
      /\ run.batch \subseteq Scenes /\ run.missing \subseteq Scenes /\ run.left \subseteq Scenes
  BY SceneTakesAssumption DEF TypeOK, Kinds
<1>b. \A s \in Scenes : Quiet => ~InHand(s)
  BY DEF Quiet, InHand
<1>1. CASE TakeUp
  <2>1. PICK b \in SUBSET run.todo : /\ b # {}
          /\ run' = [run EXCEPT !.batch = b, !.todo = run.todo \ b, !.stage = "fill", !.left = {}]
    BY <1>1 DEF TakeUp
  <2>2. /\ run'.kind = run.kind /\ run'.pass = run.pass /\ run'.state = run.state
        /\ run'.missing = run.missing /\ run'.batch # {} /\ run'.stage = "fill"
    BY <2>1 DEF TypeOK
  <2>3. UNCHANGED <<open, want, tries>>
    BY <1>1 DEF TakeUp
  <2>4. LeftOver' /\ Between'
    BY <2>2 DEF LeftOver, Between
  <2> QED BY <2>2, <2>3, <2>4, RunMoves
<1>2. CASE Fill
  <2>1. /\ UNCHANGED <<open, run, tries>> /\ want' \subseteq run.batch \ run.missing
        /\ run.state = "on" /\ run.batch # {} /\ run.stage = "fill" /\ Quiet
    BY <1>2, ChunkIsPart DEF Fill, Under, On
  <2>2. LeftOver' /\ Between'
    BY <2>1 DEF LeftOver, Between
  <2>3. \A s \in want' : run.state = "on" /\ s \in Scenes \ run.missing /\ open[s].by # "run"
    BY <1>a, <2>1 DEF Quiet
  <2> QED BY <2>1, <2>2, <2>3, RunMoves
<1>3. CASE Filled \/ AllForced
  <2>1. /\ UNCHANGED <<open, want, tries>> /\ Quiet
        /\ \/ run' = [run EXCEPT !.stage = "force", !.left = run.batch \ run.missing]
           \/ run' = Counted(run)
    BY <1>3 DEF Filled, AllForced
  <2>2. run.state = "on" /\ run.batch # {}
    BY <1>3 DEF Filled, AllForced, On
  <2>3. /\ run'.kind = run.kind /\ run'.pass = run.pass /\ run'.state = run.state
        /\ run'.missing = run.missing
        /\ \/ run'.stage = "force" /\ run'.left = run.batch \ run.missing
           \/ run'.stage = "tally"
    BY <2>1 DEF TypeOK, Counted
  <2>4. Quiet' /\ \A s \in Scenes : ~InHand(s)'
    BY <1>b, <2>1 DEF Quiet, InHand
  <2>5. LeftOver' /\ Between'
    BY <1>a, <2>3, <2>4 DEF LeftOver, Between
  <2> QED BY <2>1, <2>3, <2>5, RunMoves
<1>4. CASE Redo
  <2>1. PICK c \in Chunk(run.left) : want' = c /\ run' = [run EXCEPT !.left = run.left \ c]
    BY <1>4, Zenon DEF Redo
  <2>2. /\ UNCHANGED <<open, tries>> /\ Quiet /\ c \subseteq run.left
        /\ run.state = "on" /\ run.batch # {} /\ run.stage = "force"
    BY <1>4, ChunkIsPart DEF Redo, On
  <2>3. /\ run'.kind = run.kind /\ run'.pass = run.pass /\ run'.state = run.state
        /\ run'.missing = run.missing /\ run'.stage = run.stage /\ run'.batch = run.batch
        /\ run'.left = run.left \ c
    BY <2>1 DEF TypeOK
  <2>4. \A s \in run.left : s \in Scenes \ run.missing /\ open[s].by # "run"
    BY <1>a, <2>2 DEF Capped, LeftOver, InHand
  <2>5. \A s \in run'.left : s \notin run'.missing /\ ~InHand(s)'
    BY <2>1, <2>2, <2>3, <2>4 DEF InHand
  <2>6. LeftOver' /\ Between'
    BY <2>2, <2>3, <2>5 DEF LeftOver, Between
  <2> QED BY <2>1, <2>2, <2>3, <2>4, <2>6, RunMoves
<1>5. CASE GiveUp \/ Halt \/ \E s \in Scenes : ThreadStops(s)
  <2>1. /\ UNCHANGED <<open, tries>> /\ want' \subseteq want
        /\ run'.kind = run.kind /\ run'.pass = run.pass /\ run'.state # "on"
        /\ run'.missing = run.missing /\ run'.stage = run.stage /\ run'.left = run.left
    BY <1>5 DEF GiveUp, Halt, ThreadStops, TypeOK
  <2>2. LeftOver' /\ Between'
    BY <2>1 DEF Capped, LeftOver, Between, InHand
  <2> QED BY <2>1, <2>2, RunMoves
<1>6. ASSUME NEW s \in Scenes, Tally(s) PROVE Capped'
  <2>1. /\ UNCHANGED <<open, want, tries>> /\ run.state = "on" /\ run.stage = "tally"
        /\ run'.kind = run.kind /\ run'.pass = run.pass /\ run'.state = run.state
        /\ run.missing \subseteq run'.missing /\ run'.stage = "tally"
    BY <1>6 DEF Tally, On, TypeOK
  <2>2. Quiet /\ Quiet'
    BY <2>1 DEF Capped, Between, Quiet
  <2>3. LeftOver' /\ Between'
    BY <2>1, <2>2 DEF LeftOver, Between
  <2> QED BY <2>1, <2>3, RunMoves
(* A new pass, or the clips: nothing is in the making.                     *)
<1>7. CASE Retry \/ StepOver
  <2>1. /\ UNCHANGED <<open, want, tries>> /\ run.state = "on" /\ run.batch = {}
        /\ run'.stage = run.stage /\ run'.left = run.left /\ run'.missing = {}
    BY <1>7 DEF Retry, StepOver, PassOver, TypeOK
  <2>2. Quiet /\ Quiet' /\ \A s \in Scenes : ~InHand(s) /\ ~InHand(s)'
    BY <1>b, <2>1 DEF Capped, Between, Quiet, InHand
  <2>3. \A s \in Scenes : tries["still"][s] <= Cap
    BY DEF Capped, Tried
  <2>4. Cap <= Passes
    BY <1>a DEF Cap
  <2>5. run'.kind = "still" => run.kind = "still" /\ run'.pass = run.pass + 1
    BY <1>7 DEF Retry, StepOver, TypeOK
  <2>5a. run'.kind \in Kinds /\ (run'.kind # "still" => Cap' = Passes)
    BY <1>7, <1>a DEF Retry, StepOver, TypeOK, Kinds, Cap
  <2>6. Tried' /\ MayTry'
    <3>1. CASE run'.kind = "still"
      <4>1. \A s \in Scenes : tries["still"][s] <= run.pass
        BY <2>3, <2>5, <3>1 DEF Cap
      <4>2. \A s \in Scenes : tries["still"][s] < run.pass + 1
        BY <1>a, <4>1
      <4>3. Cap' = run.pass + 1 /\ tries' = tries
        BY <2>1, <2>5, <3>1 DEF Cap
      <4>4. \A s \in Scenes : tries["still"][s] <= run.pass + 1
        BY <1>a, <4>2
      <4> QED BY <2>5, <3>1, <4>2, <4>3, <4>4 DEF Tried, MayTry
    <3>2. CASE run'.kind # "still"
      <4>1. \A s \in Scenes : tries["still"][s] <= Passes
        BY <1>a, <2>3 DEF Cap
      <4> QED BY <2>1, <2>5a, <3>2, <4>1 DEF Tried, MayTry
    <3> QED BY <3>1, <3>2
  <2>7. OfKind'
    BY <2>2 DEF OfKind, InHand
  <2>8. \A s \in run'.left : s \in Scenes
    BY <1>a, <2>1
  <2>9. LeftOver' /\ Between'
    BY <2>1, <2>2, <2>8 DEF LeftOver, Between
  <2> QED BY <2>6, <2>7, <2>9 DEF Capped
<1>8. ASSUME NEW s \in Scenes, Generate(s) PROVE Capped'
  <2>1. /\ UNCHANGED <<run, tries>> /\ s \in want /\ want' = want \ {s}
        /\ open'[s].kind = run.kind /\ \A t \in Scenes \ {s} : open'[t] = open[t]
    BY <1>8 DEF Generate, TypeOK
  <2>2. ~Quiet /\ \A t \in Scenes : InHand(t)' => InHand(t)
    BY <2>1 DEF Quiet, InHand
  <2>3. Tried' /\ MayTry'
    BY <2>1, <2>2 DEF Capped, Tried, Cap, MayTry
  <2>4. OfKind'
    BY <2>1 DEF Capped, OfKind
  <2>5. LeftOver' /\ Between'
    BY <1>a, <2>1, <2>2 DEF Capped, LeftOver, Between
  <2> QED BY <2>3, <2>4, <2>5 DEF Capped
<1>9. ASSUME NEW s \in Scenes, Succeed(s) \/ Refused(s) \/ Raised(s) PROVE Capped'
  BY <1>9, AnswerCapped DEF Succeed, Refused, Raised
<1>10. CASE UNCHANGED <<run, want, tries, open>>
  BY <1>10, OthersMove
<1>11. ASSUME NEW s \in Scenes, NEW k \in Kinds, JobStart(s, k) PROVE Capped'
  <2>1. \A t \in Scenes : open'[t] = open[t] \/ open'[t].by # "run"
    BY <1>11 DEF JobStart, TypeOK
  <2> QED BY <1>11, <2>1, OthersMove DEF JobStart
<1>12. ASSUME NEW s \in Scenes,
              JobRaises(s) \/ \E status \in {"succeeded", "failed"} : JobEnds(s, status)
       PROVE  Capped'
  <2>1. /\ open' = [open EXCEPT ![s] = Closed]
        /\ UNCHANGED <<run, want, tries>>
    BY <1>12, Zenon DEF JobEnds, JobRaises
  <2>2. \A t \in Scenes : open'[t] = open[t] \/ open'[t].by # "run"
    BY <2>1 DEF Closed, TypeOK
  <2> QED BY <2>1, <2>2, OthersMove
<1>13. ASSUME NEW s \in Scenes, UploadPicks(s) \/ OrderReads(s) \/ OrderWrites(s)
       PROVE  Capped'
  BY <1>10, <1>13 DEF UploadPicks, OrderReads, OrderWrites
<1>14. ASSUME NEW s \in Scenes, NEW i \in DOMAIN takes[s], Reject(s, i) \/ Approve(s, i)
       PROVE  Capped'
  BY <1>10, <1>14 DEF Reject, Approve
<1>15. ASSUME NEW u \in upload, NEW k \in Kinds, UploadInserts(u, k) PROVE Capped'
  BY <1>10, <1>15 DEF UploadInserts
<1>16. CASE Stop \/ UNCHANGED vars
  BY <1>10, <1>16 DEF Stop, vars
<1>17. CASE RunStep
  BY <1>1, <1>2, <1>3, <1>4, <1>5, <1>6, <1>7, <1>8, <1>9, <1>17, Zenon DEF RunStep
<1>18. CASE UserStep
  BY <1>11, <1>12, <1>13, <1>14, <1>15, <1>16, <1>18, Zenon DEF UserStep
<1> QED BY <1>16, <1>17, <1>18 DEF Next

(* However the provider fails, a scene's still is tried and missed once a  *)
(* pass at most (tasks/agent_impl.py, the image pass and its retry cap).   *)
THEOREM StillsCapped == Spec => []StillTriesAreCapped
<1>1. Capped /\ TypeOK => StillTriesAreCapped
  <2> SUFFICES ASSUME Capped, TypeOK, NEW s \in Scenes PROVE tries["still"][s] <= Passes
    BY DEF StillTriesAreCapped
  <2>1. tries["still"][s] \in Nat /\ run.pass \in Nat /\ run.pass <= Passes /\ Passes \in Nat
    BY SceneTakesAssumption DEF TypeOK, Kinds
  <2>2. tries["still"][s] <= Cap
    BY DEF Capped, Tried
  <2> QED BY <2>1, <2>2 DEF Cap
<1>2. TypeOK /\ Capped /\ [Next]_vars => Capped'
  BY CappedKept
<1> QED BY <1>1, <1>2, InitCapped, TypeCorrect, PTL DEF Spec

-----------------------------------------------------------------------------
(* The stills a scene has, counting those rejected since its tally, are    *)
(* enough; before that the scene is still to be made, counted or retried.  *)
Usable(s, i) == takes[s][i].kind = "still" /\ takes[s][i].status = "succeeded"
Stills(s)    == {i \in DOMAIN takes[s] : Usable(s, i)}
Enough(s)    == Good("still", s) + lost[s] >= MinStills
Ahead        == run.todo \cup run.batch \cup run.missing
StillsKept ==
    /\ run.kind = "still" =>
         /\ run.state # "done"
         /\ run.state = "on" => \A s \in Scenes : s \in Ahead \/ Enough(s)
    /\ run.kind = "clip" => \A s \in Scenes : Enough(s)

LEMMA PartIsFinite ==
    ASSUME NEW ts, DOMAIN ts = 1..Len(ts), Len(ts) \in Nat, NEW A \in SUBSET DOMAIN ts
    PROVE  IsFiniteSet(A) /\ Cardinality(A) \in Nat
<1>1. IsFiniteSet(1..Len(ts))
  BY FS_Interval
<1> QED BY <1>1, FS_Subset, FS_CardinalityType

LEMMA SmallerPart ==
    ASSUME NEW B, IsFiniteSet(B), NEW A \in SUBSET B
    PROVE  Cardinality(A) <= Cardinality(B)
BY FS_Subset, Zenon

LEMMA OneLess ==
    ASSUME NEW A, IsFiniteSet(A), NEW x
    PROVE  Cardinality(A) - 1 <= Cardinality(A \ {x})
<1>1. Cardinality(A \ {x}) = IF x \in A THEN Cardinality(A) - 1 ELSE Cardinality(A)
  BY FS_RemoveElement, Zenon
<1>2. Cardinality(A) \in Nat
  BY FS_CardinalityType, Zenon
<1> QED BY <1>1, <1>2

(* A scene whose usable stills stay keeps enough, and so does one that     *)
(* loses a still while the loss is noted.                                  *)
LEMMA EnoughKept ==
    ASSUME TakesOK, TakesOK', NEW s \in Scenes, Stills(s) \subseteq Stills(s)',
           lost[s] \in Nat, lost'[s] \in Nat, lost[s] <= lost'[s], Enough(s)
    PROVE  Enough(s)'
<1>1. /\ Stills(s) \in SUBSET (Stills(s)') /\ IsFiniteSet(Stills(s)')
      /\ Good("still", s) = Cardinality(Stills(s)) /\ Good("still", s) \in Nat
      /\ Good("still", s)' = Cardinality(Stills(s)') /\ Good("still", s)' \in Nat
  <2>1. Stills(s) \in SUBSET DOMAIN takes[s] /\ Stills(s)' \in SUBSET DOMAIN takes'[s]
    BY DEF Stills
  <2>2. Good("still", s) = Cardinality(Stills(s)) /\ Good("still", s)' = Cardinality(Stills(s)')
    BY DEF Good, Stills, Usable
  <2>3. /\ DOMAIN takes[s] = 1..Len(takes[s]) /\ Len(takes[s]) \in Nat
        /\ DOMAIN takes'[s] = 1..Len(takes'[s]) /\ Len(takes'[s]) \in Nat
    BY DEF TakesOK
  <2>4. IsFiniteSet(Stills(s)) /\ Cardinality(Stills(s)) \in Nat
    BY <2>1, <2>3, PartIsFinite, Zenon
  <2>5. IsFiniteSet(Stills(s)') /\ Cardinality(Stills(s)') \in Nat
    BY <2>1, <2>3, PartIsFinite, Zenon
  <2> QED BY <2>2, <2>4, <2>5
<1>2. Cardinality(Stills(s)) <= Cardinality(Stills(s)')
  BY <1>1, SmallerPart, Zenon
<1> QED BY <1>1, <1>2, SceneTakesAssumption DEF Enough

LEMMA EnoughNoted ==
    ASSUME TakesOK, TakesOK', NEW s \in Scenes, NEW i, Stills(s) \ {i} \subseteq Stills(s)',
           lost[s] \in Nat, lost'[s] = lost[s] + 1, Enough(s)
    PROVE  Enough(s)'
<1>1. /\ Stills(s) \ {i} \in SUBSET (Stills(s)') /\ IsFiniteSet(Stills(s))
      /\ IsFiniteSet(Stills(s)')
      /\ Good("still", s) = Cardinality(Stills(s)) /\ Good("still", s) \in Nat
      /\ Good("still", s)' = Cardinality(Stills(s)') /\ Good("still", s)' \in Nat
  <2>1. Stills(s) \in SUBSET DOMAIN takes[s] /\ Stills(s)' \in SUBSET DOMAIN takes'[s]
    BY DEF Stills
  <2>2. Good("still", s) = Cardinality(Stills(s)) /\ Good("still", s)' = Cardinality(Stills(s)')
    BY DEF Good, Stills, Usable
  <2>3. /\ DOMAIN takes[s] = 1..Len(takes[s]) /\ Len(takes[s]) \in Nat
        /\ DOMAIN takes'[s] = 1..Len(takes'[s]) /\ Len(takes'[s]) \in Nat
    BY DEF TakesOK
  <2>4. IsFiniteSet(Stills(s)) /\ Cardinality(Stills(s)) \in Nat
    BY <2>1, <2>3, PartIsFinite, Zenon
  <2>5. IsFiniteSet(Stills(s)') /\ Cardinality(Stills(s)') \in Nat
    BY <2>1, <2>3, PartIsFinite, Zenon
  <2> QED BY <2>2, <2>4, <2>5
<1>2. /\ Cardinality(Stills(s) \ {i}) <= Cardinality(Stills(s)')
      /\ Cardinality(Stills(s)) - 1 <= Cardinality(Stills(s) \ {i})
  BY <1>1, SmallerPart, OneLess, Zenon
<1>3. IsFiniteSet(Stills(s) \ {i})
  BY <1>1, FS_RemoveElement, Zenon
<1>4. Cardinality(Stills(s) \ {i}) \in Nat
  BY <1>3, FS_CardinalityType
<1> QED BY <1>1, <1>2, <1>4, SceneTakesAssumption DEF Enough

(* A step leaves a scene that has enough with enough, unless it is counted *)
(* again: a rejection is noted, nothing else takes a usable still away.    *)
LEMMA EnoughStays ==
    ASSUME TypeOK, SlotsOK, [Next]_vars, NEW t \in Scenes, Enough(t),
           ~(run.kind = "still" /\ Tally(t))
    PROVE  Enough(t)'
<1> USE DEF users, system
<1>1. TakesOK /\ TakesOK' /\ lost \in [Scenes -> Nat] /\ lost' \in [Scenes -> Nat]
  BY NextTypes DEF TypeOK, TakesOK
<1>2. lost[t] \in Nat /\ lost'[t] \in Nat
  BY <1>1
<1>3. ASSUME \A i \in DOMAIN takes[t] : i \in DOMAIN takes'[t] /\ (Usable(t, i) => Usable(t, i)'),
             lost'[t] = lost[t]
      PROVE  Enough(t)'
  BY <1>1, <1>2, <1>3, EnoughKept DEF Stills
<1>4. ASSUME takes'[t] = takes[t], lost'[t] = lost[t] PROVE Enough(t)'
  BY <1>3, <1>4 DEF Usable
<1>5. ASSUME NEW s \in Scenes, NEW k \in Kinds, NEW status \in Statuses, NEW n \in Nat,
             NEW by \in {"worker", "user"}, Added(s, k, status, n, by), UNCHANGED lost
      PROVE  Enough(t)'
  <2>1. CASE s # t
    BY <1>1, <1>4, <1>5, <2>1, AddedOne
  <2>2. CASE s = t
    <3>1. /\ Len(takes'[t]) = Len(takes[t]) + 1
          /\ \A i \in DOMAIN takes[t] : takes'[t][i] = takes[t][i]
      BY <1>1, <1>5, <2>2, AddedOne
    <3>2. DOMAIN takes[t] \subseteq DOMAIN takes'[t]
      BY <1>1, <3>1 DEF TakesOK
    <3> QED BY <1>3, <1>5, <3>1, <3>2 DEF Usable
  <2> QED BY <2>1, <2>2
<1>6. ASSUME NEW s \in Scenes, NEW i \in DOMAIN takes[s], NEW status \in Statuses,
             Changed(s, i, status),
             \/ lost' = lost /\ takes[s][i].status # "succeeded"
             \/ lost' = lost /\ takes[s][i].kind # "still"
             \/ lost' = [lost EXCEPT ![s] = @ + 1]
      PROVE  Enough(t)'
  <2>1. CASE s # t
    BY <1>1, <1>4, <1>6, <2>1, ChangedOne
  <2>2. CASE s = t
    <3>1. /\ Len(takes'[t]) = Len(takes[t])
          /\ \A j \in DOMAIN takes[t] : j # i => takes'[t][j] = takes[t][j]
      BY <1>1, <1>6, <2>2, ChangedOne
    <3>2. DOMAIN takes[t] \subseteq DOMAIN takes'[t]
      BY <1>1, <3>1 DEF TakesOK
    <3>3. CASE lost' = lost /\ ~Usable(t, i)
      BY <1>3, <3>1, <3>2, <3>3 DEF Usable
    <3>4. CASE lost' = [lost EXCEPT ![s] = @ + 1]
      <4>1. lost'[t] = lost[t] + 1
        BY <1>1, <2>2, <3>4
      <4>2. Stills(t) \ {i} \subseteq Stills(t)'
        BY <3>1, <3>2 DEF Stills, Usable
      <4> QED BY <1>1, <1>2, <4>1, <4>2, EnoughNoted
    <3> QED BY <1>6, <2>2, <3>3, <3>4 DEF Usable
  <2> QED BY <2>1, <2>2
<1>7. ASSUME NEW s \in Scenes, OrderWrites(s) PROVE Enough(t)'
  <2>1. /\ order[s] \in Seq(Nat) /\ Len(order[s]) <= Len(takes[s])
        /\ takes' = [takes EXCEPT ![s] = Renumbered(takes[s], order[s])] /\ lost' = lost
    BY <1>7 DEF OrderWrites, TypeOK, SlotsOK, Pending
  <2>2. CASE s # t
    BY <1>1, <1>4, <2>1, <2>2
  <2>3. CASE s = t
    <3>1. /\ Len(takes'[t]) = Len(takes[t])
          /\ \A i \in DOMAIN takes[t] : /\ takes'[t][i].kind = takes[t][i].kind
                                        /\ takes'[t][i].status = takes[t][i].status
      BY <1>1, <2>1, <2>3, RenumberedOne
    <3>2. DOMAIN takes[t] \subseteq DOMAIN takes'[t]
      BY <1>1, <3>1 DEF TakesOK
    <3> QED BY <1>3, <2>1, <3>1, <3>2 DEF Usable
  <2> QED BY <2>2, <2>3
<1>8. \A s \in Scenes : open[s].kind \in Kinds /\ open[s].slot \in Nat
  BY DEF TypeOK
<1>9. ASSUME NEW s \in Scenes, Succeed(s) \/ Refused(s) \/ Raised(s) PROVE Enough(t)'
  BY <1>4, <1>5, <1>8, <1>9 DEF Succeed, Refused, Raised, Answer, Statuses
<1>10. ASSUME NEW s \in Scenes, Tally(s) PROVE Enough(t)'
  <2>1. takes' = takes /\ lost'[t] = lost[t]
    BY <1>1, <1>10 DEF Tally, TypeOK
  <2> QED BY <1>4, <2>1
<1>11. ASSUME NEW s \in Scenes, NEW i \in DOMAIN takes[s], Reject(s, i) \/ Approve(s, i)
       PROVE  Enough(t)'
  <2>1. CASE Reject(s, i)
    BY <1>6, <2>1 DEF Reject, Statuses
  <2>2. CASE Approve(s, i)
    BY <1>6, <2>2 DEF Approve, Statuses
  <2> QED BY <1>11, <2>1, <2>2
<1>12. ASSUME NEW s \in Scenes, NEW status \in {"succeeded", "failed"}, JobEnds(s, status)
       PROVE  Enough(t)'
  BY <1>5, <1>8, <1>12 DEF JobEnds, Statuses
<1>13. ASSUME NEW u \in upload, NEW k \in Kinds, UploadInserts(u, k) PROVE Enough(t)'
  BY <1>5, <1>13 DEF UploadInserts, Statuses, TypeOK
<1>14. ASSUME \/ TakeUp \/ Fill \/ Filled \/ Redo \/ AllForced \/ Retry \/ GiveUp \/ StepOver
              \/ Halt \/ Stop \/ UNCHANGED vars
              \/ \E s \in Scenes : ThreadStops(s) \/ Generate(s)
       PROVE  takes' = takes /\ lost' = lost
  BY <1>14, Zenon DEF TakeUp, Fill, Filled, Redo, AllForced, Retry, GiveUp, StepOver, Halt, Stop,
               ThreadStops, Generate, vars
<1>15. ASSUME NEW s \in Scenes,
              \/ \E k \in Kinds : JobStart(s, k)
              \/ JobRaises(s) \/ UploadPicks(s) \/ OrderReads(s)
       PROVE  takes' = takes /\ lost' = lost
  BY <1>15, Zenon DEF JobStart, JobRaises, UploadPicks, OrderReads
<1>16. CASE RunStep
  BY <1>4, <1>9, <1>10, <1>14, <1>16, Zenon DEF RunStep
<1>17. CASE UserStep
  BY <1>4, <1>7, <1>11, <1>12, <1>13, <1>14, <1>15, <1>17, Zenon DEF UserStep
<1> QED BY <1>4, <1>14, <1>16, <1>17 DEF Next

LEMMA StillsKeptStep ==
    ASSUME TypeOK, SlotsOK, StillsKept, [Next]_vars
    PROVE  StillsKept'
<1> USE DEF users, system
<1>a. run.kind \in Kinds /\ TakesOK /\ TakesOK'
  BY NextTypes DEF TypeOK, TakesOK
(* While the step goes on, no scene leaves those ahead without enough.     *)
<1>b. ASSUME run'.kind = run.kind, run'.state \in {run.state, "stopped"},
             run'.state = "on" => Ahead \subseteq Ahead',
             ~\E s \in Scenes : Tally(s)
      PROVE  StillsKept'
  BY <1>b, EnoughStays DEF StillsKept
<1>1. CASE TakeUp
  <2>1. PICK b \in SUBSET run.todo :
          run' = [run EXCEPT !.batch = b, !.todo = run.todo \ b, !.stage = "fill", !.left = {}]
    BY <1>1 DEF TakeUp
  <2>2. run.batch = {} /\ UNCHANGED <<takes, lost>>
    BY <1>1 DEF TakeUp
  <2>3. /\ run'.kind = run.kind /\ run'.state = run.state /\ run'.missing = run.missing
        /\ run'.batch = b /\ run'.todo = run.todo \ b
    BY <2>1 DEF TypeOK
  <2>4. Ahead \subseteq Ahead'
    BY <2>2, <2>3 DEF Ahead
  <2>5. ~\E s \in Scenes : Tally(s)
    BY <2>2 DEF Tally, On
  <2> QED BY <1>b, <2>3, <2>4, <2>5
<1>2. CASE Filled \/ AllForced
  <2>1. \/ run' = [run EXCEPT !.stage = "force", !.left = run.batch \ run.missing]
        \/ run' = Counted(run)
    BY <1>2 DEF Filled, AllForced
  <2>2. /\ run'.kind = run.kind /\ run'.state = run.state /\ run'.missing = run.missing
        /\ run'.todo = run.todo /\ run.batch \subseteq run'.batch \cup run.missing
    BY <2>1 DEF TypeOK, Counted
  <2>3. Ahead \subseteq Ahead'
    BY <2>2 DEF Ahead
  <2>4. ~\E s \in Scenes : Tally(s)
    BY <1>2 DEF Filled, AllForced, Tally, On
  <2> QED BY <1>b, <2>2, <2>3, <2>4
<1>3. ASSUME run'.kind = run.kind, run'.state \in {run.state, "stopped"},
             run'.todo = run.todo, run'.batch = run.batch, run.missing \subseteq run'.missing,
             ~\E s \in Scenes : Tally(s)
      PROVE  StillsKept'
  BY <1>3, <1>b DEF Ahead
<1>4. CASE Redo
  <2>1. PICK c \in Chunk(run.left) : run' = [run EXCEPT !.left = run.left \ c]
    BY <1>4, Zenon DEF Redo
  <2>2. ~\E s \in Scenes : Tally(s)
    BY <1>4 DEF Redo, Tally, On
  <2> QED BY <1>3, <2>1, <2>2 DEF TypeOK
<1>5. CASE Retry
  <2>1. /\ run'.kind = run.kind /\ run'.state = run.state /\ run'.todo = run.missing
        /\ run.todo = {} /\ run.batch = {}
    BY <1>5 DEF Retry, PassOver, TypeOK
  <2>2. Ahead \subseteq Ahead'
    BY <2>1 DEF Ahead
  <2>3. ~\E s \in Scenes : Tally(s)
    BY <2>1 DEF Tally
  <2> QED BY <1>b, <2>1, <2>2, <2>3
<1>6. ASSUME run'.kind = "clip", run.kind = "still" => run.state = "on" /\ Ahead = {},
             ~\E s \in Scenes : Tally(s)
      PROVE  StillsKept'
  <2>1. \A s \in Scenes : Enough(s)
    BY <1>a, <1>6 DEF StillsKept, Kinds
  <2> QED BY <1>6, <2>1, EnoughStays DEF StillsKept
<1>7. CASE StepOver
  <2>1. /\ run.todo = {} /\ run.batch = {} /\ run.missing = {} /\ run.state = "on"
        /\ run'.kind = "clip"
    BY <1>7, <1>a DEF StepOver, PassOver, TypeOK, Kinds
  <2>2. ~\E s \in Scenes : Tally(s)
    BY <2>1 DEF Tally
  <2> QED BY <1>6, <2>1, <2>2 DEF Ahead
<1>8. CASE GiveUp
  <2>1. ~\E s \in Scenes : Tally(s)
    BY <1>8 DEF GiveUp, PassOver, Tally
  <2>2. CASE run.kind = "clip"
    <3>1. run'.kind = "clip"
      BY <1>8, <2>2 DEF GiveUp, TypeOK
    <3> QED BY <1>6, <2>1, <2>2, <3>1
  <2>3. CASE run.kind = "still"
    <3>1. run'.kind = "still" /\ run'.state = "failed"
      BY <1>8, <2>3 DEF GiveUp, TypeOK
    <3> QED BY <3>1 DEF StillsKept
  <2> QED BY <1>a, <2>2, <2>3 DEF Kinds
<1>9. CASE Halt \/ \E s \in Scenes : ThreadStops(s)
  <2>1. run' = [run EXCEPT !.state = "stopped"]
    BY <1>9 DEF Halt, ThreadStops
  <2>2. /\ run'.kind = run.kind /\ run'.state = "stopped"
    BY <2>1 DEF TypeOK
  <2>3. UNCHANGED <<takes, lost>>
    BY <1>9 DEF Halt, ThreadStops
  <2>4. \A s \in Scenes : Enough(s) => Enough(s)'
    BY <2>3 DEF Enough, Good
  <2> QED BY <2>2, <2>4 DEF StillsKept
<1>10. ASSUME NEW s \in Scenes, Tally(s) PROVE StillsKept'
  <2>1. /\ run'.kind = run.kind /\ run'.state = run.state /\ run'.todo = run.todo
        /\ run'.batch = run.batch \ {s}
        /\ run'.missing = IF Lacks(s) THEN run.missing \cup {s} ELSE run.missing
        /\ takes' = takes
    BY <1>10 DEF Tally, TypeOK
  <2>2. CASE run.kind = "clip"
    BY <2>1, <2>2, EnoughStays DEF StillsKept
  <2>3. CASE run.kind = "still"
    <3>1. lost' = [lost EXCEPT ![s] = 0]
      BY <1>10, <2>3 DEF Tally
    <3>2. ~Lacks(s) => Enough(s)'
      <4>1. lost'[s] = 0 /\ Good("still", s)' = Good("still", s)
        BY <2>1, <3>1 DEF TypeOK, Good
      <4>2. Good("still", s) \in Nat
        <5>1. Stills(s) \in SUBSET DOMAIN takes[s] /\ Good("still", s) = Cardinality(Stills(s))
          BY DEF Good, Stills, Usable
        <5>2. DOMAIN takes[s] = 1..Len(takes[s]) /\ Len(takes[s]) \in Nat
          BY <1>a DEF TakesOK
        <5> QED BY <5>1, <5>2, PartIsFinite, Zenon
      <4> QED BY <2>3, <4>1, <4>2, SceneTakesAssumption DEF Lacks, AtLeast, Enough
    <3>3. ASSUME NEW t \in Scenes, t # s, Enough(t) PROVE Enough(t)'
      BY <2>1, <3>1, <3>3 DEF Enough, Good, TypeOK
    <3>4. ASSUME NEW t \in Scenes, run.state = "on" PROVE t \in Ahead' \/ Enough(t)'
      BY <2>1, <2>3, <3>2, <3>3, <3>4 DEF StillsKept, Ahead
    <3> QED BY <2>1, <2>3, <3>4 DEF StillsKept
  <2> QED BY <1>a, <2>2, <2>3 DEF Kinds
<1>11. ASSUME NEW s \in Scenes, Succeed(s) \/ Refused(s) \/ Raised(s) PROVE StillsKept'
  <2>1. PICK result : Answer(s, result)
    BY <1>11 DEF Succeed, Refused, Raised
  <2>2. /\ run'.kind = run.kind /\ run'.state = run.state /\ run'.todo = run.todo
        /\ run'.batch = run.batch /\ run.missing \subseteq run'.missing
    BY <2>1 DEF Answer, TypeOK
  <2>3. open[s].by = "run" /\ open'[s].by = "nobody"
    BY <1>11 DEF Succeed, Refused, Raised, Answer, Closed, TypeOK
  <2>4. ~\E t \in Scenes : Tally(t)
    BY <2>3 DEF Tally
  <2> QED BY <1>3, <2>2, <2>4
<1>12. ASSUME UNCHANGED run PROVE ~\E s \in Scenes : Tally(s)
  <2> SUFFICES ASSUME NEW s \in Scenes, Tally(s) PROVE FALSE
    OBVIOUS
  <2>1. s \in run.batch /\ run'.batch = run.batch \ {s}
    BY DEF Tally, TypeOK
  <2> QED BY <1>12, <2>1
<1>13. ASSUME UNCHANGED run PROVE StillsKept'
  BY <1>3, <1>12, <1>13
<1>14. CASE RunStep
  <2>1. Fill \/ (\E s \in Scenes : Generate(s)) => UNCHANGED run
    BY DEF Fill, Generate
  <2> QED BY <1>1, <1>2, <1>4, <1>5, <1>7, <1>8, <1>9, <1>10, <1>11, <1>13, <1>14, <2>1, Zenon
       DEF RunStep
<1>15. CASE UserStep \/ UNCHANGED vars
  <2>1. UNCHANGED run
    BY <1>15, Zenon DEF UserStep, Stop, UploadInserts, JobStart, JobEnds, JobRaises, UploadPicks,
                 OrderReads, OrderWrites, Reject, Approve, vars
  <2> QED BY <1>13, <2>1
<1> QED BY <1>14, <1>15 DEF Next

(* When the run goes on to its clips, or is done, each scene has the stills *)
(* it was asked for but those rejected since its count, whatever the        *)
(* provider refused, the passes retried and users brought, rejected,        *)
(* approved and reordered meanwhile (tasks/agent_impl.py, the image pass).  *)
THEOREM StillsComeIn == Spec => []StillsAreIn
<1>1. Init => StillsKept
  BY DEF Init, StillsKept, Ahead
<1>2. TypeOK /\ SlotsOK /\ StillsKept /\ [Next]_vars => StillsKept'
  BY StillsKeptStep
<1>3. TypeOK /\ StillsKept => StillsAreIn
  BY DEF TypeOK, StillsKept, StillsAreIn, Enough, Kinds
<1> QED BY <1>1, <1>2, <1>3, Invariants, PTL DEF Spec
=============================================================================
