--------------------------- MODULE AdmissionProofs ---------------------------
(***************************************************************************)
(* Proofs about Admission for any number of clients, routes, keys, bodies  *)
(* and jobs: the answers of a key agree, a spent key stays spent, and the  *)
(* credits are overshot by no more than one row for each client.           *)
(***************************************************************************)
EXTENDS Admission, FiniteSetTheorems, TLAPS

\* What a keyed request carries, and what a request without a key does not.
Fit(r) ==
    /\ r.kind = "keyed" => r.slot \in Slots /\ r.body \in Bodies
    /\ r.kind # "keyed" => r.slot = None
    /\ r.at \in {"look", "store"} => r.kind = "keyed"
    /\ r.at # "idle" => r.kind \in Kinds
Carried == \A c \in Clients : Fit(req[c])

\* The row a request has inserted is its own.
Inserted ==
    \A c \in Clients : req[c].at \in {"publish", "store"} =>
        /\ req[c].job \in Jobs
        /\ jobs[req[c].job].slot = req[c].slot
        /\ jobs[req[c].job].body = req[c].body

\* The row a record names was inserted for its key.
Recorded ==
    \A s \in Slots : records[s] # None =>
        /\ records[s].job \in Jobs
        /\ jobs[records[s].job].slot = s
        /\ jobs[records[s].job].body = records[s].body

\* Every answer is the one of the record.
Answered ==
    \A x \in told : /\ records[x.slot] # None
                    /\ x.body = records[x.slot].body
                    /\ x.job = records[x.slot].job

\* While credits are left no row is late.
OnTime == ~Exhausted => late = 0

Ledger == Carried /\ Inserted /\ Recorded /\ Answered

------------------------------------------------------------------------------
\* A step gives one client another request.
LEMMA Becomes ==
    ASSUME NEW c \in Clients, NEW r \in Requests, Become(c, r), req \in [Clients -> Requests]
    PROVE  /\ req' \in [Clients -> Requests]
           /\ req'[c] = r
           /\ \A d \in Clients \ {c} : req'[d] = req[d]
BY DEF Become

LEMMA IdleFits == Idle \in Requests /\ Fit(Idle)
BY DEF Idle, Requests, Steps, Fit, Kinds

\* A request over several scenes goes on to the next, or is done with them.
LEMMA NextFits ==
    ASSUME NEW r \in Requests, Fit(r), r.at # "idle", r.kind # "keyed", r.left > 1
    PROVE  /\ [r EXCEPT !.at = "check", !.left = @ - 1] \in Requests
           /\ Fit([r EXCEPT !.at = "check", !.left = @ - 1])
           /\ [r EXCEPT !.at = "insert", !.left = @ - 1, !.job = 0] \in Requests
           /\ Fit([r EXCEPT !.at = "insert", !.left = @ - 1, !.job = 0])
<1>1. r.left - 1 \in Nat
  BY DEF Requests
<1>2. [r EXCEPT !.at = "check", !.left = @ - 1] \in Requests
  BY <1>1 DEF Requests, Steps
<1>3. [r EXCEPT !.at = "insert", !.left = @ - 1, !.job = 0] \in Requests
  BY <1>1 DEF Requests, Steps
<1>4. Fit([r EXCEPT !.at = "check", !.left = @ - 1])
  BY DEF Requests, Fit
<1>5. Fit([r EXCEPT !.at = "insert", !.left = @ - 1, !.job = 0])
  BY DEF Requests, Fit
<1> QED
  BY <1>2, <1>3, <1>4, <1>5

LEMMA LastFits ==
    ASSUME NEW r \in Requests, Fit(r), r.at # "idle"
    PROVE  /\ [r EXCEPT !.at = "commit", !.left = 0] \in Requests
           /\ Fit([r EXCEPT !.at = "commit", !.left = 0])
BY DEF Requests, Fit, Steps

LEMMA StepFits ==
    ASSUME NEW r \in Requests, Fit(r), NEW s \in {"check", "insert", "publish", "commit"}, r.at # "idle"
    PROVE  [r EXCEPT !.at = s] \in Requests /\ Fit([r EXCEPT !.at = s])
BY DEF Requests, Fit, Steps

\* A change of a row keeps its slot and body.
LEMMA SettledRows ==
    ASSUME NEW c \in Clients, NEW row \in Rows, jobs \in Seq(JobRows)
    PROVE  /\ Settled(c, row) \in Seq(JobRows)
           /\ Len(Settled(c, row)) = Len(jobs)
           /\ \A j \in Jobs : /\ Settled(c, row)[j].slot = jobs[j].slot
                             /\ Settled(c, row)[j].body = jobs[j].body
<1> DEFINE f == Settled(c, row)
<1>1. f = [j \in 1..Len(jobs) |-> f[j]]
  BY DEF Settled, Jobs
<1>2. \A j \in 1..Len(jobs) : f[j] \in JobRows /\ f[j].slot = jobs[j].slot /\ f[j].body = jobs[j].body
  <2> SUFFICES ASSUME NEW j \in 1..Len(jobs)
               PROVE  f[j] \in JobRows /\ f[j].slot = jobs[j].slot /\ f[j].body = jobs[j].body
    OBVIOUS
  <2>1. jobs[j] \in JobRows
    OBVIOUS
  <2>2. f[j] = jobs[j] \/ f[j] = [jobs[j] EXCEPT !.row = row, !.by = None]
    BY DEF Settled, Jobs
  <2> HIDE DEF f
  <2> QED
    BY <2>1, <2>2 DEF JobRows
<1>3. Len(jobs) \in Nat
  OBVIOUS
<1> HIDE DEF f
<1>4. f \in Seq(JobRows) /\ Len(f) = Len(jobs)
  BY <1>1, <1>2, <1>3
<1> QED
  BY <1>2, <1>4 DEF f, Jobs

LEMMA NewRow ==
    ASSUME NEW c \in Clients, TypeOK, req[c].kind \in Kinds, NEW row \in Rows, NEW mail \in BOOLEAN
    PROVE  /\ NewJob(c, row, mail) \in JobRows
           /\ Append(jobs, NewJob(c, row, mail)) \in Seq(JobRows)
<1>1. NewJob(c, row, mail) \in JobRows
  BY DEF NewJob, JobRows, TypeOK, Requests
<1> QED
  BY <1>1 DEF TypeOK

\* What happens to a row after its insert keeps its slot and body.
Alike(j) == jobs'[j].slot = jobs[j].slot /\ jobs'[j].body = jobs[j].body

LEMMA Changed ==
    ASSUME jobs \in Seq(JobRows), NEW i \in Jobs, NEW x \in JobRows,
           x.slot = jobs[i].slot, x.body = jobs[i].body, jobs' = [jobs EXCEPT ![i] = x]
    PROVE  jobs' \in Seq(JobRows) /\ Len(jobs') = Len(jobs) /\ \A j \in Jobs : Alike(j)
<1>1. \A j \in Jobs : jobs'[j] = IF j = i THEN x ELSE jobs[j]
  BY DEF Jobs
<1> QED
  BY <1>1 DEF Alike, Jobs

LEMMA Mailed ==
    ASSUME jobs \in Seq(JobRows), NEW i \in Jobs, jobs' = [jobs EXCEPT ![i].mail = TRUE]
    PROVE  jobs' \in Seq(JobRows) /\ Len(jobs') = Len(jobs) /\ \A j \in Jobs : Alike(j)
<1> DEFINE x == [jobs[i] EXCEPT !.mail = TRUE]
<1>1. jobs[i] \in JobRows
  BY DEF Jobs
<1>2. x \in JobRows /\ x.slot = jobs[i].slot /\ x.body = jobs[i].body
  BY <1>1 DEF JobRows
<1>3. jobs' = [jobs EXCEPT ![i] = x]
  BY DEF Jobs
<1> HIDE DEF x
<1> QED
  BY <1>2, <1>3, Changed, Zenon

LEMMA Taken ==
    ASSUME jobs \in Seq(JobRows), NEW i \in Jobs, NEW row \in Rows,
           jobs' = [jobs EXCEPT ![i].row = row, ![i].mail = FALSE]
    PROVE  jobs' \in Seq(JobRows) /\ Len(jobs') = Len(jobs) /\ \A j \in Jobs : Alike(j)
<1> DEFINE x == [jobs[i] EXCEPT !.row = row, !.mail = FALSE]
<1>1. jobs[i] \in JobRows
  BY DEF Jobs
<1>2. x \in JobRows /\ x.slot = jobs[i].slot /\ x.body = jobs[i].body
  BY <1>1 DEF JobRows
<1>3. jobs' = [jobs EXCEPT ![i] = x]
  BY DEF Jobs
<1> HIDE DEF x
<1> QED
  BY <1>2, <1>3, Changed, Zenon

LEMMA Dropped ==
    ASSUME jobs \in Seq(JobRows), NEW i \in Jobs, jobs' = [jobs EXCEPT ![i].mail = FALSE]
    PROVE  jobs' \in Seq(JobRows) /\ Len(jobs') = Len(jobs) /\ \A j \in Jobs : Alike(j)
<1> DEFINE x == [jobs[i] EXCEPT !.mail = FALSE]
<1>1. jobs[i] \in JobRows
  BY DEF Jobs
<1>2. x \in JobRows /\ x.slot = jobs[i].slot /\ x.body = jobs[i].body
  BY <1>1 DEF JobRows
<1>3. jobs' = [jobs EXCEPT ![i] = x]
  BY DEF Jobs
<1> HIDE DEF x
<1> QED
  BY <1>2, <1>3, Changed, Zenon

\* Every step keeps the types and what requests carry.
LEMMA TypedStep == TypeOK /\ Carried /\ [Next]_vars => TypeOK' /\ Carried'
<1> SUFFICES ASSUME TypeOK, Carried, [Next]_vars PROVE TypeOK' /\ Carried'
  OBVIOUS
<1> USE AdmissionAssumption
<1>1. ASSUME NEW c \in Clients, NEW r \in Requests, Fit(r), Become(c, r)
      PROVE  req' \in [Clients -> Requests] /\ Carried'
  BY <1>1, Becomes DEF Carried, TypeOK
<1>2. ASSUME NEW c \in Clients, Become(c, Idle)
      PROVE  req' \in [Clients -> Requests] /\ Carried'
  BY <1>1, <1>2, IdleFits
<1>3. ASSUME NEW c \in Clients, NEW s \in {"check", "insert", "publish", "commit"},
             req[c].at # "idle", Go(c, s)
      PROVE  req' \in [Clients -> Requests] /\ Carried'
  BY <1>1, <1>3, StepFits DEF Go, Carried, TypeOK
<1>4. \A c \in Clients : req[c] \in Requests /\ Fit(req[c])
  BY DEF TypeOK, Carried
<1>11. ASSUME NEW c \in Clients, NEW s \in Slots, NEW b \in Bodies, Ask(c, s, b)
       PROVE  TypeOK' /\ Carried'
  <2> DEFINE r == [Idle EXCEPT !.at = "look", !.kind = "keyed", !.slot = s, !.body = b]
  <2>1. r \in Requests /\ Fit(r)
    BY DEF Idle, Requests, Steps, Kinds, Fit
  <2> QED
    BY <1>1, <1>11, <2>1 DEF Ask, TypeOK
<1>12. ASSUME NEW c \in Clients, Lookup(c) PROVE TypeOK' /\ Carried'
  <2>1. req' \in [Clients -> Requests] /\ Carried'
    BY <1>2, <1>3, <1>12 DEF Lookup
  <2>2. req[c].slot \in Slots /\ req[c].body \in Bodies
    BY <1>4, <1>12 DEF Lookup, Fit
  <2>3. told' \subseteq [slot : Slots, body : Bodies, job : Nat]
    BY <1>12, <2>2 DEF Lookup, TypeOK
  <2> QED
    BY <1>12, <2>1, <2>3 DEF Lookup, TypeOK
<1>13. ASSUME NEW c \in Clients, Check(c) PROVE TypeOK' /\ Carried'
  <2>1. req' \in [Clients -> Requests] /\ Carried'
    BY <1>2, <1>3, <1>13 DEF Check
  <2>2. jobs' \in Seq(JobRows)
    BY <1>13, SettledRows DEF Check, TypeOK, Rows
  <2> QED
    BY <1>13, <2>1, <2>2 DEF Check, TypeOK
<1>5. Len(jobs) \in Nat /\ Newest \in Nat /\ Newest + 1 \in Nat
  BY DEF TypeOK, Newest
<1>6. \A c \in Clients : CountLate(c) => late' \in Nat
  BY DEF CountLate, TypeOK
<1>14. ASSUME NEW c \in Clients, Insert(c) PROVE TypeOK' /\ Carried'
  <2> DEFINE r == [req[c] EXCEPT !.at = "publish", !.job = Newest + 1]
  <2>0. req[c].at = "insert" /\ req[c].kind # "repair" /\ req[c].kind \in Kinds
    BY <1>4, <1>14 DEF Insert, Fit
  <2>1. r \in Requests
    BY <1>4, <1>5 DEF Requests, Steps
  <2>2. Fit(r)
    BY <1>4, <2>0 DEF Requests, Fit
  <2>3. req' \in [Clients -> Requests] /\ Carried'
    <3>1. Become(c, r)
      BY <1>14 DEF Insert
    <3> HIDE DEF r
    <3> QED
      BY <1>1, <2>1, <2>2, <3>1
  <2>4. jobs' \in Seq(JobRows)
    BY <2>0, <1>14, NewRow DEF Insert, Rows
  <2> QED
    BY <1>14, <1>6, <2>3, <2>4 DEF Insert, TypeOK
<1>15. ASSUME NEW c \in Clients, Publish(c) PROVE TypeOK' /\ Carried'
  <2>0. req[c].at = "publish" /\ req[c] \in Requests /\ Fit(req[c])
    BY <1>4, <1>15 DEF Publish
  <2>9. jobs' \in Seq(JobRows)
    <3>1. CASE req[c].job \in Jobs
      BY <1>15, <3>1, Mailed DEF Publish, TypeOK
    <3>2. CASE req[c].job \notin Jobs
      <4>1. jobs = [j \in Jobs |-> jobs[j]]
        BY DEF TypeOK, Jobs
      <4>2. jobs' = jobs
        BY <1>15, <3>2, <4>1 DEF Publish
      <4> QED
        BY <4>2 DEF TypeOK
    <3> QED
      BY <3>1, <3>2
  <2>1. CASE Go(c, "store") /\ req[c].kind = "keyed"
    <3> DEFINE q == [req[c] EXCEPT !.at = "store"]
    <3>1. q \in Requests /\ Fit(q)
      BY <2>0, <2>1 DEF Requests, Fit, Steps, Kinds
    <3>2. Become(c, q)
      BY <2>1 DEF Go
    <3> HIDE DEF q
    <3> QED
      BY <1>1, <3>1, <3>2, <1>15, <2>9 DEF Publish, TypeOK
  <2>2. CASE Become(c, Idle)
    BY <1>2, <2>2, <1>15, <2>9 DEF Publish, TypeOK
  <2>3. CASE /\ req[c].kind = "bulk" /\ req[c].left > 1
             /\ Become(c, [req[c] EXCEPT !.at = "insert", !.left = @ - 1, !.job = 0])
    <3> DEFINE q == [req[c] EXCEPT !.at = "insert", !.left = @ - 1, !.job = 0]
    <3>1. q \in Requests /\ Fit(q)
      BY <2>0, <2>3, NextFits
    <3>2. Become(c, q)
      BY <2>3
    <3> HIDE DEF q
    <3> QED
      BY <1>1, <3>1, <3>2, <1>15, <2>9 DEF Publish, TypeOK
  <2> QED
    BY <1>15, <2>1, <2>2, <2>3 DEF Publish
<1>16. ASSUME NEW c \in Clients, Store(c) PROVE TypeOK' /\ Carried'
  <2>1. req' \in [Clients -> Requests] /\ Carried'
    BY <1>2, <1>16 DEF Store
  <2>2. req[c].slot \in Slots /\ req[c].body \in Bodies /\ req[c].job \in Nat
    BY <1>4, <1>16 DEF Store, Fit, Requests
  <2>3. told' \subseteq [slot : Slots, body : Bodies, job : Nat]
    BY <1>16, <2>2 DEF Store, TypeOK
  <2>4. records' \in [Slots -> [body : Bodies, job : Nat] \cup {None}]
    BY <1>16, <2>2 DEF Store, TypeOK
  <2> QED
    BY <1>16, <2>1, <2>3, <2>4 DEF Store, TypeOK
<1>17. ASSUME NEW c \in Clients, Die(c) PROVE TypeOK' /\ Carried'
  <2>1. req' \in [Clients -> Requests] /\ Carried'
    BY <1>2, <1>17 DEF Die
  <2>2. jobs' \in Seq(JobRows)
    BY <1>17, SettledRows DEF Die, TypeOK, Rows
  <2>3. cut' \subseteq Nat
    <3>1. req[c].job \in Nat
      BY <1>4 DEF Requests
    <3> QED
      BY <1>17, <3>1 DEF Die, TypeOK
  <2>4. deaths' \in 0..MaxDeaths
    BY <1>17 DEF Die, TypeOK
  <2> QED
    BY <1>17, <2>1, <2>2, <2>3, <2>4 DEF Die, TypeOK
<1>18. ASSUME NEW c \in Clients, NEW k \in Kinds \ {"keyed"}, NEW s \in {"check", "insert"}, NEW n \in Nat,
              Start(c, k, s, n)
       PROVE  TypeOK' /\ Carried'
  <2> DEFINE r == [Idle EXCEPT !.at = s, !.kind = k, !.left = n]
  <2>1. r \in Requests /\ Fit(r)
    BY DEF Idle, Requests, Steps, Kinds, Fit
  <2>2. Become(c, r)
    BY <1>18 DEF Start
  <2> HIDE DEF r
  <2> QED
    BY <1>1, <1>18, <2>1, <2>2 DEF Start, TypeOK
<1>19. ASSUME NEW c \in Clients, Command(c) \/ NarrateAll(c) \/ RepairAll(c) PROVE TypeOK' /\ Carried'
  BY <1>18, <1>19 DEF Command, NarrateAll, RepairAll, Kinds
<1>20. ASSUME NEW c \in Clients, Flush(c) PROVE TypeOK' /\ Carried'
  <2>0. req[c].at = "insert" /\ req[c].kind = "repair" /\ req[c] \in Requests /\ Fit(req[c])
    BY <1>4, <1>20 DEF Flush
  <2>1. ASSUME req[c].left > 1 PROVE req' \in [Clients -> Requests] /\ Carried'
    <3> DEFINE q == [req[c] EXCEPT !.at = "check", !.left = @ - 1]
    <3>1. q \in Requests /\ Fit(q)
      BY <2>0, <2>1, NextFits
    <3>2. Become(c, q)
      BY <1>20, <2>1 DEF Flush
    <3> HIDE DEF q
    <3> QED
      BY <1>1, <3>1, <3>2
  <2>2. ASSUME ~(req[c].left > 1) PROVE req' \in [Clients -> Requests] /\ Carried'
    <3> DEFINE q == [req[c] EXCEPT !.at = "commit", !.left = 0]
    <3>1. q \in Requests /\ Fit(q)
      BY <2>0, LastFits
    <3>2. Become(c, q)
      BY <1>20, <2>2 DEF Flush
    <3> HIDE DEF q
    <3> QED
      BY <1>1, <3>1, <3>2
  <2>3. jobs' \in Seq(JobRows)
    BY <2>0, <1>20, NewRow DEF Flush, Rows, Kinds
  <2> QED
    BY <1>20, <1>6, <2>1, <2>2, <2>3 DEF Flush, TypeOK
<1>21. ASSUME NEW c \in Clients, Commit(c) PROVE TypeOK' /\ Carried'
  <2>1. req' \in [Clients -> Requests] /\ Carried'
    BY <1>2, <1>21 DEF Commit
  <2>2. jobs' \in Seq(JobRows)
    BY <1>21, SettledRows DEF Commit, TypeOK, Rows
  <2> QED
    BY <1>21, <2>1, <2>2 DEF Commit, TypeOK
<1>22. ASSUME NEW j \in Jobs, Serve(j) \/ NotFound(j) PROVE TypeOK' /\ Carried'
  <2>1. jobs' \in Seq(JobRows)
    BY <1>22, Taken, Dropped DEF Serve, NotFound, TypeOK, Rows
  <2>2. used' \in Nat
    BY <1>22 DEF Serve, NotFound, TypeOK
  <2> QED
    BY <1>22, <2>1, <2>2 DEF Serve, NotFound, TypeOK, Carried
<1>23. ASSUME Expire PROVE TypeOK' /\ Carried'
  BY <1>23 DEF Expire, TypeOK, Carried
<1>24. ASSUME UNCHANGED vars PROVE TypeOK' /\ Carried'
  BY <1>24 DEF vars, TypeOK, Carried
<1> QED
  BY <1>11, <1>12, <1>13, <1>14, <1>15, <1>16, <1>17, <1>19, <1>20, <1>21, <1>22, <1>23, <1>24
     DEF Next, Request

\* The types of the variables hold in every reachable state, for any number of
\* clients, keys, bodies, scenes and crashes.
THEOREM TypeCorrect == Spec => []TypeOK
<1>1. Init => TypeOK /\ Carried
  <2> SUFFICES ASSUME Init PROVE TypeOK /\ Carried
    OBVIOUS
  <2>1. \A c \in Clients : req[c] = Idle
    BY DEF Init
  <2>2. Carried
    BY <2>1, IdleFits DEF Carried
  <2>3. TypeOK
    BY IdleFits, AdmissionAssumption DEF Init, TypeOK
  <2> QED
    BY <2>2, <2>3
<1>2. TypeOK /\ Carried /\ [Next]_vars => TypeOK' /\ Carried'
  BY TypedStep
<1> QED
  BY <1>1, <1>2, PTL DEF Spec

------------------------------------------------------------------------------
\* A row once inserted stays, for the key and with the body it was made for.
RowsStay == Jobs \subseteq Jobs' /\ \A j \in Jobs : Alike(j)

LEMMA SameRows == ASSUME jobs' = jobs PROVE RowsStay
BY DEF RowsStay, Alike, Jobs

LEMMA KeptRows ==
    ASSUME Len(jobs') = Len(jobs), \A j \in Jobs : Alike(j) PROVE RowsStay
BY DEF RowsStay, Jobs

LEMMA SettledStay ==
    ASSUME TypeOK, NEW c \in Clients, NEW row \in Rows, jobs' = Settled(c, row) PROVE RowsStay
BY SettledRows, KeptRows DEF TypeOK, Alike

\* The new row is the newest, and it is the request's.
LEMMA Appended ==
    ASSUME TypeOK, NEW c \in Clients, NEW row \in Rows, NEW mail \in BOOLEAN,
           req[c].kind \in Kinds, jobs' = Append(jobs, NewJob(c, row, mail))
    PROVE  /\ RowsStay
           /\ Jobs' = Jobs \cup {Newest + 1} /\ Newest + 1 \notin Jobs
           /\ jobs'[Newest + 1].slot = req[c].slot
           /\ jobs'[Newest + 1].body = req[c].body
<1> DEFINE x == NewJob(c, row, mail)
<1>1. x \in JobRows /\ jobs \in Seq(JobRows)
  BY NewRow DEF TypeOK
<1>2. x.slot = req[c].slot /\ x.body = req[c].body
  BY DEF NewJob
<1>3. jobs' = Append(jobs, x)
  OBVIOUS
<1> HIDE DEF x
<1>4. Len(jobs') = Len(jobs) + 1 /\ Len(jobs) \in Nat
  BY <1>1, <1>3
<1>5. jobs'[Len(jobs) + 1] = x /\ \A j \in 1..Len(jobs) : jobs'[j] = jobs[j]
  BY <1>1, <1>3
<1>6. Jobs' = Jobs \cup {Newest + 1} /\ Newest + 1 \notin Jobs
  BY <1>4 DEF Jobs, Newest
<1> QED
  BY <1>2, <1>5, <1>6 DEF RowsStay, Alike, Newest, Jobs

LEMMA RowsStep == TypeOK /\ Carried /\ Inserted /\ [Next]_vars => RowsStay
<1> SUFFICES ASSUME TypeOK, Carried, Inserted, [Next]_vars PROVE RowsStay
  OBVIOUS
<1>1. ASSUME NEW c \in Clients, Lookup(c) \/ Store(c) \/ Command(c) \/ NarrateAll(c) \/ RepairAll(c)
      PROVE  RowsStay
  BY <1>1, SameRows DEF Lookup, Store, Command, NarrateAll, RepairAll, Start
<1>2. ASSUME NEW c \in Clients, NEW s \in Slots, NEW b \in Bodies, Ask(c, s, b) PROVE RowsStay
  BY <1>2, SameRows DEF Ask
<1>3. ASSUME NEW c \in Clients, Check(c) \/ Die(c) \/ Commit(c) PROVE RowsStay
  BY <1>3, SameRows, SettledStay DEF Check, Die, Commit, Rows
<1>4. ASSUME NEW c \in Clients, Insert(c) \/ Flush(c) PROVE RowsStay
  <2>1. req[c].kind \in Kinds
    BY <1>4 DEF Insert, Flush, Carried, Fit
  <2> QED
    BY <1>4, <2>1, Appended DEF Insert, Flush, Rows
<1>5. ASSUME NEW c \in Clients, Publish(c) PROVE RowsStay
  <2>1. req[c].job \in Jobs
    BY <1>5 DEF Publish, Inserted
  <2> QED
    BY <1>5, <2>1, Mailed, KeptRows DEF Publish, TypeOK
<1>6. ASSUME NEW j \in Jobs, Serve(j) \/ NotFound(j) PROVE RowsStay
  BY <1>6, Taken, Dropped, KeptRows DEF Serve, NotFound, TypeOK, Rows
<1>7. ASSUME Expire \/ UNCHANGED vars PROVE RowsStay
  BY <1>7, SameRows DEF Expire, vars
<1> QED
  BY <1>1, <1>2, <1>3, <1>4, <1>5, <1>6, <1>7 DEF Next, Request

\* A step that leaves its client neither publishing nor storing keeps Inserted.
LEMMA OthersKeep ==
    ASSUME Inserted, RowsStay, NEW c \in Clients,
           \A d \in Clients \ {c} : req'[d] = req[d],
           req'[c].at \notin {"publish", "store"}
    PROVE  Inserted'
BY DEF Inserted, RowsStay, Alike

LEMMA InsertedStep == TypeOK /\ Carried /\ Inserted /\ [Next]_vars => Inserted'
<1> SUFFICES ASSUME TypeOK, Carried, Inserted, [Next]_vars PROVE Inserted'
  OBVIOUS
<1>0. RowsStay
  BY RowsStep
<1>1. \A c \in Clients : req[c] \in Requests
  BY DEF TypeOK
<1>2. ASSUME NEW c \in Clients, NEW r \in Requests, Become(c, r), r.at \notin {"publish", "store"}
      PROVE  Inserted'
  BY <1>0, <1>2, Becomes, OthersKeep DEF TypeOK
<1>3. ASSUME NEW c \in Clients, Become(c, Idle) PROVE Inserted'
  BY <1>2, <1>3, IdleFits DEF Idle
<1>4. ASSUME NEW c \in Clients, NEW s \in {"check", "insert", "commit"}, req[c].at # "idle", Go(c, s)
      PROVE  Inserted'
  <2> DEFINE r == [req[c] EXCEPT !.at = s]
  <2>1. r \in Requests
    BY <1>1, <1>4, StepFits DEF Carried
  <2>2. r.at = s
    BY <1>1 DEF Requests
  <2>3. Become(c, r)
    BY <1>4 DEF Go
  <2> HIDE DEF r
  <2> QED
    BY <1>2, <2>1, <2>2, <2>3
<1>11. ASSUME NEW c \in Clients, NEW s \in Slots, NEW b \in Bodies, Ask(c, s, b) PROVE Inserted'
  <2> DEFINE r == [Idle EXCEPT !.at = "look", !.kind = "keyed", !.slot = s, !.body = b]
  <2>1. r \in Requests /\ r.at = "look"
    BY DEF Idle, Requests, Steps, Kinds
  <2>2. Become(c, r)
    BY <1>11 DEF Ask
  <2> HIDE DEF r
  <2> QED
    BY <1>2, <2>1, <2>2
<1>12. ASSUME NEW c \in Clients, Lookup(c) \/ Check(c) PROVE Inserted'
  BY <1>3, <1>4, <1>12 DEF Lookup, Check
<1>13. ASSUME NEW c \in Clients, NEW k \in Kinds, NEW s \in {"check", "insert"}, NEW n \in Nat,
              Start(c, k, s, n)
       PROVE  Inserted'
  <2> DEFINE r == [Idle EXCEPT !.at = s, !.kind = k, !.left = n]
  <2>1. r \in Requests /\ r.at = s
    BY DEF Idle, Requests, Steps, Kinds
  <2>2. Become(c, r)
    BY <1>13 DEF Start
  <2> HIDE DEF r
  <2> QED
    BY <1>2, <2>1, <2>2
<1>14. ASSUME NEW c \in Clients, Command(c) \/ NarrateAll(c) \/ RepairAll(c) PROVE Inserted'
  BY <1>13, <1>14, AdmissionAssumption DEF Command, NarrateAll, RepairAll, Kinds
<1>15. ASSUME NEW c \in Clients, Store(c) \/ Die(c) \/ Commit(c) PROVE Inserted'
  BY <1>3, <1>15 DEF Store, Die, Commit
<1>16. ASSUME NEW c \in Clients, Flush(c) PROVE Inserted'
  <2>1. req'[c].at \in {"check", "commit"} /\ \A d \in Clients \ {c} : req'[d] = req[d]
    BY <1>1, <1>16 DEF Flush, Become, TypeOK, Requests
  <2> QED
    BY <1>0, <2>1, OthersKeep
<1>17. ASSUME NEW c \in Clients, Insert(c) PROVE Inserted'
  <2>1. req[c].kind \in Kinds
    BY <1>17 DEF Insert, Carried, Fit
  <2>2. /\ Newest + 1 \in Jobs' /\ jobs'[Newest + 1].slot = req[c].slot
        /\ jobs'[Newest + 1].body = req[c].body
    BY <1>17, <2>1, Appended DEF Insert, Rows
  <2>3. /\ req'[c].job = Newest + 1 /\ req'[c].slot = req[c].slot /\ req'[c].body = req[c].body
        /\ \A d \in Clients \ {c} : req'[d] = req[d]
    BY <1>1, <1>17 DEF Insert, Become, TypeOK, Requests
  <2> QED
    BY <1>0, <2>2, <2>3 DEF Inserted, RowsStay, Alike
<1>18. ASSUME NEW c \in Clients, Publish(c) PROVE Inserted'
  <2>1. CASE Go(c, "store")
    <3>1. /\ req'[c].job = req[c].job /\ req'[c].slot = req[c].slot /\ req'[c].body = req[c].body
          /\ \A d \in Clients \ {c} : req'[d] = req[d]
      BY <1>1, <2>1 DEF Go, Become, TypeOK, Requests
    <3>2. req[c].at = "publish"
      BY <1>18 DEF Publish
    <3> QED
      BY <1>0, <3>1, <3>2 DEF Inserted, RowsStay, Alike
  <2>2. CASE Become(c, Idle)
    BY <1>3, <2>2
  <2>3. CASE Become(c, [req[c] EXCEPT !.at = "insert", !.left = @ - 1, !.job = 0])
    <3>1. req'[c].at = "insert" /\ \A d \in Clients \ {c} : req'[d] = req[d]
      BY <1>1, <2>3 DEF Become, TypeOK, Requests
    <3> QED
      BY <1>0, <3>1, OthersKeep
  <2> QED
    BY <1>18, <2>1, <2>2, <2>3 DEF Publish
<1>19. ASSUME UNCHANGED req PROVE Inserted'
  BY <1>0, <1>19 DEF Inserted, RowsStay, Alike
<1> QED
  BY <1>11, <1>12, <1>14, <1>15, <1>16, <1>17, <1>18, <1>19
     DEF Next, Request, Serve, NotFound, Expire, vars

\* Only Store changes the records, and only where there is none.
LEMMA RecordsStep ==
    ASSUME TypeOK, Carried, [Next]_vars
    PROVE  \/ UNCHANGED records /\ \A x \in told' \ told :
                 \E c \in Clients : /\ x.slot = req[c].slot /\ x.slot \in Slots
                                    /\ records[x.slot] # None
                                    /\ x.body = records[x.slot].body
                                    /\ x.job = records[x.slot].job
           \/ \E c \in Clients : Store(c) /\ records[req[c].slot] = None
<1>1. ASSUME UNCHANGED <<records, told>> PROVE UNCHANGED records /\ told' \ told = {}
  BY <1>1
<1>2. ASSUME NEW c \in Clients, Lookup(c)
      PROVE  UNCHANGED records /\ \A x \in told' \ told :
                 /\ x.slot = req[c].slot /\ x.slot \in Slots
                 /\ records[x.slot] # None
                 /\ x.body = records[x.slot].body
                 /\ x.job = records[x.slot].job
  <2>1. req[c].slot \in Slots
    BY <1>2 DEF Lookup, Carried, Fit
  <2> QED
    BY <1>2, <2>1 DEF Lookup
<1>3. ASSUME NEW c \in Clients, Store(c)
      PROVE  UNCHANGED <<records, told>> \/ records[req[c].slot] = None
  BY <1>3 DEF Store
<1>4. \/ UNCHANGED <<records, told>>
      \/ \E c \in Clients : Lookup(c) \/ Store(c)
  BY DEF Next, Request, vars, Ask, Check, Insert, Publish, Die, Command, NarrateAll, RepairAll,
         Start, Flush, Commit, Serve, NotFound, Expire
<1> QED
  BY <1>1, <1>2, <1>3, <1>4

LEMMA LedgerStep == TypeOK /\ Ledger /\ [Next]_vars => Ledger'
<1> SUFFICES ASSUME TypeOK, Ledger, [Next]_vars PROVE Ledger'
  OBVIOUS
<1>1. Carried' /\ Inserted'
  BY TypedStep, InsertedStep DEF Ledger
<1>2. RowsStay
  BY RowsStep DEF Ledger
<1>3. CASE \E c \in Clients : Store(c) /\ records[req[c].slot] = None
  <2> PICK c \in Clients : Store(c) /\ records[req[c].slot] = None
    BY <1>3
  <2> DEFINE s == req[c].slot
             r == [body |-> req[c].body, job |-> req[c].job]
  <2>1. s \in Slots
    BY DEF Store, Ledger, Carried, Fit
  <2>8. r # None
    <3>1. req[c] \in Requests /\ req[c].body \in Bodies
      BY DEF Store, Ledger, Carried, Fit, TypeOK
    <3>2. r \in [body : Bodies, job : Nat]
      BY <3>1 DEF Requests
    <3> QED
      BY <3>2, AdmissionAssumption
  <2>2. /\ records' = [records EXCEPT ![s] = r]
        /\ told' = told \cup {[slot |-> s, body |-> r.body, job |-> r.job]}
    BY DEF Store
  <2>3. /\ r.job \in Jobs /\ jobs[r.job].slot = s /\ jobs[r.job].body = r.body
    BY DEF Store, Ledger, Inserted
  <2>4. \A x \in told : x.slot # s
    BY DEF Ledger, Answered
  <2> HIDE DEF s, r
  <2>5. records'[s] = r /\ \A t \in Slots \ {s} : records'[t] = records[t]
    BY <2>1, <2>2 DEF TypeOK
  <2>6. Recorded'
    BY <1>2, <2>3, <2>5 DEF Ledger, Recorded, RowsStay, Alike
  <2>7. Answered'
    <3> SUFFICES ASSUME NEW x \in told'
                 PROVE  /\ records'[x.slot] # None
                        /\ x.body = records'[x.slot].body
                        /\ x.job = records'[x.slot].job
      BY DEF Answered
    <3>1. CASE x \in told
      BY <2>4, <2>5, <3>1 DEF Ledger, Answered, TypeOK
    <3>2. CASE x = [slot |-> s, body |-> r.body, job |-> r.job]
      BY <2>8, <2>5, <3>2
    <3> QED
      BY <2>2, <3>1, <3>2
  <2> QED
    BY <1>1, <2>6, <2>7 DEF Ledger
<1>4. CASE UNCHANGED records /\ \A x \in told' \ told :
                 \E c \in Clients : /\ x.slot = req[c].slot /\ x.slot \in Slots
                                    /\ records[x.slot] # None
                                    /\ x.body = records[x.slot].body
                                    /\ x.job = records[x.slot].job
  <2>1. Recorded'
    BY <1>2, <1>4 DEF Ledger, Recorded, RowsStay, Alike
  <2>2. Answered'
    BY <1>4 DEF Ledger, Answered
  <2> QED
    BY <1>1, <2>1, <2>2 DEF Ledger
<1> QED
  BY <1>3, <1>4, RecordsStep DEF Ledger

LEMMA LedgerHolds == Spec => [](TypeOK /\ Ledger)
<1>1. Init => Ledger
  <2> SUFFICES ASSUME Init PROVE Ledger
    OBVIOUS
  <2>1. \A c \in Clients : req[c] = Idle
    BY DEF Init
  <2>2. Carried
    BY <2>1, IdleFits DEF Carried
  <2>3. Inserted
    BY <2>1 DEF Inserted, Idle
  <2>4. Recorded /\ Answered
    BY DEF Init, Recorded, Answered
  <2> QED
    BY <2>2, <2>3, <2>4 DEF Ledger
<1>2. TypeOK /\ Ledger /\ [Next]_vars => Ledger'
  BY LedgerStep
<1> QED
  BY <1>1, <1>2, TypeCorrect, PTL DEF Spec

\* All the answers clients hold for a key name one job, inserted for that key
\* with the body they sent: Recorded ties the record to its row, Answered ties
\* every answer to the record, which is never replaced.
THEOREM AnswersAgree == Spec => []ToldOfOneJob
<1>1. TypeOK /\ Ledger => ToldOfOneJob
  <2> SUFFICES ASSUME TypeOK, Ledger PROVE ToldOfOneJob
    OBVIOUS
  <2>1. \A x \in told : x \in [slot : Slots, body : Bodies, job : Nat]
    BY DEF TypeOK
  <2>2. \A x, y \in told : x.slot = y.slot => x = y
    BY <2>1 DEF Ledger, Answered
  <2>3. \A x \in told : x.job \in Jobs /\ jobs[x.job].slot = x.slot /\ jobs[x.job].body = x.body
    BY <2>1 DEF Ledger, Answered, Recorded
  <2> QED
    BY <2>2, <2>3 DEF ToldOfOneJob
<1> QED
  BY <1>1, LedgerHolds, PTL

------------------------------------------------------------------------------
\* No step lets another request miss a stored answer, and only a request that
\* missed it inserts a row for its key.
LEMMA SpentStep ==
    ASSUME TypeOK, Ledger, [Next]_vars, NEW s \in Slots, records[s] # None
    PROVE  /\ Missed(s)' \subseteq Missed(s)
           /\ Missed(s) = {} => JobsOf(s)' = JobsOf(s)
<1>0. None \notin Slots
  BY AdmissionAssumption DEF Slots
<1>1. \A c \in Clients : req[c] \in Requests /\ Fit(req[c])
  BY DEF TypeOK, Ledger, Carried
<1>2. ASSUME NEW c \in Clients, \A d \in Clients \ {c} : req'[d] = req[d],
             req'[c].slot = s /\ req'[c].at \in {"check", "insert"} => c \in Missed(s)
      PROVE  Missed(s)' \subseteq Missed(s)
  BY <1>2 DEF Missed
<1>3. ASSUME NEW c \in Clients, Become(c, Idle) PROVE Missed(s)' \subseteq Missed(s)
  BY <1>2, <1>3, Becomes, IdleFits DEF TypeOK, Idle
<1>4. ASSUME NEW c \in Clients, NEW n, NEW t \in Steps,
             Become(c, [req[c] EXCEPT !.at = t, !.left = n]) \/ Go(c, t)
      PROVE  /\ req'[c].slot = req[c].slot /\ req'[c].at = t
             /\ \A d \in Clients \ {c} : req'[d] = req[d]
  BY <1>1, <1>4 DEF Go, Become, TypeOK, Requests
<1>5. RowsStay
  BY RowsStep DEF Ledger
<1>6. Len(jobs') = Len(jobs) => JobsOf(s)' = JobsOf(s)
  BY <1>5 DEF JobsOf, RowsStay, Alike, Jobs
<1>11. ASSUME NEW c \in Clients, NEW t \in Slots, NEW b \in Bodies, Ask(c, t, b)
       PROVE  Missed(s)' \subseteq Missed(s) /\ Len(jobs') = Len(jobs)
  <2>1. req'[c].at = "look" /\ \A d \in Clients \ {c} : req'[d] = req[d]
    BY <1>11 DEF Ask, Become, TypeOK, Idle
  <2> QED
    BY <1>2, <1>11, <2>1 DEF Ask
<1>12. ASSUME NEW c \in Clients, Lookup(c) PROVE Missed(s)' \subseteq Missed(s) /\ Len(jobs') = Len(jobs)
  <2>1. CASE Become(c, Idle)
    BY <1>3, <1>12, <2>1 DEF Lookup
  <2>2. CASE records[req[c].slot] = None /\ Go(c, "check")
    <3>1. req'[c].slot # s
      BY <1>4, <2>2 DEF Steps
    <3> QED
      BY <1>2, <1>4, <1>12, <2>2, <3>1 DEF Lookup, Steps
  <2> QED
    BY <1>12, <2>1, <2>2 DEF Lookup
<1>13. ASSUME NEW c \in Clients, Check(c) PROVE Missed(s)' \subseteq Missed(s) /\ Len(jobs') = Len(jobs)
  <2>1. Len(jobs') = Len(jobs)
    BY <1>13, SettledRows DEF Check, TypeOK, Rows
  <2>2. CASE Become(c, Idle)
    BY <1>3, <2>1, <2>2
  <2>3. CASE Go(c, "insert")
    BY <1>2, <1>4, <1>13, <2>1, <2>3 DEF Check, Missed, Steps
  <2> QED
    BY <1>13, <2>2, <2>3 DEF Check
<1>14. ASSUME NEW c \in Clients, Store(c) \/ Die(c) \/ Commit(c)
       PROVE  Missed(s)' \subseteq Missed(s) /\ Len(jobs') = Len(jobs)
  BY <1>3, <1>14, SettledRows DEF Store, Die, Commit, TypeOK, Rows
<1>15. ASSUME NEW c \in Clients, Command(c) \/ NarrateAll(c) \/ RepairAll(c)
       PROVE  Missed(s)' \subseteq Missed(s) /\ Len(jobs') = Len(jobs)
  <2>1. ASSUME NEW k, NEW t, NEW n, Start(c, k, t, n)
        PROVE  req'[c].slot = None /\ \A d \in Clients \ {c} : req'[d] = req[d]
    BY <2>1 DEF Start, Become, Idle, TypeOK
  <2> QED
    BY <1>0, <1>2, <1>15, <2>1 DEF Command, NarrateAll, RepairAll, Start
<1>16. ASSUME NEW c \in Clients, Publish(c) PROVE Missed(s)' \subseteq Missed(s) /\ Len(jobs') = Len(jobs)
  <2>1. Len(jobs') = Len(jobs)
    <3>1. req[c].job \in Jobs
      BY <1>16 DEF Publish, Ledger, Inserted
    <3> QED
      BY <1>16, <3>1, Mailed DEF Publish, TypeOK
  <2>2. CASE Become(c, Idle)
    BY <1>3, <2>1, <2>2
  <2>3. CASE Go(c, "store")
    BY <1>2, <1>4, <2>1, <2>3 DEF Steps
  <2>4. CASE req[c].kind = "bulk" /\ Become(c, [req[c] EXCEPT !.at = "insert", !.left = @ - 1, !.job = 0])
    <3>1. req'[c].slot = None /\ \A d \in Clients \ {c} : req'[d] = req[d]
      BY <1>1, <2>4 DEF Become, TypeOK, Requests, Fit
    <3> QED
      BY <1>0, <1>2, <2>1, <3>1
  <2> QED
    BY <1>16, <2>2, <2>3, <2>4 DEF Publish
<1>17. ASSUME NEW c \in Clients, Flush(c)
       PROVE  Missed(s)' \subseteq Missed(s) /\ (Missed(s) = {} => JobsOf(s)' = JobsOf(s))
  <2>1. req[c].slot = None /\ req[c].kind \in Kinds
    BY <1>1, <1>17 DEF Flush, Fit
  <2>2. req'[c].slot = None /\ \A d \in Clients \ {c} : req'[d] = req[d]
    BY <1>1, <1>17, <2>1 DEF Flush, Become, TypeOK, Requests
  <2>3. JobsOf(s)' = JobsOf(s)
    <3>1. Jobs' = Jobs \cup {Newest + 1} /\ jobs'[Newest + 1].slot = None
      BY <1>17, <2>1, Appended DEF Flush, Rows
    <3> QED
      BY <1>0, <1>5, <3>1 DEF JobsOf, RowsStay, Alike
  <2> QED
    BY <1>0, <1>2, <2>2, <2>3
<1>18. ASSUME NEW c \in Clients, Insert(c)
       PROVE  Missed(s)' \subseteq Missed(s) /\ (Missed(s) = {} => JobsOf(s)' = JobsOf(s))
  <2>1. req[c].at = "insert" /\ req[c].kind \in Kinds
    BY <1>1, <1>18 DEF Insert, Fit
  <2>2. req'[c].at = "publish" /\ \A d \in Clients \ {c} : req'[d] = req[d]
    BY <1>1, <1>18 DEF Insert, Become, TypeOK, Requests
  <2>3. ASSUME Missed(s) = {} PROVE JobsOf(s)' = JobsOf(s)
    <3>1. Jobs' = Jobs \cup {Newest + 1} /\ jobs'[Newest + 1].slot = req[c].slot
      BY <1>18, <2>1, Appended DEF Insert, Rows
    <3>2. req[c].slot # s
      BY <2>1, <2>3 DEF Missed
    <3> QED
      BY <1>5, <3>1, <3>2 DEF JobsOf, RowsStay, Alike
  <2> QED
    BY <1>2, <2>2, <2>3
<1>19. ASSUME NEW j \in Jobs, Serve(j) \/ NotFound(j)
       PROVE  Missed(s)' \subseteq Missed(s) /\ Len(jobs') = Len(jobs)
  BY <1>19, Taken, Dropped DEF Serve, NotFound, Missed, TypeOK, Rows
<1>20. ASSUME Expire \/ UNCHANGED vars PROVE Missed(s)' \subseteq Missed(s) /\ Len(jobs') = Len(jobs)
  BY <1>20 DEF Expire, vars, Missed
<1> QED
  BY <1>6, <1>11, <1>12, <1>13, <1>14, <1>15, <1>16, <1>17, <1>18, <1>19, <1>20 DEF Next, Request

\* However many clients repeat a request, once its answer is stored the key is
\* spent: requests that missed the answer only get fewer, and without them the
\* rows of the key are the same for ever.
THEOREM SpentKeysStaySpent == Spec => SpentKeyIsSpent
<1>1. TypeOK /\ Ledger /\ [Next]_vars =>
        [\A s \in Slots : records[s] # None =>
            /\ Missed(s)' \subseteq Missed(s)
            /\ Missed(s) = {} => JobsOf(s)' = JobsOf(s)]_vars
  BY SpentStep
<1> QED
  BY <1>1, LedgerHolds, PTL DEF Spec, SpentKeyIsSpent

------------------------------------------------------------------------------
\* A request goes from its check to its insert only while credits are left.
LEMMA OnTimeStep == TypeOK /\ OnTime /\ [Next]_vars => OnTime'
<1> SUFFICES ASSUME TypeOK, OnTime, [Next]_vars PROVE OnTime'
  OBVIOUS
<1>1. CASE UNCHANGED <<used, late>>
  BY <1>1 DEF OnTime, Exhausted
<1>2. CASE \E c \in Clients : CountLate(c) /\ UNCHANGED used
  BY <1>2 DEF CountLate, OnTime, Exhausted
<1>3. CASE \E j \in Jobs : Serve(j)
  BY <1>3, AdmissionAssumption DEF Serve, OnTime, Exhausted, TypeOK
<1>4. CASE Expire
  BY <1>4, AdmissionAssumption DEF Expire, OnTime, Exhausted, TypeOK
<1> QED
  BY <1>1, <1>2, <1>3, <1>4
     DEF Next, Request, Ask, Lookup, Check, Insert, Publish, Store, Die, Command, NarrateAll,
         RepairAll, Start, Flush, Commit, NotFound, vars

\* Nobody new is past the check: late rows may only get fewer.
LEMMA Fewer ==
    ASSUME TypeOK, OvershootIsBounded, Cleared' \subseteq Cleared, late' \in Nat, late' <= late
    PROVE  OvershootIsBounded'
<1>1. IsFiniteSet(Clients) /\ IsFiniteSet(Cleared) /\ Cardinality(Cleared) \in Nat
  BY AdmissionAssumption, FS_Subset, FS_CardinalityType DEF Cleared
<1>2. Cardinality(Cleared') <= Cardinality(Cleared) /\ Cardinality(Cleared') \in Nat
  BY <1>1, FS_Subset, FS_CardinalityType
<1>3. Cardinality(Clients) \in Nat
  BY <1>1, FS_CardinalityType
<1> QED
  BY <1>1, <1>2, <1>3 DEF OvershootIsBounded, TypeOK

\* One of those past the check inserts its row, which may be late.
LEMMA OneFewer ==
    ASSUME TypeOK, OvershootIsBounded, NEW c \in Cleared, Cleared' \subseteq Cleared \ {c},
           late' \in Nat, late' <= late + 1
    PROVE  OvershootIsBounded'
<1>1. IsFiniteSet(Clients) /\ IsFiniteSet(Cleared) /\ Cardinality(Cleared) \in Nat
  BY AdmissionAssumption, FS_Subset, FS_CardinalityType DEF Cleared
<1>2. Cardinality(Cleared \ {c}) = Cardinality(Cleared) - 1 /\ IsFiniteSet(Cleared \ {c})
  BY <1>1, FS_RemoveElement
<1>3. Cardinality(Cleared') <= Cardinality(Cleared \ {c}) /\ Cardinality(Cleared') \in Nat
  BY <1>2, FS_Subset, FS_CardinalityType
<1>4. Cardinality(Clients) \in Nat
  BY <1>1, FS_CardinalityType
<1> QED
  BY <1>1, <1>2, <1>3, <1>4 DEF OvershootIsBounded, TypeOK

LEMMA OvershootStep ==
    TypeOK /\ Carried /\ OnTime /\ OvershootIsBounded /\ [Next]_vars => OvershootIsBounded'
<1> SUFFICES ASSUME TypeOK, Carried, OnTime, OvershootIsBounded, [Next]_vars
             PROVE  OvershootIsBounded'
  OBVIOUS
<1>1. \A c \in Clients : req[c] \in Requests
  BY DEF TypeOK
<1>2. late \in Nat /\ late' \in Nat
  BY TypedStep DEF TypeOK
<1>3. ASSUME NEW c \in Clients, \A d \in Clients \ {c} : req'[d] = req[d],
             ~(req'[c].at = "insert" /\ req'[c].kind # "bulk"), late' = late
      PROVE  OvershootIsBounded'
  BY <1>2, <1>3, Fewer DEF Cleared
<1>4. ASSUME NEW c \in Clients, Become(c, Idle), late' = late PROVE OvershootIsBounded'
  BY <1>3, <1>4, Becomes, IdleFits DEF TypeOK, Idle
<1>5. ASSUME UNCHANGED req, late' <= late PROVE OvershootIsBounded'
  BY <1>2, <1>5, Fewer DEF Cleared
<1>6. ASSUME NEW c \in Clients, NEW k, NEW t \in Steps, NEW n, Start(c, k, t, n),
             ~(t = "insert" /\ k # "bulk")
      PROVE  OvershootIsBounded'
  <2>1. /\ req'[c].at = t /\ req'[c].kind = k
        /\ \A d \in Clients \ {c} : req'[d] = req[d]
    BY <1>6 DEF Start, Become, Idle, TypeOK
  <2> QED
    BY <1>3, <1>6, <2>1 DEF Start
<1>7. ASSUME NEW c \in Clients, NEW t \in Steps, Go(c, t)
      PROVE  /\ req'[c].at = t /\ req'[c].kind = req[c].kind
             /\ \A d \in Clients \ {c} : req'[d] = req[d]
  BY <1>1, <1>7 DEF Go, Become, TypeOK, Requests
<1>11. ASSUME NEW c \in Clients, NEW s \in Slots, NEW b \in Bodies, Ask(c, s, b)
       PROVE  OvershootIsBounded'
  <2>1. req'[c].at = "look" /\ \A d \in Clients \ {c} : req'[d] = req[d]
    BY <1>11 DEF Ask, Become, TypeOK, Idle
  <2> QED
    BY <1>3, <1>11, <2>1 DEF Ask
<1>12. ASSUME NEW c \in Clients, Lookup(c) PROVE OvershootIsBounded'
  BY <1>3, <1>4, <1>7, <1>12 DEF Lookup, Steps
<1>13. ASSUME NEW c \in Clients, Check(c) PROVE OvershootIsBounded'
  <2>1. CASE Become(c, Idle)
    BY <1>4, <1>13, <2>1 DEF Check
  <2>2. CASE ~Exhausted
    <3>1. late' = 0
      BY <1>13, <2>2 DEF Check, OnTime
    <3>2. Cardinality(Cleared') <= Cardinality(Clients) /\ Cardinality(Cleared') \in Nat
      BY AdmissionAssumption, FS_Subset, FS_CardinalityType DEF Cleared
    <3> QED
      BY <3>1, <3>2 DEF OvershootIsBounded
  <2> QED
    BY <1>13, <2>1, <2>2 DEF Check
<1>14. ASSUME NEW c \in Clients, Insert(c) \/ Flush(c) PROVE OvershootIsBounded'
  <2>1. req'[c].at # "insert" /\ \A d \in Clients \ {c} : req'[d] = req[d]
    <3>1. CASE Insert(c)
      BY <1>1, <3>1 DEF Insert, Become, TypeOK, Requests
    <3>2. CASE Flush(c)
      BY <1>1, <3>2 DEF Flush, Become, TypeOK, Requests
    <3> QED
      BY <1>14, <3>1, <3>2
  <2>2. req[c].at = "insert" /\ CountLate(c)
    BY <1>14 DEF Insert, Flush
  <2>3. CASE req[c].kind = "bulk"
    BY <1>3, <2>1, <2>2, <2>3 DEF CountLate
  <2>4. CASE req[c].kind # "bulk"
    <3>1. c \in Cleared /\ Cleared' \subseteq Cleared \ {c}
      BY <2>1, <2>2, <2>4 DEF Cleared
    <3>2. late' <= late + 1
      BY <1>2, <2>2 DEF CountLate
    <3> QED
      BY <1>2, <3>1, <3>2, OneFewer
  <2> QED
    BY <2>3, <2>4
<1>15. ASSUME NEW c \in Clients, Publish(c) PROVE OvershootIsBounded'
  <2>1. CASE Become(c, Idle)
    BY <1>4, <1>15, <2>1 DEF Publish
  <2>2. CASE Go(c, "store")
    BY <1>3, <1>7, <1>15, <2>2 DEF Publish, Steps
  <2>3. CASE req[c].kind = "bulk" /\ Become(c, [req[c] EXCEPT !.at = "insert", !.left = @ - 1, !.job = 0])
    <3>1. req'[c].kind = "bulk" /\ \A d \in Clients \ {c} : req'[d] = req[d]
      BY <1>1, <2>3 DEF Become, TypeOK, Requests
    <3> QED
      BY <1>3, <1>15, <3>1 DEF Publish
  <2> QED
    BY <1>15, <2>1, <2>2, <2>3 DEF Publish
<1>16. ASSUME NEW c \in Clients, Store(c) \/ Die(c) \/ Commit(c) PROVE OvershootIsBounded'
  BY <1>4, <1>16 DEF Store, Die, Commit
<1>17. ASSUME NEW c \in Clients, Command(c) \/ NarrateAll(c) \/ RepairAll(c) PROVE OvershootIsBounded'
  BY <1>6, <1>17 DEF Command, NarrateAll, RepairAll, Steps
<1>18. ASSUME NEW j \in Jobs, Serve(j) \/ NotFound(j) PROVE OvershootIsBounded'
  BY <1>2, <1>5, <1>18 DEF Serve, NotFound
<1>19. ASSUME Expire \/ UNCHANGED vars PROVE OvershootIsBounded'
  BY <1>2, <1>5, <1>19 DEF Expire, vars
<1> QED
  BY <1>11, <1>12, <1>13, <1>14, <1>15, <1>16, <1>17, <1>18, <1>19 DEF Next, Request

\* Whatever the clients ask and however often, checked rows inserted since the
\* credits ran out, and requests that may still insert one, are together no more
\* than there are clients.
THEOREM Overshoot == Spec => []OvershootIsBounded
<1>1. Init => OnTime /\ OvershootIsBounded
  <2> SUFFICES ASSUME Init PROVE OnTime /\ OvershootIsBounded
    OBVIOUS
  <2>1. OnTime
    BY DEF Init, OnTime
  <2>2. Cleared = {} /\ late = 0
    BY DEF Init, Cleared, Idle
  <2>3. Cardinality(Cleared) = 0 /\ Cardinality(Clients) \in Nat
    BY <2>2, FS_EmptySet, FS_CardinalityType, AdmissionAssumption
  <2>4. OvershootIsBounded
    BY <2>2, <2>3 DEF OvershootIsBounded
  <2> QED
    BY <2>1, <2>4
<1>2. TypeOK /\ Ledger /\ OnTime /\ OvershootIsBounded /\ [Next]_vars => OnTime' /\ OvershootIsBounded'
  BY OnTimeStep, OvershootStep DEF Ledger
<1> QED
  BY <1>1, <1>2, LedgerHolds, PTL DEF Spec

------------------------------------------------------------------------------
\* Only a repair leaves rows in an open transaction.
Repaired == \A j \in Jobs : jobs[j].row = "flushed" => jobs[j].kind = "repair"

\* No row is added, and none loses its message while it is queued; a request
\* leaves its publish with the message sent or its job in cut.
LEMMA NoneLost ==
    ASSUME Repaired, LostOnlyWhenCut, Jobs' = Jobs, cut \subseteq cut', NEW c \in Clients,
           \A d \in Clients \ {c} : req'[d] = req[d],
           req[c].at = "publish" =>
               req'[c] = req[c] \/ req[c].job \in cut' \/ jobs'[req[c].job].mail,
           \A j \in Jobs : /\ jobs'[j].kind = jobs[j].kind
                           /\ jobs'[j].row = "flushed" => jobs[j].row = "flushed"
                           /\ jobs'[j].row = "queued" /\ ~jobs'[j].mail =>
                                 \/ jobs[j].row = "queued" /\ ~jobs[j].mail
                                 \/ jobs[j].kind = "repair"
    PROVE  Repaired' /\ LostOnlyWhenCut'
<1>1. Repaired'
  BY DEF Repaired
<1>2. ASSUME NEW j \in Jobs, jobs'[j].row = "queued", ~jobs'[j].mail
      PROVE  \/ j \in cut'
             \/ \E d \in Clients : req'[d].at = "publish" /\ req'[d].job = j
             \/ jobs'[j].kind = "repair"
  <2>1. CASE jobs[j].kind = "repair" \/ j \in cut
    BY <2>1
  <2>2. CASE jobs[j].row = "queued" /\ ~jobs[j].mail /\ ~(jobs[j].kind = "repair" \/ j \in cut)
    <3>1. PICK d \in Clients : req[d].at = "publish" /\ req[d].job = j
      BY <2>2 DEF LostOnlyWhenCut
    <3>2. CASE d = c
      BY <1>2, <3>1, <3>2
    <3>3. CASE d # c
      BY <3>1, <3>3
    <3> QED
      BY <3>2, <3>3
  <2> QED
    BY <1>2, <2>1, <2>2
<1>3. LostOnlyWhenCut'
  BY <1>2 DEF LostOnlyWhenCut
<1> QED
  BY <1>1, <1>3

\* What settling an open transaction does to a row.
LEMMA SettledRow ==
    ASSUME NEW c \in Clients, NEW row \in Rows, jobs \in Seq(JobRows), NEW j \in Jobs
    PROVE  \/ Settled(c, row)[j] = jobs[j]
           \/ /\ jobs[j].row = "flushed"
              /\ Settled(c, row)[j].kind = jobs[j].kind
              /\ Settled(c, row)[j].row = row
<1>1. jobs[j] \in JobRows
  BY DEF Jobs
<1>2. Settled(c, row)[j] = IF jobs[j].by = c /\ jobs[j].row = "flushed"
                           THEN [jobs[j] EXCEPT !.row = row, !.by = None] ELSE jobs[j]
  BY DEF Settled
<1>3. /\ [jobs[j] EXCEPT !.row = row, !.by = None].kind = jobs[j].kind
      /\ [jobs[j] EXCEPT !.row = row, !.by = None].row = row
  BY <1>1 DEF JobRows
<1> QED
  BY <1>2, <1>3

\* One row is replaced, and its message with it.
LEMMA Replaced ==
    ASSUME jobs \in Seq(JobRows), NEW i \in Jobs, NEW x, jobs' = [jobs EXCEPT ![i] = x]
    PROVE  Jobs' = Jobs /\ jobs'[i] = x /\ \A j \in Jobs : j # i => jobs'[j] = jobs[j]
BY DEF Jobs

LEMMA LostStep ==
    ASSUME TypeOK, Ledger, Repaired, LostOnlyWhenCut, [Next]_vars
    PROVE  Repaired' /\ LostOnlyWhenCut'
<1> DEFINE Goal == Repaired' /\ LostOnlyWhenCut'
<1>1. /\ \A c \in Clients : req[c] \in Requests /\ Fit(req[c])
      /\ \A j \in Jobs : jobs[j] \in JobRows
      /\ jobs \in Seq(JobRows) /\ Len(jobs) \in Nat
  BY DEF TypeOK, Ledger, Carried, Jobs
<1>2. ASSUME NEW c \in Clients, NEW r, Become(c, r), req[c].at # "publish", UNCHANGED <<jobs, cut>>
      PROVE  Goal
  BY <1>2, NoneLost DEF Become, TypeOK, Jobs
<1>3. ASSUME NEW c \in Clients, Become(c, Idle), NEW row \in {"queued", "never"},
             jobs' = Settled(c, row), cut \subseteq cut',
             req[c].at = "publish" => req[c].job \in cut'
      PROVE  Goal
  <2>1. Jobs' = Jobs
    BY <1>1, <1>3, SettledRows DEF Jobs, Rows
  <2>2. \A d \in Clients \ {c} : req'[d] = req[d]
    BY <1>3 DEF Become, TypeOK
  <2>3. ASSUME NEW j \in Jobs
        PROVE  /\ jobs'[j].kind = jobs[j].kind
               /\ jobs'[j].row = "flushed" => jobs[j].row = "flushed"
               /\ jobs'[j].row = "queued" /\ ~jobs'[j].mail =>
                     \/ jobs[j].row = "queued" /\ ~jobs[j].mail
                     \/ jobs[j].kind = "repair"
    BY <1>1, <1>3, SettledRow DEF Rows, Repaired
  <2> QED
    BY <1>3, <2>1, <2>2, <2>3, NoneLost
<1>4. ASSUME NEW c \in Clients, NEW row \in {"queued", "flushed"}, NEW mail \in BOOLEAN,
             req[c].at = "insert", jobs' = Append(jobs, NewJob(c, row, mail)), UNCHANGED cut,
             NEW r, Become(c, r),
             \/ row = "queued" /\ r.at = "publish" /\ r.job = Newest + 1
             \/ row = "flushed" /\ req[c].kind = "repair"
      PROVE  Goal
  <2> DEFINE new == NewJob(c, row, mail)
  <2>1. new.kind = req[c].kind /\ new.row = row
    BY DEF NewJob
  <2> HIDE DEF new
  <2>2. /\ Jobs' = Jobs \cup {Newest + 1} /\ Newest + 1 \notin Jobs
        /\ jobs'[Newest + 1] = new
        /\ \A j \in Jobs : jobs'[j] = jobs[j]
    BY <1>1, <1>4 DEF Jobs, Newest, new
  <2>3. req'[c] = r /\ \A d \in Clients \ {c} : req'[d] = req[d]
    BY <1>4 DEF Become, TypeOK
  <2>4. Repaired'
    BY <1>4, <2>1, <2>2 DEF Repaired
  <2>5. ASSUME NEW j \in Jobs', jobs'[j].row = "queued", ~jobs'[j].mail
        PROVE  \/ j \in cut'
               \/ \E d \in Clients : req'[d].at = "publish" /\ req'[d].job = j
               \/ jobs'[j].kind = "repair"
    <3>1. CASE j \in Jobs
      BY <1>4, <2>2, <2>3, <2>5, <3>1 DEF LostOnlyWhenCut
    <3>2. CASE j = Newest + 1
      BY <1>4, <2>1, <2>2, <2>3, <2>5, <3>2
    <3> QED
      BY <2>2, <3>1, <3>2
  <2> QED
    BY <2>4, <2>5 DEF LostOnlyWhenCut
<1>11. ASSUME NEW c \in Clients,
              \/ \E s \in Slots, b \in Bodies : Ask(c, s, b)
              \/ Lookup(c) \/ Store(c) \/ Command(c) \/ NarrateAll(c) \/ RepairAll(c)
       PROVE  Goal
  <2>1. req[c] = Idle => req[c].at # "publish"
    BY DEF Idle
  <2> QED
    BY <1>2, <1>11, <2>1
       DEF Ask, Lookup, Store, Command, NarrateAll, RepairAll, Start, Go
<1>12. ASSUME NEW c \in Clients, Check(c) PROVE Goal
  BY <1>2, <1>3, <1>12 DEF Check, Go
<1>13. ASSUME NEW c \in Clients, Insert(c) PROVE Goal
  <2> DEFINE r == [req[c] EXCEPT !.at = "publish", !.job = Newest + 1]
  <2>1. r.at = "publish" /\ r.job = Newest + 1
    BY <1>1 DEF Requests
  <2>2. Become(c, r)
    BY <1>13 DEF Insert
  <2> HIDE DEF r
  <2> QED
    BY <1>4, <1>13, <2>1, <2>2 DEF Insert
<1>14. ASSUME NEW c \in Clients, Flush(c) PROVE Goal
  <2> DEFINE r == IF req[c].left > 1
                  THEN [req[c] EXCEPT !.at = "check", !.left = @ - 1]
                  ELSE [req[c] EXCEPT !.at = "commit", !.left = 0]
  <2>1. Become(c, r)
    BY <1>14 DEF Flush
  <2> HIDE DEF r
  <2>2. /\ jobs' = Append(jobs, NewJob(c, "flushed", TRUE))
        /\ req[c].at = "insert" /\ req[c].kind = "repair" /\ UNCHANGED cut
    BY <1>14 DEF Flush
  <2> QED
    BY <1>4, <2>1, <2>2
<1>15. ASSUME NEW c \in Clients, Publish(c) PROVE Goal
  <2> DEFINE i == req[c].job
  <2>1. i \in Jobs
    BY <1>15 DEF Publish, Ledger, Inserted
  <2>0. jobs' = [jobs EXCEPT ![i] = [jobs[i] EXCEPT !.mail = TRUE]]
    BY <1>15, <2>1 DEF Publish, Jobs
  <2>2. /\ Jobs' = Jobs /\ jobs'[i] = [jobs[i] EXCEPT !.mail = TRUE]
        /\ \A j \in Jobs : j # i => jobs'[j] = jobs[j]
    BY <1>1, <2>0, <2>1, Replaced
  <2>3. jobs'[i].mail /\ jobs'[i].kind = jobs[i].kind /\ jobs'[i].row = jobs[i].row
    BY <1>1, <2>1, <2>2 DEF JobRows
  <2>4. \A d \in Clients \ {c} : req'[d] = req[d]
    BY <1>15 DEF Publish, Go, Become, TypeOK
  <2>5. cut' = cut
    BY <1>15 DEF Publish
  <2> QED
    BY <2>2, <2>3, <2>4, <2>5, NoneLost
<1>16. ASSUME NEW c \in Clients, Commit(c) \/ Die(c) PROVE Goal
  BY <1>3, <1>16 DEF Commit, Die
<1>17. ASSUME NEW j \in Jobs, Serve(j) \/ NotFound(j) PROVE Goal
  <2>1. Jobs' = Jobs
    BY <1>1, <1>17, Taken, Dropped DEF Serve, NotFound, Jobs, Rows
  <2>2. \A i \in Jobs : i # j => jobs'[i] = jobs[i]
    BY <1>1, <1>17 DEF Serve, NotFound, Jobs
  <2>3. jobs[j].kind = jobs'[j].kind /\ jobs'[j].row \notin {"queued"}
        /\ (jobs'[j].row = "flushed" => jobs[j].row = "flushed")
    <3>1. jobs[j] \in JobRows
      BY <1>1
    <3>2. CASE NotFound(j)
      <4>1. jobs' = [jobs EXCEPT ![j] = [jobs[j] EXCEPT !.mail = FALSE]]
        BY <3>2 DEF NotFound, Jobs
      <4>2. jobs'[j] = [jobs[j] EXCEPT !.mail = FALSE] /\ jobs[j].row # "queued"
        BY <1>1, <3>2, <4>1, Replaced DEF NotFound
      <4> QED
        BY <3>1, <4>2 DEF JobRows
    <3>3. ASSUME NEW row \in {"succeeded", "failed"},
                 jobs' = [jobs EXCEPT ![j].row = row, ![j].mail = FALSE]
          PROVE  jobs'[j].kind = jobs[j].kind /\ jobs'[j].row = row
      <4>1. jobs' = [jobs EXCEPT ![j] = [jobs[j] EXCEPT !.row = row, !.mail = FALSE]]
        BY <3>3 DEF Jobs
      <4>2. jobs'[j] = [jobs[j] EXCEPT !.row = row, !.mail = FALSE]
        BY <1>1, <4>1, Replaced
      <4> QED
        BY <3>1, <4>2 DEF JobRows
    <3>4. CASE Serve(j)
      BY <3>3, <3>4 DEF Serve
    <3> QED
      BY <1>17, <3>2, <3>4
  <2>4. req' = req /\ cut' = cut
    BY <1>17 DEF Serve, NotFound
  <2>5. Repaired'
    BY <2>1, <2>2, <2>3 DEF Repaired
  <2>6. ASSUME NEW i \in Jobs, jobs'[i].row = "queued", ~jobs'[i].mail
        PROVE  jobs'[i] = jobs[i]
    BY <2>2, <2>3, <2>6
  <2> QED
    BY <2>1, <2>4, <2>5, <2>6 DEF LostOnlyWhenCut
<1>18. ASSUME Expire \/ UNCHANGED vars PROVE Goal
  BY <1>18 DEF Expire, vars, Repaired, LostOnlyWhenCut, Jobs
<1> QED
  BY <1>11, <1>12, <1>13, <1>14, <1>15, <1>16, <1>17, <1>18 DEF Next, Request

\* However requests and workers interleave and requests die, a queued row
\* without a message is one whose request is about to publish it or was cut
\* off there, or one a repair published too early: no other path of a handler
\* or of a worker loses a job.
THEOREM LossesAreCuts == Spec => []LostOnlyWhenCut
<1>1. Init => Repaired /\ LostOnlyWhenCut
  BY DEF Init, Repaired, LostOnlyWhenCut, Jobs
<1>2. TypeOK /\ Ledger /\ Repaired /\ LostOnlyWhenCut /\ [Next]_vars => Repaired' /\ LostOnlyWhenCut'
  BY LostStep
<1> QED
  BY <1>1, <1>2, LedgerHolds, PTL DEF Spec
=============================================================================
