------------------------- MODULE JobLifecycleProofs -------------------------
(***************************************************************************)
(* Theorems about JobLifecycle, for every set of jobs, workers and tenants *)
(* and every bound.                                                        *)
(***************************************************************************)
EXTENDS JobLifecycle, TLAPS

(* All variables keep their types: statuses are those of the jobs table,   *)
(* a worker is at a job exactly when it is not idle.                       *)
THEOREM TypeCorrect == Spec => []TypeOK
<1> USE JobsAssumption DEF Statuses, Active, Terminal
<1>1. Init => TypeOK
  BY DEF Init, TypeOK
<1>2. TypeOK /\ [Next]_vars => TypeOK'
  <2> SUFFICES ASSUME TypeOK, [Next]_vars PROVE TypeOK'
    OBVIOUS
  <2> USE DEF TypeOK, rows, broker, workers, api, history, SetStatus
  <2>1. ASSUME NEW j \in Jobs,
               Create(j) \/ Publish(j) \/ CancelRead(j) \/ CancelCommit(j)
        PROVE  TypeOK'
    <3>1. CASE Create(j)        BY <3>1 DEF Create
    <3>2. CASE Publish(j)       BY <3>2 DEF Publish
    <3>3. CASE CancelRead(j)    BY <3>3 DEF CancelRead
    <3>4. CASE CancelCommit(j)  BY <3>4 DEF CancelCommit
    <3> QED BY <2>1, <3>1, <3>2, <3>3, <3>4
  <2>2. ASSUME NEW t \in Tenants, ClearRead(t) \/ ClearCommit(t) \/ Purge(t)
        PROVE  TypeOK'
    <3>1. CASE ClearRead(t)    BY <3>1 DEF ClearRead
    <3>2. CASE ClearCommit(t)  BY <3>2 DEF ClearCommit
    <3>3. CASE Purge(t)        BY <3>3 DEF Purge
    <3> QED BY <2>2, <3>1, <3>2, <3>3
  <2>3. ASSUME ApiRestart PROVE TypeOK'
    <3>1. CASE Eager   BY <2>3, <3>1 DEF ApiRestart
    <3>2. CASE ~Eager  BY <2>3, <3>2 DEF ApiRestart
    <3> QED BY <3>1, <3>2
  <2>4. ASSUME NEW j \in Jobs, Redeliver(j) \/ Discard(j) \/ Age(j)
        PROVE  TypeOK'
    <3>1. CASE Redeliver(j)  BY <3>1 DEF Redeliver
    <3>2. CASE Discard(j)    BY <3>2 DEF Discard
    <3>3. CASE Age(j)        BY <3>3 DEF Age
    <3> QED BY <2>4, <3>1, <3>2, <3>3
  <2>5. ASSUME NEW w \in Workers, (\E j \in Jobs : Deliver(w, j)) \/ Acquire(w)
        PROVE  TypeOK'
    <3>1. ASSUME NEW j \in Jobs, Deliver(w, j) PROVE TypeOK'
      BY <3>1 DEF Deliver
    <3>2. CASE Acquire(w)
      BY <3>2 DEF Acquire
    <3> QED BY <2>5, <3>1, <3>2
  <2>6. ASSUME NEW w \in Workers, FinishOk(w) \/ FinishFail(w) \/ SoftTimeLimit(w)
        PROVE  TypeOK'
    <3>1. CASE FinishOk(w)       BY <3>1 DEF FinishOk, Finish
    <3>2. CASE FinishFail(w)     BY <3>2 DEF FinishFail, Finish
    <3>3. CASE SoftTimeLimit(w)  BY <3>3 DEF SoftTimeLimit
    <3> QED BY <2>6, <3>1, <3>2, <3>3
  <2>7. ASSUME NEW w \in Workers, Terminated(w) \/ Notify(w) \/ WorkerCrash(w)
        PROVE  TypeOK'
    <3>1. CASE Terminated(w)   BY <3>1 DEF Terminated
    <3>2. CASE Notify(w)       BY <3>2 DEF Notify
    <3>3. CASE WorkerCrash(w)  BY <3>3 DEF WorkerCrash
    <3> QED BY <2>7, <3>1, <3>2, <3>3
  <2>8. ASSUME ReapScan \/ ReapCommit PROVE TypeOK'
    BY <2>8 DEF ReapScan, ReapCommit
  <2>9. ASSUME UNCHANGED vars PROVE TypeOK'
    BY <2>9 DEF vars
  <2> HIDE DEF TypeOK
  <2> QED BY <2>1, <2>2, <2>3, <2>4, <2>5, <2>6, <2>7, <2>8, <2>9
       DEF Next, ApiStep, WorkerStep
<1> QED BY <1>1, <1>2, PTL DEF Spec

-----------------------------------------------------------------------------
(* A running row is never orphaned silently: only a worker crash or a      *)
(* cancellation's SIGTERM takes its executor away, and when Eager a        *)
(* restart fails the row in the same step.                                 *)
THEOREM RunningRowsHaveExecutors == Spec => []RunningHasExecutor
<1>1. Init => RunningHasExecutor
  BY DEF Init, RunningHasExecutor
<1>2. TypeOK /\ RunningHasExecutor /\ [Next]_vars => RunningHasExecutor'
  <2> SUFFICES ASSUME TypeOK, RunningHasExecutor, [Next]_vars
               PROVE  RunningHasExecutor'
    OBVIOUS
  <2> USE DEF TypeOK, RunningHasExecutor, Executing, SetStatus,
              rows, broker, workers, api, history
  <2>1. ASSUME NEW j \in Jobs,
               Create(j) \/ Publish(j) \/ CancelRead(j) \/ CancelCommit(j)
        PROVE  RunningHasExecutor'
    <3>1. CASE Create(j)        BY <3>1 DEF Create
    <3>2. CASE Publish(j)       BY <3>2 DEF Publish
    <3>3. CASE CancelRead(j)    BY <3>3 DEF CancelRead
    <3>4. CASE CancelCommit(j)  BY <3>4 DEF CancelCommit
    <3> QED BY <2>1, <3>1, <3>2, <3>3, <3>4
  <2>2. ASSUME NEW t \in Tenants, ClearRead(t) \/ ClearCommit(t) \/ Purge(t)
        PROVE  RunningHasExecutor'
    <3>1. CASE ClearRead(t)    BY <3>1 DEF ClearRead
    <3>2. CASE ClearCommit(t)  BY <3>2 DEF ClearCommit
    <3>3. CASE Purge(t)        BY <3>3 DEF Purge
    <3> QED BY <2>2, <3>1, <3>2, <3>3
  <2>3. ASSUME ApiRestart PROVE RunningHasExecutor'
    <3>1. CASE Eager   BY <2>3, <3>1 DEF ApiRestart
    <3>2. CASE ~Eager  BY <2>3, <3>2 DEF ApiRestart
    <3> QED BY <3>1, <3>2
  <2>4. ASSUME NEW j \in Jobs, Redeliver(j) \/ Discard(j) \/ Age(j)
        PROVE  RunningHasExecutor'
    BY <2>4 DEF Redeliver, Discard, Age
  <2>5. ASSUME NEW w \in Workers, NEW j \in Jobs, Deliver(w, j)
        PROVE  RunningHasExecutor'
    BY <2>5 DEF Deliver
  <2>6. ASSUME NEW w \in Workers, Acquire(w)
        PROVE  RunningHasExecutor'
    BY <2>6 DEF Acquire
  <2>7. ASSUME NEW w \in Workers, FinishOk(w) \/ FinishFail(w) \/ SoftTimeLimit(w)
        PROVE  RunningHasExecutor'
    <3>1. CASE FinishOk(w)       BY <3>1 DEF FinishOk, Finish
    <3>2. CASE FinishFail(w)     BY <3>2 DEF FinishFail, Finish
    <3>3. CASE SoftTimeLimit(w)  BY <3>3 DEF SoftTimeLimit
    <3> QED BY <2>7, <3>1, <3>2, <3>3
  <2>8. ASSUME NEW w \in Workers, Terminated(w) \/ Notify(w) \/ WorkerCrash(w)
        PROVE  RunningHasExecutor'
    <3>1. CASE Terminated(w)   BY <3>1 DEF Terminated
    <3>2. CASE Notify(w)       BY <3>2 DEF Notify
    <3>3. CASE WorkerCrash(w)  BY <3>3 DEF WorkerCrash
    <3> QED BY <2>8, <3>1, <3>2, <3>3
  <2>9. ASSUME ReapScan \/ ReapCommit PROVE RunningHasExecutor'
    BY <2>9 DEF ReapScan, ReapCommit
  <2>10. ASSUME UNCHANGED vars PROVE RunningHasExecutor'
    BY <2>10 DEF vars
  <2> HIDE DEF TypeOK, RunningHasExecutor
  <2> QED BY <2>1, <2>2, <2>3, <2>4, <2>5, <2>6, <2>7, <2>8, <2>9, <2>10
       DEF Next, ApiStep, WorkerStep
<1> QED BY <1>1, <1>2, TypeCorrect, PTL DEF Spec

-----------------------------------------------------------------------------
(* A queued row is somebody's: a message leaves it only by taking a worker *)
(* there, and what destroys a message, a publisher or a worker is recorded *)
(* (create_job, clear_task_backlog, control.revoke, crashes and restarts). *)
THEOREM QueuedRowsHaveCarriers == Spec => []QueuedHasCarrier
<1>1. Init => QueuedHasCarrier
  BY DEF Init, QueuedHasCarrier
<1>2. TypeOK /\ QueuedHasCarrier /\ [Next]_vars => QueuedHasCarrier'
  <2> SUFFICES ASSUME TypeOK, QueuedHasCarrier, [Next]_vars
               PROVE  QueuedHasCarrier'
    OBVIOUS
  <2> USE DEF TypeOK, QueuedHasCarrier, SetStatus, rows, broker, workers, api, history
  <2>1. ASSUME NEW j \in Jobs,
               Create(j) \/ Publish(j) \/ CancelRead(j) \/ CancelCommit(j)
        PROVE  QueuedHasCarrier'
    <3>1. CASE Create(j)        BY <3>1 DEF Create
    <3>2. CASE Publish(j)       BY <3>2 DEF Publish
    <3>3. CASE CancelRead(j)    BY <3>3 DEF CancelRead
    <3>4. CASE CancelCommit(j)  BY <3>4 DEF CancelCommit
    <3> QED BY <2>1, <3>1, <3>2, <3>3, <3>4
  <2>2. ASSUME NEW t \in Tenants, ClearRead(t) \/ ClearCommit(t) \/ Purge(t)
        PROVE  QueuedHasCarrier'
    <3>1. CASE ClearRead(t)    BY <3>1 DEF ClearRead
    <3>2. CASE ClearCommit(t)  BY <3>2 DEF ClearCommit
    <3>3. CASE Purge(t)        BY <3>3 DEF Purge
    <3> QED BY <2>2, <3>1, <3>2, <3>3
  <2>3. ASSUME ApiRestart PROVE QueuedHasCarrier'
    <3>1. CASE Eager   BY <2>3, <3>1 DEF ApiRestart
    <3>2. CASE ~Eager  BY <2>3, <3>2 DEF ApiRestart
    <3> QED BY <3>1, <3>2
  <2>4. ASSUME NEW j \in Jobs, Redeliver(j) \/ Discard(j) \/ Age(j)
        PROVE  QueuedHasCarrier'
    <3>1. CASE Redeliver(j)  BY <3>1 DEF Redeliver
    <3>2. CASE Discard(j)    BY <3>2 DEF Discard
    <3>3. CASE Age(j)        BY <3>3 DEF Age
    <3> QED BY <2>4, <3>1, <3>2, <3>3
  <2>5. ASSUME NEW w \in Workers, NEW j \in Jobs, Deliver(w, j)
        PROVE  QueuedHasCarrier'
    BY <2>5 DEF Deliver
  <2>6. ASSUME NEW w \in Workers, Acquire(w)
        PROVE  QueuedHasCarrier'
    BY <2>6 DEF Acquire
  <2>7. ASSUME NEW w \in Workers, FinishOk(w) \/ FinishFail(w) \/ SoftTimeLimit(w)
        PROVE  QueuedHasCarrier'
    <3>1. CASE FinishOk(w)       BY <3>1 DEF FinishOk, Finish
    <3>2. CASE FinishFail(w)     BY <3>2 DEF FinishFail, Finish
    <3>3. CASE SoftTimeLimit(w)  BY <3>3 DEF SoftTimeLimit
    <3> QED BY <2>7, <3>1, <3>2, <3>3
  <2>8. ASSUME NEW w \in Workers, Terminated(w) \/ Notify(w) \/ WorkerCrash(w)
        PROVE  QueuedHasCarrier'
    <3>1. CASE Terminated(w)   BY <3>1 DEF Terminated
    <3>2. CASE Notify(w)       BY <3>2 DEF Notify
    <3>3. CASE WorkerCrash(w)  BY <3>3 DEF WorkerCrash
    <3> QED BY <2>8, <3>1, <3>2, <3>3
  <2>9. ASSUME ReapScan \/ ReapCommit PROVE QueuedHasCarrier'
    BY <2>9 DEF ReapScan, ReapCommit
  <2>10. ASSUME UNCHANGED vars PROVE QueuedHasCarrier'
    BY <2>10 DEF vars
  <2> HIDE DEF TypeOK, QueuedHasCarrier
  <2> QED BY <2>1, <2>2, <2>3, <2>4, <2>5, <2>6, <2>7, <2>8, <2>9, <2>10
       DEF Next, ApiStep, WorkerStep
<1> QED BY <1>1, <1>2, TypeCorrect, PTL DEF Spec

-----------------------------------------------------------------------------
(* The rows some process holds, and how the board sees a step.             *)
HeldRows == {j \in Jobs : Held(j)}

(* A step that writes no status and picks up only active rows, one that    *)
(* drops held rows and writes only held ones, and one that does neither.   *)
HoldStep ==
    /\ UNCHANGED status
    /\ HeldRows \subseteq HeldRows'
    /\ \A j \in HeldRows' \ HeldRows : status[j] \in Active

WriteStep ==
    /\ HeldRows' \subseteq HeldRows
    /\ \A j \in Jobs : status'[j] # status[j] =>
           j \in HeldRows /\ status'[j] \in {"running"} \cup Terminal

LEMMA BoardSteps ==
    ASSUME TypeOK, TypeOK', HoldStep \/ WriteStep
    PROVE  [Board!Next]_(Board!vars)
BY DEF HoldStep, WriteStep, HeldRows, TypeOK, Statuses, Active, Terminal,
       Board!Next, Board!Hold, Board!Write, Board!vars, Board!Statuses,
       Board!Active, Board!Terminal

(* The jobs table implements the abstract board, whatever is redelivered   *)
(* or crashes: a process only ever picks up a row it has read as active,   *)
(* and only the row's holders write it.                                    *)
THEOREM Implementation == Spec => ImplementsBoard
<1>1. Init => Board!Init
  BY DEF Init, Board!Init, Held
<1>2. TypeOK /\ TypeOK' /\ RunningHasExecutor /\ [Next]_vars
        => [Board!Next]_(Board!vars)
  <2> SUFFICES ASSUME TypeOK, TypeOK', RunningHasExecutor, [Next]_vars
               PROVE  [Board!Next]_(Board!vars)
    OBVIOUS
  <2> USE DEF HeldRows, Held, SetStatus, Active, Terminal, rows, broker, workers, api,
              history
  <2>1. ASSUME NEW j \in Jobs, Create(j) PROVE [Board!Next]_(Board!vars)
    <3>1. status' = [status EXCEPT ![j] = "queued"]
      BY <2>1 DEF Create, TypeOK
    <3>2. \A i \in Jobs : Held(i)' <=> Held(i)
      BY <2>1 DEF Create
    <3>3. UNCHANGED {i \in Jobs : Held(i)}
      <4> HIDE DEF Held
      <4> QED BY <3>2
    <3>4. Board!Submit(j)
      BY <2>1, <3>1, <3>3 DEF Create, Board!Submit
    <3> QED BY <3>4 DEF Board!Next
  <2>2. ASSUME NEW j \in Jobs, Publish(j) \/ CancelRead(j) \/ CancelCommit(j)
        PROVE  HoldStep \/ WriteStep
    <3>1. CASE Publish(j)
      BY <3>1 DEF Publish, HoldStep
    <3>2. CASE CancelRead(j)
      <4>1. UNCHANGED <<status, pc, at, backlog, reaping>> /\ status[j] \in Active
        BY <3>2 DEF CancelRead
      <4>2. \A i \in Jobs : i # j => cancelling'[i] = cancelling[i]
        BY <3>2 DEF CancelRead, TypeOK
      <4>3. cancelling'[j] # "idle" /\ cancelling[j] = "idle"
        BY <3>2 DEF CancelRead, TypeOK
      <4> QED BY <4>1, <4>2, <4>3 DEF HoldStep
    <3>3. CASE CancelCommit(j)
      BY <3>3 DEF CancelCommit, WriteStep, TypeOK
    <3> QED BY <2>2, <3>1, <3>2, <3>3
  <2>3. ASSUME NEW t \in Tenants, ClearRead(t) \/ ClearCommit(t) \/ Purge(t)
        PROVE  HoldStep \/ WriteStep
    <3>0. CASE UNCHANGED <<status, pc, at, cancelling, backlog, reaping>>
      BY <3>0 DEF HoldStep
    <3>1. CASE ClearRead(t)
      BY <3>1 DEF ClearRead, HoldStep, TypeOK
    <3>2. CASE ClearCommit(t)
      BY <3>2 DEF ClearCommit, WriteStep, TypeOK
    <3>3. CASE Purge(t)
      BY <3>0, <3>3 DEF Purge
    <3> QED BY <2>3, <3>1, <3>2, <3>3
  <2>4. ASSUME ApiRestart PROVE HoldStep \/ WriteStep
    <3>1. CASE Eager
      <4>1. \A j \in Jobs : status[j] = "running" => j \in HeldRows
        BY <3>1 DEF RunningHasExecutor, Executing
      <4>2. HeldRows' = {}
        BY <2>4, <3>1 DEF ApiRestart
      <4> QED BY <2>4, <3>1, <4>1, <4>2 DEF ApiRestart, WriteStep, TypeOK
    <3>2. CASE ~Eager
      BY <2>4, <3>2 DEF ApiRestart, WriteStep
    <3> QED BY <3>1, <3>2
  <2>5. ASSUME NEW j \in Jobs, Redeliver(j) \/ Discard(j) \/ Age(j)
        PROVE  HoldStep \/ WriteStep
    BY <2>5 DEF Redeliver, Discard, Age, HoldStep
  <2>6. ASSUME NEW w \in Workers, NEW j \in Jobs, Deliver(w, j)
        PROVE  HoldStep \/ WriteStep
    <3>1. CASE status[j] = "queued"
      BY <2>6, <3>1 DEF Deliver, HoldStep, TypeOK
    <3>2. CASE status[j] # "queued"
      BY <2>6, <3>2 DEF Deliver, HoldStep
    <3> QED BY <3>1, <3>2
  <2>7. ASSUME NEW w \in Workers, Acquire(w) PROVE HoldStep \/ WriteStep
    BY <2>7 DEF Acquire, WriteStep, TypeOK
  <2>8. ASSUME NEW w \in Workers, FinishOk(w) \/ FinishFail(w) \/ SoftTimeLimit(w)
        PROVE  HoldStep \/ WriteStep
    BY <2>8 DEF FinishOk, FinishFail, Finish, SoftTimeLimit, WriteStep, TypeOK
  <2>9. ASSUME NEW w \in Workers, Terminated(w) \/ Notify(w) \/ WorkerCrash(w)
        PROVE  HoldStep \/ WriteStep
    BY <2>9 DEF Terminated, Notify, WorkerCrash, WriteStep, TypeOK
  <2>10. ASSUME ReapScan \/ ReapCommit PROVE HoldStep \/ WriteStep
    <3>1. CASE ReapScan    BY <3>1 DEF ReapScan, HoldStep, TypeOK
    <3>2. CASE ReapCommit  BY <3>2 DEF ReapCommit, WriteStep, TypeOK
    <3> QED BY <2>10, <3>1, <3>2
  <2>11. ASSUME UNCHANGED vars PROVE HoldStep \/ WriteStep
    BY <2>11 DEF vars, HoldStep
  <2> QED BY <2>1, <2>2, <2>3, <2>4, <2>5, <2>6, <2>7, <2>8, <2>9, <2>10, <2>11,
             BoardSteps DEF Next, ApiStep, WorkerStep
<1> QED BY <1>1, <1>2, TypeCorrect, RunningRowsHaveExecutors, PTL
     DEF Spec, ImplementsBoard, Board!Spec

-----------------------------------------------------------------------------
(* A terminal row that no process still holds is final.                    *)
THEOREM SettledRowsAreFinal == Spec => SettledIsFinal
<1>1. [Board!Next]_(Board!vars)
        => [\A j \in Jobs : Settled(j) => status'[j] = status[j] /\ ~Held(j)']_vars
  <2> SUFFICES ASSUME [Board!Next]_(Board!vars), NEW j \in Jobs, Settled(j)
               PROVE  status'[j] = status[j] /\ ~Held(j)'
    OBVIOUS
  <2> USE DEF Settled, Terminal
  <2>1. ASSUME NEW i \in Jobs, Board!Submit(i)
        PROVE  status'[j] = status[j] /\ ~Held(j)'
    <3>1. i # j
      BY <2>1 DEF Board!Submit
    <3>2. status' = [status EXCEPT ![i] = "queued"]
      BY <2>1 DEF Board!Submit
    <3>3. {k \in Jobs : Held(k)'} = {k \in Jobs : Held(k)}
      BY <2>1 DEF Board!Submit
    <3> QED BY <3>1, <3>2, <3>3
  <2>2. CASE Board!Hold
    BY <2>2 DEF Board!Hold, Board!Active
  <2>3. CASE Board!Write
    BY <2>3 DEF Board!Write
  <2>4. CASE UNCHANGED Board!vars
    BY <2>4 DEF Board!vars
  <2> QED BY <2>1, <2>2, <2>3, <2>4 DEF Board!Next
<1> QED BY <1>1, Implementation, PTL DEF SettledIsFinal, ImplementsBoard, Board!Spec

-----------------------------------------------------------------------------
(* A job whose message the broker never doubled is one token: it is either *)
(* about to be published, or one message, or at one worker, or spent.      *)
OneToken ==
    \A j \in Jobs \ doubled :
        /\ msgs[j] <= 1
        /\ status[j] = "none" \/ j \in entering =>
               msgs[j] = 0 /\ told[j] = {} /\ \A w \in Workers : at[w] # j
        /\ j \in entering => status[j] # "none"
        /\ msgs[j] = 1 => told[j] = {} /\ \A w \in Workers : at[w] # j
        /\ \A v, w \in Workers : at[v] = j /\ at[w] = j => v = w
        /\ \A w \in Workers : at[w] = j => told[j] = {}
        /\ \A u, v \in told[j] : u = v

(* A row read queued has no executor and no verdict yet; and unless two    *)
(* workers were acquiring the job at once, it never has two workers.       *)
OneReader ==
    \A j \in Jobs :
        /\ status[j] = "none" => told[j] = {} /\ \A w \in Workers : at[w] # j
        /\ status[j] = "queued" =>
               told[j] = {} /\ \A w \in Workers : at[w] = j => pc[w] = "acquiring"
        /\ j \notin overlapped =>
               /\ \A v, w \in Workers : at[v] = j /\ at[w] = j => v = w
               /\ \A w \in Workers : at[w] = j => told[j] = {}
               /\ \A u, v \in told[j] : u = v

LEMMA OneTokenEach == Spec => []OneToken
<1>1. Init => OneToken
  BY JobsAssumption DEF Init, OneToken
<1>2. TypeOK /\ OneToken /\ [Next]_vars => OneToken'
  <2> SUFFICES ASSUME TypeOK, OneToken, [Next]_vars PROVE OneToken'
    OBVIOUS
  <2> USE JobsAssumption DEF TypeOK, OneToken, SetStatus, rows, broker, workers, api, history
  <2>1. ASSUME NEW j \in Jobs, Create(j) PROVE OneToken'
    BY <2>1 DEF Create
  <2>2. ASSUME NEW j \in Jobs, Publish(j) PROVE OneToken'
    BY <2>2 DEF Publish
  <2>3. ASSUME NEW j \in Jobs, CancelRead(j) \/ CancelCommit(j) PROVE OneToken'
    <3>1. CASE CancelRead(j)    BY <3>1 DEF CancelRead
    <3>2. CASE CancelCommit(j)  BY <3>2 DEF CancelCommit
    <3> QED BY <2>3, <3>1, <3>2
  <2>4. ASSUME NEW t \in Tenants, ClearRead(t) PROVE OneToken'
    BY <2>4 DEF ClearRead
  <2>5. ASSUME NEW t \in Tenants, ClearCommit(t) PROVE OneToken'
    <3>1. \A i \in Jobs : status'[i] = status[i] \/ status'[i] = "cancelled"
      BY <2>5 DEF ClearCommit
    <3>2. UNCHANGED <<workers, msgs, entering, history>>
      BY <2>5 DEF ClearCommit
    <3> QED BY <3>1, <3>2
  <2>6. ASSUME NEW t \in Tenants, Purge(t) PROVE OneToken'
    BY <2>6 DEF Purge
  <2>7. ASSUME ApiRestart PROVE OneToken'
    <3>1. CASE Eager   BY <2>7, <3>1 DEF ApiRestart
    <3>2. CASE ~Eager  BY <2>7, <3>2 DEF ApiRestart
    <3> QED BY <3>1, <3>2
  <2>8. ASSUME NEW j \in Jobs, Redeliver(j) PROVE OneToken'
    BY <2>8 DEF Redeliver
  <2>9. ASSUME NEW j \in Jobs, Discard(j) \/ Age(j) PROVE OneToken'
    BY <2>9 DEF Discard, Age
  <2>10. ASSUME NEW w \in Workers, NEW j \in Jobs, Deliver(w, j) PROVE OneToken'
    BY <2>10 DEF Deliver, Acquiring
  <2>11. ASSUME NEW w \in Workers, Acquire(w) PROVE OneToken'
    BY <2>11 DEF Acquire
  <2>12. ASSUME NEW w \in Workers, FinishOk(w) \/ FinishFail(w) \/ SoftTimeLimit(w)
         PROVE  OneToken'
    BY <2>12 DEF FinishOk, FinishFail, Finish, SoftTimeLimit
  <2>13. ASSUME NEW w \in Workers, Terminated(w) \/ Notify(w) \/ WorkerCrash(w)
         PROVE  OneToken'
    <3>1. CASE Terminated(w)   BY <3>1 DEF Terminated
    <3>2. CASE Notify(w)       BY <3>2 DEF Notify
    <3>3. CASE WorkerCrash(w)  BY <3>3 DEF WorkerCrash
    <3> QED BY <2>13, <3>1, <3>2, <3>3
  <2>14. ASSUME ReapScan \/ ReapCommit PROVE OneToken'
    <3>1. CASE ReapScan    BY <3>1 DEF ReapScan
    <3>2. CASE ReapCommit  BY <3>2 DEF ReapCommit
    <3> QED BY <2>14, <3>1, <3>2
  <2>15. ASSUME UNCHANGED vars PROVE OneToken'
    BY <2>15 DEF vars
  <2> HIDE DEF TypeOK, OneToken
  <2> QED BY <2>1, <2>2, <2>3, <2>4, <2>5, <2>6, <2>7, <2>8, <2>9, <2>10, <2>11,
             <2>12, <2>13, <2>14, <2>15 DEF Next, ApiStep, WorkerStep
<1> QED BY <1>1, <1>2, TypeCorrect, PTL DEF Spec

LEMMA OneReaderEach == Spec => []OneReader
<1>1. Init => OneReader
  BY JobsAssumption DEF Init, OneReader
<1>2. TypeOK /\ OneReader /\ [Next]_vars => OneReader'
  <2> SUFFICES ASSUME TypeOK, OneReader, [Next]_vars PROVE OneReader'
    OBVIOUS
  <2> USE JobsAssumption DEF TypeOK, OneReader, SetStatus, rows, broker, workers, api, history
  <2>1. ASSUME NEW j \in Jobs, Create(j) PROVE OneReader'
    BY <2>1 DEF Create
  <2>2. ASSUME NEW j \in Jobs, Publish(j) PROVE OneReader'
    BY <2>2 DEF Publish
  <2>3. ASSUME NEW j \in Jobs, CancelRead(j) \/ CancelCommit(j) PROVE OneReader'
    <3>1. CASE CancelRead(j)    BY <3>1 DEF CancelRead
    <3>2. CASE CancelCommit(j)  BY <3>2 DEF CancelCommit
    <3> QED BY <2>3, <3>1, <3>2
  <2>4. ASSUME NEW t \in Tenants, ClearRead(t) PROVE OneReader'
    BY <2>4 DEF ClearRead
  <2>5. ASSUME NEW t \in Tenants, ClearCommit(t) PROVE OneReader'
    <3>1. \A i \in Jobs : status'[i] = status[i] \/ status'[i] = "cancelled"
      BY <2>5 DEF ClearCommit
    <3>2. UNCHANGED <<workers, msgs, entering, history>>
      BY <2>5 DEF ClearCommit
    <3> QED BY <3>1, <3>2
  <2>6. ASSUME NEW t \in Tenants, Purge(t) PROVE OneReader'
    BY <2>6 DEF Purge
  <2>7. ASSUME ApiRestart PROVE OneReader'
    <3>1. CASE Eager   BY <2>7, <3>1 DEF ApiRestart
    <3>2. CASE ~Eager  BY <2>7, <3>2 DEF ApiRestart
    <3> QED BY <3>1, <3>2
  <2>8. ASSUME NEW j \in Jobs, Redeliver(j) PROVE OneReader'
    BY <2>8 DEF Redeliver
  <2>9. ASSUME NEW j \in Jobs, Discard(j) \/ Age(j) PROVE OneReader'
    BY <2>9 DEF Discard, Age
  <2>10. ASSUME NEW w \in Workers, NEW j \in Jobs, Deliver(w, j) PROVE OneReader'
    BY <2>10 DEF Deliver, Acquiring
  <2>11. ASSUME NEW w \in Workers, Acquire(w) PROVE OneReader'
    BY <2>11 DEF Acquire
  <2>12. ASSUME NEW w \in Workers, FinishOk(w) \/ FinishFail(w) \/ SoftTimeLimit(w)
         PROVE  OneReader'
    BY <2>12 DEF FinishOk, FinishFail, Finish, SoftTimeLimit
  <2>13. ASSUME NEW w \in Workers, Terminated(w) \/ Notify(w) \/ WorkerCrash(w)
         PROVE  OneReader'
    <3>1. CASE Terminated(w)   BY <3>1 DEF Terminated
    <3>2. CASE Notify(w)       BY <3>2 DEF Notify
    <3>3. CASE WorkerCrash(w)  BY <3>3 DEF WorkerCrash
    <3> QED BY <2>13, <3>1, <3>2, <3>3
  <2>14. ASSUME ReapScan \/ ReapCommit PROVE OneReader'
    <3>1. CASE ReapScan    BY <3>1 DEF ReapScan
    <3>2. CASE ReapCommit  BY <3>2 DEF ReapCommit
    <3> QED BY <2>14, <3>1, <3>2
  <2>15. ASSUME UNCHANGED vars PROVE OneReader'
    BY <2>15 DEF vars
  <2> HIDE DEF TypeOK, OneReader
  <2> QED BY <2>1, <2>2, <2>3, <2>4, <2>5, <2>6, <2>7, <2>8, <2>9, <2>10, <2>11,
             <2>12, <2>13, <2>14, <2>15 DEF Next, ApiStep, WorkerStep
<1> QED BY <1>1, <1>2, TypeCorrect, PTL DEF Spec

(* Two workers execute one job only if the broker handed its message out   *)
(* twice and both read the row queued before either committed running,     *)
(* whatever is redelivered, cancelled, cleared, reaped, crashed or         *)
(* restarted: acquire_job_for_work turns every later copy away.            *)
THEOREM ExecutionsAreSingle == Spec => []SingleExecution
<1>1. TypeOK /\ OneToken /\ OneReader => SingleExecution
  BY DEF TypeOK, OneToken, OneReader, SingleExecution, Executing, Raced
<1> QED BY <1>1, TypeCorrect, OneTokenEach, OneReaderEach, PTL

(* Short of that race the receiver of the webhook does not hear two        *)
(* verdicts, although the reaper and the worker may both have settled the  *)
(* row and the message may have been redelivered.                          *)
THEOREM VerdictsAreSingle == Spec => []OneVerdict
<1>1. OneToken /\ OneReader => OneVerdict
  BY DEF OneToken, OneReader, OneVerdict, Raced
<1> QED BY <1>1, OneTokenEach, OneReaderEach, PTL
=============================================================================
