--------------------------- MODULE AgentRunProofs ---------------------------
(***************************************************************************)
(* Theorems about AgentRun, for every set of runs, workers and requests    *)
(* and every bound.                                                        *)
(***************************************************************************)
EXTENDS AgentRun, TLAPS

(* The writes the actions are built from keep the row's types.             *)
LEMMA RowWrites ==
    ASSUME TypeOK
    PROVE  /\ \A S, st : st \in Statuses /\ SetStatus(S, st)
                             => status' \in [Runs -> Statuses]
           /\ \A r, c : c \in Control /\ SetControl(r, c) => ctrl' \in [Runs -> Control]
           /\ \A S : ForceCancel(S) => /\ status' \in [Runs -> Statuses]
                                       /\ ctrl' \in [Runs -> Control]
<1>1. status \in [Runs -> Statuses] /\ ctrl \in [Runs -> Control]
  BY DEF TypeOK
<1>2. ASSUME NEW S, NEW st \in Statuses, SetStatus(S, st)
      PROVE  status' \in [Runs -> Statuses]
  BY <1>1, <1>2 DEF SetStatus
<1>3. ASSUME NEW r, NEW c \in Control, SetControl(r, c)
      PROVE  ctrl' \in [Runs -> Control]
  BY <1>1, <1>3 DEF SetControl
<1>4. ASSUME NEW S, ForceCancel(S)
      PROVE  status' \in [Runs -> Statuses] /\ ctrl' \in [Runs -> Control]
  <2>1. "cancelled" \in Statuses
    BY DEF Statuses, Existing, Terminal
  <2>2. \A r \in Runs : [ctrl[r] EXCEPT !.stop = TRUE, !.paused = FALSE] \in Control
    BY <1>1 DEF Control
  <2> QED BY <1>1, <1>2, <1>4, <2>1, <2>2 DEF ForceCancel
<1> QED BY <1>2, <1>3, <1>4

(* What the type invariant says of the handlers, and of the workers.       *)
RequestsOK ==
    /\ op \in [Handlers -> {"idle", "pause", "resume", "stop", "cancel",
                            "count", "insert", "publish", "clear", "purge"}]
    /\ target \in [Handlers -> Runs \cup {None}]
    /\ \A h \in Handlers : op[h] \in {"idle", "clear", "purge"} <=> target[h] = None
    /\ seen \in [Handlers -> [status : Statuses, ctrl : Control]]
    /\ victims \in [Handlers -> SUBSET Runs]

WorkersOK ==
    /\ pc \in [Workers -> {"idle", "starting", "quitting", "body", "stopping", "pausing",
                           "yielding", "resuming", "finishing"}]
    /\ at \in [Workers -> Runs \cup {None}]
    /\ \A w \in Workers : pc[w] = "idle" <=> at[w] = None
    /\ copy \in [Workers -> Control]

(* A request that ends, and a worker that moves, stay well typed.          *)
LEMMA RequestMoves ==
    ASSUME RequestsOK, NEW h \in Handlers
    PROVE  /\ End(h) => RequestsOK'
           /\ Continue(h, "count") /\ target[h] # None => RequestsOK'
           /\ Continue(h, "insert") /\ target[h] # None => RequestsOK'
           /\ Continue(h, "publish") /\ target[h] # None => RequestsOK'
           /\ Continue(h, "purge") /\ target[h] = None => RequestsOK'
<1> USE DEF RequestsOK
<1>1. NotSeen \in [status : Statuses, ctrl : Control]
  BY DEF NotSeen, NoControl, Control, Statuses
<1>2. End(h) => RequestsOK'
  BY <1>1 DEF End
<1>3. ASSUME NEW o \in {"count", "insert", "publish"}, Continue(h, o), target[h] # None
      PROVE  RequestsOK'
  BY <1>3 DEF Continue
<1>4. ASSUME Continue(h, "purge"), target[h] = None
      PROVE  RequestsOK'
  BY <1>4 DEF Continue
<1> QED BY <1>2, <1>3, <1>4

LEMMA WorkerMoves ==
    ASSUME WorkersOK, NEW w \in Workers, NEW r \in Runs, NEW c \in Control
    PROVE  /\ Leave(w) => WorkersOK'
           /\ \A p \in {"starting", "quitting", "body", "stopping", "pausing", "yielding",
                        "resuming", "finishing"} : Goto(w, p, r, c) => WorkersOK'
<1> USE RunsAssumption DEF WorkersOK, Goto, Leave
<1>1. Leave(w) => WorkersOK'
  BY DEF NoControl, Control
<1>2. ASSUME NEW p \in {"starting", "quitting", "body", "stopping", "pausing", "yielding",
                        "resuming", "finishing"}, Goto(w, p, r, c)
      PROVE  WorkersOK'
  BY <1>2
<1> QED BY <1>1, <1>2

(* One step keeps the types.                                               *)
LEMMA TypeIsKept == TypeOK /\ [Next]_vars => TypeOK'
<1> SUFFICES ASSUME TypeOK, [Next]_vars PROVE TypeOK'
  OBVIOUS
<1>0. RequestsOK /\ WorkersOK /\ NoControl \in Control
  BY DEF TypeOK, RequestsOK, WorkersOK, NoControl, Control
<1>a. ASSUME status' \in [Runs -> Statuses], ctrl' \in [Runs -> Control],
             old' \in SUBSET Runs, msgs' \in [Runs -> Nat], WorkersOK', RequestsOK',
             reaping' \in SUBSET Runs, lost' \in SUBSET Runs,
             doubled' \in SUBSET Runs,
             redelivered' \in 0..MaxRedeliveries, restarts' \in 0..MaxRestarts
      PROVE  TypeOK'
  BY <1>a DEF TypeOK, WorkersOK, RequestsOK
<1>b. UNCHANGED worker => WorkersOK'
  BY <1>0 DEF worker, WorkersOK
<1>c. UNCHANGED request => RequestsOK'
  BY <1>0 DEF request, RequestsOK
<1>t. /\ status \in [Runs -> Statuses] /\ ctrl \in [Runs -> Control] /\ old \in SUBSET Runs
      /\ msgs \in [Runs -> Nat] /\ reaping \in SUBSET Runs /\ lost \in SUBSET Runs
      /\ doubled \in SUBSET Runs
      /\ redelivered \in 0..MaxRedeliveries /\ restarts \in 0..MaxRestarts
  BY DEF TypeOK
<1>s. Existing \cup {"queued", "running", "paused", "cancelled", "failed", "blocked",
                     "succeeded", "deleted"} \subseteq Statuses
  BY DEF Statuses, Existing, Active, Terminal
<1>1. ASSUME NEW h \in Handlers, NEW r \in Runs, NEW a \in {"pause", "resume", "stop"},
             ControlRead(h, r, a)
      PROVE  TypeOK'
  <2>1. RequestsOK'
    BY <1>0, <1>1, <1>t, RunsAssumption DEF ControlRead, Begin, RequestsOK
  <2> QED BY <1>1, <1>a, <1>b, <1>t, <2>1 DEF ControlRead, row, bounds
<1>2. ASSUME NEW h \in Handlers, PauseCommit(h) \/ ResumeCommit(h) \/ StopCommit(h)
      PROVE  TypeOK'
  <2>1. target[h] \in Runs /\ seen[h].ctrl \in Control
    BY <1>0, <1>2 DEF PauseCommit, ResumeCommit, StopCommit, RequestsOK
  <2>2. /\ [seen[h].ctrl EXCEPT !.paused = TRUE] \in Control
        /\ [seen[h].ctrl EXCEPT !.paused = FALSE] \in Control
        /\ [seen[h].ctrl EXCEPT !.stop = TRUE, !.paused = FALSE] \in Control
    BY <2>1 DEF Control
  <2>3. RequestsOK'
    BY <1>0, <1>2, RequestMoves DEF PauseCommit, ResumeCommit, StopCommit
  <2>4. ctrl' \in [Runs -> Control]
    BY <1>2, <2>2, RowWrites DEF PauseCommit, ResumeCommit, StopCommit
  <2>5. status' \in [Runs -> Statuses]
    BY <1>2, <1>t, <1>s, RowWrites DEF PauseCommit, ResumeCommit, StopCommit
  <2> QED BY <1>2, <1>a, <1>b, <1>t, <2>3, <2>4, <2>5
       DEF PauseCommit, ResumeCommit, StopCommit, bounds
<1>3. ASSUME NEW h \in Handlers, NEW r \in Runs, NEW c \in BOOLEAN, CreateRead(h, r, c)
      PROVE  TypeOK'
  <2> DEFINE S == {q \in Runs : IF c THEN status[q] \in Active ELSE Orphaned(q)}
             o == IF S = {} THEN "count" ELSE "cancel"
  <2>1. Begin(h, o, r, NotSeen, S)
    BY <1>3 DEF CreateRead
  <2>2. S \in SUBSET Runs /\ o \in {"count", "cancel"}
    OBVIOUS
  <2>3. NotSeen \in [status : Statuses, ctrl : Control]
    BY <1>0 DEF NotSeen, Statuses
  <2> HIDE DEF S, o
  <2>4. RequestsOK'
    BY <1>0, <2>1, <2>2, <2>3, RunsAssumption DEF Begin, RequestsOK
  <2> QED BY <1>3, <1>a, <1>b, <1>t, <2>4 DEF CreateRead, row, bounds
<1>4. ASSUME NEW h \in Handlers,
             CreateCancel(h) \/ CreateCount(h) \/ CreateInsert(h) \/ CreatePublish(h)
      PROVE  TypeOK'
  <2>1. target[h] \in Runs /\ target[h] # None
    BY <1>0, <1>4, RunsAssumption
       DEF CreateCancel, CreateCount, CreateInsert, CreatePublish, RequestsOK
  <2>2. RequestsOK'
    BY <1>0, <1>4, <2>1, RequestMoves
       DEF CreateCancel, CreateCount, CreateInsert, CreatePublish
  <2>3. CASE CreateCancel(h)
    BY <1>a, <1>b, <1>t, <2>2, <2>3, RowWrites DEF CreateCancel, bounds
  <2>4. CASE CreateCount(h)
    BY <1>a, <1>b, <1>t, <2>2, <2>4 DEF CreateCount, row, bounds
  <2>5. CASE CreateInsert(h)
    BY <1>a, <1>b, <1>t, <1>s, <2>2, <2>5, RowWrites DEF CreateInsert, bounds
  <2>6. CASE CreatePublish(h)
    <3>1. msgs' \in [Runs -> Nat]
      BY <1>t, <2>1, <2>6 DEF CreatePublish
    <3> QED BY <1>a, <1>b, <1>t, <2>2, <2>6, <3>1 DEF CreatePublish, row, bounds
  <2> QED BY <1>4, <2>3, <2>4, <2>5, <2>6
<1>5. ASSUME NEW h \in Handlers, ClearRead(h) \/ ClearCommit(h) \/ Purge(h)
      PROVE  TypeOK'
  <2>1. CASE ClearRead(h)
    <3>1. NotSeen \in [status : Statuses, ctrl : Control]
      BY <1>0 DEF NotSeen, Statuses
    <3>2. RequestsOK'
      BY <1>0, <2>1, <3>1 DEF ClearRead, Begin, RequestsOK
    <3> QED BY <1>a, <1>b, <1>t, <2>1, <3>2 DEF ClearRead, row, bounds
  <2>2. CASE ClearCommit(h)
    <3>1. target[h] = None
      BY <1>0, <2>2 DEF ClearCommit, RequestsOK
    <3>2. RequestsOK'
      BY <1>0, <2>2, <3>1, RequestMoves DEF ClearCommit
    <3> QED BY <1>a, <1>b, <1>t, <1>s, <2>2, <3>2, RowWrites DEF ClearCommit, bounds
  <2>3. CASE Purge(h)
    <3>1. RequestsOK'
      BY <1>0, <2>3, RequestMoves DEF Purge
    <3>2. msgs' \in [Runs -> Nat] /\ lost' \in SUBSET Runs
      BY <1>t, <2>3 DEF Purge
    <3> QED BY <1>a, <1>b, <1>t, <2>3, <3>1, <3>2 DEF Purge, row, bounds
  <2> QED BY <1>5, <2>1, <2>2, <2>3
<1>6. ASSUME NEW w \in Workers, NEW r \in Runs, Deliver(w, r) PROVE TypeOK'
  <2>1. ctrl[r] \in Control
    BY <1>t
  <2>2. WorkersOK'
    BY <1>0, <1>6, <1>b, <2>1, WorkerMoves DEF Deliver
  <2>3. msgs' \in [Runs -> Nat]
    BY <1>t, <1>6 DEF Deliver
  <2> QED BY <1>a, <1>c, <1>t, <1>6, <2>2, <2>3 DEF Deliver, row, bounds
<1>7. ASSUME NEW w \in Workers, Checkpoint(w) PROVE TypeOK'
  <2>1. at[w] \in Runs
    BY <1>0, <1>7 DEF Checkpoint, WorkersOK
  <2>2. ctrl[at[w]] \in Control
    BY <1>t, <2>1
  <2>3. WorkersOK'
    BY <1>0, <1>7, <2>1, <2>2, WorkerMoves DEF Checkpoint
  <2> QED BY <1>a, <1>c, <1>t, <1>7, <2>3 DEF Checkpoint, row, bounds
<1>8. ASSUME NEW w \in Workers,
             \/ Quit(w) \/ CheckpointPause(w) \/ Fail(w) \/ Block(w) \/ Finish(w)
             \/ Start(w) \/ CheckpointStop(w) \/ CheckpointResume(w)
      PROVE  TypeOK'
  <2>1. at[w] \in Runs /\ copy[w] \in Control
    BY <1>0, <1>8 DEF Quit, CheckpointPause, Fail, Block, Finish, Start, CheckpointStop,
                      CheckpointResume, WorkersOK
  <2>2. WorkersOK'
    BY <1>0, <1>8, <2>1, WorkerMoves
       DEF Quit, CheckpointPause, Fail, Block, Finish, Start, CheckpointStop,
           CheckpointResume
  <2>3. status' \in [Runs -> Statuses]
    BY <1>8, <1>s, RowWrites
       DEF Quit, CheckpointPause, Fail, Block, Finish, Start, CheckpointStop,
           CheckpointResume
  <2>4. /\ [copy[w] EXCEPT !.paused = FALSE] \in Control
        /\ [copy[w] EXCEPT !.wid = "here"] \in Control
        /\ [copy[w] EXCEPT !.wid = "other"] \in Control
    BY <2>1 DEF Control
  <2>5. ctrl' \in [Runs -> Control]
    BY <1>8, <1>t, <2>4, RowWrites
       DEF Quit, CheckpointPause, Fail, Block, Finish, Start, CheckpointStop,
           CheckpointResume
  <2>6. /\ old' \in SUBSET Runs
        /\ UNCHANGED <<msgs, request, reaping, lost, bounds>>
    BY <1>8, <1>t
       DEF Quit, CheckpointPause, Fail, Block, Finish, Start, CheckpointStop,
           CheckpointResume
  <2> QED BY <1>a, <1>c, <1>t, <2>2, <2>3, <2>5, <2>6 DEF bounds
<1>9. ASSUME NEW w \in Workers,
             Requeue(w) \/ FinishCancelled(w) \/ FinishRead(w) \/ WorkerCrash(w)
      PROVE  TypeOK'
  <2>1. at[w] \in Runs
    BY <1>0, <1>9, RunsAssumption
       DEF Requeue, FinishCancelled, FinishRead, WorkerCrash, WorkersOK
  <2>2. WorkersOK'
    BY <1>0, <1>9, <2>1, WorkerMoves DEF Requeue, FinishCancelled, FinishRead, WorkerCrash
  <2>3. msgs' \in [Runs -> Nat] /\ lost' \in SUBSET Runs
    BY <1>t, <1>9, <2>1 DEF Requeue, FinishCancelled, FinishRead, WorkerCrash
  <2>4. UNCHANGED <<row, request, reaping, bounds>>
    BY <1>9 DEF Requeue, FinishCancelled, FinishRead, WorkerCrash
  <2> QED BY <1>a, <1>c, <1>t, <2>2, <2>3, <2>4 DEF row, bounds
<1>10. ASSUME NEW r \in Runs, Delete(r) \/ Redeliver(r) PROVE TypeOK'
  <2>1. CASE Delete(r)
    BY <1>a, <1>b, <1>c, <1>t, <1>s, <2>1, RowWrites DEF Delete, bounds
  <2>2. CASE Redeliver(r)
    <3>1. msgs' \in [Runs -> Nat] /\ redelivered' \in 0..MaxRedeliveries
          /\ doubled' \in SUBSET Runs
      BY <1>t, <2>2, RunsAssumption DEF Redeliver
    <3> QED BY <1>a, <1>b, <1>c, <1>t, <2>2, <3>1 DEF Redeliver, row
  <2> QED BY <1>10, <2>1, <2>2
<1>11. ASSUME ReapScan \/ ReapCommit PROVE TypeOK'
  <2>1. CASE ReapScan
    BY <1>a, <1>b, <1>c, <1>t, <2>1 DEF ReapScan, row, bounds
  <2>2. CASE ReapCommit
    BY <1>a, <1>b, <1>c, <1>t, <1>s, <2>2, RowWrites DEF ReapCommit, bounds
  <2> QED BY <1>11, <2>1, <2>2
<1>12. ASSUME ApiRestart PROVE TypeOK'
  <2>1. RequestsOK'
    BY <1>0, <1>12 DEF ApiRestart, RequestsOK, NotSeen, Statuses
  <2>2. /\ old' \in SUBSET Runs
        /\ doubled' \in SUBSET Runs
        /\ redelivered' \in 0..MaxRedeliveries
        /\ restarts' \in 0..MaxRestarts
    BY <1>12, <1>t, RunsAssumption DEF ApiRestart
  <2>3. CASE Eager
    <3>1. WorkersOK'
      BY <1>0, <1>12, <2>3 DEF ApiRestart, WorkersOK
    <3>2. status' \in [Runs -> Statuses] /\ ctrl' \in [Runs -> Control]
      BY <1>12, <2>3, RowWrites DEF ApiRestart
    <3>3. msgs' \in [Runs -> Nat] /\ reaping' \in SUBSET Runs /\ lost' \in SUBSET Runs
      BY <1>12, <1>t, <2>3 DEF ApiRestart
    <3> QED BY <1>a, <2>1, <2>2, <3>1, <3>2, <3>3
  <2>4. CASE ~Eager
    <3>1. UNCHANGED <<status, ctrl, msgs, worker, reaping>> /\ lost' \in SUBSET Runs
      BY <1>12, <1>t, <2>4 DEF ApiRestart
    <3> QED BY <1>a, <1>b, <1>t, <2>1, <2>2, <3>1
  <2> QED BY <2>3, <2>4
<1>13. ASSUME UNCHANGED vars PROVE TypeOK'
  BY <1>a, <1>b, <1>c, <1>t, <1>13 DEF vars, row, bounds
<1> QED BY <1>1, <1>2, <1>3, <1>4, <1>5, <1>6, <1>7, <1>8, <1>9, <1>10, <1>11, <1>12,
           <1>13 DEF Next, Request, Execute

(* All variables keep their types: a worker is at a run exactly when it is *)
(* not idle, and a request has a target exactly when it is about one run.  *)
THEOREM TypeCorrect == Spec => []TypeOK
<1>1. Init => TypeOK
  BY RunsAssumption DEF Init, TypeOK, NoControl, NotSeen, Control, Statuses, Existing
<1> QED BY <1>1, TypeIsKept, PTL DEF Spec

-----------------------------------------------------------------------------
(* A worker about to honour a stop has one in its copy of the flags.       *)
StoppingSawStop == \A w \in Workers : pc[w] = "stopping" => copy[w].stop

LEMMA StoppingWorkers == Spec => []StoppingSawStop
<1>1. Init => StoppingSawStop
  BY DEF Init, StoppingSawStop
<1>2. TypeOK /\ StoppingSawStop /\ [Next]_vars => StoppingSawStop'
  <2> SUFFICES ASSUME TypeOK, StoppingSawStop, [Next]_vars PROVE StoppingSawStop'
    OBVIOUS
  <2>0. WorkersOK
    BY DEF TypeOK, WorkersOK
  <2> USE DEF StoppingSawStop
  <2>1. CASE UNCHANGED worker
    BY <2>1 DEF worker
  <2>2. ASSUME NEW w \in Workers, Leave(w) PROVE StoppingSawStop'
    BY <2>0, <2>2 DEF Leave, Goto, WorkersOK
  <2>3. ASSUME NEW w \in Workers, NEW r, NEW c,
               NEW p \in {"starting", "quitting", "body", "pausing", "yielding", "resuming",
                          "finishing"},
               Goto(w, p, r, c)
        PROVE  StoppingSawStop'
    BY <2>0, <2>3 DEF Goto, WorkersOK
  <2>4. ASSUME NEW w \in Workers, NEW r \in Runs, Deliver(w, r) PROVE StoppingSawStop'
    BY <2>4, <2>1, <2>3 DEF Deliver
  <2>5. ASSUME NEW w \in Workers, Checkpoint(w) PROVE StoppingSawStop'
    <3> DEFINE r == at[w]
               c == ctrl[at[w]]
    <3>1. ASSUME c.stop, Goto(w, "stopping", r, c) PROVE StoppingSawStop'
      BY <2>0, <3>1 DEF Goto, WorkersOK
    <3> QED BY <2>5, <2>2, <2>3, <3>1 DEF Checkpoint
  <2>6. ASSUME NEW w \in Workers,
               \/ Quit(w) \/ Start(w) \/ CheckpointStop(w) \/ CheckpointPause(w)
               \/ CheckpointResume(w) \/ Requeue(w) \/ Fail(w) \/ Block(w)
               \/ FinishCancelled(w) \/ FinishRead(w) \/ Finish(w) \/ WorkerCrash(w)
        PROVE  StoppingSawStop'
    BY <2>6, <2>2, <2>3
       DEF Quit, Start, CheckpointStop, CheckpointPause, CheckpointResume, Requeue, Fail,
           Block, FinishCancelled, FinishRead, Finish, WorkerCrash
  <2>7. ASSUME ApiRestart PROVE StoppingSawStop'
    <3>1. CASE Eager   BY <2>7, <3>1 DEF ApiRestart
    <3>2. CASE ~Eager  BY <2>7, <2>1, <3>2 DEF ApiRestart
    <3> QED BY <3>1, <3>2
  <2>8. ASSUME NEW h \in Handlers, Request(h) PROVE UNCHANGED worker
    BY <2>8 DEF Request, ControlRead, PauseCommit, ResumeCommit, StopCommit, CreateRead,
                CreateCancel, CreateCount, CreateInsert, CreatePublish, ClearRead,
                ClearCommit, Purge
  <2>9. ASSUME ReapScan \/ ReapCommit \/ \E r \in Runs : Delete(r) \/ Redeliver(r)
        PROVE  UNCHANGED worker
    BY <2>9 DEF ReapScan, ReapCommit, Delete, Redeliver
  <2> QED BY <2>1, <2>4, <2>5, <2>6, <2>7, <2>8, <2>9 DEF Next, Execute, vars
<1> QED BY <1>1, <1>2, TypeCorrect, PTL DEF Spec

(* A committed stop that no older copy of the flags threatens is kept by   *)
(* every step, for any number of concurrent requests, workers, redelivered *)
(* messages and restarts: no writer can lose it, and nobody can come to    *)
(* hold a copy without it.                                                 *)
THEOREM CommittedStopSticks == Spec => StopSticks
<1>1. TypeOK /\ StoppingSawStop /\ [Next]_vars
        => [\A r \in Runs : Stopped(r) => Stopped(r)']_vars
  <2> SUFFICES ASSUME TypeOK, StoppingSawStop, [Next]_vars, NEW r \in Runs, Stopped(r)
               PROVE  Stopped(r)'
    OBVIOUS
  <2> USE DEF Stopped, StaleCopy
  <2>0. RequestsOK /\ WorkersOK /\ ctrl \in [Runs -> Control]
    BY DEF TypeOK, RequestsOK, WorkersOK
  <2>1. ctrl[r].stop /\ ~StaleCopy(r)
    OBVIOUS
  <2>a. UNCHANGED request =>
          \A h \in Handlers : target'[h] = r /\ op'[h] \in {"pause", "resume"}
                                 => seen'[h].ctrl.stop
    BY <2>1 DEF request
  <2>b. UNCHANGED worker =>
          \A w \in Workers : at'[w] = r /\ pc'[w] \in {"starting", "resuming"}
                                => copy'[w].stop
    BY <2>1 DEF worker
  <2>c. ASSUME ctrl'[r].stop,
               \A h \in Handlers : target'[h] = r /\ op'[h] \in {"pause", "resume"}
                                       => seen'[h].ctrl.stop,
               \A w \in Workers : at'[w] = r /\ pc'[w] \in {"starting", "resuming"}
                                      => copy'[w].stop
        PROVE  Stopped(r)'
    BY <2>c
  <2> HIDE DEF Stopped, StaleCopy
  <2>2. ASSUME NEW h \in Handlers, Request(h) PROVE Stopped(r)'
    <3>1. UNCHANGED worker
      BY <2>2 DEF Request, ControlRead, PauseCommit, ResumeCommit, StopCommit, CreateRead,
                  CreateCancel, CreateCount, CreateInsert, CreatePublish, ClearRead,
                  ClearCommit, Purge
    <3>2. target[h] = r /\ op[h] \in {"pause", "resume"} => seen[h].ctrl.stop
      BY <2>1 DEF StaleCopy
    <3>3. ASSUME NEW g \in Handlers, target'[g] = r, op'[g] \in {"pause", "resume"}
          PROVE  seen'[g].ctrl.stop
      <4>1. target[g] = r /\ op[g] \in {"pause", "resume"} => seen[g].ctrl.stop
        BY <2>1 DEF StaleCopy
      <4>2. CASE UNCHANGED request
        BY <2>a, <3>3, <4>2
      <4>3. CASE End(h)
        BY <2>0, <3>3, <4>1, <4>3 DEF End, RequestsOK
      <4>4. ASSUME NEW o \in {"count", "insert", "publish", "purge"}, Continue(h, o)
            PROVE  seen'[g].ctrl.stop
        BY <2>0, <3>3, <4>1, <4>4 DEF Continue, RequestsOK
      <4>5. ASSUME NEW q \in Runs, NEW a \in {"pause", "resume", "stop"},
                   ControlRead(h, q, a)
            PROVE  seen'[g].ctrl.stop
        <5>1. CASE g = h
          <6>1. q = r /\ seen'[g] = [status |-> status[q], ctrl |-> ctrl[q]]
            BY <2>0, <3>3, <4>5, <5>1 DEF ControlRead, Begin, RequestsOK
          <6> QED BY <2>1, <6>1
        <5>2. CASE g # h
          BY <2>0, <3>3, <4>1, <4>5, <5>2 DEF ControlRead, Begin, RequestsOK
        <5> QED BY <5>1, <5>2
      <4>6. ASSUME NEW o, o \notin {"pause", "resume"}, NEW q, NEW s, NEW S,
                   Begin(h, o, q, s, S)
            PROVE  seen'[g].ctrl.stop
        BY <2>0, <3>3, <4>1, <4>6 DEF Begin, RequestsOK
      <4>7. ASSUME NEW q \in Runs, NEW c \in BOOLEAN, CreateRead(h, q, c)
            PROVE  seen'[g].ctrl.stop
        BY <4>6, <4>7 DEF CreateRead
      <4> QED BY <2>2, <4>2, <4>3, <4>4, <4>5, <4>6, <4>7
           DEF Request, PauseCommit, ResumeCommit, StopCommit, CreateCancel, CreateCount,
               CreateInsert, CreatePublish, ClearRead, ClearCommit, Purge
    <3>4. ctrl'[r].stop
      <4>1. CASE UNCHANGED ctrl
        BY <2>1, <4>1
      <4>2. CASE PauseCommit(h) \/ ResumeCommit(h) \/ StopCommit(h)
        <5>1. seen[h].ctrl \in Control
          BY <2>0 DEF RequestsOK
        <5>2. /\ [seen[h].ctrl EXCEPT !.paused = TRUE].stop = seen[h].ctrl.stop
              /\ [seen[h].ctrl EXCEPT !.paused = FALSE].stop = seen[h].ctrl.stop
              /\ [seen[h].ctrl EXCEPT !.stop = TRUE, !.paused = FALSE].stop
          BY <5>1 DEF Control
        <5>3. ASSUME NEW c, SetControl(target[h], c), target[h] = r => c.stop
              PROVE  ctrl'[r].stop
          BY <2>0, <2>1, <5>3 DEF SetControl
        <5> QED BY <3>2, <4>2, <5>2, <5>3 DEF PauseCommit, ResumeCommit, StopCommit
      <4>3. CASE CreateCancel(h)
        BY <2>0, <2>1, <4>3 DEF CreateCancel, ForceCancel, Control
      <4> QED BY <2>2, <4>1, <4>2, <4>3
           DEF Request, ControlRead, CreateRead, CreateCount, CreateInsert, CreatePublish,
               ClearRead, ClearCommit, Purge, row
    <3> QED BY <2>b, <2>c, <3>1, <3>3, <3>4
  <2>3. ASSUME NEW w \in Workers, Execute(w) PROVE Stopped(r)'
    <3>1. UNCHANGED request
      BY <2>3 DEF Execute, Deliver, Quit, Start, Checkpoint, CheckpointStop, CheckpointPause,
                  CheckpointResume, Requeue, Fail, Block, FinishCancelled, FinishRead, Finish,
                  WorkerCrash
    <3>2. at[w] = r /\ pc[w] \in {"starting", "resuming"} => copy[w].stop
      BY <2>1 DEF StaleCopy
    <3>3. ASSUME NEW v \in Workers, at'[v] = r, pc'[v] \in {"starting", "resuming"}
          PROVE  copy'[v].stop
      <4>1. at[v] = r /\ pc[v] \in {"starting", "resuming"} => copy[v].stop
        BY <2>1 DEF StaleCopy
      <4>2. CASE UNCHANGED worker
        BY <2>b, <3>3, <4>2
      <4>3. CASE v # w
        <5>1. ASSUME NEW p, NEW q, NEW c, Goto(w, p, q, c) PROVE copy'[v].stop
          BY <2>0, <3>3, <4>1, <4>3, <5>1 DEF Goto, WorkersOK
        <5> QED BY <2>3, <4>2, <5>1
             DEF Execute, Deliver, Quit, Start, Checkpoint, CheckpointStop, CheckpointPause,
                 CheckpointResume, Requeue, Fail, Block, FinishCancelled, FinishRead, Finish,
                 WorkerCrash, Leave
      <4>4. CASE v = w
        <5>1. ASSUME NEW p, p \notin {"starting", "resuming"}, NEW q, NEW c, Goto(w, p, q, c)
              PROVE  FALSE
          BY <2>0, <3>3, <4>4, <5>1 DEF Goto, WorkersOK
        <5>2. ~Leave(w)
          BY <5>1 DEF Leave
        <5>3. CASE \E q \in Runs : Deliver(w, q)
          <6>1. PICK q \in Runs : Deliver(w, q)
            BY <5>3
          <6>2. CASE ~ctrl[q].stop /\ Goto(w, "starting", q, ctrl[q])
            BY <2>0, <2>1, <3>3, <4>4, <6>2 DEF Goto, WorkersOK
          <6> QED BY <4>2, <5>1, <6>1, <6>2 DEF Deliver
        <5>4. CASE Checkpoint(w)
          <6>1. CASE ~ctrl[at[w]].stop /\ Goto(w, "resuming", at[w], ctrl[at[w]])
            BY <2>0, <2>1, <3>3, <4>4, <6>1 DEF Goto, WorkersOK
          <6> QED BY <5>1, <5>2, <5>4, <6>1 DEF Checkpoint
        <5> QED BY <2>3, <4>2, <5>1, <5>2, <5>3, <5>4
             DEF Execute, Quit, Start, CheckpointStop, CheckpointPause, CheckpointResume,
                 Requeue, Fail, Block, FinishCancelled, FinishRead, Finish, WorkerCrash
      <4> QED BY <4>3, <4>4
    <3>4. ctrl'[r].stop
      <4>1. CASE UNCHANGED ctrl
        BY <2>1, <4>1
      <4>2. CASE Start(w) \/ CheckpointStop(w) \/ CheckpointResume(w)
        <5>1. copy[w] \in Control
          BY <2>0 DEF WorkersOK
        <5>2. at[w] = r => copy[w].stop
          BY <3>2, <4>2 DEF Start, CheckpointStop, CheckpointResume, StoppingSawStop
        <5> QED BY <2>0, <2>1, <4>2, <5>1, <5>2
             DEF Start, CheckpointStop, CheckpointResume, SetControl, Control
      <4> QED BY <2>3, <4>1, <4>2
           DEF Execute, Deliver, Quit, Checkpoint, CheckpointPause, Requeue, Fail, Block,
               FinishCancelled, FinishRead, Finish, WorkerCrash, row
    <3> QED BY <2>a, <2>c, <3>1, <3>3, <3>4
  <2>4. ASSUME ReapScan \/ ReapCommit \/ \E q \in Runs : Delete(q) \/ Redeliver(q)
        PROVE  Stopped(r)'
    <3>1. UNCHANGED <<ctrl, worker, request>>
      BY <2>4 DEF ReapScan, ReapCommit, Delete, Redeliver, row
    <3> QED BY <2>1, <2>a, <2>b, <2>c, <3>1
  <2>5. ASSUME ApiRestart PROVE Stopped(r)'
    <3>1. \A h \in Handlers : op'[h] = "idle"
      BY <2>5 DEF ApiRestart
    <3>2. \A w \in Workers : at'[w] = r /\ pc'[w] \in {"starting", "resuming"}
                                => copy'[w].stop
      <4>1. CASE Eager   BY <2>5, <4>1 DEF ApiRestart
      <4>2. CASE ~Eager  BY <2>5, <2>b, <4>2 DEF ApiRestart
      <4> QED BY <4>1, <4>2
    <3>3. ctrl'[r].stop
      <4>1. ForceCancel({q \in Runs : status[q] \in Active}) => ctrl'[r].stop
        BY <2>0, <2>1 DEF ForceCancel, Control
      <4>2. CASE Eager   BY <2>5, <4>1, <4>2 DEF ApiRestart
      <4>3. CASE ~Eager  BY <2>1, <2>5, <4>3 DEF ApiRestart
      <4> QED BY <4>2, <4>3
    <3> QED BY <2>c, <3>1, <3>2, <3>3
  <2>6. ASSUME UNCHANGED vars PROVE Stopped(r)'
    BY <2>1, <2>6, <2>a, <2>b, <2>c DEF vars, row
  <2> QED BY <2>2, <2>3, <2>4, <2>5, <2>6 DEF Next
<1> QED BY <1>1, TypeCorrect, StoppingWorkers, PTL DEF Spec, StopSticks

-----------------------------------------------------------------------------
(* What one step does to a row: it is inserted, paused by its worker,      *)
(* deleted once terminal, or moved on by somebody who holds it; only the   *)
(* lifespan hooks of a restart move a row nobody holds, an active one.     *)
Writer(r) ==
    \/ \E w \in Workers : at[w] = r
    \/ \E h \in Handlers : (target[h] = r /\ op[h] \in {"resume", "stop"}) \/ r \in victims[h]
    \/ r \in reaping
    \/ status[r] \in Active

LEMMA RowSteps ==
    ASSUME TypeOK, [Next]_vars, NEW r \in Runs
    PROVE  /\ status[r] = "deleted" => status'[r] = "deleted"
           /\ \/ status'[r] = status[r]
              \/ status'[r] = "queued" /\ \E h \in Handlers : CreateInsert(h) /\ target[h] = r
              \/ status'[r] = "paused" /\ \E w \in Workers : CheckpointPause(w) /\ at[w] = r
              \/ status'[r] \in Terminal \cup {"running"} /\ Writer(r)
              \/ status'[r] = "deleted" /\ status[r] \in Terminal
<1> DEFINE Outcome == /\ status[r] = "deleted" => status'[r] = "deleted"
                      /\ \/ status'[r] = status[r]
                         \/ /\ status'[r] = "queued"
                            /\ \E h \in Handlers : CreateInsert(h) /\ target[h] = r
                         \/ /\ status'[r] = "paused"
                            /\ \E w \in Workers : CheckpointPause(w) /\ at[w] = r
                         \/ status'[r] \in Terminal \cup {"running"} /\ Writer(r)
                         \/ status'[r] = "deleted" /\ status[r] \in Terminal
<1>0. /\ status \in [Runs -> Statuses]
      /\ \A S, st : SetStatus(S, st) => status'[r] = IF r \in S /\ status[r] # "deleted"
                                                        THEN st ELSE status[r]
  BY DEF TypeOK, SetStatus
<1>1. CASE UNCHANGED status
  BY <1>1
<1>2. ASSUME NEW S, NEW st, st \in Terminal \cup {"running"}, SetStatus(S, st),
             r \in S => Writer(r)
      PROVE  Outcome
  BY <1>0, <1>2
<1>t. {"cancelled", "failed", "blocked", "succeeded"} \subseteq Terminal
  BY DEF Terminal
<1>3. ASSUME NEW h \in Handlers, Request(h) PROVE Outcome
  <2>1. CASE ResumeCommit(h) \/ StopCommit(h)
    <3>1. r \in {target[h]} => Writer(r)
      BY <2>1 DEF Writer, ResumeCommit, StopCommit
    <3> QED BY <1>1, <1>2, <1>t, <2>1, <3>1 DEF ResumeCommit, StopCommit
  <2>2. CASE CreateCancel(h) \/ ClearCommit(h)
    <3>1. r \in victims[h] => Writer(r)
      BY DEF Writer
    <3> QED BY <1>2, <1>t, <2>2, <3>1 DEF CreateCancel, ForceCancel, ClearCommit
  <2>3. CASE CreateInsert(h)
    <3>1. status'[r] = IF r \in {target[h]} /\ status[r] # "deleted" THEN "queued" ELSE status[r]
      BY <1>0, <2>3 DEF CreateInsert
    <3> QED BY <2>3, <3>1
  <2> QED BY <1>1, <1>3, <2>1, <2>2, <2>3
       DEF Request, ControlRead, PauseCommit, CreateRead, CreateCount, CreatePublish,
           ClearRead, Purge, row
<1>4. ASSUME NEW w \in Workers, Execute(w) PROVE Outcome
  <2>1. CASE CheckpointPause(w)
    <3>1. status'[r] = IF r \in {at[w]} /\ status[r] # "deleted" THEN "paused" ELSE status[r]
      BY <1>0, <2>1 DEF CheckpointPause
    <3> QED BY <2>1, <3>1
  <2>2. r \in {at[w]} => Writer(r)
    BY DEF Writer
  <2>3. CASE \/ Quit(w) \/ Start(w) \/ CheckpointStop(w) \/ CheckpointResume(w) \/ Fail(w)
             \/ Block(w) \/ Finish(w)
    BY <1>2, <1>t, <2>2, <2>3
       DEF Quit, Start, CheckpointStop, CheckpointResume, Fail, Block, Finish
  <2> QED BY <1>1, <1>4, <2>1, <2>3
       DEF Execute, Deliver, Checkpoint, Requeue, FinishCancelled, FinishRead, WorkerCrash, row
<1>5. ASSUME NEW q \in Runs, Delete(q) \/ Redeliver(q) PROVE Outcome
  BY <1>0, <1>1, <1>5 DEF Delete, Redeliver, row
<1>6. CASE ReapScan \/ ReapCommit
  BY <1>1, <1>2, <1>t, <1>6 DEF ReapScan, ReapCommit, row, Writer
<1>7. CASE ApiRestart
  BY <1>1, <1>2, <1>t, <1>7 DEF ApiRestart, ForceCancel, Writer
<1> QED BY <1>1, <1>3, <1>4, <1>5, <1>6, <1>7 DEF Next, vars, row

(* A request about to publish a message does so, or dies with the API.     *)
LEMMA PublishersStay ==
    ASSUME TypeOK, [Next]_vars, NEW h \in Handlers, op[h] = "publish"
    PROVE  \/ op'[h] = "publish" /\ target'[h] = target[h]
           \/ CreatePublish(h)
           \/ ApiRestart
<1>0. RequestsOK
  BY DEF TypeOK, RequestsOK
<1>1. ASSUME NEW g \in Handlers, Request(g), g # h
      PROVE  op'[h] = op[h] /\ target'[h] = target[h]
  BY <1>0, <1>1
     DEF Request, ControlRead, PauseCommit, ResumeCommit, StopCommit, CreateRead,
         CreateCancel, CreateCount, CreateInsert, CreatePublish, ClearRead, ClearCommit, Purge,
         Begin, Continue, End, RequestsOK
<1>2. Request(h) => CreatePublish(h)
  BY DEF Request, ControlRead, PauseCommit, ResumeCommit, StopCommit, CreateRead,
         CreateCancel, CreateCount, CreateInsert, ClearRead, ClearCommit, Purge, Begin
<1>3. ASSUME NEW w \in Workers, Execute(w) PROVE UNCHANGED request
  BY <1>3 DEF Execute, Deliver, Quit, Start, Checkpoint, CheckpointStop, CheckpointPause,
              CheckpointResume, Requeue, Fail, Block, FinishCancelled, FinishRead, Finish,
              WorkerCrash
<1>4. ASSUME \/ UNCHANGED vars \/ ReapScan \/ ReapCommit
             \/ \E q \in Runs : Delete(q) \/ Redeliver(q)
      PROVE  UNCHANGED request
  BY <1>4 DEF vars, ReapScan, ReapCommit, Delete, Redeliver
<1> QED BY <1>1, <1>2, <1>3, <1>4 DEF Next, request

(* How a request comes to be about a row, and how it goes on: it reads a   *)
(* live row, takes a row that is not inserted and that nobody else takes,  *)
(* or makes the next step of the creation it is in.                        *)
LEMMA RequestSteps ==
    ASSUME TypeOK, [Next]_vars, NEW h \in Handlers, NEW r \in Runs
    PROVE  /\ target'[h] = r =>
                 \/ target[h] = r /\ op'[h] = op[h]
                 \/ target[h] = r /\ op[h] = "cancel" /\ op'[h] = "count"
                 \/ target[h] = r /\ op[h] = "count" /\ op'[h] = "insert"
                 \/ target[h] = r /\ CreateInsert(h) /\ op'[h] = "publish"
                 \/ /\ status[r] \in Existing \ Terminal
                    /\ op'[h] \in {"pause", "resume", "stop"}
                 \/ /\ status[r] = "none" /\ status'[r] = "none"
                    /\ op'[h] \in {"count", "cancel"}
                    /\ \A g \in Handlers : target[g] # r /\ (g # h => target'[g] # r)
           /\ r \in victims'[h] => r \in victims[h] \/ status[r] \in Active
<1> DEFINE Outcome(g) ==
             /\ target'[g] = r =>
                 \/ target[g] = r /\ op'[g] = op[g]
                 \/ target[g] = r /\ op[g] = "cancel" /\ op'[g] = "count"
                 \/ target[g] = r /\ op[g] = "count" /\ op'[g] = "insert"
                 \/ target[g] = r /\ CreateInsert(g) /\ op'[g] = "publish"
                 \/ /\ status[r] \in Existing \ Terminal
                    /\ op'[g] \in {"pause", "resume", "stop"}
                 \/ /\ status[r] = "none" /\ status'[r] = "none"
                    /\ op'[g] \in {"count", "cancel"}
                    /\ \A f \in Handlers : target[f] # r /\ (f # g => target'[f] # r)
             /\ r \in victims'[g] => r \in victims[g] \/ status[r] \in Active
<1>0. RequestsOK /\ None \notin Runs
  BY RunsAssumption DEF TypeOK, RequestsOK
<1>1. CASE UNCHANGED request
  BY <1>1 DEF request
<1>2. ASSUME NEW g \in Handlers, End(g) PROVE Outcome(h)
  BY <1>0, <1>2 DEF End, RequestsOK
<1>3. ASSUME NEW g \in Handlers, NEW o, Continue(g, o),
             \/ target[g] = None
             \/ op[g] = "cancel" /\ o = "count"
             \/ op[g] = "count" /\ o = "insert"
             \/ CreateInsert(g) /\ o = "publish"
      PROVE  Outcome(h)
  BY <1>0, <1>3 DEF Continue, RequestsOK
<1>4. ASSUME NEW g \in Handlers, NEW q \in Runs, NEW a \in {"pause", "resume", "stop"},
             ControlRead(g, q, a)
      PROVE  Outcome(h)
  BY <1>0, <1>4 DEF ControlRead, Begin, RequestsOK
<1>5. ASSUME NEW g \in Handlers, NEW q \in Runs, NEW c \in BOOLEAN, CreateRead(g, q, c)
      PROVE  Outcome(h)
  <2> DEFINE S == {p \in Runs : IF c THEN status[p] \in Active ELSE Orphaned(p)}
             o == IF S = {} THEN "count" ELSE "cancel"
  <2>1. Begin(g, o, q, NotSeen, S) /\ o \in {"count", "cancel"}
    BY <1>5 DEF CreateRead
  <2>2. r \in S => status[r] \in Active
    BY DEF Orphaned
  <2>3. status[q] = "none" /\ status' = status /\ \A f \in Handlers : target[f] # q
    BY <1>5 DEF CreateRead, row
  <2> HIDE DEF S, o
  <2> QED BY <1>0, <2>1, <2>2, <2>3 DEF Begin, RequestsOK
<1>6. ASSUME NEW g \in Handlers, ClearRead(g) PROVE Outcome(h)
  <2> DEFINE S == {p \in Runs : status[p] = "queued"}
  <2>1. Begin(g, "clear", None, NotSeen, S)
    BY <1>6 DEF ClearRead
  <2>2. r \in S => status[r] \in Active
    BY DEF Active
  <2> HIDE DEF S
  <2> QED BY <1>0, <2>1, <2>2 DEF Begin, RequestsOK
<1>7. ASSUME NEW g \in Handlers,
             \/ CreateCancel(g) \/ CreateCount(g) \/ CreateInsert(g) \/ CreatePublish(g)
             \/ ClearCommit(g) \/ Purge(g) \/ PauseCommit(g) \/ ResumeCommit(g) \/ StopCommit(g)
      PROVE  Outcome(h)
  <2>1. CASE CreateCancel(g)  BY <1>3, <2>1 DEF CreateCancel
  <2>2. CASE CreateCount(g)   BY <1>2, <1>3, <2>2 DEF CreateCount
  <2>3. CASE CreateInsert(g)
    <3>1. Continue(g, "publish")
      BY <2>3 DEF CreateInsert
    <3> QED BY <1>3, <2>3, <3>1
  <2>4. CASE ClearCommit(g)
    <3>1. target[g] = None
      BY <1>0, <2>4 DEF ClearCommit, RequestsOK
    <3> QED BY <1>3, <2>4, <3>1 DEF ClearCommit
  <2> QED BY <1>2, <1>7, <2>1, <2>2, <2>3, <2>4
       DEF CreatePublish, Purge, PauseCommit, ResumeCommit, StopCommit
<1>8. CASE ApiRestart
  BY <1>0, <1>8 DEF ApiRestart
<1>9. ASSUME NEW w \in Workers, Execute(w) PROVE Outcome(h)
  BY <1>1, <1>9 DEF Execute, Deliver, Quit, Start, Checkpoint, CheckpointStop, CheckpointPause,
                  CheckpointResume, Requeue, Fail, Block, FinishCancelled, FinishRead, Finish,
                  WorkerCrash
<1>10. CASE \/ UNCHANGED vars \/ ReapScan \/ ReapCommit
            \/ \E q \in Runs : Delete(q) \/ Redeliver(q)
  BY <1>1, <1>10 DEF vars, ReapScan, ReapCommit, Delete, Redeliver
<1>11. Outcome(h)
  BY <1>4, <1>5, <1>6, <1>7, <1>8, <1>9, <1>10 DEF Next, Request
<1> QED BY <1>11

(* A worker comes to a row by taking one of its messages; a worker that    *)
(* leaves a live row has sent a new one, or is lost.                       *)
LEMMA WorkerSteps ==
    ASSUME TypeOK, [Next]_vars, NEW w \in Workers, NEW r \in Runs
    PROVE  /\ at'[w] = r /\ at[w] # r =>
                 /\ Deliver(w, r) /\ status[r] \in Existing \ Terminal
                 /\ pc'[w] \in {"starting", "quitting", "body"}
                 /\ pc'[w] = "body" => status[r] # "queued"
           /\ at'[w] = r /\ at[w] = r =>
                 pc'[w] = pc[w] \/ pc[w] \notin {"starting", "quitting"} \/ Start(w)
           /\ at[w] = r /\ at'[w] # r =>
                 \/ Requeue(w)
                 \/ status'[r] \in Terminal \cup {"deleted"}
                 \/ r \in lost'
                 \/ Eager /\ ApiRestart
<1> DEFINE Outcome == /\ at'[w] = r /\ at[w] # r =>
                            /\ Deliver(w, r) /\ status[r] \in Existing \ Terminal
                            /\ pc'[w] \in {"starting", "quitting", "body"}
                            /\ pc'[w] = "body" => status[r] # "queued"
                      /\ at'[w] = r /\ at[w] = r =>
                            pc'[w] = pc[w] \/ pc[w] \notin {"starting", "quitting"} \/ Start(w)
                      /\ at[w] = r /\ at'[w] # r =>
                            \/ Requeue(w)
                            \/ status'[r] \in Terminal \cup {"deleted"}
                            \/ r \in lost'
                            \/ Eager /\ ApiRestart
<1>0. WorkersOK /\ None \notin Runs /\ status \in [Runs -> Statuses]
  BY RunsAssumption DEF TypeOK, WorkersOK
<1>1. CASE UNCHANGED worker
  BY <1>1 DEF worker
<1>2. ASSUME NEW v \in Workers, v # w, NEW p, NEW q, NEW c, Goto(v, p, q, c) PROVE Outcome
  BY <1>0, <1>2 DEF Goto, WorkersOK
<1>3. ASSUME NEW v \in Workers, v # w, Execute(v) PROVE Outcome
  BY <1>1, <1>2, <1>3
     DEF Execute, Deliver, Quit, Start, Checkpoint, CheckpointStop, CheckpointPause,
         CheckpointResume, Requeue, Fail, Block, FinishCancelled, FinishRead, Finish,
         WorkerCrash, Leave
<1>4. ASSUME Execute(w) PROVE Outcome
  <2>a. ASSUME NEW p, NEW c, Goto(w, p, at[w], c), pc[w] \notin {"starting", "quitting"}
        PROVE  Outcome
    BY <1>0, <2>a DEF Goto, WorkersOK
  <2>b. ASSUME Leave(w), at[w] = r => Requeue(w) \/ r \in lost'
                                      \/ status'[r] \in Terminal \cup {"deleted"}
        PROVE  Outcome
    BY <1>0, <2>b DEF Leave, Goto, WorkersOK
  <2>c. ASSUME NEW st \in Terminal, SetStatus({at[w]}, st), Leave(w) PROVE Outcome
    <3>1. at[w] = r => status'[r] \in Terminal \cup {"deleted"}
      BY <1>0, <2>c DEF SetStatus
    <3> QED BY <2>b, <2>c, <3>1
  <2>t. {"cancelled", "failed", "blocked", "succeeded"} \subseteq Terminal
    BY DEF Terminal
  <2>1. ASSUME NEW q \in Runs, Deliver(w, q) PROVE Outcome
    <3>1. ASSUME NEW p \in {"starting", "quitting", "body"}, NEW c, Goto(w, p, q, c),
                 p = "body" => status[q] # "queued", status[q] \in Existing \ Terminal
          PROVE  Outcome
      <4>1. at[w] = None
        BY <1>0, <2>1 DEF Deliver, WorkersOK
      <4>2. at'[w] = q /\ pc'[w] = p
        BY <1>0, <3>1 DEF Goto, WorkersOK
      <4> QED BY <1>0, <2>1, <3>1, <4>1, <4>2
    <3> QED BY <1>1, <2>1, <3>1 DEF Deliver
  <2>2. CASE Quit(w) \/ CheckpointStop(w) \/ Fail(w) \/ Block(w) \/ Finish(w)
    BY <2>2, <2>c, <2>t DEF Quit, CheckpointStop, Fail, Block, Finish
  <2>3. CASE Start(w)
    BY <1>0, <2>3 DEF Start, Goto, WorkersOK
  <2>4. CASE Checkpoint(w)
    <3>1. CASE Leave(w) /\ status[at[w]] \in Terminal \cup {"deleted"}
      BY <2>b, <2>4, <3>1 DEF Checkpoint, row
    <3> QED BY <2>a, <2>4, <3>1 DEF Checkpoint
  <2>5. CASE CheckpointPause(w) \/ CheckpointResume(w) \/ FinishRead(w)
    BY <2>5, <2>a DEF CheckpointPause, CheckpointResume, FinishRead
  <2>6. CASE Requeue(w) \/ WorkerCrash(w)
    BY <2>6, <2>b DEF Requeue, WorkerCrash
  <2>7. CASE FinishCancelled(w)
    BY <2>7, <2>b, <2>t DEF FinishCancelled, row
  <2> QED BY <1>4, <2>1, <2>2, <2>3, <2>4, <2>5, <2>6, <2>7 DEF Execute
<1>5. ASSUME NEW h \in Handlers, Request(h) PROVE UNCHANGED worker
  BY <1>5 DEF Request, ControlRead, PauseCommit, ResumeCommit, StopCommit, CreateRead,
              CreateCancel, CreateCount, CreateInsert, CreatePublish, ClearRead,
              ClearCommit, Purge
<1>6. CASE ApiRestart
  BY <1>0, <1>1, <1>6 DEF ApiRestart
<1>7. ASSUME ReapScan \/ ReapCommit \/ \E q \in Runs : Delete(q) \/ Redeliver(q)
      PROVE  UNCHANGED worker
  BY <1>7 DEF ReapScan, ReapCommit, Delete, Redeliver
<1>8. Outcome
  BY <1>1, <1>3, <1>4, <1>5, <1>6, <1>7 DEF Next, vars
<1> QED BY <1>8

(* Where a row's messages come from and where they go, and what the reaper *)
(* selects.                                                                *)
LEMMA MessageSteps ==
    ASSUME TypeOK, [Next]_vars, NEW r \in Runs
    PROVE  /\ \/ msgs'[r] = msgs[r]
              \/ \E h \in Handlers : /\ CreatePublish(h) /\ target[h] = r
                                     /\ msgs'[r] = msgs[r] + 1
              \/ \E w \in Workers : /\ Requeue(w) /\ ~Eager /\ at[w] = r
                                    /\ msgs'[r] = msgs[r] + 1
              \/ Redeliver(r) /\ msgs'[r] = msgs[r] + 1
              \/ \E w \in Workers : Deliver(w, r) /\ msgs'[r] = msgs[r] - 1
              \/ msgs'[r] = 0 /\ (r \in lost' \/ (Eager /\ ApiRestart))
           /\ r \in reaping' => r \in reaping \/ status[r] = "running"
           /\ r \in lost => r \in lost'
           /\ doubled \subseteq doubled'
<1> DEFINE Outcome ==
           /\ \/ msgs'[r] = msgs[r]
              \/ \E h \in Handlers : /\ CreatePublish(h) /\ target[h] = r
                                     /\ msgs'[r] = msgs[r] + 1
              \/ \E w \in Workers : /\ Requeue(w) /\ ~Eager /\ at[w] = r
                                    /\ msgs'[r] = msgs[r] + 1
              \/ Redeliver(r) /\ msgs'[r] = msgs[r] + 1
              \/ \E w \in Workers : Deliver(w, r) /\ msgs'[r] = msgs[r] - 1
              \/ msgs'[r] = 0 /\ (r \in lost' \/ (Eager /\ ApiRestart))
           /\ r \in reaping' => r \in reaping \/ status[r] = "running"
           /\ r \in lost => r \in lost'
           /\ doubled \subseteq doubled'
<1>0. msgs \in [Runs -> Nat]
  BY DEF TypeOK
<1>1. CASE UNCHANGED <<msgs, reaping, lost, bounds>>
  BY <1>1 DEF bounds
<1>2. ASSUME NEW h \in Handlers, Request(h) PROVE Outcome
  <2>1. CASE CreatePublish(h)
    BY <1>0, <2>1 DEF CreatePublish, bounds
  <2>2. CASE Purge(h)
    BY <1>0, <2>2 DEF Purge, bounds
  <2> QED BY <1>1, <1>2, <2>1, <2>2
       DEF Request, ControlRead, PauseCommit, ResumeCommit, StopCommit, CreateRead,
           CreateCancel, CreateCount, CreateInsert, ClearRead, ClearCommit
<1>3. ASSUME NEW w \in Workers, Execute(w) PROVE Outcome
  <2>1. ASSUME NEW q \in Runs, Deliver(w, q) PROVE Outcome
    BY <1>0, <2>1 DEF Deliver, bounds
  <2>2. CASE Requeue(w)
    BY <1>0, <2>2 DEF Requeue, bounds
  <2>3. CASE WorkerCrash(w)
    BY <2>3 DEF WorkerCrash, bounds
  <2> QED BY <1>1, <1>3, <2>1, <2>2, <2>3
       DEF Execute, Quit, Start, Checkpoint, CheckpointStop, CheckpointPause,
           CheckpointResume, Fail, Block, FinishCancelled, FinishRead, Finish
<1>4. ASSUME NEW q \in Runs, Delete(q) \/ Redeliver(q) PROVE Outcome
  BY <1>0, <1>4 DEF Delete, Redeliver, bounds
<1>5. CASE ReapScan \/ ReapCommit
  BY <1>5 DEF ReapScan, ReapCommit, bounds
<1>6. CASE ApiRestart
  BY <1>0, <1>6 DEF ApiRestart
<1>7. Outcome
  BY <1>1, <1>2, <1>3, <1>4, <1>5, <1>6 DEF Next, vars
<1> QED BY <1>7

(* A terminal row that no worker executes and no request or reaper holds   *)
(* is never written again, except that it may be deleted; and nobody comes *)
(* to hold it, for any number of messages still at the broker.             *)
THEOREM SettledRunsAreFinal == Spec => SettledIsFinal
<1>1. TypeOK /\ [Next]_vars
        => [\A r \in Runs : status[r] \in Terminal /\ ~Held(r) =>
               status'[r] \in {status[r], "deleted"} /\ ~Held(r)']_vars
  <2> SUFFICES ASSUME TypeOK, [Next]_vars, NEW r \in Runs,
                      status[r] \in Terminal, ~Held(r)
               PROVE  status'[r] \in {status[r], "deleted"} /\ ~Held(r)'
    OBVIOUS
  <2>0. WorkersOK /\ None \notin Runs
    BY RunsAssumption DEF TypeOK, WorkersOK
  <2>1. /\ \A w \in Workers : at[w] # r
        /\ \A h \in Handlers : target[h] # r /\ r \notin victims[h]
        /\ r \notin reaping
    BY <2>0 DEF Held, Executes, WorkersOK
  <2>2. status[r] \notin Active \cup {"none", "running"} /\ status[r] \notin Existing \ Terminal
    BY DEF Active, Terminal
  <2>3. status'[r] \in {status[r], "deleted"}
    BY <2>1, <2>2, RowSteps DEF Writer
  <2>4. \A w \in Workers : at'[w] # r
    BY <2>1, <2>2, WorkerSteps
  <2>5. \A h \in Handlers : target'[h] # r /\ r \notin victims'[h]
    BY <2>1, <2>2, RequestSteps
  <2>6. r \notin reaping'
    BY <2>1, <2>2, MessageSteps
  <2> QED BY <2>3, <2>4, <2>5, <2>6 DEF Held, Executes
<1> QED BY <1>1, TypeCorrect, PTL DEF Spec, SettledIsFinal

-----------------------------------------------------------------------------
(* A row that is not inserted yet is known to nobody but the request that  *)
(* creates it, and only one request creates it; a row that is queued has   *)
(* not been entered: a worker at it is on its way in or out.               *)
Creating == {"cancel", "count", "insert"}

NotInsertedYet ==
    \A r \in Runs : status[r] = "none" =>
        /\ msgs[r] = 0
        /\ r \notin reaping
        /\ \A w \in Workers : at[w] # r
        /\ \A h \in Handlers : r \notin victims[h] /\ (target[h] = r => op[h] \in Creating)

OneCreator ==
    /\ \A h \in Handlers : op[h] \in Creating => status[target[h]] = "none"
    /\ \A g, h \in {f \in Handlers : op[f] \in Creating \cup {"publish"}} :
          target[g] = target[h] => g = h

NotEnteredYet ==
    \A r \in Runs, w \in Workers :
        status[r] = "queued" /\ at[w] = r => pc[w] \in {"starting", "quitting"}

LEMMA Births == Spec => [](NotInsertedYet /\ OneCreator /\ NotEnteredYet)
<1>1. Init => NotInsertedYet /\ OneCreator /\ NotEnteredYet
  <2> SUFFICES ASSUME Init PROVE NotInsertedYet /\ OneCreator /\ NotEnteredYet
    OBVIOUS
  <2>1. NotInsertedYet
    BY RunsAssumption DEF Init, NotInsertedYet
  <2>2. \A h \in Handlers : op[h] \notin Creating \cup {"publish"}
    BY DEF Init, Creating
  <2>3. OneCreator
    BY <2>2 DEF OneCreator
  <2>4. NotEnteredYet
    BY DEF Init, NotEnteredYet
  <2> QED BY <2>1, <2>3, <2>4
<1>2. TypeOK /\ NotInsertedYet /\ OneCreator /\ NotEnteredYet /\ [Next]_vars
        => NotInsertedYet' /\ OneCreator' /\ NotEnteredYet'
  <2> SUFFICES ASSUME TypeOK, NotInsertedYet, OneCreator, NotEnteredYet, [Next]_vars
               PROVE  NotInsertedYet' /\ OneCreator' /\ NotEnteredYet'
    OBVIOUS
  <2>0. RequestsOK /\ WorkersOK /\ RequestsOK' /\ None \notin Runs
    <3>1. TypeOK'
      BY TypeIsKept
    <3> QED BY <3>1, RunsAssumption DEF TypeOK, RequestsOK, WorkersOK
  <2>1. NotInsertedYet'
    <3> SUFFICES ASSUME NEW r \in Runs, status'[r] = "none"
                 PROVE  /\ msgs'[r] = 0
                        /\ r \notin reaping'
                        /\ \A w \in Workers : at'[w] # r
                        /\ \A h \in Handlers : /\ r \notin victims'[h]
                                               /\ target'[h] = r => op'[h] \in Creating
      BY DEF NotInsertedYet
    <3>1. status[r] = "none"
      BY RowSteps DEF Terminal
    <3>2. /\ msgs[r] = 0 /\ r \notin reaping
          /\ \A w \in Workers : at[w] # r
          /\ \A h \in Handlers : r \notin victims[h] /\ (target[h] = r => op[h] \in Creating)
      BY <3>1 DEF NotInsertedYet
    <3>3. msgs'[r] = 0
      BY <3>2, MessageSteps DEF CreatePublish, Redeliver, Deliver, Creating
    <3>4. r \notin reaping'
      BY <3>1, <3>2, MessageSteps
    <3>5. \A w \in Workers : at'[w] # r
      BY <3>1, <3>2, WorkerSteps DEF Existing, Active, Terminal
    <3>6. ASSUME NEW h \in Handlers
          PROVE  r \notin victims'[h] /\ (target'[h] = r => op'[h] \in Creating)
      <4>1. ~CreateInsert(h) \/ target[h] # r
        <5>1. status \in [Runs -> Statuses]
          BY DEF TypeOK
        <5> QED BY <3>1, <5>1 DEF CreateInsert, SetStatus
      <4> QED BY <3>1, <3>2, <4>1, RequestSteps DEF Existing, Active, Terminal, Creating
    <3> QED BY <3>3, <3>4, <3>5, <3>6
  <2>2. OneCreator'
    <3>1. ASSUME NEW h \in Handlers, op'[h] \in Creating PROVE status'[target'[h]] = "none"
      <4>1. target'[h] \in Runs
        BY <2>0, <3>1 DEF RequestsOK, Creating
      <4> DEFINE r == target'[h]
      <4>2. \/ target[h] = r /\ op[h] \in Creating
            \/ status[r] = "none" /\ status'[r] = "none"
        BY <3>1, <4>1, RequestSteps DEF Creating
      <4>3. CASE target[h] = r /\ op[h] \in Creating
        <5>1. status[r] = "none"
          BY <4>3 DEF OneCreator
        <5>2. ~Writer(r)
          BY <4>1, <5>1 DEF NotInsertedYet, Writer, Creating, Active
        <5>3. ASSUME NEW g \in Handlers, CreateInsert(g), target[g] = r
              PROVE  FALSE
          <6>1. g = h
            BY <4>3, <5>3 DEF OneCreator, CreateInsert, Creating
          <6>2. op'[h] = "publish"
            BY <2>0, <5>3, <6>1 DEF CreateInsert, Continue, RequestsOK
          <6> QED BY <3>1, <6>2 DEF Creating
        <5>4. ~\E w \in Workers : at[w] = r
          BY <4>1, <5>1 DEF NotInsertedYet
        <5> QED BY <4>1, <5>1, <5>2, <5>3, <5>4, RowSteps DEF Terminal
      <4> QED BY <4>2, <4>3
    <3>2. ASSUME NEW g \in Handlers, NEW h \in Handlers, target'[g] = target'[h],
                 op'[g] \in Creating \cup {"publish"}, op'[h] \in Creating \cup {"publish"},
                 g # h
          PROVE  FALSE
      <4>1. target'[h] \in Runs
        BY <2>0, <3>2 DEF RequestsOK, Creating
      <4> DEFINE r == target'[h]
      <4>2. ASSUME NEW f \in Handlers, target'[f] = r, op'[f] \in Creating \cup {"publish"}
            PROVE  \/ target[f] = r /\ op[f] \in Creating \cup {"publish"}
                   \/ \A e \in Handlers : target[e] # r /\ (e # f => target'[e] # r)
        BY <4>1, <4>2, RequestSteps DEF Creating, CreateInsert
      <4> QED BY <3>2, <4>2 DEF OneCreator
    <3> QED BY <3>1, <3>2 DEF OneCreator, Creating
  <2>3. NotEnteredYet'
    <3> SUFFICES ASSUME NEW r \in Runs, NEW w \in Workers, status'[r] = "queued", at'[w] = r
                 PROVE  pc'[w] \in {"starting", "quitting"}
      BY DEF NotEnteredYet
    <3>1. CASE status[r] = "queued"
      <4>1. ~Start(w) \/ at[w] # r
        <5>1. status \in [Runs -> Statuses]
          BY DEF TypeOK
        <5> QED BY <3>1, <5>1 DEF Start, SetStatus
      <4> QED BY <3>1, <4>1, WorkerSteps DEF NotEnteredYet
    <3>2. CASE status[r] # "queued"
      <4>1. PICK h \in Handlers : CreateInsert(h) /\ target[h] = r
        BY <3>2, RowSteps DEF Terminal
      <4>2. status[r] = "none"
        BY <4>1 DEF CreateInsert, OneCreator, Creating
      <4>3. UNCHANGED worker
        BY <4>1 DEF CreateInsert
      <4> QED BY <4>2, <4>3 DEF worker, NotInsertedYet
    <3> QED BY <3>1, <3>2
  <2> QED BY <2>1, <2>2, <2>3
<1> QED BY <1>1, <1>2, TypeCorrect, PTL DEF Spec

-----------------------------------------------------------------------------
(* As long as none of its messages was redelivered a run has at most one   *)
(* token: a message, a worker that took it, or a request about to publish. *)
Publishes(h, r) == op[h] = "publish" /\ target[h] = r

OneToken ==
    \A r \in Runs \ doubled :
        /\ msgs[r] <= 1
        /\ msgs[r] = 1 => /\ \A w \in Workers : at[w] # r
                          /\ \A h \in Handlers : ~Publishes(h, r)
        /\ \A w \in Workers, h \in Handlers : ~(at[w] = r /\ Publishes(h, r))
        /\ \A v, w \in Workers : at[v] = r /\ at[w] = r => v = w

LEMMA TokensAreUnique == Spec => []OneToken
<1>1. Init => OneToken
  BY RunsAssumption DEF Init, OneToken, Publishes
<1>2. TypeOK /\ NotInsertedYet /\ OneCreator /\ OneToken /\ [Next]_vars => OneToken'
  <2> SUFFICES ASSUME TypeOK, NotInsertedYet, OneCreator, OneToken, [Next]_vars,
                      NEW r \in Runs, r \notin doubled'
               PROVE  /\ msgs'[r] <= 1
                      /\ msgs'[r] = 1 => /\ \A w \in Workers : at'[w] # r
                                         /\ \A h \in Handlers : ~Publishes(h, r)'
                      /\ \A w \in Workers, h \in Handlers : ~(at'[w] = r /\ Publishes(h, r)')
                      /\ \A v, w \in Workers : at'[v] = r /\ at'[w] = r => v = w
    BY DEF OneToken
  <2>0. /\ RequestsOK /\ WorkersOK /\ None \notin Runs
        /\ msgs \in [Runs -> Nat]
    BY RunsAssumption DEF TypeOK, RequestsOK, WorkersOK
  <2>1. r \notin doubled /\ ~Redeliver(r)
    BY MessageSteps DEF Redeliver
  <2>2. /\ msgs[r] <= 1
        /\ msgs[r] = 1 => /\ \A w \in Workers : at[w] # r
                          /\ \A h \in Handlers : ~Publishes(h, r)
        /\ \A w \in Workers, h \in Handlers : ~(at[w] = r /\ Publishes(h, r))
        /\ \A v, w \in Workers : at[v] = r /\ at[w] = r => v = w
    BY <2>1 DEF OneToken
  <2>3. ASSUME NEW h \in Handlers, Publishes(h, r)'
        PROVE  \/ Publishes(h, r)
               \/ status[r] = "none" /\ msgs[r] = 0 /\ \A w \in Workers : at[w] # r
    <3>1. Publishes(h, r) \/ (CreateInsert(h) /\ target[h] = r)
      BY <2>3, RequestSteps DEF Publishes
    <3>2. CreateInsert(h) /\ target[h] = r => status[r] = "none"
      BY DEF CreateInsert, OneCreator, Creating
    <3> QED BY <3>1, <3>2 DEF NotInsertedYet
  <2>4. CASE \E w \in Workers : Deliver(w, r)
    <3>1. PICK w \in Workers : Deliver(w, r)
      BY <2>4
    <3>2. msgs[r] = 1 /\ msgs'[r] = 0
      BY <2>0, <2>2, <3>1 DEF Deliver
    <3>3. \A v \in Workers : v # w => at'[v] = at[v]
      BY <2>0, <3>1 DEF Deliver, Goto, worker, WorkersOK
    <3>4. \A h \in Handlers : ~Publishes(h, r)'
      BY <2>2, <2>3, <3>2
    <3> QED BY <2>2, <3>2, <3>3, <3>4
  <2>5. CASE ~\E w \in Workers : Deliver(w, r)
    <3>1. \A w \in Workers : at'[w] = r => at[w] = r
      BY <2>5, WorkerSteps
    <3>2. CASE \E h \in Handlers : CreatePublish(h) /\ target[h] = r /\ msgs'[r] = msgs[r] + 1
      <4>1. PICK h \in Handlers : CreatePublish(h) /\ target[h] = r /\ msgs'[r] = msgs[r] + 1
        BY <3>2
      <4>2. Publishes(h, r) /\ op'[h] = "idle"
        BY <2>0, <4>1 DEF CreatePublish, Publishes, End, RequestsOK
      <4>3. msgs'[r] = 1 /\ \A w \in Workers : at'[w] # r
        BY <2>0, <2>2, <3>1, <4>1, <4>2
      <4>4. ASSUME NEW g \in Handlers, Publishes(g, r)' PROVE FALSE
        <5>1. status[r] # "none"
          BY <4>2 DEF NotInsertedYet, Publishes, Creating
        <5>2. Publishes(g, r)
          BY <2>3, <4>4, <5>1
        <5>3. g = h
          BY <4>2, <5>2 DEF OneCreator, Publishes
        <5> QED BY <4>2, <4>4, <5>3 DEF Publishes
      <4> QED BY <4>3, <4>4
    <3>3. CASE \E w \in Workers : Requeue(w) /\ at[w] = r /\ msgs'[r] = msgs[r] + 1
      <4>1. PICK w \in Workers : Requeue(w) /\ at[w] = r /\ msgs'[r] = msgs[r] + 1
        BY <3>3
      <4>2. at'[w] # r
        BY <2>0, <4>1 DEF Requeue, Leave, Goto, WorkersOK
      <4>3. msgs'[r] = 1 /\ \A v \in Workers : at'[v] # r
        BY <2>0, <2>2, <3>1, <4>1, <4>2
      <4>4. \A h \in Handlers : ~Publishes(h, r)'
        BY <2>2, <4>1 DEF Requeue, request, Publishes
      <4> QED BY <4>3, <4>4
    <3>4. CASE msgs'[r] = msgs[r] \/ msgs'[r] = 0
      BY <2>0, <2>2, <2>3, <3>1, <3>4
    <3> QED BY <2>1, <2>5, <3>2, <3>3, <3>4, MessageSteps
  <2> QED BY <2>4, <2>5
<1> QED BY <1>1, <1>2, TypeCorrect, Births, PTL DEF Spec

(* Two workers are inside one run only after the broker handed one of its  *)
(* messages out twice (no lock guards the entry of the task), for any      *)
(* number of pauses, polls, resumes, superseding requests, purges, crashes *)
(* and restarts, and of redeliveries of other runs' messages.              *)
THEOREM OneExecutorPerRun == Spec => []SingleExecutor
<1>1. OneToken => SingleExecutor
  BY DEF OneToken, SingleExecutor, Executes
<1> QED BY <1>1, TokensAreUnique, PTL

-----------------------------------------------------------------------------
(* A queued run is carried, and a paused one where a poll can be sent:     *)
(* when Eager the delayed message goes to a broker nobody reads.           *)
Waits(r) == status[r] = "queued" \/ (status[r] = "paused" /\ ~Eager)
WaitersAreCarried == \A r \in Runs : Waits(r) => Carried(r)

LEMMA CarriersStay == Spec => []WaitersAreCarried
<1>1. Init => WaitersAreCarried
  BY DEF Init, WaitersAreCarried, Waits
<1>2. TypeOK /\ NotEnteredYet /\ WaitersAreCarried /\ [Next]_vars => WaitersAreCarried'
  <2> SUFFICES ASSUME TypeOK, NotEnteredYet, WaitersAreCarried, [Next]_vars, NEW r \in Runs,
                      Waits(r)'
               PROVE  Carried(r)'
    BY DEF WaitersAreCarried
  <2>0. /\ RequestsOK /\ WorkersOK /\ WorkersOK' /\ None \notin Runs
        /\ msgs \in [Runs -> Nat] /\ status \in [Runs -> Statuses]
    BY TypeIsKept, RunsAssumption DEF TypeOK, RequestsOK, WorkersOK
  <2>1. CASE ~Waits(r)
    <3>1. CASE \E h \in Handlers : CreateInsert(h) /\ target[h] = r
      <4>1. PICK h \in Handlers : CreateInsert(h) /\ target[h] = r
        BY <3>1
      <4>2. op'[h] = "publish" /\ target'[h] = r
        BY <2>0, <4>1 DEF CreateInsert, Continue, RequestsOK
      <4> QED BY <4>2 DEF Carried
    <3>2. CASE \E w \in Workers : CheckpointPause(w) /\ at[w] = r
      <4>1. PICK w \in Workers : CheckpointPause(w) /\ at[w] = r
        BY <3>2
      <4>2. at'[w] = r /\ pc'[w] # "idle"
        BY <2>0, <4>1 DEF CheckpointPause, Goto, WorkersOK
      <4> QED BY <4>2 DEF Carried, Executes
    <3> QED BY <2>1, <3>1, <3>2, RowSteps DEF Waits, Terminal
  <2>2. CASE Waits(r)
    <3>0. Carried(r) /\ status[r] \in Existing \ Terminal
      BY <2>2 DEF WaitersAreCarried, Waits, Existing, Active, Terminal
    <3>a. status'[r] \notin Terminal \cup {"deleted"}
      BY DEF Waits, Terminal
    <3>b. ~(Eager /\ ApiRestart)
      BY <2>0, <2>2 DEF ApiRestart, ForceCancel, SetStatus, Waits, Active
    <3>1. CASE r \in lost
      BY <3>1, MessageSteps DEF Carried
    <3>2. CASE msgs[r] > 0
      <4>1. CASE \E w \in Workers : Deliver(w, r)
        <5>1. PICK w \in Workers : Deliver(w, r)
          BY <4>1
        <5>2. at'[w] = r
          BY <2>0, <3>0, <5>1 DEF Deliver, Goto, WorkersOK, Existing, Active,
                                          Terminal
        <5> QED BY <2>0, <5>2 DEF Carried, Executes, WorkersOK
      <4>2. CASE r \in lost'
        BY <4>2 DEF Carried
      <4> QED BY <2>0, <3>2, <3>b, <4>1, <4>2, MessageSteps DEF Carried
    <3>3. ASSUME NEW w \in Workers, Executes(w, r) PROVE Carried(r)'
      <4>1. CASE at'[w] = r
        BY <2>0, <4>1 DEF Carried, Executes, WorkersOK
      <4>2. CASE Requeue(w)
        <5>1. at[w] = r /\ pc[w] = "yielding" /\ status'[r] = status[r]
          BY <3>3, <4>2 DEF Requeue, Executes, row
        <5>2. ~Eager
          BY <2>2, <5>1 DEF Waits, NotEnteredYet
        <5>3. msgs'[r] > 0
          BY <2>0, <4>2, <5>1, <5>2 DEF Requeue
        <5> QED BY <5>3 DEF Carried
      <4>3. CASE r \in lost'
        BY <4>3 DEF Carried
      <4> QED BY <3>3, <3>a, <3>b, <4>1, <4>2, <4>3, WorkerSteps DEF Executes
    <3>4. ASSUME NEW h \in Handlers, op[h] = "publish", target[h] = r PROVE Carried(r)'
      <4>1. CASE op'[h] = "publish" /\ target'[h] = r
        BY <4>1 DEF Carried
      <4>2. CASE CreatePublish(h)
        <5>1. msgs'[r] > 0
          BY <2>0, <3>4, <4>2 DEF CreatePublish
        <5> QED BY <5>1 DEF Carried
      <4>3. CASE ApiRestart
        <5>1. ~Eager
          BY <3>b, <4>3
        <5>2. r \in lost'
          BY <3>4, <4>3, <5>1 DEF ApiRestart
        <5> QED BY <5>2 DEF Carried
      <4> QED BY <3>4, <4>1, <4>2, <4>3, PublishersStay
    <3> QED BY <3>0, <3>1, <3>2, <3>3, <3>4 DEF Carried
  <2> QED BY <2>1, <2>2
<1> QED BY <1>1, <1>2, TypeCorrect, Births, PTL DEF Spec

(* Not Eager, a queued run has a message, a publisher or a worker, and a   *)
(* paused one a poll or a worker about to send it, unless a purge, a crash *)
(* or a restart destroyed it: no path of the worker or of a request leaves *)
(* a waiting run without somebody to look at it again.                     *)
THEOREM WaitingRunsAreCarried ==
    ASSUME ~Eager PROVE Spec => []WaitingRunIsCarried
<1>1. WaitersAreCarried => WaitingRunIsCarried
  BY DEF WaitersAreCarried, Waits, WaitingRunIsCarried
<1> QED BY <1>1, CarriersStay, PTL

(* A queued run is carried also where the workers are the API's threads.   *)
QueuedRunIsCarried == \A r \in Runs : status[r] = "queued" => Carried(r)

THEOREM QueuedRunsAreCarried == Spec => []QueuedRunIsCarried
<1>1. WaitersAreCarried => QueuedRunIsCarried
  BY DEF WaitersAreCarried, Waits, QueuedRunIsCarried
<1> QED BY <1>1, CarriersStay, PTL
=============================================================================
