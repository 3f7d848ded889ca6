------------------------------ MODULE AgentRun ------------------------------
(***************************************************************************)
(* The agent runs of one project: the rows of agent_runs with their status *)
(* and their pipeline_control_json flags, the API handlers that create,    *)
(* pause, resume, stop, clear and delete them, the Celery messages that    *)
(* carry them, and the workers that execute the pipeline between           *)
(* checkpoints.                                                            *)
(*                                                                         *)
(* pipeline_control_json is one JSON column: every writer reads the whole  *)
(* object, changes its keys and writes the whole object back.  A writer's  *)
(* copy is therefore state, between its read and its commit.               *)
(***************************************************************************)
EXTENDS Naturals, FiniteSets

CONSTANTS
    Runs,             \* the rows that can ever be inserted for the project
    Workers,          \* execution slots (prefork children, or threads when Eager)
    Handlers,         \* API requests that can be in progress at once
    Eager,            \* settings.celery_eager: workers are threads of the API
    MaxRedeliveries,  \* bound: broker redeliveries of unacknowledged messages
    MaxRestarts,      \* bound: API restarts
    MaxFaults,        \* bound: redeliveries and restarts together
    None

ASSUME RunsAssumption ==
    /\ Eager \in BOOLEAN
    /\ MaxRedeliveries \in Nat
    /\ MaxRestarts \in Nat
    /\ MaxFaults \in Nat
    /\ None \notin Runs

VARIABLES
    status,    \* agent_runs.status; "none" before the INSERT, "deleted" after DELETE
    ctrl,      \* agent_runs.pipeline_control_json
    old,       \* rows whose started_at (or created_at) precedes the API's boot
    msgs,      \* messages of the run at the broker (threads starting when Eager)
    pc, at,    \* each worker: where it is, and on which run
    copy,      \* each worker: the control flags it has read and will write
    op,        \* each API request: what it will do next
    target,    \* ... the run it is about
    seen,      \* ... the status and the control flags it has read
    victims,   \* ... the other runs it has selected
    reaping,   \* rows reap_stale_agent_runs has selected and not yet committed
    lost,      \* history: runs whose message or executor was destroyed
    doubled,   \* history: runs whose message the broker handed out again
    redelivered, restarts

row     == <<status, ctrl, old>>
worker  == <<pc, at, copy>>
request == <<op, target, seen, victims>>
bounds  == <<doubled, redelivered, restarts>>
vars    == <<row, msgs, worker, request, reaping, lost, bounds>>

Active    == {"queued", "running"}
Terminal  == {"succeeded", "failed", "cancelled", "blocked"}
Existing  == Active \cup {"paused"} \cup Terminal
Statuses  == Existing \cup {"none", "deleted"}

(* worker_instance_id: nobody, this API process, or another process.       *)
Control   == [paused : BOOLEAN, stop : BOOLEAN, wid : {"none", "here", "other"}]
NoControl == [paused |-> FALSE, stop |-> FALSE, wid |-> "none"]
NotSeen   == [status |-> "none", ctrl |-> NoControl]

TypeOK ==
    /\ status \in [Runs -> Statuses]
    /\ ctrl \in [Runs -> Control]
    /\ old \subseteq Runs
    /\ msgs \in [Runs -> Nat]
    /\ pc \in [Workers -> {"idle", "starting", "quitting", "body", "stopping", "pausing",
                           "yielding", "resuming", "finishing"}]
    /\ at \in [Workers -> Runs \cup {None}]
    /\ \A w \in Workers : pc[w] = "idle" <=> at[w] = None
    /\ copy \in [Workers -> Control]
    /\ op \in [Handlers -> {"idle", "pause", "resume", "stop", "cancel", "count", "insert",
                            "publish", "clear", "purge"}]
    /\ target \in [Handlers -> Runs \cup {None}]
    /\ \A h \in Handlers : op[h] \in {"idle", "clear", "purge"} <=> target[h] = None
    /\ seen \in [Handlers -> [status : Statuses, ctrl : Control]]
    /\ victims \in [Handlers -> SUBSET Runs]
    /\ reaping \subseteq Runs
    /\ lost \subseteq Runs
    /\ doubled \subseteq Runs
    /\ redelivered \in 0..MaxRedeliveries
    /\ restarts \in 0..MaxRestarts

Init ==
    /\ status = [r \in Runs |-> "none"]
    /\ ctrl = [r \in Runs |-> NoControl]
    /\ old = {}
    /\ msgs = [r \in Runs |-> 0]
    /\ pc = [w \in Workers |-> "idle"]
    /\ at = [w \in Workers |-> None]
    /\ copy = [w \in Workers |-> NoControl]
    /\ op = [h \in Handlers |-> "idle"]
    /\ target = [h \in Handlers |-> None]
    /\ seen = [h \in Handlers |-> NotSeen]
    /\ victims = [h \in Handlers |-> {}]
    /\ reaping = {}
    /\ lost = {} /\ doubled = {}
    /\ redelivered = 0 /\ restarts = 0

(* Committed column writes; a row deleted in the meantime stays deleted.   *)
SetStatus(S, st) ==
    status' = [r \in Runs |-> IF r \in S /\ status[r] # "deleted" THEN st ELSE status[r]]
SetControl(r, c) == ctrl' = [ctrl EXCEPT ![r] = c]

(* force_cancel_agent_run on each of S: cancelled, flags set so that the   *)
(* worker's next checkpoint returns "stop".                                *)
ForceCancel(S) ==
    /\ SetStatus(S, "cancelled")
    /\ ctrl' = [r \in Runs |-> IF r \in S THEN [ctrl[r] EXCEPT !.stop = TRUE, !.paused = FALSE]
                                          ELSE ctrl[r]]

(* is_orphaned_agent_run, evaluated in the API process.                    *)
Orphaned(r) == status[r] \in Active /\ (ctrl[r].wid = "other" \/ r \in old)

-----------------------------------------------------------------------------
(* Definitions named ..._BUG are not part of the model.  Each is a faulty   *)
(* version of the definition that follows it, used to show that a property *)
(* is not vacuous.                                                         *)

(* One API request at a time is in a handler h.                            *)
Begin(h, o, r, s, S) ==
    /\ op[h] = "idle"
    /\ op' = [op EXCEPT ![h] = o]
    /\ target' = [target EXCEPT ![h] = r]
    /\ seen' = [seen EXCEPT ![h] = s]
    /\ victims' = [victims EXCEPT ![h] = S]

Continue(h, o) ==
    /\ op' = [op EXCEPT ![h] = o]
    /\ victims' = [victims EXCEPT ![h] = {}]
    /\ UNCHANGED <<target, seen>>

End(h) ==
    /\ op' = [op EXCEPT ![h] = "idle"]
    /\ target' = [target EXCEPT ![h] = None]
    /\ seen' = [seen EXCEPT ![h] = NotSeen]
    /\ victims' = [victims EXCEPT ![h] = {}]

(* post_agent_run_control: a terminal run answers 409 (or, for stop, as    *)
(* is); otherwise the handler goes on with the row it has read.            *)
ControlRead(h, r, action) ==
    /\ status[r] \in Existing \ Terminal
    /\ Begin(h, action, r, [status |-> status[r], ctrl |-> ctrl[r]], {})
    /\ UNCHANGED <<row, msgs, worker, reaping, lost, bounds>>

PauseCommit(h) ==
    /\ op[h] = "pause"
    /\ SetControl(target[h], [seen[h].ctrl EXCEPT !.paused = TRUE])
    /\ End(h)
    /\ UNCHANGED <<status, old, msgs, worker, reaping, lost, bounds>>

ResumeCommit_BUG(h) ==  \* resume resets every flag
    /\ op[h] = "resume"
    /\ SetControl(target[h], NoControl)
    /\ IF seen[h].status = "paused" THEN SetStatus({target[h]}, "running")
                                    ELSE UNCHANGED status
    /\ End(h)
    /\ UNCHANGED <<old, msgs, worker, reaping, lost, bounds>>

ResumeCommit(h) ==
    /\ op[h] = "resume"
    /\ SetControl(target[h], [seen[h].ctrl EXCEPT !.paused = FALSE])
    /\ IF seen[h].status = "paused" THEN SetStatus({target[h]}, "running")
                                    ELSE UNCHANGED status
    /\ End(h)
    /\ UNCHANGED <<old, msgs, worker, reaping, lost, bounds>>

(* _apply_stop_to_agent_run: a queued run is cancelled on the spot, any    *)
(* other is left to the worker's next checkpoint.                          *)
StopCommit(h) ==
    /\ op[h] = "stop"
    /\ SetControl(target[h], [seen[h].ctrl EXCEPT !.stop = TRUE, !.paused = FALSE])
    /\ IF seen[h].status = "queued" THEN SetStatus({target[h]}, "cancelled")
                                    ELSE UNCHANGED status
    /\ End(h)
    /\ UNCHANGED <<old, msgs, worker, reaping, lost, bounds>>

Delete(r) ==
    /\ status[r] \in Terminal
    /\ SetStatus({r}, "deleted")
    /\ UNCHANGED <<ctrl, old, msgs, worker, request, reaping, lost, bounds>>

-----------------------------------------------------------------------------
(* create_agent_run on an existing project.  A continue cancels every      *)
(* active run of the project, any other request those it takes for         *)
(* orphans; then it counts the active ones, inserts, commits, publishes.   *)
CreateRead(h, r, continue) ==
    /\ status[r] = "none"
    /\ \A g \in Handlers : target[g] # r
    /\ LET S == {q \in Runs : IF continue THEN status[q] \in Active ELSE Orphaned(q)}
       IN  Begin(h, IF S = {} THEN "count" ELSE "cancel", r, NotSeen, S)
    /\ UNCHANGED <<row, msgs, worker, reaping, lost, bounds>>

CreateCancel(h) ==
    /\ op[h] = "cancel"
    /\ ForceCancel(victims[h])
    /\ Continue(h, "count")
    /\ UNCHANGED <<old, msgs, worker, reaping, lost, bounds>>

CreateCount(h) ==
    /\ op[h] = "count"
    /\ IF \E r \in Runs : status[r] \in Active THEN End(h) ELSE Continue(h, "insert")
    /\ UNCHANGED <<row, msgs, worker, reaping, lost, bounds>>

CreateInsert_BUG(h) ==  \* the call that publishes is forgotten
    /\ op[h] = "insert"
    /\ SetStatus({target[h]}, "queued")
    /\ End(h)
    /\ UNCHANGED <<ctrl, old, msgs, worker, reaping, lost, bounds>>

CreateInsert(h) ==
    /\ op[h] = "insert"
    /\ SetStatus({target[h]}, "queued")
    /\ Continue(h, "publish")
    /\ UNCHANGED <<ctrl, old, msgs, worker, reaping, lost, bounds>>

CreatePublish_BUG(h) ==  \* published again by the client's retry
    /\ op[h] = "publish"
    /\ msgs' = [msgs EXCEPT ![target[h]] = @ + 2]
    /\ End(h)
    /\ UNCHANGED <<row, worker, reaping, lost, bounds>>

CreatePublish(h) ==
    /\ op[h] = "publish"
    /\ msgs' = [msgs EXCEPT ![target[h]] = @ + 1]
    /\ End(h)
    /\ UNCHANGED <<row, worker, reaping, lost, bounds>>

(* clear_task_backlog: queued runs become cancelled, without a stop flag;  *)
(* then the broker is purged, poll messages of paused runs included.       *)
ClearRead(h) ==
    /\ Begin(h, "clear", None, NotSeen, {r \in Runs : status[r] = "queued"})
    /\ UNCHANGED <<row, msgs, worker, reaping, lost, bounds>>

ClearCommit(h) ==
    /\ op[h] = "clear"
    /\ SetStatus(victims[h], "cancelled")
    /\ Continue(h, "purge")
    /\ UNCHANGED <<ctrl, old, msgs, worker, reaping, lost, bounds>>

Purge(h) ==
    /\ op[h] = "purge"
    /\ IF Eager
          THEN UNCHANGED <<msgs, lost>>
          ELSE /\ msgs' = [r \in Runs |-> 0]
               /\ lost' = lost \cup {r \in Runs : msgs[r] > 0}
    /\ End(h)
    /\ UNCHANGED <<row, worker, reaping, bounds>>

-----------------------------------------------------------------------------
(* The worker.  Goto moves w, keeping the flags c it has read.             *)
Goto(w, p, r, c) ==
    /\ pc' = [pc EXCEPT ![w] = p]
    /\ at' = [at EXCEPT ![w] = r]
    /\ copy' = [copy EXCEPT ![w] = c]

Leave(w) == Goto(w, "idle", None, NoControl)

(* _run_agent_run_impl, entry: skip a terminal row, cancel a stopped one,  *)
(* start a queued one; one already running or paused is entered as it is.  *)
Deliver_BUG(w, r) ==  \* paused and terminal runs alike are entered
    /\ pc[w] = "idle"
    /\ msgs[r] > 0
    /\ msgs' = [msgs EXCEPT ![r] = @ - 1]
    /\ IF status[r] = "queued" THEN Goto(w, "starting", r, ctrl[r])
                               ELSE Goto(w, "body", r, NoControl)
    /\ UNCHANGED <<row, request, reaping, lost, bounds>>

Deliver(w, r) ==
    /\ pc[w] = "idle"
    /\ msgs[r] > 0
    /\ msgs' = [msgs EXCEPT ![r] = @ - 1]
    /\ \/ status[r] \in Terminal \cup {"deleted"} /\ UNCHANGED worker
       \/ /\ status[r] \in Existing \ Terminal
          /\ \/ ctrl[r].stop /\ Goto(w, "quitting", r, NoControl)
             \/ ~ctrl[r].stop /\ status[r] = "queued" /\ Goto(w, "starting", r, ctrl[r])
             \/ ~ctrl[r].stop /\ status[r] # "queued" /\ Goto(w, "body", r, NoControl)
    /\ UNCHANGED <<row, request, reaping, lost, bounds>>

Quit(w) ==
    /\ pc[w] = "quitting"
    /\ SetStatus({at[w]}, "cancelled")
    /\ Leave(w)
    /\ UNCHANGED <<ctrl, old, msgs, request, reaping, lost, bounds>>

(* The row is stamped with the process that executes it.                   *)
Start(w) ==
    /\ pc[w] = "starting"
    /\ SetStatus({at[w]}, "running")
    /\ SetControl(at[w], [copy[w] EXCEPT !.wid = IF Eager THEN "here" ELSE "other"])
    /\ old' = old \ {at[w]}
    /\ Goto(w, "body", at[w], NoControl)
    /\ UNCHANGED <<msgs, request, reaping, lost, bounds>>

(* agent_run_checkpoint re-reads the row: a stop is looked at before a     *)
(* pause; a paused row whose flag was cleared is resumed; any other row,   *)
(* whatever its status, goes on (no step of this module).                  *)
Checkpoint(w) ==
    /\ pc[w] = "body"
    /\ LET r == at[w]  c == ctrl[at[w]] IN
       \/ status[r] = "deleted" /\ Leave(w)
       \/ c.stop /\ status[r] \in Terminal /\ Leave(w)
       \/ c.stop /\ status[r] \in Existing \ Terminal /\ Goto(w, "stopping", r, c)
       \/ ~c.stop /\ c.paused /\ status[r] = "running" /\ Goto(w, "pausing", r, NoControl)
       \/ ~c.stop /\ c.paused /\ status[r] \in Existing \ {"running"}
                 /\ Goto(w, "yielding", r, NoControl)
       \/ ~c.stop /\ ~c.paused /\ status[r] = "paused" /\ Goto(w, "resuming", r, c)
    /\ UNCHANGED <<row, msgs, request, reaping, lost, bounds>>

CheckpointStop(w) ==
    /\ pc[w] = "stopping"
    /\ SetStatus({at[w]}, "cancelled")
    /\ SetControl(at[w], [copy[w] EXCEPT !.paused = FALSE])
    /\ Leave(w)
    /\ UNCHANGED <<old, msgs, request, reaping, lost, bounds>>

CheckpointPause(w) ==
    /\ pc[w] = "pausing"
    /\ SetStatus({at[w]}, "paused")
    /\ Goto(w, "yielding", at[w], NoControl)
    /\ UNCHANGED <<ctrl, old, msgs, request, reaping, lost, bounds>>

CheckpointResume(w) ==
    /\ pc[w] = "resuming"
    /\ SetStatus({at[w]}, "running")
    /\ SetControl(at[w], [copy[w] EXCEPT !.paused = FALSE])
    /\ Goto(w, "body", at[w], NoControl)
    /\ UNCHANGED <<old, msgs, request, reaping, lost, bounds>>

(* AgentRunPausedYield leaves the task, which sends itself a delayed       *)
(* message.  send_task goes to the broker even when Eager, where nothing   *)
(* consumes it.                                                            *)
Requeue_BUG(w) ==  \* the delayed message is not sent
    /\ pc[w] = "yielding"
    /\ Leave(w)
    /\ UNCHANGED <<row, msgs, request, reaping, lost, bounds>>

Requeue(w) ==
    /\ pc[w] = "yielding"
    /\ IF Eager THEN UNCHANGED msgs ELSE msgs' = [msgs EXCEPT ![at[w]] = @ + 1]
    /\ Leave(w)
    /\ UNCHANGED <<row, request, reaping, lost, bounds>>

(* At a checkpoint inside a step's try block the except Exception clause   *)
(* catches the yield; like any failure of a step it fails the run.         *)
Fail(w) ==
    /\ pc[w] \in {"body", "yielding"}
    /\ SetStatus({at[w]}, "failed")
    /\ Leave(w)
    /\ UNCHANGED <<ctrl, old, msgs, request, reaping, lost, bounds>>

Block(w) ==
    /\ pc[w] = "body"
    /\ SetStatus({at[w]}, "blocked")
    /\ Leave(w)
    /\ UNCHANGED <<ctrl, old, msgs, request, reaping, lost, bounds>>

(* The end of the pipeline: most paths return when they read cancelled,    *)
(* the run through chapters only does not look.                            *)
FinishCancelled(w) ==
    /\ pc[w] = "body"
    /\ status[at[w]] = "cancelled"
    /\ Leave(w)
    /\ UNCHANGED <<row, msgs, request, reaping, lost, bounds>>

FinishRead(w) ==
    /\ pc[w] = "body"
    /\ Goto(w, "finishing", at[w], NoControl)
    /\ UNCHANGED <<row, msgs, request, reaping, lost, bounds>>

Finish(w) ==
    /\ pc[w] = "finishing"
    /\ SetStatus({at[w]}, "succeeded")
    /\ Leave(w)
    /\ UNCHANGED <<ctrl, old, msgs, request, reaping, lost, bounds>>

(* The process dies, or an exception (the soft time limit, a lost database *)
(* connection) leaves the task outside of any step's try block.            *)
WorkerCrash(w) ==
    /\ pc[w] # "idle"
    /\ lost' = lost \cup {at[w]}
    /\ Leave(w)
    /\ UNCHANGED <<row, msgs, request, reaping, bounds>>

-----------------------------------------------------------------------------
Redeliver(r) ==
    /\ ~Eager
    /\ msgs[r] > 0
    /\ redelivered < MaxRedeliveries /\ redelivered + restarts < MaxFaults
    /\ redelivered' = redelivered + 1
    /\ doubled' = doubled \cup {r}
    /\ msgs' = [msgs EXCEPT ![r] = @ + 1]
    /\ UNCHANGED <<row, worker, request, reaping, lost, restarts>>

(* reap_stale_agent_runs: running rows started long enough ago (any may    *)
(* be), paused and queued ones never.                                      *)
ReapScan_BUG ==  \* only rows without control flags
    /\ reaping = {}
    /\ \E S \in SUBSET {r \in Runs : status[r] = "running" /\ ~ctrl[r].stop} :
          S # {} /\ reaping' = S
    /\ UNCHANGED <<row, msgs, worker, request, lost, bounds>>

ReapScan ==
    /\ reaping = {}
    /\ \E S \in SUBSET {r \in Runs : status[r] = "running"} : S # {} /\ reaping' = S
    /\ UNCHANGED <<row, msgs, worker, request, lost, bounds>>

ReapCommit ==
    /\ reaping # {}
    /\ SetStatus(reaping, "failed")
    /\ reaping' = {}
    /\ UNCHANGED <<ctrl, old, msgs, worker, request, lost, bounds>>

(* The API restarts and its handlers die.  Every row predates the boot,    *)
(* and every stamp is another process's.  When Eager the executors die     *)
(* too, and the lifespan hooks force_cancel the active rows.               *)
ApiRestart ==
    /\ restarts < MaxRestarts /\ redelivered + restarts < MaxFaults
    /\ restarts' = restarts + 1
    /\ op' = [h \in Handlers |-> "idle"]
    /\ target' = [h \in Handlers |-> None]
    /\ seen' = [h \in Handlers |-> NotSeen]
    /\ victims' = [h \in Handlers |-> {}]
    /\ old' = {r \in Runs : status[r] # "none"}
    /\ LET unsent == {r \in Runs : \E h \in Handlers : op[h] = "publish" /\ target[h] = r}
       IN  IF Eager
              THEN /\ pc' = [w \in Workers |-> "idle"]
                   /\ at' = [w \in Workers |-> None]
                   /\ copy' = [w \in Workers |-> NoControl]
                   /\ msgs' = [r \in Runs |-> 0]
                   /\ reaping' = {}
                   /\ ForceCancel({r \in Runs : status[r] \in Active})
                   /\ UNCHANGED lost
              ELSE /\ UNCHANGED <<status, ctrl, msgs, worker, reaping>>
                   /\ lost' = lost \cup unsent
    /\ UNCHANGED <<doubled, redelivered>>

-----------------------------------------------------------------------------
Request(h) ==
    \/ \E r \in Runs, a \in {"pause", "resume", "stop"} : ControlRead(h, r, a)
    \/ PauseCommit(h) \/ ResumeCommit(h) \/ StopCommit(h)
    \/ \E r \in Runs, c \in BOOLEAN : CreateRead(h, r, c)
    \/ CreateCancel(h) \/ CreateCount(h) \/ CreateInsert(h) \/ CreatePublish(h)
    \/ ClearRead(h) \/ ClearCommit(h) \/ Purge(h)

Execute(w) ==
    \/ \E r \in Runs : Deliver(w, r)
    \/ Quit(w) \/ Start(w) \/ Checkpoint(w) \/ CheckpointStop(w) \/ CheckpointPause(w)
    \/ CheckpointResume(w) \/ Requeue(w) \/ Fail(w) \/ Block(w)
    \/ FinishCancelled(w) \/ FinishRead(w) \/ Finish(w) \/ WorkerCrash(w)

Next ==
    \/ \E h \in Handlers : Request(h)
    \/ \E w \in Workers : Execute(w)
    \/ \E r \in Runs : Delete(r) \/ Redeliver(r)
    \/ ReapScan \/ ReapCommit \/ ApiRestart

Spec == Init /\ [][Next]_vars

(* Started requests return, tasks are bounded by their time limits, a      *)
(* worker that is free often enough gets every message, and beat fires the *)
(* reaper, to which every running row is old in the end.  Nothing obliges  *)
(* a client to call or a step to succeed.                                  *)
Fairness ==
    /\ \A h \in Handlers :
          WF_vars(\/ PauseCommit(h) \/ ResumeCommit(h) \/ StopCommit(h) \/ CreateCancel(h)
                  \/ CreateCount(h) \/ CreateInsert(h) \/ CreatePublish(h) \/ ClearCommit(h)
                  \/ Purge(h))
    /\ \A w \in Workers :
          /\ WF_vars(\/ Quit(w) \/ Start(w) \/ CheckpointStop(w) \/ CheckpointPause(w)
                     \/ CheckpointResume(w) \/ Requeue(w) \/ Finish(w))
          /\ WF_vars(Checkpoint(w))
          /\ WF_vars(Fail(w) \/ Block(w) \/ FinishRead(w) \/ WorkerCrash(w))
    /\ \A r \in Runs : SF_vars(\E w \in Workers : Deliver(w, r))
    /\ WF_vars(ReapScan /\ reaping' = {r \in Runs : status[r] = "running"})
    /\ WF_vars(ReapCommit)

FairSpec == Spec /\ Fairness

-----------------------------------------------------------------------------
Executes(w, r) == at[w] = r /\ pc[w] # "idle"
Carried(r) ==
    \/ msgs[r] > 0
    \/ \E w \in Workers : Executes(w, r)
    \/ \E h \in Handlers : op[h] = "publish" /\ target[h] = r
    \/ r \in lost

(* Somebody has read r's flags without a stop and will write them back.    *)
StaleCopy(r) ==
    \/ \E h \in Handlers : /\ target[h] = r
                            /\ op[h] \in {"pause", "resume"}
                            /\ ~seen[h].ctrl.stop
    \/ \E w \in Workers : /\ at[w] = r
                           /\ pc[w] \in {"starting", "resuming"}
                           /\ ~copy[w].stop

Stopped(r) == ctrl[r].stop /\ ~StaleCopy(r)

(* Some process will write row r, or may.                                  *)
Held(r) ==
    \/ \E w \in Workers : Executes(w, r)
    \/ \E h \in Handlers : target[h] = r \/ r \in victims[h]
    \/ r \in reaping

(* A stop request survives: once it is committed and nobody holds an older *)
(* copy of the flags, no pause, resume, checkpoint, supersede or restart   *)
(* takes it back, although each of them writes the whole flags object.     *)
StopSticks == [][\A r \in Runs : Stopped(r) => Stopped(r)']_vars

(* A terminal run that no worker executes and no request or reaper has     *)
(* read is final, whatever polls of it are still at the broker: it can     *)
(* only be deleted.                                                        *)
SettledIsFinal ==
    [][\A r \in Runs : status[r] \in Terminal /\ ~Held(r) =>
          status'[r] \in {status[r], "deleted"} /\ ~Held(r)']_vars

(* A queued run has a message, a request about to publish it or a worker   *)
(* that took it, and a paused one keeps polling: its delayed message is at *)
(* the broker, or a worker looks at its flags; unless a purge or a crash   *)
(* destroyed that.                                                         *)
WaitingRunIsCarried == \A r \in Runs : status[r] \in {"queued", "paused"} => Carried(r)

(* Two workers are inside the same run only if the broker handed one of    *)
(* its messages out twice: the entry of the task lets a running row in, so *)
(* nothing else than the uniqueness of the message protects a run, and     *)
(* create, supersede, pause, resume, the poll of a paused run, purge,      *)
(* crash and restart all keep it.                                          *)
SingleExecutor ==
    \A v, w \in Workers, r \in Runs :
        v # w /\ Executes(v, r) /\ Executes(w, r) => r \in doubled

(* A stop request that sticks ends the run: it becomes terminal, unless    *)
(* its message or its worker was destroyed.                                *)
StopSettles ==
    \A r \in Runs : Stopped(r) ~> status[r] \in Terminal \cup {"deleted"} \/ r \in lost

(* A run does not stay running for ever, even one a stale resume revived   *)
(* with nobody to execute it: the pipeline ends, pauses, or is reaped.     *)
RunningSettles == \A r \in Runs : status[r] = "running" ~> status[r] # "running"

(* A statement of the repository that the code does not keep.              *)

(* agent_runs.py:418: the worker honours the flags.  A stop that another   *)
(* writer of the flags did not see is erased.                              *)
StopIsKept == [][\A r \in Runs : ctrl[r].stop => ctrl'[r].stop]_vars
=============================================================================
