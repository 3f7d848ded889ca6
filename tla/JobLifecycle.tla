---------------------------- MODULE JobLifecycle ----------------------------
(***************************************************************************)
(* The life of rows of the jobs table: the API handlers that insert,       *)
(* cancel and clear them, the Celery broker that carries one message per   *)
(* job, the workers that acquire and execute them, and the beat task that  *)
(* reaps stale ones.                                                       *)
(*                                                                         *)
(* Every handler of the code reads rows, decides, and commits an           *)
(* UPDATE ... WHERE id that does not look at the status again.  The read   *)
(* and the commit are therefore separate actions here; what a handler has  *)
(* read and not yet written back is state (pc/at, cancelling, clearing,    *)
(* reaping).                                                               *)
(***************************************************************************)
EXTENDS Naturals, FiniteSets

CONSTANTS
    Jobs,             \* the rows that can ever be inserted
    Workers,          \* execution slots (prefork children, or threads when Eager)
    Tenants,
    TenantOf,         \* jobs.tenant_id
    SoftGuarded,      \* jobs run by the phase 3, 4 and 5 tasks
    Eager,            \* settings.celery_eager: workers are threads of the API
    MaxRedeliveries,  \* bound: broker redeliveries of unacknowledged messages
    MaxCrashes,       \* bound: worker crashes and API restarts
    None

ASSUME JobsAssumption ==
    /\ TenantOf \in [Jobs -> Tenants]
    /\ SoftGuarded \subseteq Jobs
    /\ Eager \in BOOLEAN
    /\ MaxRedeliveries \in Nat
    /\ MaxCrashes \in Nat
    /\ None \notin Jobs

VARIABLES
    status,       \* jobs.status, "none" before the INSERT commits
    stale,        \* running rows whose started_at is before the reaper's cutoff
    msgs,         \* copies of the job's message at the broker or prefetched
    revoked,      \* ids broadcast by control.revoke
    sigterm,      \* ids broadcast with terminate=True
    pc, at,       \* each worker: where it is, and on which job
    entering,     \* rows committed by create_job and not yet published
    cancelling,   \* per job, the status cancel_job has read
    clearing,     \* per tenant, where clear_task_backlog is
    backlog,      \* per tenant, the queued rows clear_task_backlog has read
    reaping,      \* rows reap_stale_jobs has selected and not yet committed
    lost,         \* history: jobs whose message or executor was destroyed
    told,         \* history: verdicts the webhook receiver has heard per job
    doubled,      \* history: jobs whose message the broker handed out again
    overlapped,   \* history: jobs two workers were acquiring at once
    redelivered, crashes

rows    == <<status, stale>>
broker  == <<msgs, revoked, sigterm, redelivered>>
workers == <<pc, at>>
api     == <<entering, cancelling, clearing, backlog>>
history == <<lost, told, doubled, overlapped>>
vars    == <<rows, broker, workers, api, reaping, history, crashes>>

Active   == {"queued", "running"}
Terminal == {"succeeded", "failed", "cancelled"}
Statuses == {"none"} \cup Active \cup Terminal

TypeOK ==
    /\ status \in [Jobs -> Statuses]
    /\ stale \subseteq Jobs
    /\ msgs \in [Jobs -> Nat]
    /\ revoked \subseteq Jobs
    /\ sigterm \subseteq revoked
    /\ pc \in [Workers -> {"idle", "acquiring", "body", "notify"}]
    /\ at \in [Workers -> Jobs \cup {None}]
    /\ \A w \in Workers : pc[w] = "idle" <=> at[w] = None
    /\ entering \subseteq Jobs
    /\ cancelling \in [Jobs -> {"idle"} \cup Active]
    /\ clearing \in [Tenants -> {"idle", "cancel", "purge"}]
    /\ backlog \in [Tenants -> SUBSET Jobs]
    /\ \A t \in Tenants : clearing[t] # "cancel" => backlog[t] = {}
    /\ reaping \subseteq Jobs
    /\ lost \subseteq Jobs
    /\ told \in [Jobs -> SUBSET {"succeeded", "failed"}]
    /\ doubled \subseteq Jobs
    /\ overlapped \subseteq Jobs
    /\ redelivered \in 0..MaxRedeliveries
    /\ crashes \in 0..MaxCrashes

Init ==
    /\ status = [j \in Jobs |-> "none"]
    /\ stale = {}
    /\ msgs = [j \in Jobs |-> 0]
    /\ revoked = {} /\ sigterm = {}
    /\ pc = [w \in Workers |-> "idle"]
    /\ at = [w \in Workers |-> None]
    /\ entering = {}
    /\ cancelling = [j \in Jobs |-> "idle"]
    /\ clearing = [t \in Tenants |-> "idle"]
    /\ backlog = [t \in Tenants |-> {}]
    /\ reaping = {}
    /\ lost = {}
    /\ told = [j \in Jobs |-> {}]
    /\ doubled = {} /\ overlapped = {}
    /\ redelivered = 0 /\ crashes = 0

SetStatus(S, st) == status' = [j \in Jobs |-> IF j \in S THEN st ELSE status[j]]

Acquiring(w, j) == at[w] = j /\ pc[w] = "acquiring"
Executing(w, j) == at[w] = j /\ pc[w] = "body"

-----------------------------------------------------------------------------
(* Definitions named ..._BUG are not part of the model.  Each is a faulty   *)
(* version of the definition that follows it, used to show that a property *)
(* is not vacuous.                                                         *)

(* create_job: the row is committed first, then the message is published   *)
(* under task_id = job id (enqueue_job_task).                              *)
Create_BUG(j) ==  \* the call that publishes is forgotten
    /\ status[j] = "none"
    /\ SetStatus({j}, "queued")
    /\ UNCHANGED <<stale, broker, workers, api, reaping, history, crashes>>

Create(j) ==
    /\ status[j] = "none"
    /\ SetStatus({j}, "queued")
    /\ entering' = entering \cup {j}
    /\ UNCHANGED <<stale, broker, workers, cancelling, clearing, backlog, reaping,
                   history, crashes>>

Publish_BUG(j) ==  \* published twice
    /\ j \in entering
    /\ entering' = entering \ {j}
    /\ msgs' = [msgs EXCEPT ![j] = @ + 2]
    /\ UNCHANGED <<rows, revoked, sigterm, redelivered, workers, cancelling, clearing,
                   backlog, reaping, history, crashes>>

Publish(j) ==
    /\ j \in entering
    /\ entering' = entering \ {j}
    /\ msgs' = [msgs EXCEPT ![j] = @ + 1]
    /\ UNCHANGED <<rows, revoked, sigterm, redelivered, workers, cancelling, clearing,
                   backlog, reaping, history, crashes>>

(* cancel_job: 409 unless the row it read is active; the revocation is     *)
(* broadcast before the UPDATE commits, with SIGTERM when it read running. *)
CancelRead_BUG(j) ==  \* terminal rows are accepted too
    /\ cancelling[j] = "idle"
    /\ status[j] # "none"
    /\ cancelling' = [cancelling EXCEPT ![j] = status[j]]
    /\ revoked' = revoked \cup {j}
    /\ UNCHANGED <<rows, msgs, sigterm, redelivered, workers, entering, clearing, backlog,
                   reaping, history, crashes>>

CancelRead(j) ==
    /\ cancelling[j] = "idle"
    /\ status[j] \in Active
    /\ cancelling' = [cancelling EXCEPT ![j] = status[j]]
    /\ revoked' = revoked \cup {j}
    /\ sigterm' = IF status[j] = "running" THEN sigterm \cup {j} ELSE sigterm
    /\ UNCHANGED <<rows, msgs, redelivered, workers, entering, clearing, backlog,
                   reaping, history, crashes>>

CancelCommit(j) ==
    /\ cancelling[j] # "idle"
    /\ cancelling' = [cancelling EXCEPT ![j] = "idle"]
    /\ SetStatus({j}, "cancelled")
    /\ UNCHANGED <<stale, broker, workers, entering, clearing, backlog, reaping,
                   history, crashes>>

(* clear_task_backlog: select the tenant's queued rows and revoke them,    *)
(* commit them as cancelled, then purge the broker's queues, which hold    *)
(* the messages of every tenant (and nothing when Eager: threads have been *)
(* started instead).                                                       *)
ClearRead(t) ==
    /\ clearing[t] = "idle"
    /\ clearing' = [clearing EXCEPT ![t] = "cancel"]
    /\ LET mine == {j \in Jobs : TenantOf[j] = t /\ status[j] = "queued"}
       IN  /\ backlog' = [backlog EXCEPT ![t] = mine]
           /\ revoked' = revoked \cup mine
    /\ UNCHANGED <<rows, msgs, sigterm, redelivered, workers, entering, cancelling,
                   reaping, history, crashes>>

ClearCommit(t) ==
    /\ clearing[t] = "cancel"
    /\ clearing' = [clearing EXCEPT ![t] = "purge"]
    /\ SetStatus(backlog[t], "cancelled")
    /\ backlog' = [backlog EXCEPT ![t] = {}]
    /\ UNCHANGED <<stale, broker, workers, entering, cancelling, reaping, history,
                   crashes>>

Purge(t) ==
    /\ clearing[t] = "purge"
    /\ clearing' = [clearing EXCEPT ![t] = "idle"]
    /\ IF Eager
          THEN UNCHANGED <<msgs, lost>>
          ELSE /\ msgs' = [j \in Jobs |-> 0]
               /\ lost' = lost \cup {j \in Jobs : msgs[j] > 0}
    /\ UNCHANGED <<rows, revoked, sigterm, redelivered, workers, entering, cancelling,
                   backlog, reaping, told, doubled, overlapped, crashes>>

-----------------------------------------------------------------------------
(* The broker.  A message is acknowledged when a worker starts it, so a    *)
(* started one never comes back; one that sits prefetched beyond the Redis *)
(* visibility timeout is handed out a second time.                         *)
Redeliver(j) ==
    /\ ~Eager
    /\ msgs[j] > 0
    /\ redelivered < MaxRedeliveries
    /\ redelivered' = redelivered + 1
    /\ msgs' = [msgs EXCEPT ![j] = @ + 1]
    /\ doubled' = doubled \cup {j}
    /\ UNCHANGED <<rows, revoked, sigterm, workers, api, reaping, lost, told, overlapped,
                   crashes>>

(* A worker that heard the revocation drops the message.                   *)
Discard(j) ==
    /\ ~Eager
    /\ msgs[j] > 0
    /\ j \in revoked
    /\ msgs' = [msgs EXCEPT ![j] = @ - 1]
    /\ lost' = lost \cup {j}
    /\ UNCHANGED <<rows, revoked, sigterm, redelivered, workers, api, reaping, told,
                   doubled, overlapped, crashes>>

-----------------------------------------------------------------------------
(* acquire_job_for_work, first half: refresh the row; anything but queued  *)
(* makes the task return without working (or notifying).                   *)
Deliver_BUG(w, j) ==  \* the gate is gone: whatever the row's status, it is acquired
    /\ pc[w] = "idle"
    /\ msgs[j] > 0
    /\ msgs' = [msgs EXCEPT ![j] = @ - 1]
    /\ pc' = [pc EXCEPT ![w] = "acquiring"]
    /\ at' = [at EXCEPT ![w] = j]
    /\ overlapped' = IF \E v \in Workers : Acquiring(v, j) THEN overlapped \cup {j}
                                                          ELSE overlapped
    /\ UNCHANGED <<rows, revoked, sigterm, redelivered, api, reaping, lost, told, doubled,
                   crashes>>

Deliver(w, j) ==
    /\ pc[w] = "idle"
    /\ msgs[j] > 0
    /\ msgs' = [msgs EXCEPT ![j] = @ - 1]
    /\ IF status[j] = "queued"
          THEN /\ pc' = [pc EXCEPT ![w] = "acquiring"]
               /\ at' = [at EXCEPT ![w] = j]
               /\ overlapped' = IF \E v \in Workers : Acquiring(v, j)
                                   THEN overlapped \cup {j} ELSE overlapped
          ELSE UNCHANGED <<workers, overlapped>>
    /\ UNCHANGED <<rows, revoked, sigterm, redelivered, api, reaping, lost, told, doubled,
                   crashes>>

(* Second half: queued -> running with started_at = now.                   *)
Acquire(w) ==
    /\ pc[w] = "acquiring"
    /\ pc' = [pc EXCEPT ![w] = "body"]
    /\ SetStatus({at[w]}, "running")
    /\ stale' = stale \ {at[w]}
    /\ UNCHANGED <<broker, at, api, reaping, history, crashes>>

(* The body returned, or raised (a provider error, a Phase5GateError, a    *)
(* result with ok = False, a stop signal the body polled).                 *)
Finish_BUG(w, st) ==  \* the session is rolled back, the row not written
    /\ pc[w] = "body"
    /\ pc' = [pc EXCEPT ![w] = "notify"]
    /\ UNCHANGED <<rows, broker, at, api, reaping, history, crashes>>

Finish(w, st) ==
    /\ pc[w] = "body"
    /\ pc' = [pc EXCEPT ![w] = "notify"]
    /\ SetStatus({at[w]}, st)
    /\ UNCHANGED <<stale, broker, at, api, reaping, history, crashes>>

FinishOk(w)   == Finish(w, "succeeded")
FinishFail(w) == Finish(w, "failed")

(* SoftTimeLimitExceeded: phases 3 to 5 re-read the row and only fail one  *)
(* that is still running; phase 2 and the smoke task treat it as any other *)
(* exception.                                                              *)
SoftTimeLimit(w) ==
    /\ pc[w] = "body"
    /\ pc' = [pc EXCEPT ![w] = "notify"]
    /\ IF at[w] \in SoftGuarded /\ status[at[w]] # "running"
          THEN UNCHANGED status
          ELSE SetStatus({at[w]}, "failed")
    /\ UNCHANGED <<stale, broker, at, api, reaping, history, crashes>>

(* SIGTERM reached the child while it was in the body: SystemExit unwinds  *)
(* it through the finally block that notifies.                             *)
Terminated(w) ==
    /\ ~Eager
    /\ pc[w] = "body"
    /\ at[w] \in sigterm
    /\ pc' = [pc EXCEPT ![w] = "notify"]
    /\ UNCHANGED <<rows, broker, at, api, reaping, history, crashes>>

(* notify_job_terminal re-reads the row and, when it finds it succeeded or *)
(* failed, posts that verdict until an attempt is answered.  The body is   *)
(* built once, so the receiver hears it from any number of attempts, or    *)
(* never when every attempt is lost.                                       *)
Notify_BUG(w) ==  \* the row is read again for every attempt
    /\ pc[w] = "notify"
    /\ status[at[w]] \in {"succeeded", "failed"}
    /\ told' = [told EXCEPT ![at[w]] = @ \cup {status[at[w]]}]
    /\ \/ pc' = [pc EXCEPT ![w] = "idle"] /\ at' = [at EXCEPT ![w] = None]
       \/ UNCHANGED workers
    /\ UNCHANGED <<rows, broker, api, reaping, lost, doubled, overlapped, crashes>>

Notify(w) ==
    /\ pc[w] = "notify"
    /\ pc' = [pc EXCEPT ![w] = "idle"]
    /\ at' = [at EXCEPT ![w] = None]
    /\ \/ /\ status[at[w]] \in {"succeeded", "failed"}
          /\ told' = [told EXCEPT ![at[w]] = @ \cup {status[at[w]]}]
       \/ UNCHANGED told
    /\ UNCHANGED <<rows, broker, api, reaping, lost, doubled, overlapped, crashes>>

-----------------------------------------------------------------------------
(* reap_stale_jobs: select running rows whose started_at is before the     *)
(* cutoff, mark them failed, commit.                                       *)
Age(j) ==
    /\ status[j] = "running"
    /\ j \notin stale
    /\ stale' = stale \cup {j}
    /\ UNCHANGED <<status, broker, workers, api, reaping, history, crashes>>

ReapScan_BUG ==  \* rows whose cancellation is in flight are skipped
    /\ reaping = {}
    /\ reaping' = {j \in stale : status[j] = "running" /\ j \notin revoked}
    /\ reaping' # {}
    /\ UNCHANGED <<rows, broker, workers, api, history, crashes>>

ReapScan ==
    /\ reaping = {}
    /\ reaping' = {j \in stale : status[j] = "running"}
    /\ reaping' # {}
    /\ UNCHANGED <<rows, broker, workers, api, history, crashes>>

ReapCommit ==
    /\ reaping # {}
    /\ reaping' = {}
    /\ SetStatus(reaping, "failed")
    /\ UNCHANGED <<stale, broker, workers, api, history, crashes>>

(* A worker process dies (hard time limit, OOM, power): the message was    *)
(* acknowledged when the task started, so nothing redelivers it.           *)
WorkerCrash(w) ==
    /\ ~Eager
    /\ pc[w] # "idle"
    /\ crashes < MaxCrashes
    /\ crashes' = crashes + 1
    /\ pc' = [pc EXCEPT ![w] = "idle"]
    /\ at' = [at EXCEPT ![w] = None]
    /\ lost' = lost \cup {at[w]}
    /\ UNCHANGED <<rows, broker, api, reaping, told, doubled, overlapped>>

(* The API process restarts in the middle of its handlers.  When Eager the *)
(* workers are its threads: they die with it, and recover_orphaned_        *)
(* running_jobs fails every row still running before serving again.        *)
ApiRestart ==
    /\ crashes < MaxCrashes
    /\ crashes' = crashes + 1
    /\ entering' = {}
    /\ cancelling' = [j \in Jobs |-> "idle"]
    /\ clearing' = [t \in Tenants |-> "idle"]
    /\ backlog' = [t \in Tenants |-> {}]
    /\ IF Eager
          THEN /\ pc' = [w \in Workers |-> "idle"]
               /\ at' = [w \in Workers |-> None]
               /\ msgs' = [j \in Jobs |-> 0]
               /\ reaping' = {}
               /\ SetStatus({j \in Jobs : status[j] = "running"}, "failed")
               /\ lost' = lost \cup entering \cup {j \in Jobs : msgs[j] > 0}
                              \cup {j \in Jobs : \E w \in Workers : at[w] = j}
          ELSE /\ UNCHANGED <<workers, msgs, reaping, status>>
               /\ lost' = lost \cup entering
    /\ UNCHANGED <<stale, revoked, sigterm, redelivered, told, doubled, overlapped>>

-----------------------------------------------------------------------------
WorkerStep(w) ==
    \/ \E j \in Jobs : Deliver(w, j)
    \/ Acquire(w) \/ FinishOk(w) \/ FinishFail(w) \/ SoftTimeLimit(w)
    \/ Terminated(w) \/ Notify(w) \/ WorkerCrash(w)

ApiStep ==
    \/ \E j \in Jobs : Create(j) \/ Publish(j) \/ CancelRead(j) \/ CancelCommit(j)
    \/ \E t \in Tenants : ClearRead(t) \/ ClearCommit(t) \/ Purge(t)
    \/ ApiRestart

Next ==
    \/ ApiStep
    \/ \E j \in Jobs : Redeliver(j) \/ Discard(j) \/ Age(j)
    \/ \E w \in Workers : WorkerStep(w)
    \/ ReapScan \/ ReapCommit

(* Started handlers return, workers take messages and are bounded by their *)
(* hard time limit, and beat fires the reaper every 15 minutes.  Nothing   *)
(* obliges a client to call, a body to succeed, or a process to crash.     *)
Fairness ==
    /\ \A j \in Jobs : WF_vars(Publish(j)) /\ WF_vars(CancelCommit(j)) /\ WF_vars(Age(j))
    /\ \A t \in Tenants : WF_vars(ClearCommit(t)) /\ WF_vars(Purge(t))
    /\ \A w \in Workers :
          /\ WF_vars(Acquire(w))
          /\ WF_vars(Notify(w))
          /\ WF_vars(FinishOk(w) \/ FinishFail(w) \/ SoftTimeLimit(w))
    /\ \A j \in Jobs : SF_vars(\E w \in Workers : Deliver(w, j))
    /\ WF_vars(ReapScan) /\ WF_vars(ReapCommit)

Spec == Init /\ [][Next]_vars
FairSpec == Spec /\ Fairness

-----------------------------------------------------------------------------
(* Some process has read row j and may still write it.                     *)
Held(j) ==
    \/ \E w \in Workers : at[w] = j /\ pc[w] \in {"acquiring", "body"}
    \/ cancelling[j] # "idle"
    \/ \E t \in Tenants : j \in backlog[t]
    \/ j \in reaping

Settled(j) == status[j] \in Terminal /\ ~Held(j)

(* Rows are overwritten without re-reading them, yet once a row is         *)
(* terminal and every handler that had read it has committed or died, no   *)
(* redelivery, cancellation, backlog clear, reaper or restart changes it   *)
(* or executes it again (the 409 of cancel_job, the selects of the reaper  *)
(* and of the backlog, and the gate of acquire_job_for_work together).     *)
SettledIsFinal == [][\A j \in Jobs : Settled(j) => status'[j] = status[j] /\ ~Held(j)']_vars

(* A queued row has somebody who will move it on: its message, the handler *)
(* about to publish it, or a worker acquiring it.  The exceptions are jobs *)
(* whose message a purge, a revocation or a crash destroyed: nothing in    *)
(* the code publishes those again.                                         *)
QueuedHasCarrier ==
    \A j \in Jobs : status[j] = "queued" =>
        \/ msgs[j] > 0
        \/ j \in entering \cup lost
        \/ \E w \in Workers : at[w] = j /\ pc[w] = "acquiring"

(* A running row has a worker executing it, unless that worker crashed or  *)
(* was terminated by a cancellation.  When Eager there is no exception:    *)
(* recovery on startup leaves no row running that no thread executes.      *)
RunningHasExecutor ==
    \A j \in Jobs : status[j] = "running" =>
        \/ \E w \in Workers : Executing(w, j)
        \/ ~Eager /\ j \in lost \cup sigterm

(* The broker handed the job's message out twice and two workers read the  *)
(* row queued before either had committed running.                         *)
Raced(j) == j \in doubled /\ j \in overlapped

(* Two workers execute the same job only after such a race: the gate of    *)
(* acquire_job_for_work turns away every copy of the message that arrives  *)
(* once a worker has committed running, also after the outcome.            *)
SingleExecution ==
    \A v, w \in Workers, j \in Jobs :
        v # w /\ Executing(v, j) /\ Executing(w, j) => Raced(j)

(* Short of that race a receiver never hears two verdicts on one job,      *)
(* although the row may be failed by the reaper and then succeed, messages *)
(* are redelivered, and lost answers are retried.                          *)
OneVerdict ==
    \A j \in Jobs : \A u, v \in told[j] : u # v => Raced(j)

(* Whatever crashes, a running row becomes terminal: the worker finishes   *)
(* or the reaper finds it.                                                 *)
RunningSettles ==
    \A j \in Jobs : status[j] = "running" ~> status[j] \in Terminal

(* A queued row is eventually executed or cancelled, unless its message    *)
(* was destroyed.                                                          *)
QueuedIsServed ==
    \A j \in Jobs : status[j] = "queued" ~> (status[j] # "queued" \/ j \in lost)

(* The jobs table implements the abstract board: only holders write, and   *)
(* only active rows come to be held.                                       *)
Board == INSTANCE JobBoard WITH held <- {j \in Jobs : Held(j)}
ImplementsBoard == Board!Spec
=============================================================================
