------------------------------ MODULE JobBoard ------------------------------
(***************************************************************************)
(* What the jobs table promises to everybody who polls GET /v1/jobs/{id}:  *)
(* the abstract specification that JobLifecycle implements.                *)
(*                                                                         *)
(* A process may only come to hold an opinion about a row (a snapshot it   *)
(* will later write back) while the row is active, and only a holder       *)
(* writes the row.  Hence a terminal row that nobody holds is final.       *)
(***************************************************************************)

CONSTANT Jobs

VARIABLES status,  \* jobs.status, "none" before the row is inserted
          held     \* rows some process has read and may still write

vars == <<status, held>>

Active   == {"queued", "running"}
Terminal == {"succeeded", "failed", "cancelled"}
Statuses == {"none"} \cup Active \cup Terminal

TypeOK ==
    /\ status \in [Jobs -> Statuses]
    /\ held \subseteq Jobs

Init ==
    /\ status = [j \in Jobs |-> "none"]
    /\ held = {}

Submit(j) ==
    /\ status[j] = "none"
    /\ status' = [status EXCEPT ![j] = "queued"]
    /\ UNCHANGED held

(* Processes read rows and keep the copies: only active rows are kept.     *)
Hold ==
    /\ held \subseteq held'
    /\ \A j \in held' \ held : j \in Jobs /\ status[j] \in Active
    /\ UNCHANGED status

(* Holders write rows back, and drop some of the copies.  No write returns *)
(* a row to the queue.                                                     *)
Write ==
    /\ held' \subseteq held
    /\ status' \in [Jobs -> Statuses]
    /\ \A j \in Jobs : status'[j] # status[j] =>
           j \in held /\ status'[j] \in {"running"} \cup Terminal

Next == (\E j \in Jobs : Submit(j)) \/ Hold \/ Write

Spec == Init /\ [][Next]_vars

(* A row is settled when it is terminal and nobody holds a copy of it.     *)
Settled(j) == status[j] \in Terminal /\ j \notin held

(* A settled row keeps its status and is never held again.                 *)
SettledIsFinal ==
    [][\A j \in Jobs : Settled(j) => status'[j] = status[j] /\ j \notin held']_vars
=============================================================================
