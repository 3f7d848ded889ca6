-------------------------- MODULE MCJobLifecycle --------------------------
(* Small instances of JobLifecycle for TLC. *)
EXTENDS JobLifecycle

CONSTANTS j1, t1, t2

OneTenant == [j \in Jobs |-> t1]
============================================================================
