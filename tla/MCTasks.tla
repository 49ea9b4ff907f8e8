------------------------------ MODULE MCTasks -------------------------------
(* Tasks, for TLC. *)
EXTENDS Tasks

\* The disk has no limit.
SmallLimits == [memory |-> 10, cpu |-> 10, disk |-> 0]
=============================================================================
