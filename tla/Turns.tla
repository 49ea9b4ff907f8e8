------------------------------- MODULE Turns --------------------------------
(***************************************************************************)
(* The scheduler, which gives the missions their turns, as one of the      *)
(* parts that Tasks puts together.                                         *)
(***************************************************************************)
EXTENDS Integers, Sequences

CONSTANTS
    Missions, Foreground, MaxActive, Limits, MaxActions  \* of Scheduler

\* The slots are a number.
ASSUME TurnsAssumption == MaxActive \in Nat

VARIABLES order, state, actions, schedule, cursor

scheduler == <<order, state, actions, schedule, cursor>>

Scheduling == INSTANCE Scheduler
-----------------------------------------------------------------------------
\* The schedule holds the active missions, by weight and within the slots (scheduler.rs).
ScheduleIsSound == Scheduling!ScheduleIsSound

\* An active mission with work is served again and again, unless the schedule is
\* rebuilt over and over.
ActionsAreHandedOut == Scheduling!ActionsAreHandedOut
=============================================================================
