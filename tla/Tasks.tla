-------------------------------- MODULE Tasks -------------------------------
(***************************************************************************)
(* The parts that must make progress: the runs of the two adapters, the    *)
(* link between desktop and supervisor, and the scheduler.  They share no  *)
(* state, so each behaviour is one of one part, the subject, while the     *)
(* others stay in their initial states.                                    *)
(***************************************************************************)
EXTENDS CodexRun, Duties, Turns

CONSTANT Subjects  \* the parts whose behaviours are looked at

VARIABLE subject

codex == <<phase, registered, alive, turn, paused, control, pending, timers, answers,
           stdout, queued, awaiting, outbox, inputs>>

all == <<subject, codex, claude, link, scheduler>>

MCInit ==
    /\ subject \in Subjects
    /\ Init
    /\ Claude!Init
    /\ Link!Init
    /\ subject # "link" => proc = [p \in Pids |-> "none"]
    /\ Scheduling!Init

Others(changing) ==
    /\ UNCHANGED subject
    /\ changing # "codex" => UNCHANGED codex
    /\ changing # "claude" => UNCHANGED claude
    /\ changing # "link" => UNCHANGED link
    /\ changing # "scheduler" => UNCHANGED scheduler

MCNext ==
    \/ subject = "codex" /\ Next /\ Others("codex")
    \/ subject = "claude" /\ Claude!Next /\ Others("claude")
    \/ subject = "link" /\ Link!Next /\ Others("link")
    \/ subject = "scheduler" /\ Scheduling!Next /\ Others("scheduler")

\* The fairness of each part.
Steps ==
    \/ subject = "codex" /\ Task /\ Others("codex")
    \/ subject = "claude" /\ Claude!Task /\ Others("claude")
    \/ subject = "link" /\ Link!Bridge /\ Others("link")
    \/ subject = "scheduler" /\ Scheduling!TakeNext /\ Others("scheduler")

Timers == subject = "codex" /\ (\E q \in Requests : TimerFires(q)) /\ Others("codex")

MCSpec == MCInit /\ [][MCNext]_all /\ WF_all(Steps) /\ WF_all(Timers)
=============================================================================
