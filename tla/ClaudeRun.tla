----------------------------- MODULE ClaudeRun ------------------------------
(***************************************************************************)
(* One run of the Claude adapter: ClaudeAdapter.start and the task it      *)
(* spawns (adapter-claude process.rs, normalize.rs).  Unlike the Codex     *)
(* adapter it makes no request of the agent and answers none; the loop     *)
(* takes control messages and lines in either order, and reading a line is *)
(* safe to cancel.                                                         *)
(***************************************************************************)
EXTENDS Integers, Sequences, Functions

CONSTANT MaxInputs  \* bound: lines and exit of the agent, control messages

VARIABLES
    phase,         \* start, loop, closing, over, or refused
    registered,    \* the run is in the adapter's map
    alive,         \* the child process
    control,       \* the control channel
    stdout,        \* lines the agent wrote and the task has not read
    outbox,        \* events sent
    inputs

vars == <<phase, registered, alive, control, stdout, outbox, inputs>>

Init ==
    /\ phase = "start"
    /\ registered = FALSE
    /\ alive = FALSE
    /\ control = <<>>
    /\ stdout = <<>>
    /\ outbox = <<>>
    /\ inputs = 0

Input == inputs < MaxInputs /\ inputs' = inputs + 1

-----------------------------------------------------------------------------
(***************************************************************************)
(* Starting.                                                               *)
(***************************************************************************)
\* The request is invalid, the process does not start, or it cannot be put in a
\* job of its own and is killed.  The run never enters the map.
Refuse ==
    /\ phase = "start"
    /\ phase' = "refused"
    /\ UNCHANGED <<registered, alive, control, stdout, outbox, inputs>>

\* Mutant: the run is not put into the map.
Unregistered == FALSE

Registered == TRUE

Start ==
    /\ phase = "start"
    /\ phase' = "loop"
    /\ alive' = TRUE
    /\ registered' = Registered
    /\ UNCHANGED <<control, stdout, outbox, inputs>>

-----------------------------------------------------------------------------
(***************************************************************************)
(* The agent.                                                              *)
(***************************************************************************)
\* Lines by what the normalizer tells apart; unreadable is not UTF-8.
Lines == {"init", "message", "tool", "result", "error", "malformed", "unreadable"}

AgentWrites(line) ==
    /\ alive
    /\ Input
    /\ stdout' = Append(stdout, line)
    /\ UNCHANGED <<phase, registered, alive, control, outbox>>

AgentExits ==
    /\ alive
    /\ Input
    /\ alive' = FALSE
    /\ UNCHANGED <<phase, registered, control, stdout, outbox>>

-----------------------------------------------------------------------------
(***************************************************************************)
(* The task.                                                               *)
(***************************************************************************)
\* normalize_line_lossless: a malformed line is a risky warning.
Normalized(line) ==
    CASE line = "init" -> "started"
      [] line \in {"tool", "error", "malformed", "unreadable"} -> "risky"
      [] line \in {"message", "result"} -> "event"

\* A result is terminal; a line that cannot be read ends the loop with a report.
Terminal(line) == line \in {"result", "unreadable"}

TakeLine ==
    /\ phase = "loop"
    /\ stdout # <<>>
    /\ stdout' = Tail(stdout)
    /\ outbox' = Append(outbox, Normalized(Head(stdout)))
    /\ phase' = IF Terminal(Head(stdout)) THEN "closing" ELSE phase
    /\ UNCHANGED <<registered, alive, control, inputs>>

EndOfOutput ==
    /\ phase = "loop"
    /\ stdout = <<>>
    /\ ~alive
    /\ outbox' = Append(outbox, "risky")
    /\ phase' = "closing"
    /\ UNCHANGED <<registered, alive, control, stdout, inputs>>

\* A pause is reported whether or not the agent could be interrupted; the task has
\* no use for an answer.
TakeControl ==
    /\ phase = "loop"
    /\ control # <<>>
    /\ control' = Tail(control)
    /\ outbox' = IF Head(control) = "pause" THEN Append(outbox, "paused") ELSE outbox
    /\ phase' = IF Head(control) = "terminate" THEN "closing" ELSE phase
    /\ alive' = IF Head(control) = "terminate" THEN FALSE ELSE alive
    /\ UNCHANGED <<registered, stdout, inputs>>

\* The job is terminated and the child killed, however the loop ended.
Close ==
    /\ phase = "closing"
    /\ phase' = "over"
    /\ alive' = FALSE
    /\ stdout' = <<>>
    /\ UNCHANGED <<registered, control, outbox, inputs>>

\* Mutant: the run is left in the map.
StillRegistered == registered

Deregistered == FALSE

Remove ==
    /\ phase = "over"
    /\ registered
    /\ registered' = Deregistered
    /\ control' = <<>>
    /\ UNCHANGED <<phase, alive, stdout, outbox, inputs>>

-----------------------------------------------------------------------------
\* request_safe_pause, terminate_owned_tree; respond_to_server_request is the
\* trait's default and refuses.
SendControl(message) ==
    /\ registered
    /\ Input
    /\ control' = Append(control, message)
    /\ UNCHANGED <<phase, registered, alive, stdout, outbox>>

Task == TakeLine \/ EndOfOutput \/ TakeControl \/ Close \/ Remove

Next ==
    \/ Refuse
    \/ Start
    \/ Task
    \/ \E line \in Lines : AgentWrites(line)
    \/ AgentExits
    \/ \E message \in {"pause", "terminate"} : SendControl(message)

\* The task runs on the supervisor's runtime.
Fairness == WF_vars(Task)

Spec == Init /\ [][Next]_vars /\ Fairness

-----------------------------------------------------------------------------
(***************************************************************************)
(* Properties.                                                             *)
(***************************************************************************)
Contract ==
    INSTANCE AgentRun
        WITH Requests <- {}, answers <- <<>>, on <- registered \/ phase \in {"start", "refused"}

\* A run of the Claude adapter is a run as the service expects it: it sends its events
\* while it is in the map and none after it has left it (AgentAdapter in adapter.rs).
ClaudeKeepsContract == Contract!Spec

\* Once the run is told to terminate, or its agent has died, the process is gone and the
\* run leaves the map, whatever else is queued (adapter-claude process.rs).
ClaudeTerminateEnds ==
    (("terminate" \in Range(control) /\ registered) \/ (phase = "loop" /\ ~alive))
        ~> (~registered /\ ~alive)
=============================================================================
