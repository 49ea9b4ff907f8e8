-------------------------------- MODULE Duties ------------------------------
(***************************************************************************)
(* Two of the parts that must make progress: the run of the Claude adapter *)
(* and the link between desktop and supervisor.  They share no state;      *)
(* Tasks puts them together with the others.                               *)
(***************************************************************************)
EXTENDS Integers, Sequences

CONSTANTS
    ClaudeInputs,                            \* the bound MaxInputs of ClaudeRun
    Pids, MaxNonces, MaxTries, LinkCalls     \* of SupervisorLink

\* A process identifier is not the mark for none.
ASSUME DutiesAssumption == 0 \notin Pids

VARIABLES
    cphase, cregistered, calive, ccontrol, cstdout, coutbox, claudeCount,
    proc, mutex, ready, nonces, server, toServer, toClient, bridge, executed, linkCount

claude == <<cphase, cregistered, calive, ccontrol, cstdout, coutbox, claudeCount>>
link == <<proc, mutex, ready, nonces, server, toServer, toClient, bridge, executed, linkCount>>

Claude == INSTANCE ClaudeRun
    WITH MaxInputs <- ClaudeInputs, phase <- cphase, registered <- cregistered, alive <- calive,
         control <- ccontrol, stdout <- cstdout, outbox <- coutbox, inputs <- claudeCount

Link == INSTANCE SupervisorLink WITH MaxCalls <- LinkCalls, inputs <- linkCount
-----------------------------------------------------------------------------
(***************************************************************************)
(* The properties of the parts, stated in their modules.                   *)
(***************************************************************************)
\* A run of the Claude adapter is a run as the service expects it (adapter.rs).
ClaudeKeepsContract == Claude!ClaudeKeepsContract

\* Once a Claude run is told to terminate, or its agent has died, the process is gone
\* and the run is off the map.
ClaudeTerminateEnds == Claude!ClaudeTerminateEnds

\* The result a command returns is the result of that command (supervisor_bridge.rs).
AnswerMatchesCommand == Link!AnswerMatchesCommand

\* A command is dispatched at most once, whatever sessions broke meanwhile.
CommandRunsOnce == Link!CommandRunsOnce

\* While a supervisor serves, the ready file names it (supervisor's lib.rs).
ReadyNamesServer == Link!ReadyNamesServer

\* Every call of the desktop returns and frees the bridge's lock.
CallReturns == Link!CallReturns
=============================================================================
