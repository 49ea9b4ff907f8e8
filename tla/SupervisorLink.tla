--------------------------- MODULE SupervisorLink ---------------------------
(***************************************************************************)
(* The desktop and the supervisor: the bridge of the desktop               *)
(* (supervisor_bridge.rs), the pipe server (ipc.rs), the handshake         *)
(* (handshake.rs), and the start and end of supervisor processes (lib.rs,  *)
(* single_instance.rs).                                                    *)
(*                                                                         *)
(* The bridge makes one call at a time.  It keeps an authenticated session *)
(* open between calls and gives it up on an error or when the deadline of  *)
(* a call passes.  The server has one instance of the pipe, so a client is *)
(* refused while the worker of an earlier connection has not finished.     *)
(* Commands take as long as they take; supervisors may stop or crash.      *)
(***************************************************************************)
EXTENDS Integers, Sequences, FiniteSets

CONSTANTS
    Pids,          \* supervisor processes
    MaxNonces,     \* nonces the verifier remembers; 4096 in the code
    MaxTries,      \* pings after a launch; 10 in the code
    MaxCalls       \* bound: calls, stops and crashes

VARIABLES
    proc,          \* per process: the point it has reached
    mutex,         \* the process that holds the instance mutex, or None
    ready,         \* the process named in supervisor.ready, or None
    nonces,        \* number of nonces the verifier remembers
    server,        \* the worker of the connection
    toServer,      \* messages in the pipe
    toClient,
    bridge,        \* the handle of the pipe and the call being made
    executed,      \* commands dispatched, in order
    inputs

vars == <<proc, mutex, ready, nonces, server, toServer, toClient, bridge, executed, inputs>>

None == 0

NoCall == [kind |-> "none"]

\* The worker that reads, dispatches a command, replies, flushes, or is off.
Off == [at |-> "off"]

Init ==
    /\ proc \in [Pids -> {"none", "starting"}]
    /\ mutex = None
    /\ ready = None
    /\ nonces = 0
    /\ server = Off
    /\ toServer = <<>>
    /\ toClient = <<>>
    /\ bridge = [handle |-> "none", attempted |-> FALSE, call |-> NoCall,
                 outcome |-> [asked |-> None, got |-> "none", result |-> None]]
    /\ executed = <<>>
    /\ inputs = 0

Input == inputs < MaxCalls /\ inputs' = inputs + 1

\* The client's handle once the worker has left the connection.
Broken(b) == [b EXCEPT !.handle = IF @ = "live" THEN "dead" ELSE @]

-----------------------------------------------------------------------------
(***************************************************************************)
(* Supervisor processes: run.                                              *)
(***************************************************************************)
Listening == {"listening", "serving", "closing"}

\* The mutex exists as long as a process that created it has its handle.
Acquire(p) ==
    /\ proc[p] = "starting"
    /\ IF mutex = None
       THEN proc' = [proc EXCEPT ![p] = "held"] /\ mutex' = p
       ELSE proc' = [proc EXCEPT ![p] = "exited"] /\ UNCHANGED mutex
    /\ UNCHANGED <<ready, nonces, server, toServer, toClient, bridge, executed, inputs>>

\* MissionService::new, then IpcServer::spawn_with_dispatcher.
Listen(p) ==
    /\ proc[p] = "held"
    /\ proc' = [proc EXCEPT ![p] = "listening"]
    /\ nonces' = 0
    /\ UNCHANGED <<mutex, ready, server, toServer, toClient, bridge, executed, inputs>>

\* A stale file is removed and the new one renamed into its place.
Publish(p) ==
    /\ proc[p] = "listening"
    /\ proc' = [proc EXCEPT ![p] = "serving"]
    /\ ready' = p
    /\ UNCHANGED <<mutex, nonces, server, toServer, toClient, bridge, executed, inputs>>

\* Ctrl-C, the end of the parent, or of the server's thread.
Stop(p) ==
    /\ proc[p] = "serving"
    /\ Input
    /\ proc' = [proc EXCEPT ![p] = "closing"]
    /\ UNCHANGED <<mutex, ready, nonces, server, toServer, toClient, bridge, executed>>

\* Mutant: the mutex is released before the ready file is cleaned up.
MutexReleased == None

MutexKept == mutex

\* stop_and_join: the server's thread has finished.
Joined(p) ==
    /\ proc[p] = "closing"
    /\ server = Off
    /\ proc' = [proc EXCEPT ![p] = "closed"]
    /\ mutex' = MutexKept
    /\ UNCHANGED <<ready, nonces, server, toServer, toClient, bridge, executed, inputs>>

Cleanup(p) ==
    /\ proc[p] = "closed"
    /\ ready' = None
    /\ proc' = [proc EXCEPT ![p] = "cleaned"]
    /\ UNCHANGED <<mutex, nonces, server, toServer, toClient, bridge, executed, inputs>>

\* The instance is dropped last.
Release(p) ==
    /\ proc[p] = "cleaned"
    /\ proc' = [proc EXCEPT ![p] = "exited"]
    /\ mutex' = IF mutex = p THEN None ELSE mutex
    /\ UNCHANGED <<ready, nonces, server, toServer, toClient, bridge, executed, inputs>>

\* An error while starting, or the death of the process; the ready file stays.
Crash(p) ==
    /\ proc[p] \in {"held", "cleaned", "closed"} \cup Listening
    /\ Input
    /\ proc' = [proc EXCEPT ![p] = "exited"]
    /\ mutex' = IF mutex = p THEN None ELSE mutex
    /\ IF proc[p] \in Listening
       THEN /\ server' = Off
            /\ toServer' = <<>>
            /\ toClient' = <<>>
            /\ bridge' = Broken(bridge)
       ELSE UNCHANGED <<server, toServer, toClient, bridge>>
    /\ UNCHANGED <<ready, nonces, executed>>

Process(p) ==
    Acquire(p) \/ Listen(p) \/ Publish(p) \/ Joined(p) \/ Cleanup(p) \/ Release(p)

-----------------------------------------------------------------------------
(***************************************************************************)
(* The worker of a connection: serve_with_idle_timeout, serve_connection.  *)
(***************************************************************************)
Stopping == \E p \in Pids : proc[p] = "closing"

Cancelling == server # Off /\ (server.cancelling \/ Stopping)

\* No message within the idle timeout; a command's heartbeat prevents it.
IdleTimeout ==
    /\ server.at \in {"read", "flush"}
    /\ ~server.cancelling
    /\ server' = [server EXCEPT !.cancelling = TRUE]
    /\ UNCHANGED <<proc, mutex, ready, nonces, toServer, toClient, bridge, executed, inputs>>

\* verify_at for a fresh nonce with a valid proof; the secret may be unreadable.
VerifyAt(readable) == nonces < MaxNonces /\ readable

WorkerAnswers(message, at) ==
    /\ toClient' = Append(toClient, message)
    /\ server' = [server EXCEPT !.at = at]

TakeHandshake(readable) ==
    /\ server.at = "read"
    /\ toServer # <<>>
    /\ Head(toServer).kind = "handshake"
    /\ toServer' = Tail(toServer)
    /\ IF ~server.auth /\ VerifyAt(readable)
       THEN /\ nonces' = nonces + 1
            /\ server' = [server EXCEPT !.auth = TRUE]
            /\ toClient' = Append(toClient, [kind |-> "accepted"])
       ELSE /\ WorkerAnswers([kind |-> "error"], "flush")
            /\ UNCHANGED nonces
    /\ UNCHANGED <<proc, mutex, ready, bridge, executed, inputs>>

TakeMessage ==
    /\ server.at = "read"
    /\ toServer # <<>>
    /\ Head(toServer).kind # "handshake"
    /\ toServer' = Tail(toServer)
    /\ CASE ~server.auth -> WorkerAnswers([kind |-> "error"], "flush")
         [] server.auth /\ Head(toServer).kind = "ping" -> WorkerAnswers([kind |-> "pong"], "read")
         [] OTHER -> /\ server' = [server EXCEPT !.at = "dispatch", !.id = Head(toServer).id]
                     /\ UNCHANGED toClient
    /\ UNCHANGED <<proc, mutex, ready, nonces, bridge, executed, inputs>>

\* The service carries the command out, whether or not the client still waits.
Dispatch ==
    /\ server.at = "dispatch"
    /\ executed' = Append(executed, server.id)
    /\ server' = [server EXCEPT !.at = "reply"]
    /\ UNCHANGED <<proc, mutex, ready, nonces, toServer, toClient, bridge, inputs>>

Reply ==
    /\ server.at = "reply"
    /\ bridge.handle = "live"
    /\ WorkerAnswers([kind |-> "result", id |-> server.id], "read")
    /\ UNCHANGED <<proc, mutex, ready, nonces, toServer, bridge, executed, inputs>>

\* The client is gone, the watchdog cancels the worker's read or write, or an error
\* was sent and read.  The pipe is disconnected.
WorkerEnds ==
    /\ \/ server.at = "read" /\ toServer = <<>> /\ bridge.handle # "live"
       \/ server.at = "reply" /\ bridge.handle # "live"
       \/ server.at \in {"read", "reply", "flush"} /\ Cancelling
       \/ server.at = "flush" /\ (toClient = <<>> \/ bridge.handle # "live")
    /\ server' = Off
    /\ toServer' = <<>>
    /\ toClient' = <<>>
    /\ bridge' = Broken(bridge)
    /\ UNCHANGED <<proc, mutex, ready, nonces, executed, inputs>>

\* Nonces are forgotten after ten minutes.
NonceExpires ==
    /\ nonces > 0
    /\ nonces' = nonces - 1
    /\ UNCHANGED <<proc, mutex, ready, server, toServer, toClient, bridge, executed, inputs>>

Worker == (\E readable \in BOOLEAN : TakeHandshake(readable)) \/ TakeMessage \/ Reply \/ WorkerEnds

-----------------------------------------------------------------------------
(***************************************************************************)
(* The bridge.                                                             *)
(***************************************************************************)
Calling(at) == bridge.call # NoCall /\ bridge.call.at = at

Outcome(got) == [asked |-> bridge.call.id, got |-> got, result |-> None]

\* supervisor_status, ping_supervisor and dispatch_mission.
Call(kind) ==
    /\ bridge.call = NoCall
    /\ Input
    /\ bridge' = [bridge EXCEPT
          !.call = [kind |-> kind, id |-> inputs', tries |-> 0,
                    at |-> IF bridge.handle = "none" THEN "open" ELSE "send"]]
    /\ UNCHANGED <<proc, mutex, ready, nonces, server, toServer, toClient, executed>>

Returned(handle, got) ==
    [bridge EXCEPT !.handle = handle, !.call = NoCall, !.outcome = Outcome(got)]

ReturnedResult(id) ==
    [Returned(bridge.handle, "result") EXCEPT !.outcome.result = id]

\* Mutant: a call that failed is made again over a new connection.
FailedAndRetried(got) ==
    IF got = "unavailable" /\ bridge.call.tries < MaxTries
    THEN [bridge EXCEPT !.handle = "none", !.call.at = "open", !.call.tries = @ + 1]
    ELSE Returned("none", got)

\* An error ends the session and the call; after a launch supervisor_status pings
\* again, ten times at most.
Failed(got) ==
    IF got = "unavailable" /\ bridge.call.tries \in 1 .. MaxTries - 1
    THEN [bridge EXCEPT !.handle = "none", !.call.at = "open", !.call.tries = @ + 1]
    ELSE Returned("none", got)

\* supervisor_status launches the packaged supervisor, once.
MayLaunch == bridge.call.kind = "status" /\ ~bridge.attempted

\* start_packaged starts a process, or fails.
Launch ==
    \/ \E p \in {q \in Pids : proc[q] = "none"} :
          /\ proc' = [proc EXCEPT ![p] = "starting"]
          /\ bridge' = [bridge EXCEPT !.handle = "none", !.attempted = TRUE,
                                      !.call.at = "open", !.call.tries = 1]
    \/ /\ bridge' = [Returned("none", "unavailable") EXCEPT !.attempted = TRUE]
       /\ UNCHANGED proc

Unavailable ==
    /\ IF MayLaunch THEN Launch ELSE bridge' = Failed("unavailable") /\ UNCHANGED proc
    /\ UNCHANGED <<mutex, ready, nonces, executed, inputs>>

\* The pipe can be opened while an instance listens and serves no one.
Free == server = Off /\ \E p \in Pids : proc[p] \in {"listening", "serving"}

Open ==
    /\ Calling("open")
    /\ Free
    /\ server' = [at |-> "read", auth |-> FALSE, cancelling |-> FALSE, id |-> None]
    /\ toServer' = <<[kind |-> "handshake"]>>
    /\ bridge' = [bridge EXCEPT !.handle = "live", !.call.at = "hello"]
    /\ UNCHANGED <<proc, mutex, ready, nonces, toClient, executed, inputs>>

OpenFails ==
    /\ Calling("open")
    /\ ~Free
    /\ Unavailable
    /\ UNCHANGED <<server, toServer, toClient>>

Hello ==
    /\ Calling("hello")
    /\ toClient # <<>>
    /\ toClient' = Tail(toClient)
    /\ bridge' = IF Head(toClient).kind = "accepted"
                 THEN [bridge EXCEPT !.call.at = "send"] ELSE Failed("authentication")
    /\ UNCHANGED <<proc, mutex, ready, nonces, server, toServer, executed, inputs>>

Send ==
    /\ Calling("send")
    /\ bridge.handle = "live"
    /\ toServer' = Append(toServer,
          IF bridge.call.kind = "command" THEN [kind |-> "command", id |-> bridge.call.id]
          ELSE [kind |-> "ping"])
    /\ bridge' = [bridge EXCEPT !.call.at = "await"]
    /\ UNCHANGED <<proc, mutex, ready, nonces, server, toClient, executed, inputs>>

\* A command takes a result of its name; anything else is a protocol error that
\* leaves the session as it is.  A ping takes a pong, and any error ends its session.
Await ==
    LET got == Head(toClient)
        kind == bridge.call.kind IN
    /\ Calling("await")
    /\ toClient # <<>>
    /\ toClient' = Tail(toClient)
    /\ bridge' =
          CASE kind = "command" /\ got.kind = "result" -> ReturnedResult(got.id)
            [] kind = "command" /\ got.kind # "result" -> Returned(bridge.handle, "protocol")
            [] kind # "command" /\ got.kind = "pong" -> Returned(bridge.handle, "pong")
            [] OTHER -> Failed("protocol")
    /\ UNCHANGED <<proc, mutex, ready, nonces, server, toServer, executed, inputs>>

\* The server has left the connection.
Disconnected ==
    /\ Calling("hello") \/ Calling("send") \/ Calling("await")
    /\ bridge.handle = "dead"
    /\ Unavailable
    /\ UNCHANGED <<server, toServer, toClient>>

\* Mutant: the session is kept when the deadline passes.
HandleKept == bridge.handle

HandleDropped == "none"

\* Mutant: the answer to a command is awaited without a deadline.
UnderDeadlineAtFirst == Calling("hello")

UnderDeadline == Calling("hello") \/ Calling("await")

\* with_io_deadline cancels the read of the handshake or of the answer.
DeadlinePasses ==
    /\ UnderDeadline
    /\ bridge' = Returned(HandleDropped, "timeout")
    /\ toClient' = IF HandleDropped = "none" THEN <<>> ELSE toClient
    /\ UNCHANGED <<proc, mutex, ready, nonces, server, toServer, executed, inputs>>

Bridge == Open \/ OpenFails \/ Hello \/ Send \/ Await \/ Disconnected \/ DeadlinePasses

-----------------------------------------------------------------------------
Next ==
    \/ \E p \in Pids : Process(p) \/ Stop(p) \/ Crash(p)
    \/ IdleTimeout \/ Worker \/ Dispatch \/ NonceExpires
    \/ \E kind \in {"status", "ping", "command"} : Call(kind)
    \/ Bridge

\* The thread that makes a call runs, and the watchdog of its deadline with it.
Fairness == WF_vars(Bridge)

Spec == Init /\ [][Next]_vars /\ Fairness

-----------------------------------------------------------------------------
(***************************************************************************)
(* Properties.                                                             *)
(***************************************************************************)
\* The result a command returns is the result of that command and of a dispatch that
\* took place, although responses carry no number: a late response cannot reach the
\* next call, because the session of a call that timed out is given up.
AnswerMatchesCommand ==
    bridge.outcome.got = "result" =>
        /\ bridge.outcome.result = bridge.outcome.asked
        /\ \E i \in DOMAIN executed : executed[i] = bridge.outcome.asked

\* A command is dispatched at most once, whatever sessions broke meanwhile.
CommandRunsOnce ==
    \A i, j \in DOMAIN executed : executed[i] = executed[j] => i = j

\* While a supervisor serves, the ready file names it, so that no two serve and none
\* removes the file of its successor.
ReadyNamesServer == \A p \in Pids : proc[p] = "serving" => ready = p

\* Every call returns: a command that never ends, a busy pipe, a supervisor that dies
\* or one that does not come up leaves no caller waiting, and with it the bridge's lock.
CallReturns == (bridge.call # NoCall) ~> (bridge.call = NoCall)
=============================================================================
