------------------------------ MODULE CodexRun ------------------------------
(***************************************************************************)
(* One run of the Codex adapter: the task CodexAdapter.start spawns        *)
(* (process.rs) and its client of the app server (app_server.rs).          *)
(*                                                                         *)
(* The task makes three requests to start a turn, then serves its loop:    *)
(* control messages first, else the next line of the agent.  While it      *)
(* waits for a response it queues every other line.  Reading a line is not *)
(* safe to cancel: a read that is dropped between two chunks loses the     *)
(* first one.  The mission service, the agent and the timers of requests   *)
(* for approval run beside the task.                                       *)
(***************************************************************************)
EXTENDS Integers, Sequences, Functions

CONSTANTS
    Requests,      \* identifiers of the agent's requests for approval
    QueueLimit,    \* lines queued while a response is awaited; 1024 in the code
    MaxInputs      \* bound: lines, refusals and exit of the agent, torn frames and
                   \* control messages together

\* A request for approval is none of the other lines and events.
ASSUME RequestsAreDistinct ==
    Requests \cap {"thread", "turn", "event", "bad", "ok", "err", "late", "torn",
                   "started", "paused", "risky"} = {}

VARIABLES
    phase,         \* the point the task has reached
    registered,    \* the run is in the adapter's map
    alive,         \* the child process
    turn,          \* turn_id is known
    paused,
    control,       \* the control channel
    pending,       \* pending_requests
    timers,        \* requests whose 30 second timer runs
    answers,       \* per request: the answer the agent got
    stdout,        \* lines the agent wrote and the task has not read
    queued,        \* queued_lines
    awaiting,      \* the agent owes a response to the request of this phase
    outbox,        \* events sent
    inputs

vars == <<phase, registered, alive, turn, paused, control, pending, timers, answers,
          stdout, queued, awaiting, outbox, inputs>>

Init ==
    /\ phase = "spawn"
    /\ registered = TRUE
    /\ alive = FALSE
    /\ turn = FALSE
    /\ paused = FALSE
    /\ control = <<>>
    /\ pending = {}
    /\ timers = {}
    /\ answers = [q \in Requests |-> "none"]
    /\ stdout = <<>>
    /\ queued = <<>>
    /\ awaiting = FALSE
    /\ outbox = <<>>
    /\ inputs = 0

Input == inputs < MaxInputs /\ inputs' = inputs + 1

-----------------------------------------------------------------------------
(***************************************************************************)
(* The agent.  ok and err answer the request the task waits for; thread    *)
(* and turn announce identifiers; an identifier is a request for approval; *)
(* bad is no JSON, too long or nested too deeply; event is any other line. *)
(***************************************************************************)
Lines == {"thread", "turn", "event", "bad"} \cup Requests

\* The agent answers the current request or none.
AgentResponds(line) ==
    /\ alive
    /\ awaiting
    /\ IF line = "err" THEN Input ELSE UNCHANGED inputs
    /\ stdout' = Append(stdout, line)
    /\ awaiting' = FALSE
    /\ UNCHANGED <<phase, registered, alive, turn, paused, control, pending, timers,
                   answers, queued, outbox>>

\* A request for approval has an identifier of its own.
AgentWrites(line) ==
    /\ alive
    /\ Input
    /\ line \in Requests => \A s \in {stdout, queued, outbox} : line \notin Range(s)
    /\ stdout' = Append(stdout, line)
    /\ UNCHANGED <<phase, registered, alive, turn, paused, control, pending, timers,
                   answers, queued, awaiting, outbox>>

AgentExits ==
    /\ alive
    /\ Input
    /\ alive' = FALSE
    /\ UNCHANGED <<phase, registered, turn, paused, control, pending, timers, answers,
                   stdout, queued, awaiting, outbox>>

-----------------------------------------------------------------------------
(***************************************************************************)
(* The task: from start to the loop.                                       *)
(***************************************************************************)
\* A handshake that fails is reported, the child is shut down and the run is
\* taken off the map before anything else is tried.
Fails ==
    /\ phase' = "closing"
    /\ outbox' = Append(outbox, "risky")

Spawn(done) ==
    /\ phase = "spawn"
    /\ IF done
       THEN phase' = "initialize" /\ alive' = TRUE /\ awaiting' = TRUE /\ UNCHANGED <<outbox, inputs>>
       ELSE Input /\ Fails /\ UNCHANGED <<alive, awaiting>>
    /\ UNCHANGED <<registered, turn, paused, control, pending, timers, answers, stdout, queued>>

\* The phases in which request() waits for a response.
Waiting == phase \in {"initialize", "thread", "turn", "interrupt"}

\* Lines that are not a response to the current request.
Notification(line) == line \notin {"ok", "err", "late", "bad", "torn"}

Unreadable(line) == line \in {"bad", "torn"}

\* request() keeps a line for the loop; when too many wait it fails instead.
QueueLine ==
    /\ Waiting
    /\ stdout # <<>>
    /\ Notification(Head(stdout))
    /\ Len(queued) < QueueLimit
    /\ queued' = Append(queued, Head(stdout))
    /\ stdout' = Tail(stdout)
    /\ UNCHANGED <<phase, registered, alive, turn, paused, control, pending, timers,
                   answers, awaiting, outbox, inputs>>

\* A frame the agent has begun to write and the task has begun to read.
Partial == Len(stdout) = 1 /\ Head(stdout) # "torn"

\* The response to a request that is given up is late.
Late(lines) ==
    [i \in 1 .. Len(lines) |-> IF lines[i] \in {"ok", "err"} THEN "late" ELSE lines[i]]

\* Ways for request() to return an error: a child that is gone, an error response, a
\* line that is no JSON, a full queue, and no line for five seconds or the end of the
\* output.  A timeout drops the read, perhaps in the middle of a frame.
RequestFails ==
    \/ /\ stdout # <<>>
       /\ \/ Head(stdout) = "err" \/ Unreadable(Head(stdout))
          \/ Notification(Head(stdout)) /\ Len(queued) >= QueueLimit
       /\ stdout' = Late(Tail(stdout))
       /\ UNCHANGED inputs
    \/ /\ stdout = <<>> \/ ~alive
       /\ stdout' = Late(stdout)
       /\ UNCHANGED inputs
    \/ Partial /\ stdout' = <<"torn">> /\ Input

\* A response with an older identifier is put aside wherever it is read.
PutAside ==
    /\ Waiting \/ (phase = "loop" /\ control = <<>> /\ queued = <<>>)
    /\ stdout # <<>>
    /\ Head(stdout) = "late"
    /\ stdout' = Tail(stdout)
    /\ UNCHANGED <<phase, registered, alive, turn, paused, control, pending, timers,
                   answers, queued, awaiting, outbox, inputs>>

HandshakeFails ==
    /\ phase \in {"initialize", "thread", "turn"}
    /\ RequestFails
    /\ Fails
    /\ awaiting' = FALSE
    /\ UNCHANGED <<registered, alive, turn, paused, control, pending, timers, answers, queued>>

Accepted ==
    /\ stdout # <<>>
    /\ Head(stdout) = "ok"
    /\ stdout' = Tail(stdout)

Initialized ==
    /\ phase = "initialize"
    /\ Accepted
    /\ phase' = "thread"
    /\ awaiting' = TRUE
    /\ UNCHANGED <<registered, alive, turn, paused, control, pending, timers, answers,
                   queued, outbox, inputs>>

\* The response names the thread, or its announcement is awaited.
ThreadStarted(named) ==
    /\ phase = "thread"
    /\ Accepted
    /\ phase' = IF named THEN "turn" ELSE "announce"
    /\ awaiting' = named
    /\ IF named THEN UNCHANGED inputs ELSE Input
    /\ UNCHANGED <<registered, alive, turn, paused, control, pending, timers, answers,
                   queued, outbox>>

\* The lines before the announcement are deferred and put back in their order.
Announced(lines) ==
    {i \in DOMAIN lines : lines[i] = "thread" /\ \A j \in 1 .. i : ~Unreadable(lines[j])}

ThreadAnnounced ==
    LET lines == queued \o stdout IN
    /\ phase = "announce"
    /\ \E k \in Announced(lines) :
          /\ \A i \in Announced(lines) : k <= i
          /\ queued' = SubSeq(lines, 1, k - 1)
          /\ stdout' = SubSeq(lines, k + 1, Len(lines))
    /\ phase' = "turn"
    /\ awaiting' = TRUE
    /\ UNCHANGED <<registered, alive, turn, paused, control, pending, timers, answers,
                   outbox, inputs>>

\* A line that cannot be read is reported and ends the wait.
ThreadUnreadable ==
    LET lines == queued \o stdout IN
    /\ phase = "announce"
    /\ Announced(lines) = {}
    /\ \E i \in DOMAIN lines : Unreadable(lines[i])
    /\ phase' = "missing"
    /\ outbox' = Append(outbox, "risky")
    /\ UNCHANGED <<registered, alive, turn, paused, control, pending, timers, answers,
                   stdout, queued, awaiting, inputs>>

\* So do the end of the output and five seconds without a line.
ThreadMissing ==
    LET lines == queued \o stdout IN
    /\ \/ phase = "missing"
       \/ /\ phase = "announce"
          /\ Announced(lines) = {}
          /\ \A i \in DOMAIN lines : ~Unreadable(lines[i])
    /\ Fails
    /\ UNCHANGED <<registered, alive, turn, paused, control, pending, timers, answers,
                   stdout, queued, awaiting, inputs>>

\* The response names the turn, or the loop learns it later.
TurnStarted(named) ==
    /\ phase = "turn"
    /\ Accepted
    /\ phase' = "loop"
    /\ turn' = named
    /\ IF named THEN UNCHANGED inputs ELSE Input
    /\ outbox' = Append(outbox, "started")
    /\ UNCHANGED <<registered, alive, paused, control, pending, timers, answers, queued,
                   awaiting>>

-----------------------------------------------------------------------------
(***************************************************************************)
(* The loop.                                                               *)
(***************************************************************************)
Taken == phase = "loop" /\ control # <<>> /\ control' = Tail(control)

\* A pause before the turn is known is reported; a second pause is ignored.
TakePause ==
    /\ Taken
    /\ Head(control) = "pause"
    /\ phase' = IF ~paused /\ turn THEN "interrupt" ELSE "loop"
    /\ awaiting' = (~paused /\ turn)
    /\ outbox' = IF ~paused /\ ~turn THEN Append(outbox, "risky") ELSE outbox
    /\ UNCHANGED <<registered, alive, turn, paused, pending, timers, answers, stdout,
                   queued, inputs>>

Interrupted ==
    /\ phase = "interrupt"
    /\ Accepted
    /\ phase' = "loop"
    /\ paused' = TRUE
    /\ outbox' = Append(outbox, "paused")
    /\ UNCHANGED <<registered, alive, turn, control, pending, timers, answers, queued,
                   awaiting, inputs>>

\* Mutant: an interrupt that failed is not reported.
UnreportedEvents == outbox

EventsOfRefusal == Append(outbox, "risky")

InterruptFails ==
    /\ phase = "interrupt"
    /\ RequestFails
    /\ phase' = "loop"
    /\ awaiting' = FALSE
    /\ outbox' = EventsOfRefusal
    /\ UNCHANGED <<registered, alive, turn, paused, control, pending, timers, answers, queued>>

\* Mutant: the entry is looked up and stays.
PendingKept(q) == pending

PendingWithout(q) == pending \ {q}

\* Only a request that is pending is answered; an answer that cannot be written
\* is reported.
TakeResponse ==
    /\ Taken
    /\ Head(control) \in Requests \X {"accept", "decline"}
    /\ LET q == Head(control)[1]
           written == q \in pending /\ alive IN
       /\ pending' = PendingWithout(q)
       /\ answers' = IF written THEN [answers EXCEPT ![q] = Head(control)[2]] ELSE answers
       /\ outbox' = IF q \in pending /\ ~alive THEN Append(outbox, "risky") ELSE outbox
    /\ UNCHANGED <<phase, registered, alive, turn, paused, timers, stdout, queued,
                   awaiting, inputs>>

TakeTerminate ==
    /\ Taken
    /\ Head(control) = "terminate"
    /\ phase' = "closing"
    /\ UNCHANGED <<registered, alive, turn, paused, pending, timers, answers, stdout,
                   queued, awaiting, outbox, inputs>>

\* A tick or a control message drops a read that has consumed part of a frame.
Tear ==
    /\ phase = "loop"
    /\ queued = <<>>
    /\ Partial
    /\ Input
    /\ stdout' = <<"torn">>
    /\ UNCHANGED <<phase, registered, alive, turn, paused, control, pending, timers,
                   answers, queued, awaiting, outbox>>

\* The event a line is normalised to.
Normalized(line) ==
    CASE line \in {"thread", "turn"} -> "started"
      [] Unreadable(line) -> "risky"
      [] OTHER -> line

\* Mutant: no timer is started.
TimersUnset(q) == timers

TimersWith(q) == timers \cup {q}

\* biased: lines are read when no control message waits.
TakeLine ==
    LET line == IF queued # <<>> THEN Head(queued) ELSE Head(stdout) IN
    /\ phase = "loop"
    /\ control = <<>>
    /\ queued # <<>> \/ stdout # <<>>
    /\ line # "late"
    /\ queued' = IF queued # <<>> THEN Tail(queued) ELSE queued
    /\ stdout' = IF queued # <<>> THEN stdout ELSE Tail(stdout)
    /\ phase' = IF Unreadable(line) THEN "closing" ELSE "loop"
    /\ turn' = (turn \/ line = "turn")
    /\ pending' = IF line \in Requests THEN pending \cup {line} ELSE pending
    /\ timers' = IF line \in Requests THEN TimersWith(line) ELSE timers
    /\ outbox' = Append(outbox, Normalized(line))
    /\ UNCHANGED <<registered, alive, paused, control, answers, awaiting, inputs>>

EndOfOutput ==
    /\ phase = "loop"
    /\ control = <<>>
    /\ queued = <<>>
    /\ stdout = <<>>
    /\ ~alive
    /\ Fails
    /\ UNCHANGED <<registered, alive, turn, paused, control, pending, timers, answers,
                   stdout, queued, awaiting, inputs>>

\* Mutant: the child is left to itself.
LeftAlive == alive

Killed == FALSE

\* shutdown: the job object ends the child with everything it started.
Shutdown ==
    /\ phase = "closing"
    /\ phase' = "closed"
    /\ alive' = Killed
    /\ stdout' = <<>>
    /\ queued' = <<>>
    /\ UNCHANGED <<registered, turn, paused, control, pending, timers, answers, awaiting,
                   outbox, inputs>>

\* The run is taken off the map and the control channel is closed.
Remove ==
    /\ phase = "closed"
    /\ phase' = "over"
    /\ registered' = FALSE
    /\ control' = <<>>
    /\ UNCHANGED <<alive, turn, paused, pending, timers, answers, stdout, queued,
                   awaiting, outbox, inputs>>

Task ==
    \/ Spawn(TRUE)
    \/ QueueLine \/ PutAside
    \/ HandshakeFails \/ InterruptFails
    \/ Initialized \/ ThreadAnnounced \/ ThreadUnreadable \/ ThreadMissing
    \/ \E named \in BOOLEAN : ThreadStarted(named) \/ TurnStarted(named)
    \/ TakePause \/ Interrupted \/ TakeResponse \/ TakeTerminate
    \/ TakeLine \/ EndOfOutput \/ Shutdown \/ Remove

-----------------------------------------------------------------------------
(***************************************************************************)
(* The mission service and the timers.                                     *)
(***************************************************************************)
\* request_safe_pause, terminate_owned_tree and respond_to_server_request.
SendControl(message) ==
    /\ registered
    /\ phase # "over"
    /\ Input
    /\ control' = Append(control, message)
    /\ UNCHANGED <<phase, registered, alive, turn, paused, pending, timers, answers,
                   stdout, queued, awaiting, outbox>>

\* After 30 seconds the request is declined; a timer that outlives the run reports
\* that it cannot.
TimerFires(q) ==
    /\ q \in timers
    /\ timers' = timers \ {q}
    /\ IF phase # "over"
       THEN control' = Append(control, <<q, "decline">>) /\ UNCHANGED outbox
       ELSE outbox' = Append(outbox, "risky") /\ UNCHANGED control
    /\ UNCHANGED <<phase, registered, alive, turn, paused, pending, answers, stdout,
                   queued, awaiting, inputs>>

Next ==
    \/ Task
    \/ Spawn(FALSE)
    \/ Tear
    \/ AgentResponds("ok") \/ AgentResponds("err")
    \/ \E line \in Lines : AgentWrites(line)
    \/ AgentExits
    \/ \E message \in {"pause", "terminate"} \cup (Requests \X {"accept", "decline"}) :
          SendControl(message)
    \/ \E q \in Requests : TimerFires(q)

\* The task and the timers run on the runtime of the supervisor.  The agent and the
\* mission service owe nothing: a response that never comes times out.
Fairness ==
    /\ WF_vars(Task)
    /\ \A q \in Requests : WF_vars(TimerFires(q))

Spec == Init /\ [][Next]_vars /\ Fairness
-----------------------------------------------------------------------------
(***************************************************************************)
(* Properties.                                                             *)
(***************************************************************************)
Contract == INSTANCE AgentRun WITH on <- registered

\* The Codex adapter keeps the contract of an agent run: through handshakes that
\* fail half way, torn frames, pauses and timers it sends nothing but a timer's
\* report after the run is off the map, answers no request twice, and none that it
\* has not passed on.
KeepsContract == Contract!Spec

\* A request for approval does not wait for ever: the user, or else the timer,
\* answers it, or the run is over.
RequestIsAnswered ==
    \A q \in Requests : (q \in pending) ~> (answers[q] # "none" \/ phase = "over")

\* terminate_owned_tree reaches the task wherever it is, in a handshake or waiting
\* for an interrupt, and ends the run and its process.
TerminateEndsRun ==
    ("terminate" \in Range(control)) ~> (phase = "over" /\ ~alive)

\* What tells the service how a pause went, or that the run is in trouble.
Reports == Len(SelectSeq(outbox, LAMBDA e : e \in {"paused", "risky"}))

\* A safe pause is not lost: the agent is interrupted, or the service is told of a
\* failure by one more event than it had when the pause was asked for, or the run is
\* over.
PauseIsReported ==
    \A n \in 0 .. MaxInputs :
        ("pause" \in Range(control) /\ Reports = n) ~> (paused \/ Reports > n \/ phase = "over")

\* The loop gives a run up because of a line only when the agent wrote a bad one.
GivesUpOnBadLinesOnly ==
    [][phase = "loop" /\ phase' = "closing" /\ control' = control /\ alive
           => "bad" \in Range(queued \o stdout)]_vars
=============================================================================
