--------------------------- MODULE MissionService ---------------------------
(***************************************************************************)
(* The mission service (mission_service.rs) for one mission: the commands  *)
(* of the UI, the agent runs they launch, the task that consumes the       *)
(* events of each run, and the watchdog that notices a lost UI.            *)
(*                                                                         *)
(* Commands arrive over one pipe and are dispatched one at a time, but     *)
(* each is cut at its awaits and between its lock regions, where consumers *)
(* and the watchdog run.  The mission actor is reduced to what the service *)
(* looks at; MissionActor models it in full.  An adapter is reduced to its *)
(* run registry and the control channel of each run; CodexRun models it.   *)
(***************************************************************************)
EXTENDS Integers, Sequences, FiniteSets

CONSTANTS
    MaxRuns,       \* bound: runs launched
    MaxInputs      \* bound: commands, events and exits of agents, timeouts of the
                   \* UI, failed appends, refused interrupts and crashes together

ASSUME RunsAssumption == MaxRuns \in Nat

Runs == 1 .. MaxRuns

NoRun == 0

\* started: agent_run_started.  risky: an event that requires a safe pause.
\* approval: a request for approval, risky as well.  usage: a token count.
\* ended: agent_run_completed or agent_run_aborted.  paused: the event an
\* adapter emits once it has interrupted its agent.  work: any other.
AgentEvents == {"started", "work", "usage", "risky", "approval", "ended", "paused"}

Risky(e) == e \in {"risky", "approval"}

VARIABLES
    mission,       \* the actor and the mission's rows in the ledger
    runs,          \* MissionService.runs: the registered run
    launched,      \* number of runs the adapters have started
    agents,        \* per run: the adapter's task
    consumers,     \* per run: the event consumer
    pending,       \* pending_server_requests: the run that waits for an answer
    approval,      \* the actor's approval: its state and the run that asked
    cmd,           \* the command in flight
    watchdog,      \* "idle", "expired" (timeout seen), "tell" (actor paused)
    ui_expired,    \* last_ui_seen is more than two seconds old
    inputs         \* inputs of the environment so far

vars == <<mission, runs, launched, agents, consumers, pending, approval, cmd,
          watchdog, ui_expired, inputs>>

\* An approval is keyed by the JSON-RPC identifier of the agent's request.  Each
\* agent counts from the start, so all runs share the one key of this model.
NoApproval == [state |-> "None", run |-> NoRun]

NoCommand == [op |-> "none", at |-> "none", run |-> NoRun]

NewMission ==
    [exists |-> TRUE, stored |-> TRUE, pause |-> "Running", log_pause |-> "Running",
     recovery |-> FALSE, ui |-> TRUE, package |-> FALSE]

NoAgent == [phase |-> "none", told |-> "no", control |-> {}, asked |-> FALSE,
            timer |-> FALSE, answer |-> "none", outbox |-> <<>>]

\* A run off its adapter's registry; its events wait for the consumer, and the
\* timer of its request goes on.
Over(outbox, timer) ==
    [NoAgent EXCEPT !.phase = "over", !.outbox = outbox, !.timer = timer]

NoConsumer == [at |-> "none", stop |-> FALSE, over |-> FALSE]

Input == inputs < MaxInputs /\ inputs' = inputs + 1

Init ==
    /\ mission = NewMission
    /\ runs = NoRun
    /\ launched = 0
    /\ agents = [r \in Runs |-> NoAgent]
    /\ consumers = [r \in Runs |-> NoConsumer]
    /\ pending = NoRun
    /\ approval = NoApproval
    /\ cmd = NoCommand
    /\ watchdog = "idle"
    /\ ui_expired = FALSE
    /\ inputs = 0

-----------------------------------------------------------------------------
(***************************************************************************)
(* The mission actor, as operators on the record mission.  A call makes    *)
(* some n appends; ok[i] says whether the i-th one succeeds.  An append  *)
(* to a mission whose rows were deleted always fails, because the ledger   *)
(* expects sequence 1.                                                     *)
(***************************************************************************)
AllDone(n) == [i \in 1 .. n |-> TRUE]

Appends(n) == IF inputs < MaxInputs THEN [1 .. n -> BOOLEAN] ELSE {AllDone(n)}

InputsAfter(ok) == IF \A i \in DOMAIN ok : ok[i] THEN inputs ELSE inputs + 1

\* What a replay takes from an event; the recovery package the user holds no
\* longer names the last sequence.
Recorded(m, kind) ==
    [m EXCEPT !.package = FALSE,
              !.log_pause = CASE kind \in {"pause_requested", "paused"} -> "PauseRequested"
                              [] kind = "pause_timed_out" -> "PauseTimedOut"
                              [] kind = "force_terminated" -> "Terminated"
                              [] OTHER -> @,
              !.recovery = CASE kind = "started" -> TRUE
                             [] kind \in {"ended", "recovery", "force_terminated"} -> FALSE
                             [] OTHER -> @]

Record(m, kind, ok) == IF ok /\ m.stored THEN Recorded(m, kind) ELSE m

\* request_safe_pause: the controller changes before the append.
Pausable(m, ok) == m.pause = "Running" /\ ok /\ m.stored

RequestPause(m, ok) ==
    IF m.pause = "Running"
    THEN Record([m EXCEPT !.pause = "PauseRequested"], "pause_requested", ok)
    ELSE m

\* request_force_termination; the second append is the token's event.
Forceable(m, ok) ==
    \/ m.pause = "ForceTerminationAvailable"
    \/ /\ m.pause \in {"PauseRequested", "PauseTimedOut"} \/ Pausable(m, ok[1])
       /\ ok[2] /\ m.stored

RequestForce(m, ok) ==
    LET p == RequestPause(m, ok[1]) IN
    IF \/ p.pause \notin {"PauseRequested", "PauseTimedOut"}
       \/ m.pause = "Running" /\ ~Pausable(m, ok[1])
    THEN p
    ELSE Record([p EXCEPT !.pause = "ForceTerminationAvailable"], "pause_timed_out", ok[2])

-----------------------------------------------------------------------------
(***************************************************************************)
(* Adapters.                                                               *)
(***************************************************************************)
Alive(r) == agents[r].phase = "running"

\* The adapter knows the run: the control message is queued.
Send(r, message) ==
    agents' = IF Alive(r) THEN [agents EXCEPT ![r].control = @ \cup {message}] ELSE agents

\* A command looks up the adapter by the provider registered for the mission.
\* Once the run is deregistered the lookup falls back to the default provider,
\* whose adapter may not know the run.
Reaches(r, default) == Alive(r) /\ (runs = r \/ default)

\* The consumer has taken its last event: later ones are dropped.
Gone(r) == consumers[r].at \in {"leave", "deregister", "done"}

Outbox(r, e) == IF Gone(r) THEN <<>> ELSE Append(agents[r].outbox, e)

\* A request for approval starts its timer.
Emit(r, e) ==
    /\ Alive(r)
    /\ Input
    /\ e = "approval" => ~agents[r].asked
    /\ agents' = [agents EXCEPT ![r].outbox = Outbox(r, e),
                                ![r].asked = @ \/ e = "approval",
                                ![r].timer = @ \/ e = "approval"]
    /\ UNCHANGED <<mission, runs, launched, consumers, pending, approval, cmd,
                   watchdog, ui_expired>>

\* The agent's process exits; the adapter reports it as a risky event.
AgentExits(r) ==
    /\ Alive(r)
    /\ Input
    /\ agents' = [agents EXCEPT ![r] = Over(Outbox(r, "risky"), agents[r].timer)]
    /\ UNCHANGED <<mission, runs, launched, consumers, pending, approval, cmd,
                   watchdog, ui_expired>>

\* The loop of the run takes a control message.  A second pause is ignored.
\* A provider that refuses the interrupt is reported as a risky event.
TakePause(r, refused) ==
    /\ Alive(r)
    /\ "pause" \in agents[r].control
    /\ refused => inputs < MaxInputs /\ agents[r].told # "interrupted"
    /\ agents' =
         IF agents[r].told = "interrupted"
         THEN [agents EXCEPT ![r].control = @ \ {"pause"}]
         ELSE [agents EXCEPT ![r].control = @ \ {"pause"},
                             ![r].told = IF refused THEN "refused" ELSE "interrupted",
                             ![r].outbox = Outbox(r, IF refused THEN "risky" ELSE "paused")]
    /\ inputs' = IF refused THEN inputs + 1 ELSE inputs
    /\ UNCHANGED <<mission, runs, launched, consumers, pending, approval, cmd,
                   watchdog, ui_expired>>

TakeTerminate(r) ==
    /\ Alive(r)
    /\ "terminate" \in agents[r].control
    /\ agents' = [agents EXCEPT ![r] = Over(agents[r].outbox, agents[r].timer)]
    /\ UNCHANGED <<mission, runs, launched, consumers, pending, approval, cmd,
                   watchdog, ui_expired, inputs>>

\* The adapter passes on the first answer to a request.
Answered(r, answer) == IF agents[r].answer = "none" THEN answer ELSE agents[r].answer

\* A request times out: it is declined.  The timer of a run that is over reports
\* that it cannot do so, as a risky event.
TimerFires(r) ==
    /\ agents[r].timer
    /\ agents' = IF Alive(r)
                 THEN [agents EXCEPT ![r].timer = FALSE, ![r].answer = Answered(r, "decline")]
                 ELSE [agents EXCEPT ![r].timer = FALSE, ![r].outbox = Outbox(r, "risky")]
    /\ UNCHANGED <<mission, runs, launched, consumers, pending, approval, cmd,
                   watchdog, ui_expired, inputs>>

TakeControl(r) ==
    \/ TakeTerminate(r)
    \/ \E refused \in BOOLEAN : TakePause(r, refused)
    \/ TimerFires(r)

-----------------------------------------------------------------------------
(***************************************************************************)
(* spawn_event_consumer.  The consumer of a run takes its events in order: *)
(* the budget sees a token count, the actor records the event and pauses   *)
(* on a risky one, then the adapter is told to pause.  It gives the run up *)
(* when an append or the pause failed, or the mission is gone.             *)
(***************************************************************************)
Consuming(r, at) == consumers[r].at = at

Goto(r, at) == [consumers EXCEPT ![r].at = at]

Received(r) == agents[r].outbox # <<>>

\* apply_budget_signals: an event per signal, then the pause.
BudgetSignals(over, ok) ==
    LET m == Record(mission, "budget", ok[1]) IN
    IF over /\ ok[1] /\ m.stored THEN RequestPause(m, ok[2]) ELSE m

\* It fails when an append fails, or when the mission cannot pause any more.
BudgetFails(over, ok) ==
    \/ ~(ok[1] /\ mission.stored)
    \/ over /\ ~Pausable(mission, ok[2])

Budget(r, signals, ok) ==
    /\ Consuming(r, "receive")
    /\ Received(r)
    /\ Head(agents[r].outbox) = "usage"
    /\ LET apply == signals # "none" /\ mission.exists
           over == signals = "pause" IN
       /\ mission' = IF apply THEN BudgetSignals(over, ok) ELSE mission
       /\ inputs' = IF apply THEN InputsAfter(ok) ELSE inputs
       /\ consumers' = [consumers EXCEPT ![r].at = "record",
                            ![r].over = apply /\ (over \/ BudgetFails(over, ok))]
    /\ UNCHANGED <<runs, launched, agents, pending, approval, cmd, watchdog,
                   ui_expired>>

\* The request is entered for the answer before the actor records it.
EnterRequest(r) ==
    /\ Consuming(r, "receive")
    /\ Received(r)
    /\ Head(agents[r].outbox) = "approval"
    /\ pending' = r
    /\ consumers' = Goto(r, "record")
    /\ UNCHANGED <<mission, runs, launched, agents, approval, cmd, watchdog,
                   ui_expired, inputs>>

\* record_agent_event failed, or the pause after a risky event did.
Degrades(e, ok) ==
    \/ ~(ok[1] /\ mission.stored)
    \/ Risky(e) /\ ~Pausable(mission, ok[2])

AfterEvent(e, ok) ==
    LET m == Record(mission, e, ok[1]) IN
    IF ~(ok[1] /\ mission.stored) THEN RequestPause(Record(m, "degraded", ok[2]), ok[3])
    ELSE IF ~Risky(e) THEN m
    ELSE IF Pausable(m, ok[2]) THEN RequestPause(m, ok[2])
    ELSE Record(RequestPause(m, ok[2]), "degraded", ok[3])

\* Mutant: a run is given up without a word to its adapter.
OnwardSilently(r, e, stop) ==
    IF stop THEN "leave" ELSE IF Risky(e) \/ consumers[r].over THEN "tell" ELSE "receive"

\* adapter_pause: where the consumer goes after an event.
Onward(r, e, stop) ==
    IF stop \/ Risky(e) \/ consumers[r].over THEN "tell" ELSE "receive"

Consume(r, ok) ==
    LET e == Head(agents[r].outbox)
        stop == ~mission.exists \/ Degrades(e, ok)
    IN
    /\ Received(r)
    /\ Consuming(r, IF e \in {"usage", "approval"} THEN "record" ELSE "receive")
    /\ agents' = [agents EXCEPT ![r].outbox = Tail(@)]
    /\ IF mission.exists
       THEN /\ mission' = AfterEvent(e, ok)
            /\ inputs' = InputsAfter(ok)
            /\ approval' = IF e = "approval" /\ ok[1] /\ mission.stored
                            THEN [state |-> "Pending", run |-> r] ELSE approval
       ELSE UNCHANGED <<mission, inputs, approval>>
    /\ consumers' = [consumers EXCEPT
                        ![r] = [at |-> Onward(r, e, stop), stop |-> stop, over |-> FALSE]]
    /\ UNCHANGED <<runs, launched, pending, cmd, watchdog, ui_expired>>

\* adapter.request_safe_pause of the consumer's own run.
ConsumerTells(r) ==
    /\ Consuming(r, "tell")
    /\ Send(r, "pause")
    /\ consumers' = Goto(r, IF consumers[r].stop \/ ~Alive(r) THEN "leave" ELSE "receive")
    /\ UNCHANGED <<mission, runs, launched, pending, approval, cmd, watchdog,
                   ui_expired, inputs>>

\* The channel is closed once the run is over, its events are taken and its timer
\* has fired: each holds a sender.
ChannelCloses(r) ==
    /\ Consuming(r, "receive")
    /\ ~Received(r)
    /\ ~Alive(r)
    /\ ~agents[r].timer
    /\ consumers' = Goto(r, "leave")
    /\ UNCHANGED <<mission, runs, launched, agents, pending, approval, cmd,
                   watchdog, ui_expired, inputs>>

\* The wall clock goes into the budget.
WallClock(r, signals, ok) ==
    /\ Consuming(r, "leave")
    /\ LET apply == signals # "none" /\ mission.exists IN
       /\ mission' = IF apply THEN BudgetSignals(signals = "pause", ok) ELSE mission
       /\ inputs' = IF apply THEN InputsAfter(ok) ELSE inputs
    /\ consumers' = Goto(r, "deregister")
    /\ UNCHANGED <<runs, launched, agents, pending, approval, cmd, watchdog,
                   ui_expired>>

\* Mutant: the registered run is never removed.
RunsKept(r) == runs

\* Mutant: whatever run is registered is removed.
RunsWithoutAny(r) == NoRun

\* Only the consumer's own run is removed.
RunsWithout(r) == IF runs = r THEN NoRun ELSE runs

Deregister(r) ==
    /\ Consuming(r, "deregister")
    /\ runs' = RunsWithout(r)
    /\ pending' = IF pending = r THEN NoRun ELSE pending
    /\ consumers' = Goto(r, "done")
    /\ agents' = [agents EXCEPT ![r].outbox = <<>>]
    /\ UNCHANGED <<mission, launched, approval, cmd, watchdog, ui_expired,
                   inputs>>

Signals == {"none", "warning", "pause"}

ConsumerStep(r) ==
    \/ Received(r) /\ \E ok \in Appends(3) : Consume(r, ok)
    \/ /\ Consuming(r, "receive") /\ Received(r)
       /\ \E signals \in Signals, ok \in Appends(2) : Budget(r, signals, ok)
    \/ /\ Consuming(r, "leave")
       /\ \E signals \in Signals, ok \in Appends(2) : WallClock(r, signals, ok)
    \/ EnterRequest(r)
    \/ ConsumerTells(r)
    \/ ChannelCloses(r)
    \/ Deregister(r)

-----------------------------------------------------------------------------
(***************************************************************************)
(* The UI and the watchdog.  The watchdog looks at the clock and at the    *)
(* number of commands in flight, then pauses the mission, then tells the   *)
(* adapter of the registered run; a command may arrive in between.         *)
(***************************************************************************)
\* A ping of the UI, or the heartbeat of a command in flight; it changes nothing
\* when the UI has been seen.
TouchUi ==
    /\ ui_expired \/ (mission.exists /\ ~mission.ui)
    /\ ui_expired' = FALSE
    /\ mission' = [mission EXCEPT !.ui = mission.exists]
    /\ UNCHANGED <<runs, launched, agents, consumers, pending, approval, cmd,
                   watchdog, inputs>>

UiExpires ==
    /\ ~ui_expired
    /\ Input
    /\ ui_expired' = TRUE
    /\ UNCHANGED <<mission, runs, launched, agents, consumers, pending, approval,
                   cmd, watchdog>>

WatchdogTick ==
    /\ watchdog = "idle"
    /\ ui_expired
    /\ cmd.op = "none"
    /\ watchdog' = "expired"
    /\ UNCHANGED <<mission, runs, launched, agents, consumers, pending, approval,
                   cmd, ui_expired, inputs>>

\* Mutant: only a mission that still has its UI is paused.
UiDisconnectedIfSeen(m, ok) ==
    LET d == [m EXCEPT !.ui = FALSE] IN IF m.ui THEN RequestPause(d, ok) ELSE d

\* set_ui_connected(false)
UiDisconnected(m, ok) == RequestPause([m EXCEPT !.ui = FALSE], ok)

PauseForUiDisconnect(ok) ==
    /\ watchdog = "expired"
    /\ mission' = IF mission.exists THEN UiDisconnected(mission, ok[1]) ELSE mission
    /\ inputs' = IF mission.exists /\ mission.pause = "Running" THEN InputsAfter(ok)
                 ELSE inputs
    /\ watchdog' = IF mission.exists /\ mission.ui THEN "tell" ELSE "idle"
    /\ UNCHANGED <<runs, launched, agents, consumers, pending, approval, cmd,
                   ui_expired>>

WatchdogTells ==
    /\ watchdog = "tell"
    /\ IF runs = NoRun THEN UNCHANGED agents ELSE Send(runs, "pause")
    /\ watchdog' = "idle"
    /\ UNCHANGED <<mission, runs, launched, consumers, pending, approval, cmd,
                   ui_expired, inputs>>

Watchdog ==
    \/ WatchdogTick
    \/ \E ok \in Appends(1) : PauseForUiDisconnect(ok)
    \/ WatchdogTells

-----------------------------------------------------------------------------
(***************************************************************************)
(* Commands.  Each lock region and each await is a step; cmd.at names the  *)
(* next one and cmd.run the run that was read at the start.                *)
(***************************************************************************)
At(op, at) == cmd.op = op /\ cmd.at = at

Step(op, at) == cmd' = [cmd EXCEPT !.op = op, !.at = at]

Return == cmd' = NoCommand

\* The first step of a command; until it is taken the command can be any.
Begins(op) == cmd.at = "begin" /\ cmd.op \in {"any", op}

\* serve_connection touches the UI, then dispatches.
Arrive ==
    /\ cmd.op = "none"
    /\ Input
    /\ cmd' = [op |-> "any", at |-> "begin", run |-> NoRun]
    /\ ui_expired' = FALSE
    /\ mission' = [mission EXCEPT !.ui = mission.exists]
    /\ UNCHANGED <<runs, launched, agents, consumers, pending, approval, watchdog>>

\* Steps of a command that change neither runs nor agents.
InActor ==
    UNCHANGED <<runs, launched, agents, consumers, pending, watchdog, ui_expired>>

InRegistry ==
    UNCHANGED <<mission, launched, consumers, approval, watchdog, ui_expired,
                inputs>>

\* An event is appended and the command goes on, or ends with the error.
RecordThen(op, kind, at, ok) ==
    /\ mission' = IF mission.exists THEN Record(mission, kind, ok[1]) ELSE mission
    /\ inputs' = IF mission.exists THEN InputsAfter(ok) ELSE inputs
    /\ IF mission.exists /\ mission.stored /\ ok[1] /\ at # "return" THEN Step(op, at) ELSE Return
    /\ UNCHANGED approval
    /\ InActor

\* update_mission_contract and review_memory.
RecordEvent(ok) == Begins("record") /\ RecordThen("record", "event", "return", ok)

LaunchRoute(ok) ==
    Begins("launch_route") /\ RecordThen("launch_route", "exploration_started", "check", ok)

\* Mutant: a run whose agent is over is taken for gone.
OccupiedByAgent == runs # NoRun /\ Alive(runs)

\* active_run: a run stays registered until its consumer has taken its last event.
Occupied == runs # NoRun

CheckNoRun ==
    /\ At("launch_route", "check")
    /\ IF Occupied THEN Return ELSE Step(cmd.op, "launch")
    /\ UNCHANGED <<runs, agents, pending>>
    /\ InRegistry

\* A registered run is asked to pause first and the handoff is refused.
HandoffProvider(ok) ==
    /\ Begins("handoff_provider")
    /\ \/ Return /\ UNCHANGED <<mission, inputs, approval>> /\ InActor
       \/ /\ Occupied /\ mission.exists
          /\ cmd' = [op |-> "request_safe_pause", at |-> "begin", run |-> NoRun]
          /\ UNCHANGED <<mission, inputs, approval>> /\ InActor
       \/ ~Occupied /\ RecordThen("handoff_provider", "handoff_requested", "launch", ok)

\* The package verifies: it was built at the current sequence.
VerifyRecovery(op) ==
    /\ Begins(op)
    /\ IF mission.exists /\ mission.recovery /\ mission.package THEN Step(op, "resolve") ELSE Return
    /\ UNCHANGED <<runs, agents, pending>>
    /\ InRegistry

\* The decision is recorded before the agent is launched again.
ResolveRecovery(ok) ==
    /\ cmd.op \in {"continue", "abandon"} /\ cmd.at = "resolve"
    /\ IF mission.exists /\ mission.recovery
       THEN RecordThen(cmd.op, "recovery", IF cmd.op = "continue" THEN "launch" ELSE "return", ok)
       ELSE Return /\ UNCHANGED <<mission, inputs, approval>> /\ InActor

\* launch_agent refuses a mission that requires recovery.
MayLaunch == ~(mission.exists /\ mission.recovery)

LaunchFailed == IF cmd.op = "launch_route" THEN Step(cmd.op, "failed") ELSE Return

LaunchAgent ==
    /\ cmd.at = "launch"
    /\ IF MayLaunch THEN Step(cmd.op, "start") ELSE LaunchFailed
    /\ UNCHANGED <<runs, agents, pending>>
    /\ InRegistry

\* The probe, the loadout or adapter.start fails.
StartFails ==
    /\ cmd.at = "start"
    /\ LaunchFailed
    /\ UNCHANGED <<runs, agents, pending>>
    /\ InRegistry

StartAgent ==
    /\ cmd.at = "start"
    /\ launched < MaxRuns
    /\ launched' = launched + 1
    /\ agents' = [agents EXCEPT ![launched + 1] =
                     [NoAgent EXCEPT !.phase = "running", !.outbox = <<"started">>]]
    /\ cmd' = [cmd EXCEPT !.at = "register", !.run = launched + 1]
    /\ UNCHANGED <<mission, runs, consumers, pending, approval, watchdog, ui_expired,
                   inputs>>

RegisterRun ==
    /\ cmd.at = "register"
    /\ runs' = cmd.run
    /\ consumers' = Goto(cmd.run, "receive")
    /\ Return
    /\ UNCHANGED <<mission, launched, agents, pending, approval, watchdog, ui_expired,
                   inputs>>

RecordStartFailed(ok) == cmd.at = "failed" /\ RecordThen(cmd.op, "start_failed", "return", ok)

\* The run is read before the actor is asked.
ReadActiveRun(op) ==
    /\ Begins(op)
    /\ cmd' = [op |-> op, at |-> "actor", run |-> runs]
    /\ UNCHANGED <<runs, agents, pending>>
    /\ InRegistry

TellIfRun == IF cmd.run = NoRun THEN Return ELSE Step(cmd.op, "tell")

RequestSafePause(ok) ==
    /\ At("request_safe_pause", "actor")
    /\ mission' = IF mission.exists THEN RequestPause(mission, ok[1]) ELSE mission
    /\ inputs' = IF mission.exists /\ mission.pause = "Running" THEN InputsAfter(ok) ELSE inputs
    /\ IF mission.exists /\ Pausable(mission, ok[1]) THEN TellIfRun ELSE Return
    /\ UNCHANGED approval
    /\ InActor

RequestForceTermination(ok) ==
    /\ At("request_force_termination", "actor")
    /\ mission' = IF mission.exists THEN RequestForce(mission, ok) ELSE mission
    /\ inputs' = IF mission.exists THEN InputsAfter(ok) ELSE inputs
    /\ IF mission.exists /\ Forceable(mission, ok) THEN TellIfRun ELSE Return
    /\ UNCHANGED approval
    /\ InActor

\* adapter.request_safe_pause of the run that was read.
TellAdapter(default) ==
    /\ cmd.op \in {"request_safe_pause", "request_force_termination"} /\ cmd.at = "tell"
    /\ IF Reaches(cmd.run, default) THEN Send(cmd.run, "pause") ELSE UNCHANGED agents
    /\ Return
    /\ UNCHANGED <<runs, pending>>
    /\ InRegistry

CheckForceToken ==
    /\ At("force_terminate", "actor")
    /\ IF mission.exists /\ mission.pause = "ForceTerminationAvailable"
       THEN Step(cmd.op, IF cmd.run = NoRun THEN "mark" ELSE "kill") ELSE Return
    /\ UNCHANGED <<runs, agents, pending>>
    /\ InRegistry

\* Mutant: the tree is not terminated.
KillMessageOfPause == "pause"

KillMessage == "terminate"

\* An adapter that does not know the run ends the command with an error.
TerminateOwnedTree(default) ==
    /\ At("force_terminate", "kill")
    /\ IF Reaches(cmd.run, default) THEN Send(cmd.run, KillMessage) /\ Step(cmd.op, "mark")
       ELSE UNCHANGED agents /\ Return
    /\ UNCHANGED <<runs, pending>>
    /\ InRegistry

ForceTerminate(ok) ==
    /\ At("force_terminate", "mark")
    /\ mission' = IF mission.exists /\ mission.pause = "ForceTerminationAvailable"
                  THEN Record([mission EXCEPT !.pause = "Terminated"], "force_terminated", ok[1])
                  ELSE mission
    /\ inputs' = IF mission.exists THEN InputsAfter(ok) ELSE inputs
    /\ Return
    /\ UNCHANGED approval
    /\ InActor

Verdict(op) == CASE op = "approve" -> "Approved"
                 [] op = "deny" -> "Denied"
                 [] OTHER -> "Revoked"

ResolveApproval(op, ok) ==
    /\ Begins(op)
    /\ LET legal == /\ mission.exists
                    /\ approval.state \in
                          IF op = "revoke" THEN {"Pending", "Approved"} ELSE {"Pending"}
           done == legal /\ ok[1] /\ mission.stored IN
       /\ mission' = IF legal THEN Record(mission, "resolved", ok[1]) ELSE mission
       /\ approval' = IF done THEN [approval EXCEPT !.state = Verdict(op)] ELSE approval
       /\ inputs' = IF legal THEN InputsAfter(ok) ELSE inputs
       /\ IF done THEN Step(op, "answer") ELSE Return
    /\ InActor

Answer == IF cmd.op = "approve" THEN "accept" ELSE "decline"

\* pending_server_requests.remove, then adapter.respond_to_server_request.
AnswerAgent ==
    /\ cmd.at = "answer"
    /\ pending' = NoRun
    /\ agents' = IF pending # NoRun /\ Alive(pending)
                 THEN [agents EXCEPT ![pending].answer = Answered(pending, Answer)] ELSE agents
    /\ Return
    /\ UNCHANGED runs
    /\ InRegistry

BuildRecoveryPackage ==
    /\ Begins("build_recovery_package")
    /\ mission' = [mission EXCEPT !.package = mission.exists]
    /\ Return
    /\ UNCHANGED <<inputs, approval>>
    /\ InActor

\* The mission's rows go first; a failed cleanup of its blobs leaves the actor.
DeleteMission ==
    /\ Begins("delete_mission")
    /\ IF runs # NoRun \/ ~mission.stored
       THEN Return /\ UNCHANGED mission
       ELSE mission' = [mission EXCEPT !.stored = FALSE] /\ Step("delete_mission", "forget")
    /\ UNCHANGED <<inputs, approval>>
    /\ InActor

ForgetMission(cleaned) ==
    /\ At("delete_mission", "forget")
    /\ mission' = [mission EXCEPT !.exists = ~cleaned]
    /\ Return
    /\ UNCHANGED <<inputs, approval>>
    /\ InActor

CreateMission ==
    /\ Begins("create_mission")
    /\ mission' = IF mission.exists \/ mission.stored THEN mission ELSE NewMission
    /\ approval' = IF mission.exists \/ mission.stored THEN approval
                    ELSE NoApproval
    /\ Return
    /\ UNCHANGED inputs
    /\ InActor

CommandStep ==
    /\ cmd # NoCommand
    /\ \/ \E ok \in Appends(1) :
             RecordEvent(ok) \/ LaunchRoute(ok) \/ HandoffProvider(ok) \/ ResolveRecovery(ok)
             \/ RecordStartFailed(ok) \/ RequestSafePause(ok) \/ ForceTerminate(ok)
             \/ \E op \in {"approve", "deny", "revoke"} : ResolveApproval(op, ok)
       \/ \E ok \in Appends(2) : RequestForceTermination(ok)
       \/ CheckNoRun \/ LaunchAgent \/ StartFails \/ StartAgent \/ RegisterRun
       \/ CheckForceToken \/ AnswerAgent
       \/ \E op \in {"continue", "abandon"} : VerifyRecovery(op)
       \/ \E op \in {"request_safe_pause", "request_force_termination", "force_terminate"} :
             ReadActiveRun(op)
       \/ \E default \in BOOLEAN : TellAdapter(default) \/ TerminateOwnedTree(default)
       \/ BuildRecoveryPackage \/ DeleteMission \/ CreateMission
       \/ \E cleaned \in BOOLEAN : ForgetMission(cleaned)

-----------------------------------------------------------------------------
\* The process dies: its job objects end every agent, its memory is lost, and
\* restore_existing rebuilds the actor of a mission that is in the ledger.
Restart ==
    /\ Input
    /\ mission' = [mission EXCEPT
                      !.exists = mission.stored,
                      !.pause = mission.log_pause,
                      !.ui = mission.log_pause = "Running" /\ ~mission.recovery]
    /\ runs' = NoRun
    /\ agents' = [r \in Runs |-> IF agents[r].phase = "none" THEN NoAgent
                                 ELSE Over(<<>>, FALSE)]
    /\ consumers' = [r \in Runs |-> IF consumers[r].at = "none" THEN NoConsumer
                                    ELSE [NoConsumer EXCEPT !.at = "done"]]
    /\ pending' = NoRun
    /\ cmd' = NoCommand
    /\ watchdog' = "idle"
    /\ ui_expired' = FALSE
    /\ UNCHANGED <<launched, approval>>

Next ==
    \/ Arrive
    \/ CommandStep
    \/ Watchdog
    \/ TouchUi
    \/ UiExpires
    \/ Restart
    \/ \E r \in Runs :
          \/ ConsumerStep(r)
          \/ TakeControl(r)
          \/ AgentExits(r)
          \/ \E e \in AgentEvents \ {"paused"} : Emit(r, e)

\* The tasks of the service run on the threads of its own runtime: as long as the
\* command in flight, a consumer or the loop of a run can go on, one of them does,
\* and so does the watchdog.  Nothing is assumed of the user, of what the agents
\* do of their own accord, or of crashes.
Task == CommandStep \/ \E r \in Runs : ConsumerStep(r) \/ TakeControl(r)

Fairness == WF_vars(Task) /\ WF_vars(Watchdog)

Spec == Init /\ [][Next]_vars /\ Fairness
-----------------------------------------------------------------------------
(***************************************************************************)
(* Properties.                                                             *)
(***************************************************************************)

\* A run that was launched later than every other and is still consumed.
Current(r) ==
    /\ consumers[r].at \notin {"none", "done"}
    /\ \A q \in Runs : q > r => consumers[q].at = "none"

\* The registered run is the newest run with a live consumer: when a recovery
\* replaces a run, the late end of the old run's consumer removes nothing, and
\* no dead run blocks the next launch_route with ROUTE_ALREADY_RUNNING.
RegistryFollowsConsumer == \A r \in Runs : (runs = r) <=> Current(r)

\* Only a recovery takes the place of a registered run.  launch_route and the handoff
\* look for one long before they register theirs, with consumers, the watchdog and
\* agents that exit in between.
ReplacesNoRun == runs' \notin {runs, NoRun} => runs = NoRun \/ cmd.op = "continue"

LaunchReplacesNoRun == [][ReplacesNoRun]_vars

\* A mission whose UI stays away does not stay in the Running state: the watchdog
\* pauses it, whatever commands, consumers and failed appends come in between.
LostUiPausesMission ==
    (ui_expired /\ mission.exists)
        ~> (~ui_expired \/ ~mission.exists \/ mission.pause # "Running")

\* A run that is over does not stay registered: its consumer drains the channel
\* and takes it off the registry, so the route can be launched again.
EndedRunIsForgotten ==
    LET stale == runs # NoRun /\ agents[runs].phase = "over" IN stale ~> ~stale

\* A consumer that gives its run up leaves no agent behind that was never told to
\* pause: the adapter gets the request and acts on it, or the run is over.
GivenUpRunIsTold ==
    \A r \in Runs :
        (consumers[r].at = "done") ~> (agents[r].phase = "over" \/ agents[r].told # "no")

\* Once force_terminate has had its message taken by the adapter of the run, the
\* run ends, whatever it was doing.
ForceTerminationKills ==
    \A r \in Runs :
        (At("force_terminate", "mark") /\ cmd.run = r) ~> (agents[r].phase = "over")

\* A user's request to pause a run that is registered and alive makes the adapter
\* act on it, or the run ends.
PauseReachesAgent ==
    \A r \in Runs :
        (At("request_safe_pause", "actor") /\ cmd.run = r /\ runs = r)
            ~> (agents[r].phase = "over" \/ agents[r].told # "no")
=============================================================================
