----------------------- MODULE MissionService_registry -----------------------
(***************************************************************************)
(* The registry of runs follows the consumers, and only a recovery takes   *)
(* the place of a registered run, for any number of runs and inputs.       *)
(*                                                                         *)
(* The invariant adds what both rest on: runs are numbered in the order of *)
(* their launch, those not launched yet have neither agent nor consumer,   *)
(* a command about to register a run holds the last one launched, which no *)
(* consumer has, and a launch that is no recovery has found the registry   *)
(* empty, which nobody but the launch itself can change.                   *)
(***************************************************************************)
EXTENDS MissionService, TLAPS

Consumers ==
    [at : {"none", "receive", "record", "tell", "leave", "deregister", "done"},
     stop : BOOLEAN, over : BOOLEAN]

Agents ==
    [phase : {"none", "running", "over"}, told : {"no", "refused", "interrupted"},
     control : SUBSET {"pause", "terminate"}, asked : BOOLEAN, timer : BOOLEAN,
     answer : {"none", "accept", "decline"}, outbox : Seq(AgentEvents)]

Commands ==
    [op : {"none", "any", "record", "launch_route", "handoff_provider", "continue", "abandon",
           "request_safe_pause", "request_force_termination", "force_terminate",
           "approve", "deny", "revoke", "delete_mission"},
     at : {"none", "begin", "check", "launch", "start", "failed", "register", "resolve",
           "actor", "tell", "kill", "mark", "answer", "forget"},
     run : 0 .. MaxRuns]

ServiceType ==
    /\ launched \in 0 .. MaxRuns
    /\ runs \in 0 .. MaxRuns
    /\ pending \in 0 .. MaxRuns
    /\ consumers \in [Runs -> Consumers]
    /\ agents \in [Runs -> Agents]
    /\ cmd \in Commands

Numbered ==
    /\ \A r \in Runs : r > launched => agents[r] = NoAgent /\ consumers[r].at = "none"
    /\ cmd.at = "register" =>
          cmd.run = launched /\ cmd.run \in Runs /\ consumers[cmd.run].at = "none"

\* The command is past its look at the registry, and will register a run.
Launching == cmd.op # "continue" /\ cmd.at \in {"launch", "start", "register"}

LaunchIsFree == Launching => runs = NoRun

RegistryInv == ServiceType /\ Numbered /\ LaunchIsFree /\ RegistryFollowsConsumer

\* What a step does to the command in flight, unless it starts or registers a run.
CommandMoves ==
    /\ cmd' \in Commands
    /\ cmd' = cmd \/ (cmd'.at # "register" /\ (Launching' => runs = NoRun))

-----------------------------------------------------------------------------
\* The mark for no run is no run.
LEMMA RunNumbers ==
    /\ NoRun \in 0 .. MaxRuns /\ NoRun \notin Runs
    /\ \A r \in Runs : r \in 0 .. MaxRuns /\ r \in Int /\ r # NoRun
  BY RunsAssumption DEF Runs, NoRun

\* A run that was not launched has no agent.
LEMMA NoAgentTyped ==
    /\ NoAgent \in Agents /\ NoAgent.phase = "none" /\ NoAgent.answer = "none"
    /\ NoAgent.outbox = <<>> /\ NoAgent.timer = FALSE
  BY DEF NoAgent, Agents

\* A run that was not launched has no consumer.
LEMMA NoConsumerTyped == NoConsumer \in Consumers /\ NoConsumer.at = "none"
  BY Zenon DEF NoConsumer, Consumers

\* No command registers a run.
LEMMA NoCommandTyped ==
    NoCommand \in Commands /\ NoCommand.at \notin {"launch", "start", "register"}
  BY RunNumbers, Zenon DEF NoCommand, Commands

\* An agent that is over is an agent.
LEMMA OverTyped ==
    ASSUME NEW outbox \in Seq(AgentEvents), NEW timer \in BOOLEAN
    PROVE  Over(outbox, timer) \in Agents /\ Over(outbox, timer).phase = "over"
  BY NoAgentTyped, Zenon DEF Over, NoAgent, Agents

\* One run moves: its agent, its consumer, or both.  Its consumer neither begins nor
\* ends.
LEMMA RunMoves ==
    ASSUME RegistryInv, NEW r \in Runs, NEW a \in Agents, NEW c \in Consumers,
           r <= launched,
           agents' = [agents EXCEPT ![r] = a], consumers' = [consumers EXCEPT ![r] = c],
           c.at = "none" <=> consumers[r].at = "none",
           c.at = "done" <=> consumers[r].at = "done",
           UNCHANGED <<runs, launched>>, pending' \in 0 .. MaxRuns, CommandMoves
    PROVE  RegistryInv' /\ ReplacesNoRun
<1>1. agents \in [Runs -> Agents] /\ consumers \in [Runs -> Consumers] /\ launched \in Nat
  BY RunsAssumption DEF RegistryInv, ServiceType
<1>2. agents' \in [Runs -> Agents] /\ consumers' \in [Runs -> Consumers]
  BY <1>1, Zenon
<1>3. ServiceType'
  BY <1>2, Zenon DEF RegistryInv, ServiceType, CommandMoves
<1>4. \A q \in Runs : /\ consumers'[q].at = "none" <=> consumers[q].at = "none"
                      /\ consumers'[q].at = "done" <=> consumers[q].at = "done"
  BY <1>1, Zenon
<1>5. \A q \in Runs : q > launched => q # r
  BY <1>1, RunNumbers
<1>6. \A q \in Runs : q # r => agents'[q] = agents[q]
  BY <1>1, Zenon
<1>7. Numbered'
  <2>1. \A q \in Runs : q > launched => agents'[q] = NoAgent /\ consumers'[q].at = "none"
    BY <1>4, <1>5, <1>6, Zenon DEF RegistryInv, Numbered
  <2>2. cmd'.at = "register" =>
           cmd'.run = launched /\ cmd'.run \in Runs /\ consumers'[cmd'.run].at = "none"
    BY <1>4, Zenon DEF RegistryInv, Numbered, CommandMoves
  <2>3. QED
    BY <2>1, <2>2, Zenon DEF Numbered
<1>8. RegistryFollowsConsumer'
  BY <1>4, Zenon DEF RegistryInv, RegistryFollowsConsumer, Current
<1>9. ReplacesNoRun /\ LaunchIsFree'
  BY Zenon DEF ReplacesNoRun, CommandMoves, Launching, LaunchIsFree, RegistryInv
<1>10. QED
  BY <1>3, <1>7, <1>8, <1>9, Zenon DEF RegistryInv

\* No run moves.
LEMMA RunsStay ==
    ASSUME RegistryInv, UNCHANGED <<runs, launched, agents, consumers>>,
           pending' \in 0 .. MaxRuns, CommandMoves
    PROVE  RegistryInv' /\ ReplacesNoRun
<1>1. ServiceType'
  BY Zenon DEF RegistryInv, ServiceType, CommandMoves
<1>2. Numbered'
  BY Zenon DEF RegistryInv, Numbered, CommandMoves
<1>3. RegistryFollowsConsumer'
  BY Zenon DEF RegistryInv, RegistryFollowsConsumer, Current
<1>4. ReplacesNoRun /\ LaunchIsFree'
  BY Zenon DEF ReplacesNoRun, CommandMoves, Launching, LaunchIsFree, RegistryInv
<1>5. QED
  BY <1>1, <1>2, <1>3, <1>4, Zenon DEF RegistryInv

\* Only an agent moves, and it was launched.
LEMMA AgentMoves ==
    ASSUME RegistryInv, NEW r \in Runs, NEW a \in Agents, agents[r] # NoAgent,
           agents' = [agents EXCEPT ![r] = a],
           UNCHANGED <<runs, launched, consumers>>, pending' \in 0 .. MaxRuns, CommandMoves
    PROVE  RegistryInv' /\ ReplacesNoRun
<1>1. launched \in Nat /\ r \in Int
  BY RunsAssumption, RunNumbers DEF RegistryInv, ServiceType
<1>2. r <= launched
  BY <1>1 DEF RegistryInv, Numbered
<1>3. consumers[r] \in Consumers /\ consumers' = [consumers EXCEPT ![r] = consumers[r]]
  BY Zenon DEF RegistryInv, ServiceType
<1>4. QED
  BY <1>2, <1>3, RunMoves, Zenon

\* Only a consumer moves, and goes on.
LEMMA ConsumerMoves ==
    ASSUME RegistryInv, NEW r \in Runs, NEW c \in Consumers,
           consumers[r].at \notin {"none", "done"}, c.at \notin {"none", "done"},
           consumers' = [consumers EXCEPT ![r] = c],
           UNCHANGED <<runs, launched, agents, cmd>>, pending' \in 0 .. MaxRuns
    PROVE  RegistryInv' /\ ReplacesNoRun
<1>1. launched \in Nat /\ r \in Int
  BY RunsAssumption, RunNumbers DEF RegistryInv, ServiceType
<1>2. r <= launched
  BY <1>1 DEF RegistryInv, Numbered
<1>3. agents[r] \in Agents /\ agents' = [agents EXCEPT ![r] = agents[r]]
  BY Zenon DEF RegistryInv, ServiceType
<1>4. CommandMoves
  BY Zenon DEF CommandMoves, RegistryInv, ServiceType
<1>5. QED
  BY <1>2, <1>3, <1>4, RunMoves, Zenon

-----------------------------------------------------------------------------
(***************************************************************************)
(* Adapters.                                                               *)
(***************************************************************************)
LEMMA CommandStays ==
    ASSUME RegistryInv, UNCHANGED <<pending, cmd>>
    PROVE  pending' \in 0 .. MaxRuns /\ CommandMoves
  BY Zenon DEF RegistryInv, ServiceType, CommandMoves

\* An outbox with one more event.
LEMMA OutboxTyped ==
    ASSUME RegistryInv, NEW r \in Runs, NEW e \in AgentEvents
    PROVE  Outbox(r, e) \in Seq(AgentEvents)
<1>1. agents[r].outbox \in Seq(AgentEvents)
  BY Zenon DEF RegistryInv, ServiceType, Agents
<1>2. Append(agents[r].outbox, e) \in Seq(AgentEvents)
  BY <1>1
<1>3. QED
  BY <1>2 DEF Outbox

\* Only a launched run is alive or has a timer.
LEMMA AliveIsLaunched ==
    ASSUME NEW r \in Runs, Alive(r) \/ agents[r].timer
    PROVE  agents[r] # NoAgent
  BY NoAgentTyped, Zenon DEF Alive

\* A control message is queued.
LEMMA Queued ==
    ASSUME RegistryInv, NEW r \in Runs, NEW message \in {"pause", "terminate"}, Alive(r)
    PROVE  LET a == [agents[r] EXCEPT !.control = @ \cup {message}] IN
           /\ [agents EXCEPT ![r].control = @ \cup {message}] = [agents EXCEPT ![r] = a]
           /\ a \in Agents
  BY DEF RegistryInv, ServiceType, Agents

\* The service puts a message into the control channel of a run.
LEMMA SendKeeps ==
    ASSUME RegistryInv, NEW r \in Runs, NEW message \in {"pause", "terminate"},
           Send(r, message), UNCHANGED <<runs, launched, consumers>>,
           pending' \in 0 .. MaxRuns, CommandMoves
    PROVE  RegistryInv' /\ ReplacesNoRun
<1>1. CASE Alive(r)
  <2> DEFINE a == [agents[r] EXCEPT !.control = @ \cup {message}]
  <2>1. agents' = [agents EXCEPT ![r] = a] /\ a \in Agents
    BY <1>1, Queued, Zenon DEF Send
  <2>2. agents[r] # NoAgent
    BY <1>1, AliveIsLaunched, Zenon
  <2> HIDE DEF a
  <2>3. QED
    BY <2>1, <2>2, AgentMoves, Zenon
<1>2. CASE ~Alive(r)
  BY <1>2, RunsStay, Zenon DEF Send
<1>3. QED
  BY <1>1, <1>2, Zenon

\* An agent reports an event.
LEMMA EmitKeeps ==
    ASSUME RegistryInv, NEW r \in Runs, NEW e \in AgentEvents, Emit(r, e)
    PROVE  RegistryInv' /\ ReplacesNoRun
<1> DEFINE a == [agents[r] EXCEPT !.outbox = Outbox(r, e),
                                  !.asked = @ \/ e = "approval",
                                  !.timer = @ \/ e = "approval"]
<1>1. /\ agents' = [agents EXCEPT ![r] = a] /\ Alive(r)
      /\ UNCHANGED <<runs, launched, consumers, pending, cmd>>
  BY Zenon DEF Emit, RegistryInv, ServiceType
<1>2. agents[r] \in Agents /\ Outbox(r, e) \in Seq(AgentEvents)
  BY OutboxTyped, Zenon DEF RegistryInv, ServiceType
<1>3. a \in Agents
  BY <1>2, Zenon DEF Agents
<1>4. agents[r] # NoAgent
  BY <1>1, AliveIsLaunched, Zenon
<1> HIDE DEF a
<1>5. QED
  BY <1>1, <1>3, <1>4, AgentMoves, CommandStays, Zenon

\* An agent exits or is terminated.
LEMMA AgentExitsKeeps ==
    ASSUME RegistryInv, NEW r \in Runs, AgentExits(r) \/ TakeTerminate(r)
    PROVE  RegistryInv' /\ ReplacesNoRun
<1>1. UNCHANGED <<runs, launched, consumers, pending, cmd>> /\ Alive(r)
  BY Zenon DEF AgentExits, TakeTerminate
<1>2. PICK outbox \in Seq(AgentEvents) :
         agents' = [agents EXCEPT ![r] = Over(outbox, agents[r].timer)]
  BY OutboxTyped, Zenon DEF AgentExits, TakeTerminate, AgentEvents, RegistryInv, ServiceType,
     Agents
<1>3. /\ Over(outbox, agents[r].timer) \in Agents
      /\ Over(outbox, agents[r].timer).phase = "over"
  BY OverTyped DEF RegistryInv, ServiceType, Agents
<1>4. agents[r] # NoAgent
  BY <1>1, AliveIsLaunched, Zenon
<1>5. QED
  BY <1>1, <1>2, <1>3, <1>4, AgentMoves, CommandStays, Zenon

\* An adapter takes the request to pause.
LEMMA TakePauseKeeps ==
    ASSUME RegistryInv, NEW r \in Runs, NEW refused \in BOOLEAN, TakePause(r, refused)
    PROVE  RegistryInv' /\ ReplacesNoRun
<1>1. UNCHANGED <<runs, launched, consumers, pending, cmd>> /\ Alive(r)
  BY Zenon DEF TakePause
<1>2. agents[r] \in Agents /\ agents[r] # NoAgent
  BY <1>1, AliveIsLaunched, Zenon DEF RegistryInv, ServiceType
<1>3. CASE agents[r].told = "interrupted"
  <2> DEFINE a == [agents[r] EXCEPT !.control = @ \ {"pause"}]
  <2>1. agents' = [agents EXCEPT ![r] = a]
    BY <1>3, Zenon DEF TakePause, RegistryInv, ServiceType
  <2>2. a \in Agents
    BY <1>2, Zenon DEF Agents
  <2> HIDE DEF a
  <2>3. QED
    BY <1>1, <1>2, <2>1, <2>2, AgentMoves, CommandStays, Zenon
<1>4. CASE agents[r].told # "interrupted"
  <2> DEFINE e == IF refused THEN "risky" ELSE "paused"
             told == IF refused THEN "refused" ELSE "interrupted"
             a == [agents[r] EXCEPT !.control = @ \ {"pause"}, !.told = told,
                                    !.outbox = Outbox(r, e)]
  <2>1. agents' = [agents EXCEPT ![r] = a]
    BY <1>4, Zenon DEF TakePause, RegistryInv, ServiceType
  <2>2. e \in AgentEvents /\ told \in {"refused", "interrupted"}
    BY Zenon DEF AgentEvents
  <2> HIDE DEF e, told
  <2>3. Outbox(r, e) \in Seq(AgentEvents)
    BY <2>2, OutboxTyped, Zenon
  <2>4. a \in Agents
    BY <1>2, <2>2, <2>3, Zenon DEF Agents
  <2> HIDE DEF a
  <2>5. QED
    BY <1>1, <1>2, <2>1, <2>4, AgentMoves, CommandStays
<1>5. QED
  BY <1>3, <1>4, Zenon

\* The timer declines a request.
LEMMA TimerFiresKeeps ==
    ASSUME RegistryInv, NEW r \in Runs, TimerFires(r)
    PROVE  RegistryInv' /\ ReplacesNoRun
<1>1. UNCHANGED <<runs, launched, consumers, pending, cmd>> /\ agents[r].timer
  BY Zenon DEF TimerFires
<1>2. agents[r] \in Agents /\ agents[r] # NoAgent
  BY <1>1, AliveIsLaunched, Zenon DEF RegistryInv, ServiceType
<1>3. CASE Alive(r)
  <2> DEFINE a == [agents[r] EXCEPT !.timer = FALSE, !.answer = Answered(r, "decline")]
  <2>1. agents' = [agents EXCEPT ![r] = a]
    BY <1>3, Zenon DEF TimerFires, RegistryInv, ServiceType
  <2>2. a \in Agents
    BY <1>2, Zenon DEF Agents, Answered
  <2> HIDE DEF a
  <2>3. QED
    BY <1>1, <1>2, <2>1, <2>2, AgentMoves, CommandStays, Zenon
<1>4. CASE ~Alive(r)
  <2> DEFINE a == [agents[r] EXCEPT !.timer = FALSE, !.outbox = Outbox(r, "risky")]
  <2>1. agents' = [agents EXCEPT ![r] = a]
    BY <1>4, Zenon DEF TimerFires, RegistryInv, ServiceType
  <2>2. Outbox(r, "risky") \in Seq(AgentEvents)
    BY OutboxTyped, Zenon DEF AgentEvents
  <2>3. a \in Agents
    BY <1>2, <2>2, Zenon DEF Agents
  <2> HIDE DEF a
  <2>4. QED
    BY <1>1, <1>2, <2>1, <2>3, AgentMoves, CommandStays, Zenon
<1>5. QED
  BY <1>3, <1>4, Zenon

-----------------------------------------------------------------------------
(***************************************************************************)
(* Consumers.                                                              *)
(***************************************************************************)
\* A consumer goes on to its next point.
LEMMA GotoKeeps ==
    ASSUME RegistryInv, NEW r \in Runs, consumers[r].at \notin {"none", "done"},
           NEW at \in {"receive", "record", "tell", "leave", "deregister"},
           consumers' = Goto(r, at), UNCHANGED <<runs, launched, agents, cmd>>,
           pending' \in 0 .. MaxRuns
    PROVE  RegistryInv' /\ ReplacesNoRun
<1> DEFINE c == [consumers[r] EXCEPT !.at = at]
<1>1. consumers' = [consumers EXCEPT ![r] = c] /\ c \in Consumers /\ c.at = at
  BY Zenon DEF Goto, RegistryInv, ServiceType, Consumers
<1> HIDE DEF c
<1>2. QED
  BY <1>1, ConsumerMoves, Zenon

\* A consumer records what the budget says to a usage event.
LEMMA BudgetKeeps ==
    ASSUME RegistryInv, NEW r \in Runs, NEW signals \in Signals, NEW ok, Budget(r, signals, ok)
    PROVE  RegistryInv' /\ ReplacesNoRun
<1> DEFINE over == /\ signals # "none" /\ mission.exists
                   /\ signals = "pause" \/ BudgetFails(signals = "pause", ok)
           c == [consumers[r] EXCEPT !.at = "record", !.over = over]
<1>1. /\ consumers[r].at = "receive" /\ UNCHANGED <<runs, launched, agents, cmd, pending>>
  BY Zenon DEF Budget, Consuming
<1>2. consumers' = [consumers EXCEPT ![r].at = "record", ![r].over = over]
  BY Zenon DEF Budget
<1>3. over \in BOOLEAN
  BY Zenon
<1> HIDE DEF over
<1>4. consumers' = [consumers EXCEPT ![r] = c] /\ c \in Consumers /\ c.at = "record"
  BY <1>2, <1>3, Zenon DEF RegistryInv, ServiceType, Consumers
<1> HIDE DEF c
<1>5. QED
  BY <1>1, <1>4, ConsumerMoves, CommandStays, Zenon

\* A consumer records the next event of its run.
LEMMA ConsumeKeeps ==
    ASSUME RegistryInv, NEW r \in Runs, NEW ok, Consume(r, ok)
    PROVE  RegistryInv' /\ ReplacesNoRun
<1> DEFINE e == Head(agents[r].outbox)
           stop == ~mission.exists \/ Degrades(e, ok)
           a == [agents[r] EXCEPT !.outbox = Tail(@)]
           c == [at |-> Onward(r, e, stop), stop |-> stop, over |-> FALSE]
<1>1. /\ agents[r].outbox # <<>> /\ consumers[r].at \in {"record", "receive"}
      /\ UNCHANGED <<runs, launched, pending, cmd>>
  BY Zenon DEF Consume, Received, Consuming
<1>2. agents' = [agents EXCEPT ![r] = a]
  BY Zenon DEF Consume, RegistryInv, ServiceType
<1>3. consumers' = [consumers EXCEPT ![r] = c]
  BY Zenon DEF Consume
<1>4. stop \in BOOLEAN
  BY Zenon
<1>5. Onward(r, e, stop) \in {"tell", "receive"}
  BY Zenon DEF Onward
<1>6. agents[r] \in Agents
  BY Zenon DEF RegistryInv, ServiceType
<1>7. Tail(agents[r].outbox) \in Seq(AgentEvents)
  BY <1>1, <1>6 DEF Agents
<1>8. a \in Agents
  BY <1>6, <1>7, Zenon DEF Agents
<1> HIDE DEF stop, e
<1>9. c \in Consumers /\ c.at \in {"tell", "receive"}
  BY <1>4, <1>5, Zenon DEF Consumers
<1> HIDE DEF a, c
<1>10. r <= launched
  BY <1>1, RunsAssumption, RunNumbers DEF RegistryInv, Numbered, ServiceType
<1>11. QED
  BY <1>1, <1>2, <1>3, <1>8, <1>9, <1>10, RunMoves, CommandStays, Zenon

\* A consumer tells the adapter to pause, or gives up.
LEMMA ConsumerTellsKeeps ==
    ASSUME RegistryInv, NEW r \in Runs, ConsumerTells(r)
    PROVE  RegistryInv' /\ ReplacesNoRun
<1> DEFINE at == IF consumers[r].stop \/ ~Alive(r) THEN "leave" ELSE "receive"
           c == [consumers[r] EXCEPT !.at = at]
<1>1. /\ consumers[r].at = "tell" /\ Send(r, "pause") /\ consumers' = Goto(r, at)
      /\ UNCHANGED <<runs, launched, pending, cmd>>
  BY Zenon DEF ConsumerTells, Consuming
<1>2. at \in {"leave", "receive"}
  BY Zenon
<1> HIDE DEF at
<1>3. consumers' = [consumers EXCEPT ![r] = c] /\ c \in Consumers /\ c.at = at
  BY <1>1, <1>2, Zenon DEF Goto, RegistryInv, ServiceType, Consumers
<1> HIDE DEF c
<1>4. r <= launched
  BY <1>1, RunsAssumption, RunNumbers DEF RegistryInv, Numbered, ServiceType
<1>5. CASE Alive(r)
  <2> DEFINE a == [agents[r] EXCEPT !.control = @ \cup {"pause"}]
  <2>1. agents' = [agents EXCEPT ![r] = a] /\ a \in Agents
    BY <1>1, <1>5, Queued, Zenon DEF Send
  <2> HIDE DEF a
  <2>2. QED
    BY <1>1, <1>2, <1>3, <1>4, <2>1, RunMoves, CommandStays, Zenon
<1>6. CASE ~Alive(r)
  <2>1. agents' = agents
    BY <1>1, <1>6, Zenon DEF Send
  <2>2. QED
    BY <1>1, <1>2, <1>3, <2>1, ConsumerMoves, CommandStays, Zenon
<1>7. QED
  BY <1>5, <1>6

\* A consumer enters a request, finds its channel closed or records the time of its run.
LEMMA GoesOnKeeps ==
    ASSUME RegistryInv, NEW r \in Runs,
           \/ EnterRequest(r) \/ ChannelCloses(r)
           \/ \E signals \in Signals, ok \in Appends(2) : WallClock(r, signals, ok)
    PROVE  RegistryInv' /\ ReplacesNoRun
<1>1. CASE EnterRequest(r)
  <2>1. pending' \in 0 .. MaxRuns
    BY <1>1, RunNumbers, Zenon DEF EnterRequest
  <2>2. QED
    BY <1>1, <2>1, GotoKeeps, Zenon DEF EnterRequest, Consuming
<1>2. CASE ChannelCloses(r)
  BY <1>2, GotoKeeps, Zenon DEF ChannelCloses, Consuming, RegistryInv, ServiceType
<1>3. CASE \E signals \in Signals, ok \in Appends(2) : WallClock(r, signals, ok)
  BY <1>3, GotoKeeps, Zenon DEF WallClock, Consuming, RegistryInv, ServiceType
<1>4. QED
  BY <1>1, <1>2, <1>3, Zenon

\* The late end of an older consumer leaves the run that replaced it registered.
LEMMA DeregisterKeeps ==
    ASSUME RegistryInv, NEW r \in Runs, Deregister(r)
    PROVE  RegistryInv' /\ ReplacesNoRun
<1> DEFINE a == [agents[r] EXCEPT !.outbox = <<>>]
           c == [consumers[r] EXCEPT !.at = "done"]
<1>1. /\ consumers[r].at = "deregister" /\ runs' = RunsWithout(r)
      /\ pending' = (IF pending = r THEN NoRun ELSE pending)
      /\ consumers' = Goto(r, "done") /\ agents' = [agents EXCEPT ![r].outbox = <<>>]
      /\ UNCHANGED <<launched, cmd>>
  BY Zenon DEF Deregister, Consuming
<1>2. agents \in [Runs -> Agents] /\ consumers \in [Runs -> Consumers] /\ launched \in Nat
  BY RunsAssumption DEF RegistryInv, ServiceType
<1>3. consumers' = [consumers EXCEPT ![r] = c] /\ c \in Consumers /\ c.at = "done"
  BY <1>1, <1>2, Zenon DEF Goto, Consumers
<1>4. agents' = [agents EXCEPT ![r] = a]
  BY <1>1, <1>2, Zenon
<1>5. <<>> \in Seq(AgentEvents)
  OBVIOUS
<1>6. a \in Agents
  BY <1>2, <1>5 DEF Agents
<1> HIDE DEF a, c
<1>7. /\ \A q \in Runs : q # r => consumers'[q] = consumers[q] /\ agents'[q] = agents[q]
      /\ consumers'[r].at = "done"
  BY <1>2, <1>3, <1>4, Zenon
<1>8. ServiceType'
  <2>1. runs' \in 0 .. MaxRuns /\ pending' \in 0 .. MaxRuns
    BY <1>1, RunNumbers, Zenon DEF RunsWithout, RegistryInv, ServiceType
  <2>2. QED
    BY <1>1, <1>2, <1>3, <1>4, <1>6, <2>1 DEF RegistryInv, ServiceType
<1>9. Numbered'
  <2>1. \A q \in Runs : q > launched => q # r
    BY <1>1, Zenon DEF RegistryInv, Numbered
  <2>2. cmd.at = "register" => cmd.run # r
    BY <1>1, Zenon DEF RegistryInv, Numbered
  <2>3. QED
    BY <1>1, <1>7, <2>1, <2>2 DEF RegistryInv, Numbered
<1>10. RegistryFollowsConsumer'
  <2>1. \A q \in Runs : consumers'[q].at = "none" <=> consumers[q].at = "none"
    BY <1>1, <1>7, Zenon
  <2>2. \A q \in Runs : q # r => (Current(q)' <=> Current(q))
    BY <1>7, <2>1, Zenon DEF Current
  <2>3. ~Current(r)'
    BY <1>7, Zenon DEF Current
  <2>4. runs' # r /\ \A q \in Runs : q # r => (runs' = q <=> runs = q)
    BY <1>1, RunNumbers, Zenon DEF RunsWithout
  <2>5. QED
    BY <2>2, <2>3, <2>4, Zenon DEF RegistryInv, RegistryFollowsConsumer
<1>11. ReplacesNoRun /\ LaunchIsFree'
  BY <1>1, Zenon DEF ReplacesNoRun, RunsWithout, LaunchIsFree, Launching, RegistryInv
<1>12. QED
  BY <1>8, <1>9, <1>10, <1>11, Zenon DEF RegistryInv

\* The steps of a consumer together: a late one removes only its own run.
LEMMA ConsumerStepKeeps ==
    ASSUME RegistryInv, NEW r \in Runs, ConsumerStep(r)
    PROVE  RegistryInv' /\ ReplacesNoRun
  BY ConsumeKeeps, BudgetKeeps, GoesOnKeeps, ConsumerTellsKeeps, DeregisterKeeps, Zenon
     DEF ConsumerStep

-----------------------------------------------------------------------------
(***************************************************************************)
(* The UI, the watchdog and the commands.                                  *)
(***************************************************************************)
LEMMA WatchdogKeeps ==
    ASSUME RegistryInv, Watchdog \/ TouchUi \/ UiExpires
    PROVE  RegistryInv' /\ ReplacesNoRun
<1>1. CASE WatchdogTells
  <2>1. UNCHANGED <<runs, launched, consumers, pending, cmd>>
    BY <1>1, Zenon DEF WatchdogTells
  <2>2. runs = NoRun \/ runs \in Runs
    BY RunsAssumption DEF RegistryInv, ServiceType, NoRun, Runs
  <2>3. CASE runs = NoRun
    BY <1>1, <2>1, <2>3, RunsStay, CommandStays, Zenon DEF WatchdogTells
  <2>4. CASE runs # NoRun
    BY <1>1, <2>1, <2>2, <2>4, SendKeeps, CommandStays, Zenon DEF WatchdogTells
  <2>5. QED
    BY <2>3, <2>4, Zenon
<1>2. CASE UNCHANGED <<runs, launched, agents, consumers, pending, cmd>>
  BY <1>2, RunsStay, CommandStays, Zenon
<1>3. QED
  BY <1>1, <1>2, Zenon DEF Watchdog, WatchdogTick, PauseForUiDisconnect, TouchUi, UiExpires

\* A command arrives.
LEMMA ArriveKeeps ==
    ASSUME RegistryInv, Arrive
    PROVE  RegistryInv' /\ ReplacesNoRun
<1>1. CommandMoves
  BY RunNumbers, Zenon DEF Arrive, CommandMoves, Commands, Launching
<1>2. QED
  BY <1>1, RunsStay, Zenon DEF Arrive, RegistryInv, ServiceType

\* A command goes on, or returns.
LEMMA CommandGoesOn ==
    ASSUME RegistryInv,
           \/ cmd' = NoCommand
           \/ \E op \in {"record", "launch_route", "handoff_provider", "continue", "abandon",
                         "request_safe_pause", "request_force_termination", "force_terminate",
                         "approve", "deny", "revoke", "delete_mission", cmd.op},
                 at \in {"check", "launch", "start", "failed", "resolve", "tell", "kill", "mark",
                         "answer", "forget"} :
                 /\ Step(op, at)
                 /\ at \in {"launch", "start"} => op = "continue" \/ runs = NoRun
    PROVE  CommandMoves
<1>1. cmd \in Commands
  BY Zenon DEF RegistryInv, ServiceType
<1>2. CASE cmd' = NoCommand
  BY <1>2, NoCommandTyped, Zenon DEF CommandMoves, Launching
<1>3. ASSUME NEW op \in {"record", "launch_route", "handoff_provider", "continue", "abandon",
                         "request_safe_pause", "request_force_termination", "force_terminate",
                         "approve", "deny", "revoke", "delete_mission", cmd.op},
             NEW at \in {"check", "launch", "start", "failed", "resolve", "tell", "kill", "mark",
                         "answer", "forget"},
             Step(op, at), at \in {"launch", "start"} => op = "continue" \/ runs = NoRun
      PROVE  CommandMoves
  <2>1. cmd' = [cmd EXCEPT !.op = op, !.at = at]
    BY <1>3, Zenon DEF Step
  <2>2. cmd' \in Commands /\ cmd'.at = at /\ cmd'.op = op
    BY <1>1, <2>1 DEF Commands
  <2>3. QED
    BY <1>3, <2>2, Zenon DEF CommandMoves, Launching
<1>4. QED
  BY <1>2, <1>3

\* A command records an event and goes on to its next step.
LEMMA RecordThenKeeps ==
    ASSUME RegistryInv, NEW kind, NEW ok,
           NEW op \in {"record", "launch_route", "handoff_provider", "continue", "abandon", cmd.op},
           NEW at \in {"return", "check", "launch"}, RecordThen(op, kind, at, ok),
           at = "launch" => op = "continue" \/ runs = NoRun
    PROVE  RegistryInv' /\ ReplacesNoRun
<1>1. (Step(op, at) /\ at # "return") \/ cmd' = NoCommand
  BY Zenon DEF RecordThen, Return
<1>2. CommandMoves
  BY <1>1, CommandGoesOn, Zenon
<1>3. QED
  BY <1>2, RunsStay, Zenon DEF RecordThen, InActor, RegistryInv, ServiceType

\* The steps of commands that change neither runs nor agents.
LEMMA ActorCommandsKeep ==
    ASSUME RegistryInv, NEW ok,
           \/ RequestSafePause(ok) \/ ForceTerminate(ok) \/ RequestForceTermination(ok)
           \/ \E op \in {"approve", "deny", "revoke"} : ResolveApproval(op, ok)
           \/ BuildRecoveryPackage \/ DeleteMission \/ CreateMission
           \/ \E cleaned \in BOOLEAN : ForgetMission(cleaned)
    PROVE  RegistryInv' /\ ReplacesNoRun
<1>1. UNCHANGED <<runs, launched, agents, consumers, pending>>
  BY Zenon DEF RequestSafePause, ForceTerminate, RequestForceTermination, ResolveApproval,
         BuildRecoveryPackage, DeleteMission, CreateMission, ForgetMission, InActor
<1>2. CommandMoves
  <2>1. CASE RequestSafePause(ok) \/ RequestForceTermination(ok)
    BY <2>1, CommandGoesOn, Zenon DEF RequestSafePause, RequestForceTermination, TellIfRun,
       Return
  <2>2. CASE \E op \in {"approve", "deny", "revoke"} : ResolveApproval(op, ok)
    BY <2>2, CommandGoesOn DEF ResolveApproval, Return
  <2>3. CASE DeleteMission
    BY <2>3, CommandGoesOn, Zenon DEF DeleteMission, Return
  <2>4. CASE cmd' = NoCommand
    BY <2>4, CommandGoesOn, Zenon
  <2>5. QED
    BY <2>1, <2>2, <2>3, <2>4, Zenon DEF ForceTerminate, BuildRecoveryPackage, CreateMission,
       ForgetMission, Return
<1>3. QED
  BY <1>1, <1>2, RunsStay, Zenon DEF RegistryInv, ServiceType

\* The commands that record before or after a launch.
LEMMA LaunchCommandsKeep ==
    ASSUME RegistryInv, NEW ok,
           \/ RecordEvent(ok) \/ LaunchRoute(ok) \/ HandoffProvider(ok) \/ ResolveRecovery(ok)
           \/ RecordStartFailed(ok)
    PROVE  RegistryInv' /\ ReplacesNoRun
<1>1. CASE RecordEvent(ok) \/ LaunchRoute(ok) \/ RecordStartFailed(ok)
  BY <1>1, RecordThenKeeps, Zenon DEF RecordEvent, LaunchRoute, RecordStartFailed
<1>2. CASE InActor /\ cmd' = NoCommand
  BY <1>2, CommandGoesOn, RunsStay, Zenon DEF InActor, RegistryInv, ServiceType
<1>3. CASE InActor /\ cmd' = [op |-> "request_safe_pause", at |-> "begin", run |-> NoRun]
  <2>1. CommandMoves
    BY <1>3, RunNumbers, Zenon DEF CommandMoves, Commands, Launching
  <2>2. QED
    BY <1>3, <2>1, RunsStay, Zenon DEF InActor, RegistryInv, ServiceType
<1>4. CASE HandoffProvider(ok)
  BY <1>2, <1>3, <1>4, RecordThenKeeps, Zenon DEF HandoffProvider, Return, Occupied
<1>5. CASE ResolveRecovery(ok)
  BY <1>2, <1>5, RecordThenKeeps, Zenon DEF ResolveRecovery, Return
<1>6. QED
  BY <1>1, <1>4, <1>5, Zenon

\* The steps of commands that look at the registry.
LEMMA LookingKeeps ==
    ASSUME RegistryInv,
           \/ CheckNoRun \/ LaunchAgent \/ StartFails \/ CheckForceToken
           \/ \E op \in {"continue", "abandon"} : VerifyRecovery(op)
           \/ \E op \in {"request_safe_pause", "request_force_termination", "force_terminate"} :
                 ReadActiveRun(op)
    PROVE  RegistryInv' /\ ReplacesNoRun
<1>1. UNCHANGED <<runs, launched, agents, consumers, pending>>
  BY Zenon DEF CheckNoRun, LaunchAgent, StartFails, CheckForceToken, VerifyRecovery,
     ReadActiveRun, InRegistry
<1>2. CommandMoves
  <2>1. CASE \E op \in {"request_safe_pause", "request_force_termination", "force_terminate"} :
                ReadActiveRun(op)
    <3>1. PICK op \in {"request_safe_pause", "request_force_termination", "force_terminate"} :
             cmd' = [op |-> op, at |-> "actor", run |-> runs]
      BY <2>1, Zenon DEF ReadActiveRun
    <3>2. runs \in 0 .. MaxRuns
      BY Zenon DEF RegistryInv, ServiceType
    <3>3. QED
      BY <3>1, <3>2, Zenon DEF CommandMoves, Commands, Launching
  <2>2. CASE CheckNoRun
    BY <2>2, CommandGoesOn, Zenon DEF CheckNoRun, Return, Occupied
  <2>3. CASE LaunchAgent \/ StartFails
    <3>1. cmd.at = "launch" => cmd.op = "continue" \/ runs = NoRun
      BY Zenon DEF RegistryInv, LaunchIsFree, Launching
    <3>2. QED
      BY <2>3, <3>1, CommandGoesOn, Zenon DEF LaunchAgent, StartFails, LaunchFailed, Return
  <2>4. CASE CheckForceToken
    BY <2>4, CommandGoesOn, Zenon DEF CheckForceToken, Return
  <2>5. CASE \E op \in {"continue", "abandon"} : VerifyRecovery(op)
    BY <2>5, CommandGoesOn, Zenon DEF VerifyRecovery, Return
  <2>6. QED
    BY <2>1, <2>2, <2>3, <2>4, <2>5, Zenon
<1>3. QED
  BY <1>1, <1>2, RunsStay, Zenon DEF RegistryInv, ServiceType

\* The steps of commands that call the adapter of a run.
LEMMA TellingKeeps ==
    ASSUME RegistryInv, NEW default \in BOOLEAN,
           TellAdapter(default) \/ TerminateOwnedTree(default)
    PROVE  RegistryInv' /\ ReplacesNoRun
<1>1. UNCHANGED <<runs, launched, consumers, pending>>
  BY Zenon DEF TellAdapter, TerminateOwnedTree, InRegistry
<1>2. CommandMoves
  BY CommandGoesOn, Zenon DEF TellAdapter, TerminateOwnedTree, Return
<1>3. pending' \in 0 .. MaxRuns
  BY <1>1, Zenon DEF RegistryInv, ServiceType
<1>4. CASE agents' = agents
  BY <1>1, <1>2, <1>3, <1>4, RunsStay, Zenon
<1>5. CASE agents' # agents
  <2>1. PICK message \in {"pause", "terminate"} : Send(cmd.run, message) /\ Alive(cmd.run)
    BY <1>5, Zenon DEF TellAdapter, TerminateOwnedTree, Reaches, KillMessage
  <2>2. agents' = [agents EXCEPT ![cmd.run].control = @ \cup {message}]
    BY <2>1, Zenon DEF Send
  <2>3. cmd.run \in Runs
    BY <1>5, <2>2, Zenon DEF RegistryInv, ServiceType
  <2>4. QED
    BY <1>1, <1>2, <1>3, <2>1, <2>3, SendKeeps, Zenon
<1>6. QED
  BY <1>4, <1>5, Zenon

\* The user's decision is passed to the agent that asked.
LEMMA AnswerAgentKeeps ==
    ASSUME RegistryInv, AnswerAgent
    PROVE  RegistryInv' /\ ReplacesNoRun
<1>1. UNCHANGED <<runs, launched, consumers>> /\ pending' = NoRun
  BY Zenon DEF AnswerAgent, InRegistry
<1>2. CommandMoves /\ pending' \in 0 .. MaxRuns
  BY <1>1, CommandGoesOn, RunNumbers, Zenon DEF AnswerAgent, Return
<1>3. CASE pending # NoRun /\ Alive(pending)
  <2> DEFINE a == [agents[pending] EXCEPT !.answer = Answered(pending, Answer)]
  <2>1. pending \in Runs
    BY <1>3, RunsAssumption DEF RegistryInv, ServiceType, NoRun, Runs
  <2>2. agents' = [agents EXCEPT ![pending] = a]
    BY <1>3, <2>1, Zenon DEF AnswerAgent, RegistryInv, ServiceType
  <2>3. Answer \in {"accept", "decline"} /\ agents[pending] \in Agents
    BY <2>1, Zenon DEF Answer, RegistryInv, ServiceType
  <2>4. a \in Agents
    BY <2>3, Zenon DEF Agents, Answered
  <2>5. agents[pending] # NoAgent
    BY <1>3, <2>1, AliveIsLaunched, Zenon
  <2> HIDE DEF a
  <2>6. QED
    BY <1>1, <1>2, <2>1, <2>2, <2>4, <2>5, AgentMoves, Zenon
<1>4. CASE ~(pending # NoRun /\ Alive(pending))
  <2>1. agents' = agents
    BY <1>4, Zenon DEF AnswerAgent
  <2>2. QED
    BY <1>1, <1>2, <2>1, RunsStay, Zenon
<1>5. QED
  BY <1>3, <1>4, Zenon

\* The next number goes to a run that never had an agent.
LEMMA StartAgentKeeps ==
    ASSUME RegistryInv, StartAgent
    PROVE  RegistryInv' /\ ReplacesNoRun
<1> DEFINE n == launched + 1
           a == [NoAgent EXCEPT !.phase = "running", !.outbox = <<"started">>]
<1>1. /\ launched < MaxRuns /\ launched' = n /\ agents' = [agents EXCEPT ![n] = a]
      /\ cmd' = [cmd EXCEPT !.at = "register", !.run = n]
      /\ UNCHANGED <<runs, consumers, pending>>
  BY Zenon DEF StartAgent
<1>2. launched \in Nat /\ agents \in [Runs -> Agents] /\ cmd \in Commands
  BY RunsAssumption DEF RegistryInv, ServiceType
<1>3. n \in Runs /\ n > launched /\ n \in 0 .. MaxRuns
  BY <1>1, <1>2, RunsAssumption DEF Runs
<1>4. <<"started">> \in Seq(AgentEvents)
  BY DEF AgentEvents
<1>5. a \in Agents
  BY <1>4, Zenon DEF NoAgent, Agents
<1>6. cmd' \in Commands /\ cmd'.at = "register" /\ cmd'.run = n /\ cmd'.op = cmd.op
  BY <1>1, <1>2, <1>3, Zenon DEF Commands
<1>7. \A q \in Runs : q > n => q > launched /\ q # n
  BY <1>2, RunNumbers
<1> HIDE DEF n, a
<1>8. agents[n] = NoAgent /\ consumers[n].at = "none"
  BY <1>3, Zenon DEF RegistryInv, Numbered
<1>9. ServiceType'
  BY <1>1, <1>2, <1>3, <1>5, <1>6, Zenon DEF RegistryInv, ServiceType
<1>10. Numbered'
  <2>1. \A q \in Runs : q > n => agents'[q] = NoAgent /\ consumers'[q].at = "none"
    BY <1>1, <1>2, <1>7, Zenon DEF RegistryInv, Numbered
  <2>2. QED
    BY <1>1, <1>3, <1>6, <1>8, <2>1, Zenon DEF Numbered
<1>11. RegistryFollowsConsumer'
  BY <1>1, Zenon DEF RegistryInv, RegistryFollowsConsumer, Current
<1>12. ReplacesNoRun /\ LaunchIsFree'
  <2>1. cmd.at = "start"
    BY Zenon DEF StartAgent
  <2>2. QED
    BY <1>1, <1>6, <2>1, Zenon DEF ReplacesNoRun, LaunchIsFree, Launching, RegistryInv
<1>13. QED
  BY <1>9, <1>10, <1>11, <1>12, Zenon DEF RegistryInv

\* The run registered is the last launched, and its consumer starts with it.
LEMMA RegisterRunKeeps ==
    ASSUME RegistryInv, RegisterRun
    PROVE  RegistryInv' /\ ReplacesNoRun
<1>1. /\ cmd.at = "register" /\ runs' = cmd.run /\ consumers' = Goto(cmd.run, "receive")
      /\ cmd' = NoCommand /\ UNCHANGED <<launched, agents, pending>>
  BY Zenon DEF RegisterRun, Return
<1>2. PICK n \in Runs : n = launched /\ n = cmd.run
  BY <1>1, Zenon DEF RegistryInv, Numbered
<1> DEFINE c == [consumers[n] EXCEPT !.at = "receive"]
<1>3. consumers \in [Runs -> Consumers] /\ launched \in Nat
  BY RunsAssumption DEF RegistryInv, ServiceType
<1>4. consumers' = [consumers EXCEPT ![n] = c] /\ c \in Consumers /\ c.at = "receive"
  BY <1>1, <1>2, <1>3, Zenon DEF Goto, Consumers
<1> HIDE DEF c
<1>5. /\ consumers'[n].at = "receive"
      /\ \A q \in Runs : q # n => consumers'[q] = consumers[q]
  BY <1>2, <1>3, <1>4, Zenon
<1>6. \A q \in Runs : q > n => q # n /\ consumers[q].at = "none"
  BY <1>2, <1>3 DEF RegistryInv, Numbered
<1>7. ServiceType'
  BY <1>1, <1>2, <1>3, <1>4, RunNumbers, NoCommandTyped, Zenon DEF RegistryInv, ServiceType
<1>8. Numbered'
  BY <1>1, <1>2, <1>5, <1>6, NoCommandTyped DEF RegistryInv, Numbered
<1>9. RegistryFollowsConsumer'
  <2>1. Current(n)'
    BY <1>2, <1>5, <1>6, Zenon DEF Current
  <2>2. ASSUME NEW q \in Runs, q # n PROVE ~Current(q)'
    <3>1. q > n \/ n > q
      BY <1>2, <2>2, RunNumbers
    <3>2. CASE q > n
      BY <1>5, <1>6, <2>2, <3>2, Zenon DEF Current
    <3>3. CASE n > q
      BY <1>2, <1>5, <3>3, Zenon DEF Current
    <3>4. QED
      BY <3>1, <3>2, <3>3, Zenon
  <2>3. QED
    BY <1>1, <1>2, <2>1, <2>2, Zenon DEF RegistryFollowsConsumer
<1>10. ReplacesNoRun /\ LaunchIsFree'
  BY <1>1, NoCommandTyped, Zenon DEF ReplacesNoRun, LaunchIsFree, Launching, RegistryInv
<1>11. QED
  BY <1>7, <1>8, <1>9, <1>10, Zenon DEF RegistryInv

\* The process dies, and the next one has no run (restore_existing).
LEMMA RestartKeeps ==
    ASSUME RegistryInv, Restart
    PROVE  RegistryInv' /\ ReplacesNoRun
<1>1. /\ runs' = NoRun /\ pending' = NoRun /\ cmd' = NoCommand /\ launched' = launched
      /\ agents' = [r \in Runs |-> IF agents[r].phase = "none" THEN NoAgent
                                   ELSE Over(<<>>, FALSE)]
      /\ consumers' = [r \in Runs |-> IF consumers[r].at = "none" THEN NoConsumer
                                      ELSE [NoConsumer EXCEPT !.at = "done"]]
  BY Zenon DEF Restart
<1>2. <<>> \in Seq(AgentEvents)
  OBVIOUS
<1>3. Over(<<>>, FALSE) \in Agents /\ Over(<<>>, FALSE).phase = "over"
  BY <1>2, OverTyped, Zenon
<1>4. /\ [NoConsumer EXCEPT !.at = "done"] \in Consumers
      /\ [NoConsumer EXCEPT !.at = "done"].at = "done"
  BY Zenon DEF NoConsumer, Consumers
<1>5. ServiceType'
  BY <1>1, <1>3, <1>4, RunNumbers, NoAgentTyped, NoConsumerTyped, NoCommandTyped, Zenon
     DEF RegistryInv, ServiceType
<1>6. Numbered'
  BY <1>1, <1>3, NoAgentTyped, NoConsumerTyped, NoCommandTyped, Zenon DEF RegistryInv, Numbered
<1>7. RegistryFollowsConsumer'
  <2>1. \A r \in Runs : consumers'[r].at \in {"none", "done"}
    BY <1>1, <1>4, NoConsumerTyped, Zenon
  <2>2. QED
    BY <1>1, <2>1, RunNumbers, Zenon DEF RegistryFollowsConsumer, Current
<1>8. ReplacesNoRun /\ LaunchIsFree'
  BY <1>1, Zenon DEF ReplacesNoRun, LaunchIsFree
<1>9. QED
  BY <1>5, <1>6, <1>7, <1>8, Zenon DEF RegistryInv

-----------------------------------------------------------------------------
\* No run is launched at the start.
LEMMA RegistryInit == Init => RegistryInv
<1> SUFFICES ASSUME Init PROVE RegistryInv
  BY Zenon
<1>1. ServiceType
  BY RunsAssumption, RunNumbers, NoAgentTyped, NoConsumerTyped, NoCommandTyped
     DEF Init, ServiceType
<1>2. Numbered
  BY NoAgentTyped, NoConsumerTyped, NoCommandTyped, Zenon DEF Init, Numbered
<1>3. RegistryFollowsConsumer
  BY RunNumbers, NoConsumerTyped, Zenon DEF Init, RegistryFollowsConsumer, Current
<1>4. LaunchIsFree
  BY Zenon DEF Init, LaunchIsFree
<1>5. QED
  BY <1>1, <1>2, <1>3, <1>4, Zenon DEF RegistryInv

\* Every step keeps the registry at the newest run, and replaces none without a recovery.
LEMMA RegistryStep == RegistryInv /\ [Next]_vars => RegistryInv' /\ [ReplacesNoRun]_vars
<1> SUFFICES ASSUME RegistryInv, [Next]_vars PROVE RegistryInv' /\ [ReplacesNoRun]_vars
  BY Zenon
<1>1. CASE CommandStep
  BY <1>1, ActorCommandsKeep, LaunchCommandsKeep, LookingKeeps, TellingKeeps, AnswerAgentKeeps,
     StartAgentKeeps, RegisterRunKeeps, Zenon DEF CommandStep
<1>2. ASSUME NEW r \in Runs,
             \/ ConsumerStep(r) \/ TakeControl(r) \/ AgentExits(r)
             \/ \E e \in AgentEvents \ {"paused"} : Emit(r, e)
      PROVE  RegistryInv' /\ ReplacesNoRun
  BY <1>2, ConsumerStepKeeps, AgentExitsKeeps, TakePauseKeeps, TimerFiresKeeps, EmitKeeps, Zenon
     DEF TakeControl
<1>3. CASE Arrive \/ Watchdog \/ TouchUi \/ UiExpires \/ Restart
  BY <1>3, ArriveKeeps, WatchdogKeeps, RestartKeeps, Zenon
<1>4. CASE UNCHANGED vars
  BY <1>4, RunsStay, CommandStays, Zenon DEF vars
<1>5. QED
  BY <1>1, <1>2, <1>3, <1>4, Zenon DEF Next

\* The run registered for the mission is the newest one with a live consumer, whatever
\* recoveries, exits, failed appends and restarts come in between (mission_service.rs).
THEOREM RegistryIsCurrent == Spec => []RegistryFollowsConsumer
<1>1. RegistryInv => RegistryFollowsConsumer
  BY Zenon DEF RegistryInv
<1>2. QED
  BY <1>1, RegistryInit, RegistryStep, PTL DEF Spec

\* A run that launch_route or a handoff registers takes no other's place: the registry
\* they found empty is still empty when they get to it (mission_service.rs).
THEOREM LaunchTakesFreeRegistry == Spec => LaunchReplacesNoRun
<1>1. RegistryInv /\ [Next]_vars => [ReplacesNoRun]_vars
  BY RegistryStep, Zenon
<1>2. QED
  BY <1>1, RegistryInit, RegistryStep, PTL DEF Spec, LaunchReplacesNoRun

=============================================================================
