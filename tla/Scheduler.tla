----------------------------- MODULE Scheduler ------------------------------
(***************************************************************************)
(* The mission scheduler (scheduler.rs) and the resource budget that       *)
(* pauses its missions (resource_budget.rs).  Missions are registered in   *)
(* order, become active when a slot is free, and are served round robin,   *)
(* foreground missions three times as often.                               *)
(***************************************************************************)
EXTENDS Integers, Sequences, FiniteSets, Iteration

CONSTANTS
    Missions,
    Foreground,    \* the missions registered in the foreground
    MaxActive,     \* slots, 1 to 5
    Limits,        \* of the resource budget, per resource
    MaxActions     \* bound: actions queued by a mission at any one time

VARIABLES
    order,         \* registration_order
    state,         \* per mission: its schedule state, or none
    actions,       \* per mission: the number of queued actions
    schedule,
    cursor         \* the position in schedule, from 1

vars == <<order, state, actions, schedule, cursor>>

Init ==
    /\ order = <<>>
    /\ state = [m \in Missions |-> "none"]
    /\ actions = [m \in Missions |-> 0]
    /\ schedule = <<>>
    /\ cursor = 1

-----------------------------------------------------------------------------
\* rebuild_schedule
Weight(m) == IF m \in Foreground THEN 3 ELSE 1

Turns(states) ==
    [i \in 1 .. Len(order) |->
        IF states[order[i]] = "active" THEN [n \in 1 .. Weight(order[i]) |-> order[i]] ELSE <<>>]

Extend(turns, more) == turns \o more

Rebuilt(states) == Iterate(Extend, <<>>, Turns(states))

ActiveCount(states) == Cardinality({m \in Missions : states[m] = "active"})

\* The queued missions with actions, in order of registration, take the free slots.
Ready(states) == SelectSeq(order, LAMBDA m : states[m] = "queued" /\ actions[m] > 0)

Activated(states) ==
    LET ready == Ready(states)
        free == MaxActive - ActiveCount(states)
    IN [m \in Missions |->
           IF \E i \in 1 .. Len(ready) : i <= free /\ ready[i] = m THEN "active" ELSE states[m]]

\* Mutant: the schedule is not rebuilt for the missions activated.
ScheduleBefore(states) == Rebuilt(states)

ScheduleAfter(states) == Rebuilt(Activated(states))

\* activate_ready, after the caller has set the states; nothing is rebuilt when no
\* slot is free.
ActivateReady(states, rebuilt) ==
    IF ActiveCount(states) >= MaxActive
    THEN /\ state' = states
         /\ IF rebuilt THEN schedule' = Rebuilt(states) /\ cursor' = 1
            ELSE UNCHANGED <<schedule, cursor>>
    ELSE /\ state' = Activated(states)
         /\ schedule' = ScheduleAfter(states)
         /\ cursor' = 1

-----------------------------------------------------------------------------
Register(m) ==
    /\ state[m] = "none"
    /\ state' = [state EXCEPT ![m] = "queued"]
    /\ order' = Append(order, m)
    /\ UNCHANGED <<actions, schedule, cursor>>

\* A denied action, one of an unknown mission, or of a completed one is refused.
Enqueue(m) ==
    /\ state[m] \notin {"none", "completed"}
    /\ actions[m] < MaxActions
    /\ actions' = [actions EXCEPT ![m] = @ + 1]
    /\ UNCHANGED <<order, state, schedule, cursor>>

Activate ==
    /\ ActivateReady(state, FALSE)
    /\ UNCHANGED <<order, actions>>

Paused(m) ==
    /\ state[m] \notin {"none", "completed"}
    /\ ActivateReady([state EXCEPT ![m] = "paused"], TRUE)

Pause(m) ==
    /\ Paused(m)
    /\ UNCHANGED <<order, actions>>

Complete(m) ==
    /\ state[m] # "none"
    /\ ActivateReady([state EXCEPT ![m] = "completed"], TRUE)
    /\ UNCHANGED <<order, actions>>

\* evaluate_pressure pauses for a resource at its limit.  The disk has a limit only if
\* it was given one (here: 0 is none).  Four fifths of a limit throttle, which sets the
\* text of a resource_reason and nothing else.
Dimensions == {"memory", "cpu", "disk"}

EvaluatePressure(observed) ==
    IF \E d \in Dimensions : Limits[d] > 0 /\ observed[d] >= Limits[d] THEN "pause" ELSE "go_on"

\* One resource is loaded at a time.
Loads == {[d \in Dimensions |-> IF d = loaded THEN 10 ELSE 9] : loaded \in Dimensions}

\* apply_resource_decision: the pause of a completed mission is refused.
ApplyResourceDecision(m, observed) ==
    /\ EvaluatePressure(observed) = "pause"
    /\ Paused(m)
    /\ UNCHANGED <<order, actions>>

\* Mutant: the cursor stays.
AdvancedNot(from, k) == from

Advanced(from, k) == ((from + k - 1) % Len(schedule)) + 1

\* next: one round from the cursor; the first active mission with an action is served.
Served(k) ==
    LET m == schedule[((cursor + k - 2) % Len(schedule)) + 1]
    IN state[m] = "active" /\ actions[m] > 0

TakeNext ==
    /\ \E k \in 1 .. Len(schedule) :
          /\ Served(k)
          /\ \A j \in 1 .. k - 1 : ~Served(j)
          /\ actions' = [actions EXCEPT ![schedule[((cursor + k - 2) % Len(schedule)) + 1]] = @ - 1]
          /\ cursor' = Advanced(cursor, k)
    /\ UNCHANGED <<order, state, schedule>>

Next ==
    \/ \E m \in Missions : Register(m) \/ Enqueue(m) \/ Pause(m) \/ Complete(m)
    \/ \E m \in Missions, observed \in Loads : ApplyResourceDecision(m, observed)
    \/ Activate
    \/ TakeNext

\* The supervisor keeps asking for the next action.
Fairness == WF_vars(TakeNext)

Spec == Init /\ [][Next]_vars /\ Fairness
-----------------------------------------------------------------------------
\* The schedule holds the active missions, each as often as its weight says, and they
\* are no more than there are slots, whichever call changed them last: next looks at
\* nothing else to find work.
ScheduleIsSound ==
    /\ ActiveCount(state) <= MaxActive
    /\ schedule = Rebuilt(state)
    /\ cursor \in 1 .. Len(schedule) + 1

\* The cursor goes back to the start without having gone round: activate_ready with a
\* free slot, a pause or a completion, repeated ones included.
ThrownBack == actions' = actions /\ cursor # 1 /\ cursor' = 1

\* An active mission whose queue never runs dry is served again and again, however
\* many actions the other missions queue: next moves its cursor past whom it served.
\* Only a schedule that is rebuilt over and over while the mission is not its first
\* may pass it by.
ActionsAreHandedOut ==
    \A m \in Missions :
        <>[](state[m] = "active" /\ actions[m] > 0)
            => []<><<actions'[m] < actions[m]>>_vars \/ []<><<ThrownBack /\ schedule[1] # m>>_vars
=============================================================================
