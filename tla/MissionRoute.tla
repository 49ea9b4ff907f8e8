---------------------------- MODULE MissionRoute ----------------------------
(***************************************************************************)
(* A route of a mission (domain's route.rs) and the evidence that          *)
(* completes it (evidence.rs).  A transition is first returned as an       *)
(* event and changes the route only when the event is applied, so events   *)
(* of several callers may be in flight at once.                            *)
(***************************************************************************)
EXTENDS Naturals, FiniteSets

CONSTANTS
    Criteria,
    MaxVersion,    \* bound: transitions of a route
    MaxPending     \* bound: events in flight

States == {"Draft", "ReadOnlyExploration", "AwaitingPlanApproval", "Executing", "Verifying",
           "AwaitingAcceptance", "Completed", "Paused", "Blocked", "Abandoned"}

Statuses == {"unverified", "partially_verified", "verified", "not_applicable"}

VARIABLES
    route,         \* id, state, version, the evidence it was completed with
    matrix,        \* per criterion: its status; with no criteria nothing is complete
    pending        \* the events returned and not yet applied

vars == <<route, matrix, pending>>

NewRoute(id) == [id |-> id, state |-> "Draft", version |-> 0, evidence |-> {}]

Init ==
    /\ route = NewRoute(1)
    /\ matrix = [c \in Criteria |-> "unverified"]
    /\ pending = {}

-----------------------------------------------------------------------------
\* allowed_transition
Forward ==
    {<<"Draft", "ReadOnlyExploration">>, <<"ReadOnlyExploration", "AwaitingPlanApproval">>,
     <<"AwaitingPlanApproval", "Executing">>, <<"Executing", "Verifying">>,
     <<"Verifying", "AwaitingAcceptance">>, <<"AwaitingAcceptance", "Completed">>}

Interrupting ==
    {<<s, "Paused">> : s \in States \ {"Completed", "Paused", "Blocked", "Abandoned"}}
        \cup {<<s, "Blocked">> : s \in {"Executing", "Verifying"}}

AllowedTransition(from, to) ==
    \/ <<from, to>> \in Forward \cup Interrupting
    \/ from \in {"Paused", "Blocked"} /\ to = "Executing"

IsTerminal(state) == state \in {"Completed", "Abandoned"}

\* is_complete
IsComplete(statuses) ==
    /\ Criteria # {}
    /\ \A c \in Criteria : statuses[c] \in {"verified", "not_applicable"}

\* EvidenceMatrix::record: a verified criterion needs evidence.
RecordEvidence(c, status, evidenced) ==
    /\ status \in {"verified", "partially_verified"} => evidenced
    /\ matrix' = [matrix EXCEPT ![c] = status]
    /\ UNCHANGED <<route, pending>>

-----------------------------------------------------------------------------
Propose(to, evidence) ==
    /\ Cardinality(pending) < MaxPending
    /\ route.version < MaxVersion
    /\ pending' = pending \cup {[id |-> route.id, from |-> route.state, to |-> to,
                                 version |-> route.version, evidence |-> evidence]}
    /\ UNCHANGED <<route, matrix>>

Transition(target) ==
    /\ target # "Completed"
    /\ AllowedTransition(route.state, target)
    /\ Propose(target, {})

\* With an accepting approval and a copy of the matrix.
CompleteWithEvidence ==
    /\ route.state = "AwaitingAcceptance"
    /\ IsComplete(matrix)
    /\ Propose("Completed", {matrix})

\* With a checkpoint, a reason and evidence of the failure.
Abandon ==
    /\ ~IsTerminal(route.state)
    /\ Propose("Abandoned", {})

\* Mutant: an event is applied to the route it names, whatever happened since.
OfRoute(e) == e.id = route.id

Current(e) == e.id = route.id /\ e.from = route.state /\ e.version = route.version

\* apply_transition and apply_abandonment; a refused event is dropped.
Apply(e) ==
    /\ pending' = pending \ {e}
    /\ route' = IF /\ Current(e)
                   /\ e.to = "Completed" <=> e.evidence # {}
                   /\ \A statuses \in e.evidence : IsComplete(statuses)
                   /\ e.to = "Abandoned" => ~IsTerminal(route.state)
                THEN [route EXCEPT !.state = e.to, !.version = @ + 1,
                                   !.evidence = IF e.evidence = {} THEN @ ELSE e.evidence]
                ELSE route
    /\ UNCHANGED matrix

\* Route::derived: only an abandoned route has a successor.
Derive ==
    /\ route.state = "Abandoned"
    /\ route.id = 1
    /\ route' = NewRoute(2)
    /\ UNCHANGED <<matrix, pending>>

Next ==
    \/ \E c \in Criteria, evidenced \in BOOLEAN :
          \E status \in Statuses : RecordEvidence(c, status, evidenced)
    \/ \E target \in States : Transition(target)
    \/ CompleteWithEvidence
    \/ Abandon
    \/ \E e \in pending : Apply(e)
    \/ Derive

Spec == Init /\ [][Next]_vars
-----------------------------------------------------------------------------
FollowsTable ==
    route'.id = route.id /\ route' # route =>
        /\ ~IsTerminal(route.state)
        /\ AllowedTransition(route.state, route'.state) \/ route'.state = "Abandoned"
        /\ route'.state = "Completed" => \E statuses \in route'.evidence : IsComplete(statuses)

\* Whatever was proposed while other events were in flight, a route only takes the
\* transitions of the table, leaves no terminal state, and is completed only from
\* AwaitingAcceptance and with evidence that was complete when it was handed in: the
\* version an event expects makes a stale one fail, as apply checks no table.
RouteFollowsTable == [][FollowsTable]_vars
=============================================================================
