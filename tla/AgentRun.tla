------------------------------ MODULE AgentRun ------------------------------
(***************************************************************************)
(* What the mission service may rely on when an adapter runs an agent: the *)
(* contract of AgentAdapter and AgentHandle (adapter.rs).  While the run   *)
(* is on, events are sent in order and each request for approval gets at   *)
(* most one answer.  The adapter ends the run once, with a risky event or  *)
(* in silence; after that only a timer's risky event can follow, and no    *)
(* answer reaches the agent.  CodexRun and ClaudeRun implement it.         *)
(***************************************************************************)
EXTENDS Sequences

CONSTANT Requests  \* identifiers of the agent's requests for approval

VARIABLES
    on,            \* the run is in the adapter's registry
    answers,       \* per request: the answer the agent got
    outbox         \* the events sent so far

vars == <<on, answers, outbox>>

\* An event is risky when it requires a safe pause; a request for approval is
\* named by its identifier and is risky as well.
Plain == {"started", "event", "paused"}

Init ==
    /\ on = TRUE
    /\ answers = [q \in Requests |-> "none"]
    /\ outbox = <<>>

Send(e) ==
    /\ on
    /\ outbox' = Append(outbox, e)
    /\ UNCHANGED <<on, answers>>

\* Only a request the service has been told of is answered, and only once.
Answer(q, decision) ==
    /\ on
    /\ answers[q] = "none"
    /\ q \in {outbox[i] : i \in DOMAIN outbox}
    /\ answers' = [answers EXCEPT ![q] = decision]
    /\ UNCHANGED <<on, outbox>>

\* The failure to start is reported in the step that ends the run.
End ==
    /\ on
    /\ on' = FALSE
    /\ outbox' \in {outbox, Append(outbox, "risky")}
    /\ UNCHANGED answers

LateTimer ==
    /\ ~on
    /\ outbox' = Append(outbox, "risky")
    /\ UNCHANGED <<on, answers>>

Next ==
    \/ \E e \in Plain \cup Requests \cup {"risky"} : Send(e)
    \/ \E q \in Requests, decision \in {"accept", "decline"} : Answer(q, decision)
    \/ End
    \/ LateTimer

Spec == Init /\ [][Next]_vars
=============================================================================
