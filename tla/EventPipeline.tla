---------------------------- MODULE EventPipeline ---------------------------
(***************************************************************************)
(* The event pipeline (event_pipeline.rs): an event is appended to the     *)
(* ledger, which redacts it (sqlcipher.rs), then reduced as it came into   *)
(* the read model (read_model.rs), then sent to the subscribers.  A        *)
(* failure on the way pauses the pipeline; recover builds a new one from   *)
(* the ledger.                                                             *)
(***************************************************************************)
EXTENDS Naturals, Sequences, Iteration

CONSTANTS
    Subscribers,
    MaxEvents      \* bound: events written to the ledger

MissionIds == {"own", "foreign"}

\* The kinds the reducer tells apart; a bad one lacks a field that it reads.
BadKinds == {"bad_contract", "bad_evidence"}

Kinds == {"created", "contract", "route_created", "route_state", "evidence", "agent_message",
          "unknown"} \cup BadKinds

\* What the texts of a payload may be.
Texts == {"plain", "secret", "redacted"}

VARIABLES
    ledger,        \* per mission: the events stored, in order
    model,
    status,        \* Running, Paused, or down when recover failed
    seen           \* per subscriber: {the model it was sent last}, {} if not subscribed

vars == <<ledger, model, status, seen>>

Empty == [mission |-> {}, contract |-> 0, route |-> "none", version |-> 0, evidence |-> <<>>,
          warnings |-> <<>>, applied |-> {}]

\* with_empty, on a new ledger.
Init ==
    /\ ledger = [m \in MissionIds |-> <<>>]
    /\ model = Empty
    /\ status = "Running"
    /\ seen = [s \in Subscribers |-> {}]

-----------------------------------------------------------------------------
\* redact_event: the payload keeps its shape, a secret in it is replaced.
RedactText(text) == IF text = "secret" THEN "redacted" ELSE text

Redacted(e) == [e EXCEPT !.text = RedactText(e.text)]

\* reduce: an event of another mission is an error, and so is a new one that lacks a field.
Applied(m, e) == e.id \in m.applied

Malformed(m, e) ==
    \/ m.mission # {} /\ m.mission # {e.mission}
    \/ ~Applied(m, e) /\ e.kind \in BadKinds

\* An entry of the evidence matrix is the payload, its texts included.
Entry(e) == [id |-> e.id, summary |-> e.text]

\* The fields an event sets.
Projected(m, e) ==
    LET n == [m EXCEPT !.mission = {e.mission}, !.applied = @ \cup {e.id}]
    IN CASE e.kind = "contract" -> [n EXCEPT !.contract = e.version]
         [] e.kind = "route_created" -> [n EXCEPT !.route = "Draft", !.version = 0]
         [] e.kind = "route_state" -> [n EXCEPT !.route = e.state, !.version = e.version]
         [] e.kind = "evidence" -> [n EXCEPT !.evidence = Append(@, Entry(e))]
         [] e.kind \in {"unknown", "agent_message"} -> [n EXCEPT !.warnings = Append(@, e.kind)]
         [] OTHER -> n

Reduce(m, e) == IF Applied(m, e) THEN m ELSE Projected(m, e)

\* replay: the events of a ledger have no gap and no two of a sequence.
Replayable(events) == \A i \in 1 .. Len(events) : events[i].kind \notin BadKinds

Replay(events) == Iterate(Reduce, Empty, events)

-----------------------------------------------------------------------------
\* The ledger has the event, as it would store it.
Stored(e) == \E i \in 1 .. Len(ledger[e.mission]) : ledger[e.mission][i] = Redacted(e)

\* Mutant: the pipeline goes on after a projection error.
StatusKept(m, e) == "Running"

StatusAfter(m, e) == IF Malformed(m, e) THEN "Paused" ELSE "Running"

\* append: the ledger takes an event that it has as a success.  A subscriber that is
\* gone is dropped.
AppendEvent(e, gone) ==
    /\ status = "Running"
    /\ ledger' = IF Stored(e) THEN ledger ELSE [ledger EXCEPT ![e.mission] = Append(@, Redacted(e))]
    /\ status' = StatusAfter(model, e)
    /\ IF Malformed(model, e)
       THEN UNCHANGED <<model, seen>>
       ELSE /\ model' = Reduce(model, e)
            /\ seen' = [s \in Subscribers |->
                           IF seen[s] = {} \/ s \in gone THEN {} ELSE {model'}]

\* The ledger refuses: a sequence that does not follow, another event of that identifier,
\* a payload too large to be redacted, a disk that is full.
AppendFails ==
    /\ status = "Running"
    /\ status' = "Paused"
    /\ UNCHANGED <<ledger, model, seen>>

Subscribe(s) ==
    /\ status # "down"
    /\ seen[s] = {}
    /\ seen' = [seen EXCEPT ![s] = {model}]
    /\ UNCHANGED <<ledger, model, status>>

\* recover, by the next process or in place of a paused pipeline.
Recover ==
    /\ seen' = [s \in Subscribers |-> {}]
    /\ IF Replayable(ledger["own"])
       THEN status' = "Running" /\ model' = Replay(ledger["own"])
       ELSE status' = "down" /\ model' = Empty
    /\ UNCHANGED ledger

\* Identifiers are new, or those of an event sent before.  A caller that has a model
\* may send an event of another mission by mistake.
Written == Len(ledger["own"]) + Len(ledger["foreign"])

Events ==
    {[id |-> Written + 1, mission |-> m, kind |-> k, version |-> Written + 1, state |-> "Executing",
      text |-> t]
        : m \in IF model.mission = {} THEN {"own"} ELSE MissionIds, k \in Kinds,
          t \in {"plain", "secret"}}

\* An event in the ledger, as it may have been sent.
Resent(e) == {[e EXCEPT !.text = t] : t \in {t \in Texts : RedactText(t) = e.text}}

Next ==
    \/ /\ Written < MaxEvents
       /\ \E e \in Events, gone \in SUBSET Subscribers : AppendEvent(e, gone)
    \/ \E m \in MissionIds : \E i \in 1 .. Len(ledger[m]) : \E e \in Resent(ledger[m][i]) : AppendEvent(e, {})
    \/ AppendFails
    \/ \E s \in Subscribers : Subscribe(s)
    \/ Recover

Spec == Init /\ [][Next]_vars
-----------------------------------------------------------------------------
\* The model with its texts as the ledger stores them.
AsStored(m) ==
    [m EXCEPT !.evidence =
        [i \in 1 .. Len(m.evidence) |-> [id |-> m.evidence[i].id, summary |-> RedactText(m.evidence[i].summary)]]]

\* A running pipeline shows what replaying the ledger would show, but for the secrets
\* that the ledger redacts and the live model does not, and so do its subscribers: no
\* event that is stored is missing from the model, and a resent one counts once.
ModelIsReplay ==
    /\ status = "Running" =>
          /\ Replayable(ledger["own"])
          /\ AsStored(model) = Replay(ledger["own"])
    /\ \A s \in Subscribers : seen[s] \in {{}, {model}}
=============================================================================
