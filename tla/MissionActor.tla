---------------------------- MODULE MissionActor ----------------------------
(***************************************************************************)
(* The mission actor of the supervisor (mission_actor.rs), with its pause  *)
(* controller (pause.rs) and the approval requests it holds (approval.rs), *)
(* over an append-only event ledger that survives a crash of the process.  *)
(*                                                                         *)
(* Every handler runs under the service's missions lock and appends a list *)
(* of events.  Its action checks the guards and makes the first append;    *)
(* what is left to append is in work.  Until the call has returned         *)
(* (work = <<>>) no other handler runs: the next append succeeds, or fails *)
(* and ends the call with an error (the `?' after append), or the process  *)
(* dies.  A handler whose guards fail returns an error and changes nothing.*)
(* The events that create a mission, which no replay looks at, are not in  *)
(* the model's ledger.                                                     *)
(***************************************************************************)
EXTENDS Integers, Sequences, FiniteSets

CONSTANTS
    ApprovalIds,   \* identifiers of approval requests
    Digests,       \* action digests
    Authorities,   \* (action class, contract version, loadout) contexts
    Deadlines,     \* expires_at_ms of the requests the supervisor raises
    Never,         \* expires_at_ms of the requests agents raise (u64::MAX)
    ReadsFail,     \* whether reading the ledger at a restart may fail
    MaxLedger      \* bound: an append to a ledger of this length fails

NoId == "no approval id"

ASSUME ApprovalIdsFinite == IsFiniteSet(ApprovalIds) /\ NoId \notin ApprovalIds
ASSUME NeverIsLate == Never \in Nat /\ Deadlines \subseteq 0 .. Never
ASSUME ReadsFailIsBoolean == ReadsFail \in BOOLEAN
ASSUME MaxLedgerIsNat == MaxLedger \in Nat

NoApproval == [state |-> "None"]

Times == 0 .. Never - 1

Subjects == [digest : Digests, authority : Authorities]

ApprovalStates == {"Pending", "Approved", "Denied", "Revoked", "Consumed"}

Scopes == {"Once", "RouteActionClass"}

Approvals == [state : ApprovalStates, subject : Subjects, scope : Scopes,
              expires_at : 0 .. Never, revision : Nat]

PauseStates == {"Running", "PauseRequested", "PauseAcknowledged", "Paused",
                "PauseTimedOut", "ForceTerminationAvailable", "Terminated"}

\* The pause_requested event an adapter emits once it has interrupted its
\* agent is the kind adapter_paused; replay does not tell the two apart.
PauseKinds == {"pause_requested", "adapter_paused", "pause_acknowledged",
               "pause_timed_out", "force_terminated"}

\* agent_run_completed and agent_run_aborted end a run; a completion whose
\* status is "interrupted" does not.
RunKinds == {"agent_run_started", "agent_run_ended", "agent_run_interrupted"}

ApprovalKinds == {"approval_requested", "approval_resolved",
                  "approval_revoked", "approval_consumed"}

\* audit: every event that no replay looks at and no property names.
Kinds == PauseKinds \cup RunKinds \cup ApprovalKinds
         \cup {"recovery_continued", "recovery_abandoned", "loadout_changed", "audit"}

\* Only an approval event names an approval, and each but an agent's
\* malformed request does.
Events == {e \in [kind : Kinds, id : ApprovalIds \cup {NoId},
                  approval : Approvals \cup {NoApproval}] :
              /\ e.id # NoId => e.kind \in ApprovalKinds /\ e.approval # NoApproval
              /\ e.kind \in ApprovalKinds \ {"approval_requested"} => e.id # NoId}

Event(kind) == [kind |-> kind, id |-> NoId, approval |-> NoApproval]

ApprovalEvent(kind, id, approval) ==
    [kind |-> kind, id |-> id, approval |-> approval]

-----------------------------------------------------------------------------
(***************************************************************************)
(* Replay.  Each replay of the code is a fold in which the last relevant   *)
(* event wins.                                                             *)
(***************************************************************************)
Latest(S) == CHOOSE i \in S : \A j \in S : j <= i

\* Mutant: replay looks only at requests to pause.
PauseIndicesOfRequests(l) ==
    {i \in DOMAIN l : l[i].kind \in {"pause_requested", "adapter_paused"}}

PauseIndices(l) == {i \in DOMAIN l : l[i].kind \in PauseKinds}

\* Mutant: replay takes the event's name for the state.
PauseOfVerbatim(kind) == kind

PauseOf(kind) ==
    CASE kind = "pause_acknowledged" -> "PauseAcknowledged"
      [] kind = "pause_timed_out"    -> "PauseTimedOut"
      [] kind = "force_terminated"   -> "Terminated"
      [] OTHER                       -> "PauseRequested"

ReplayPause(l) ==
    IF PauseIndices(l) = {} THEN "Running"
    ELSE PauseOf(l[Latest(PauseIndices(l))].kind)

RecoveryKinds == {"agent_run_started", "agent_run_ended", "recovery_continued",
                  "recovery_abandoned", "force_terminated"}

RecoveryIndices(l) == {i \in DOMAIN l : l[i].kind \in RecoveryKinds}

RecoveryRequired(l) ==
    /\ RecoveryIndices(l) # {}
    /\ l[Latest(RecoveryIndices(l))].kind = "agent_run_started"

ApprovalIndices(l, id) ==
    {i \in DOMAIN l : l[i].kind \in ApprovalKinds /\ l[i].id = id}

ReplayApproval(l, id) ==
    IF ApprovalIndices(l, id) = {} THEN NoApproval
    ELSE l[Latest(ApprovalIndices(l, id))].approval

ReplayApprovals(l) == [id \in ApprovalIds |-> ReplayApproval(l, id)]

\* replay_approvals fails on an approval event without its approval.
Replayable(l) ==
    \A i \in DOMAIN l : l[i].kind \in ApprovalKinds => l[i].approval # NoApproval

-----------------------------------------------------------------------------
VARIABLES
    ledger,              \* the mission's committed events
    status,              \* "up", "down" (crashed), "failed" (restore refused)
    work,                \* events the current call has still to append
    sequence,            \* MissionActor.sequence
    pause,               \* PauseController.state
    token_counter,       \* PauseController.token_counter
    approvals,           \* MissionActor.approvals
    requires_recovery,   \* MissionActor.requires_recovery
    ui_connected,        \* MissionActor.ui_connected
    dispatched           \* history: the action the last step let through

vars == <<ledger, status, work, sequence, pause, token_counter, approvals,
          requires_recovery, ui_connected, dispatched>>

NoApprovals == [id \in ApprovalIds |-> NoApproval]

NoDispatch == [id |-> NoId]

\* The type of every variable of the actor and of its ledger.
TypeOK ==
    /\ ledger \in Seq(Events)
    /\ status \in {"up", "down", "failed"}
    /\ work \in Seq(Events)
    /\ sequence \in Nat
    /\ pause \in PauseStates
    /\ token_counter \in Nat
    /\ approvals \in [ApprovalIds -> Approvals \cup {NoApproval}]
    /\ requires_recovery \in BOOLEAN
    /\ ui_connected \in BOOLEAN
    /\ dispatched \in [id : ApprovalIds, subject : Subjects, now : Times] \cup {NoDispatch}

Init ==
    /\ ledger = <<>>
    /\ status = "up"
    /\ work = <<>>
    /\ sequence = 0
    /\ pause = "Running"
    /\ token_counter = 0
    /\ approvals = NoApprovals
    /\ requires_recovery = FALSE
    /\ ui_connected = TRUE
    /\ dispatched = NoDispatch

-----------------------------------------------------------------------------
(***************************************************************************)
(* Appending.  The pause controller has changed before its event is        *)
(* appended, so it changes whether or not the append succeeds; approvals,  *)
(* the recovery flag and the sequence change only after the append.        *)
(***************************************************************************)
PauseAfter(e) ==
    CASE e.kind = "pause_requested"    -> "PauseRequested"
      [] e.kind = "pause_acknowledged" -> "Paused"
      [] e.kind = "pause_timed_out"    -> "ForceTerminationAvailable"
      [] e.kind = "force_terminated"   -> "Terminated"
      [] OTHER                         -> pause

TokensAfter(e) ==
    IF e.kind = "pause_timed_out" THEN token_counter + 1 ELSE token_counter

\* Mutant: a consumption is recorded and not applied.
ApprovalsAfterUnconsumed(e) ==
    IF e.id = NoId \/ e.kind = "approval_consumed" THEN approvals
    ELSE [approvals EXCEPT ![e.id] = e.approval]

ApprovalsAfter(e) ==
    IF e.id = NoId THEN approvals ELSE [approvals EXCEPT ![e.id] = e.approval]

\* Mutant: an interrupted completion clears the recovery flag.
RecoveryAfterInterrupted(e) ==
    IF e.kind \in RecoveryKinds \cup {"agent_run_interrupted"}
    THEN e.kind = "agent_run_started"
    ELSE requires_recovery

RecoveryAfter(e) ==
    IF e.kind \in RecoveryKinds THEN e.kind = "agent_run_started"
    ELSE requires_recovery

\* The ledger takes e only as the event after its last one.
Commit(e) ==
    /\ Len(ledger) < MaxLedger
    /\ sequence = Len(ledger)
    /\ ledger' = Append(ledger, e)
    /\ sequence' = sequence + 1
    /\ approvals' = ApprovalsAfter(e)
    /\ requires_recovery' = RecoveryAfter(e)

\* The append fails: a full, busy or broken database, or a payload that the
\* redaction before the insert rejects.
Refuse == UNCHANGED <<ledger, sequence, approvals, requires_recovery>>

\* The rest of a handler: it appends these events one after the other.
Call(events) ==
    /\ pause' = PauseAfter(Head(events))
    /\ token_counter' = TokensAfter(Head(events))
    /\ \/ Commit(Head(events)) /\ work' = Tail(events)
       \/ Refuse /\ work' = <<>>
    /\ UNCHANGED status

Idle == status = "up" /\ work = <<>>

Handler(events) ==
    /\ Idle
    /\ Call(events)
    /\ dispatched' = NoDispatch
    /\ UNCHANGED ui_connected

\* The call in progress makes its next append.
Continue ==
    /\ status = "up"
    /\ work # <<>>
    /\ Call(work)
    /\ dispatched' = NoDispatch
    /\ UNCHANGED ui_connected

-----------------------------------------------------------------------------
(***************************************************************************)
(* Pause and force termination.                                            *)
(***************************************************************************)

\* request_safe_pause as the last part of a handler: only a running mission
\* can be asked to pause, otherwise the handler ends with an error here.
PauseRequest ==
    IF pause = "Running" THEN <<Event("pause_requested")>> ELSE <<>>

RequestSafePause ==
    /\ pause = "Running"
    /\ Handler(PauseRequest)

AcknowledgePause ==
    /\ pause = "PauseRequested"
    /\ Handler(<<Event("pause_acknowledged")>>)

CanTimeOut ==
    pause \in {"PauseRequested", "PauseAcknowledged", "Paused", "PauseTimedOut"}

\* A token that is already on offer is handed out again without an event.
PauseTimeout ==
    /\ CanTimeOut
    /\ Handler(<<Event("pause_timed_out")>>)

RequestForceTermination ==
    /\ CanTimeOut \/ pause = "Running"
    /\ Handler(PauseRequest \o <<Event("pause_timed_out")>>)

\* killed: OwnedProcessTree::terminate succeeded.
ForceTerminate(token, killed) ==
    /\ pause = "ForceTerminationAvailable"
    /\ token = token_counter
    /\ Handler(<<Event(IF killed THEN "force_terminated" ELSE "audit")>>)

SetUiConnected(connected) ==
    /\ Idle
    /\ ui_connected' = connected
    /\ dispatched' = NoDispatch
    /\ IF connected \/ pause # "Running"
       THEN UNCHANGED <<ledger, status, work, sequence, pause, token_counter,
                        approvals, requires_recovery>>
       ELSE Call(PauseRequest)

-----------------------------------------------------------------------------
(***************************************************************************)
(* Approvals.                                                              *)
(***************************************************************************)
NewApproval(subject, expires_at) ==
    [state |-> "Pending", subject |-> subject, scope |-> "Once",
     expires_at |-> expires_at, revision |-> 0]

\* Mutant: a revocation keeps the revision.
TransitionUncounted(approval, state) ==
    [approval EXCEPT !.state = state,
                     !.revision = IF state = "Revoked" THEN @ ELSE @ + 1]

Transition(approval, state) ==
    [approval EXCEPT !.state = state, !.revision = approval.revision + 1]

\* Mutant: only granted approvals are live.
LiveGranted(id) == approvals[id].state = "Approved"

Live(id) == approvals[id].state \in {"Pending", "Approved"}

\* The policy requires an approval: gate_action records the request.
GateRequiresApproval(id, subject, expires_at) ==
    Handler(<<ApprovalEvent("approval_requested", id,
                            NewApproval(subject, expires_at))>>)

\* The policy denies the action or wants the user's judgment.
GateDenies ==
    /\ pause = "Running"
    /\ Handler(PauseRequest)

\* What a decision has to agree with.
Resolvable(id, actor, expected_revision, subject, now) ==
    /\ approvals[id].state = "Pending"
    /\ expected_revision = approvals[id].revision
    /\ actor = "User"
    /\ now < approvals[id].expires_at
    /\ subject = approvals[id].subject

Approve(id, actor, expected_revision, subject, now, scope) ==
    /\ Resolvable(id, actor, expected_revision, subject, now)
    /\ Handler(<<ApprovalEvent("approval_resolved", id,
                   Transition([approvals[id] EXCEPT !.scope = scope], "Approved"))>>)

Deny(id, actor, expected_revision, subject, now) ==
    /\ Resolvable(id, actor, expected_revision, subject, now)
    /\ Handler(<<ApprovalEvent("approval_resolved", id,
                               Transition(approvals[id], "Denied"))>>)

Revoke(id, actor, expected_revision) ==
    /\ Live(id)
    /\ expected_revision = approvals[id].revision
    /\ actor = "User"
    /\ Handler(<<ApprovalEvent("approval_revoked", id,
                               Transition(approvals[id], "Revoked"))>>)

\* Mutant: a one-time grant is not bound to its digest.
AuthorizesAnyDigest(approval, subject, now) ==
    /\ approval.state = "Approved"
    /\ now < approval.expires_at
    /\ subject.authority = approval.subject.authority

Authorizes(approval, subject, now) ==
    /\ approval.state = "Approved"
    /\ now < approval.expires_at
    /\ subject.authority = approval.subject.authority
    /\ approval.scope = "Once" => subject.digest = approval.subject.digest

\* A one-time grant is consumed in the ledger before the action may go.
AuthorizeOnce(id, subject, now) ==
    /\ Authorizes(approvals[id], subject, now)
    /\ approvals[id].scope = "Once"
    /\ Idle
    /\ Call(<<ApprovalEvent("approval_consumed", id,
                            Transition(approvals[id], "Consumed"))>>)
    /\ dispatched' = IF ledger' = ledger THEN NoDispatch
                     ELSE [id |-> id, subject |-> subject, now |-> now]
    /\ UNCHANGED ui_connected

AuthorizeByClass(id, subject, now) ==
    /\ Idle
    /\ Authorizes(approvals[id], subject, now)
    /\ approvals[id].scope = "RouteActionClass"
    /\ dispatched' = [id |-> id, subject |-> subject, now |-> now]
    /\ UNCHANGED <<ledger, status, work, sequence, pause, token_counter,
                   approvals, requires_recovery, ui_connected>>

\* The orders in which a loop may visit a finite set: each element once.
Orders(S) ==
    {f \in [1 .. Cardinality(S) -> S] :
        /\ \A x \in S : \E i \in DOMAIN f : f[i] = x
        /\ \A i, j \in DOMAIN f : f[i] = f[j] => i = j}

Revocations(order) ==
    [i \in DOMAIN order |-> ApprovalEvent("approval_revoked", order[i],
                                          Transition(approvals[order[i]], "Revoked"))]

CheckLoadoutChange ==
    \E order \in Orders({id \in ApprovalIds : Live(id)}) :
        Handler(Revocations(order) \o <<Event("loadout_changed")>> \o PauseRequest)

-----------------------------------------------------------------------------
(***************************************************************************)
(* Budget, identity, agent events, recovery.                               *)
(***************************************************************************)

\* count budget events; exceeded when one of them asks for a pause.
ApplyBudgetSignals(count, exceeded) ==
    Handler([i \in 1 .. count |-> Event("audit")]
            \o (IF exceeded THEN PauseRequest ELSE <<>>))

CheckFlightIdentity == Handler(<<Event("audit")>> \o PauseRequest)

AgentKinds == RunKinds \cup {"adapter_paused", "audit"}

RecordAgentEvent(kind) == Handler(<<Event(kind)>>)

\* An agent's own approval request.  One that carries no usable identifier
\* is recorded all the same, without an approval in its payload.
RecordAgentApproval(id, subject) ==
    Handler(<<ApprovalEvent("approval_requested", id,
                IF id = NoId THEN NoApproval ELSE NewApproval(subject, Never))>>)

RecordEvent == Handler(<<Event("audit")>>)

ResolveRecovery(decision) ==
    /\ requires_recovery
    /\ Handler(<<Event(decision)>>)

-----------------------------------------------------------------------------
(***************************************************************************)
(* The process dies at any point, between two appends of a call included;  *)
(* its memory is lost.  A restart rebuilds the actor from the ledger, or   *)
(* is refused when an approval event cannot be read back.                  *)
(***************************************************************************)
Crash ==
    /\ status = "up"
    /\ status' = "down"
    /\ work' = <<>>
    /\ sequence' = 0
    /\ pause' = "Running"
    /\ token_counter' = 0
    /\ approvals' = NoApprovals
    /\ requires_recovery' = FALSE
    /\ ui_connected' = FALSE
    /\ dispatched' = NoDispatch
    /\ UNCHANGED ledger

\* What replay_after hands out: a read that fails counts as an empty ledger.
Reads == IF ReadsFail THEN {ledger, <<>>} ELSE {ledger}

\* The ledger is read twice, for its length and for its events.
Restart ==
    /\ status = "down"
    /\ \E counted, replayed \in Reads :
           /\ Replayable(replayed)
           /\ sequence' = Len(counted)
           /\ pause' = ReplayPause(replayed)
           /\ approvals' = ReplayApprovals(replayed)
           /\ requires_recovery' = RecoveryRequired(replayed)
           /\ ui_connected' =
                  (ReplayPause(replayed) = "Running" /\ ~RecoveryRequired(replayed))
    /\ status' = "up"
    /\ UNCHANGED <<ledger, work, token_counter, dispatched>>

\* A refused restore can only be tried again.
RestoreFails ==
    /\ status \in {"down", "failed"}
    /\ ~Replayable(ledger)
    /\ status' = "failed"
    /\ UNCHANGED <<ledger, work, sequence, pause, token_counter, approvals,
                   requires_recovery, ui_connected, dispatched>>

-----------------------------------------------------------------------------
Actors == {"User", "Supervisor", "Agent"}

Revisions == 0 .. MaxLedger

Next ==
    \/ Continue
    \/ RequestSafePause \/ AcknowledgePause \/ PauseTimeout
    \/ RequestForceTermination
    \/ \E token \in 0 .. 1, killed \in BOOLEAN : ForceTerminate(token, killed)
    \/ \E connected \in BOOLEAN : SetUiConnected(connected)
    \/ \E id \in ApprovalIds, subject \in Subjects, expires_at \in Deadlines :
           GateRequiresApproval(id, subject, expires_at)
    \/ GateDenies
    \/ \E id \in ApprovalIds, actor \in Actors, revision \in Revisions,
          subject \in Subjects, now \in Times :
           \/ \E scope \in Scopes : Approve(id, actor, revision, subject, now, scope)
           \/ Deny(id, actor, revision, subject, now)
    \/ \E id \in ApprovalIds, actor \in Actors, revision \in Revisions :
           Revoke(id, actor, revision)
    \/ \E id \in ApprovalIds, subject \in Subjects, now \in Times :
           AuthorizeOnce(id, subject, now) \/ AuthorizeByClass(id, subject, now)
    \/ CheckLoadoutChange
    \/ \E count \in 1 .. 2, exceeded \in BOOLEAN : ApplyBudgetSignals(count, exceeded)
    \/ CheckFlightIdentity
    \/ \E kind \in AgentKinds : RecordAgentEvent(kind)
    \/ \E id \in ApprovalIds \cup {NoId}, subject \in Subjects :
           RecordAgentApproval(id, subject)
    \/ RecordEvent
    \/ \E decision \in {"recovery_continued", "recovery_abandoned"} :
           ResolveRecovery(decision)
    \/ Crash \/ Restart \/ RestoreFails

Spec == Init /\ [][Next]_vars

-----------------------------------------------------------------------------
(***************************************************************************)
(* Properties.                                                             *)
(***************************************************************************)

\* Append-then-apply: whatever appends failed and wherever the process died,
\* the approvals, the recovery flag and the sequence that a live actor acts
\* on are what a restart would read back from the ledger.
MemoryMatchesLedger ==
    status = "up" =>
        /\ sequence = Len(ledger)
        /\ approvals = ReplayApprovals(ledger)
        /\ requires_recovery = RecoveryRequired(ledger)

\* A pause the supervisor has recorded is in force whenever the actor is up,
\* across failed appends and restarts: nothing returns the mission to Running.
PauseIsKept ==
    status = "up"
    /\ (\E i \in DOMAIN ledger : ledger[i].kind \in PauseKinds \ {"adapter_paused"})
        => pause # "Running"

\* A one-time grant lets one action through: two consumptions of the same
\* approval id are separated by a new request and a new resolution of it.
ConsumedOncePerApproval ==
    \A i, j \in DOMAIN ledger :
        /\ i < j
        /\ ledger[i].kind = "approval_consumed"
        /\ ledger[j].kind = "approval_consumed"
        /\ ledger[i].id = ledger[j].id
        => \E k, m \in DOMAIN ledger :
               /\ i < k /\ k < m /\ m < j
               /\ ledger[k].kind = "approval_requested" /\ ledger[k].id = ledger[i].id
               /\ ledger[m].kind = "approval_resolved" /\ ledger[m].id = ledger[i].id

Follows(before, after) ==
    \/ before = "Pending" /\ after \in {"Approved", "Denied", "Revoked"}
    \/ before = "Approved" /\ after \in {"Consumed", "Revoked"}

\* Optimistic concurrency on approvals holds in the ledger itself: an
\* approval event other than a request follows the latest earlier event of
\* its id by one revision, with the same subject and deadline, along a legal
\* step of its life cycle.
RevisionsChain ==
    \A j \in DOMAIN ledger :
        ledger[j].kind \in ApprovalKinds \ {"approval_requested"} =>
            LET earlier == {i \in ApprovalIndices(ledger, ledger[j].id) : i < j}
                before  == ledger[Latest(earlier)].approval
                after   == ledger[j].approval
            IN  /\ earlier # {}
                /\ after.revision = before.revision + 1
                /\ after.subject = before.subject
                /\ after.expires_at = before.expires_at
                /\ Follows(before.state, after.state)

\* When loadout_changed is in the ledger, no approval granted or requested
\* under the previous loadout is left: every approval that was live then has
\* been revoked in the ledger before it, whatever failed or died on the way.
LoadoutChangeLeavesNoGrant ==
    \A i \in DOMAIN ledger :
        ledger[i].kind = "loadout_changed" =>
            \A id \in ApprovalIds :
                ReplayApproval(SubSeq(ledger, 1, i), id).state
                    \notin {"Pending", "Approved"}

\* No action before approval: the action the actor has just let through is
\* covered by a resolution in the ledger for the same authority (and the same
\* digest, when granted once) that no later event of the id has withdrawn and
\* that has not expired, and if granted once its consumption is already in the
\* ledger.
DispatchIsCovered ==
    dispatched # NoDispatch =>
        \E i \in ApprovalIndices(ledger, dispatched.id) :
            LET grant == ledger[i].approval
                later == {j \in ApprovalIndices(ledger, dispatched.id) : j > i}
            IN  /\ grant.state = "Approved"
                /\ grant.subject.authority = dispatched.subject.authority
                /\ dispatched.now < grant.expires_at
                /\ IF grant.scope = "Once"
                   THEN /\ grant.subject.digest = dispatched.subject.digest
                        /\ \E j \in later : /\ later = {j}
                                            /\ ledger[j].kind = "approval_consumed"
                   ELSE later = {}

\* What the test ui_disconnect_is_persisted_and_restart_does_not_resume_agent
\* states of a disconnect: a pause that is in force is in the ledger too, so
\* that a restart does not resume.  The pause controller changes before its
\* event is appended.
PauseIsPersisted ==
    status = "up" /\ pause # "Running" => ReplayPause(ledger) # "Running"
=============================================================================
