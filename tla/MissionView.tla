----------------------------- MODULE MissionView ----------------------------
(***************************************************************************)
(* The mission the desktop shows (App.tsx over mission-store's reducer)    *)
(* against the ledger it is projected from.  The page polls for events,    *)
(* sends commands whose replies carry events too, saves what it shows and  *)
(* reloads it.  The bridge serves one call at a time, in a task of its     *)
(* own: replies may overtake one another, and a call or its reply may be   *)
(* lost.  The service may fail to read the ledger and answer without the   *)
(* events.                                                                 *)
(***************************************************************************)
EXTENDS Integers, Sequences, FiniteSets, Iteration

CONSTANTS
    AgentKinds,    \* the events of runs: among started, completed, interrupted, aborted,
                   \* route_completed, error, other
    MaxEvents,     \* bound: events in the ledger
    MaxCalls,      \* bound: commands on their way at once
    MaxInputs      \* bound: commands, losses, reads that fail and reloads

VARIABLES
    ledger,        \* the kinds of the mission's events
    ui,            \* what the page shows; closed after a discard
    saved,         \* what it has put into localStorage
    syncing,       \* syncMission's pending flag
    calls,
    replies,
    disturbed,     \* history: events were hidden from the page, or a late reply set its status
    inputs

vars == <<ledger, ui, saved, syncing, calls, replies, disturbed, inputs>>

\* emptyMission, as createMission leaves it; gap is needsResync.
NewMission == [open |-> TRUE, last |-> 1, status |-> "idle", gap |-> FALSE]

Init ==
    /\ ledger = <<"other">>
    /\ ui = NewMission
    /\ saved = NewMission
    /\ syncing = FALSE
    /\ calls = {}
    /\ replies = {}
    /\ disturbed = FALSE
    /\ inputs = 0

Input == inputs < MaxInputs /\ inputs' = inputs + 1

-----------------------------------------------------------------------------
(* The service.                                                            *)

\* recovery_required over the first n events: whether a run is active after them.
ActiveAfter(active, kind) ==
    CASE kind = "started" -> TRUE
      [] kind \in {"completed", "aborted", "continued", "abandoned", "terminated"} -> FALSE
      [] OTHER -> active

RecoveryRequired(n) == Iterate(ActiveAfter, FALSE, SubSeq(ledger, 1, n))

Room == Len(ledger) < MaxEvents

\* The run's events, and the pauses of the consumer and of the watchdog.
ServiceAppends(kind) ==
    /\ Room
    /\ ledger' = Append(ledger, kind)
    /\ UNCHANGED <<ui, saved, syncing, calls, replies, disturbed, inputs>>

\* The event a command appends.
KindOf(op) ==
    CASE op = "pause" -> "pause"
      [] op = "terminate" -> "terminated"
      [] op = "continue" -> "continued"
      [] op = "discard" -> "abandoned"
      [] op = "command" -> "other"

\* resolve_recovery needs a recovery to resolve.
Possible(op) == op \in {"continue", "discard"} => RecoveryRequired(Len(ledger))

\* The events after call.after, or none of them when they could not be read.
Reply(call, log, required, read) ==
    [op |-> call.op, after |-> IF read THEN call.after ELSE Len(log), sequence |-> Len(log),
     recovery |-> required, read |-> read]

\* replay_after takes a read error for an empty ledger, and the sequence is the actor's.
ReadLedger(read) == IF read THEN UNCHANGED inputs ELSE Input

\* subscribe_mission replays after what the page has; a command's result replays all.
ServeSubscribe(call, read) ==
    /\ call \in calls
    /\ call.op \in {"sync", "reconnect"}
    /\ ReadLedger(read)
    /\ calls' = calls \ {call}
    /\ replies' = replies \cup {Reply(call, ledger, RecoveryRequired(Len(ledger)), read)}
    /\ UNCHANGED <<ledger, ui, saved, syncing, disturbed>>

\* A command may be refused at any time, which only shows an error.
RefuseCommand(call) ==
    /\ call \in calls
    /\ call.op \notin {"sync", "reconnect"}
    /\ calls' = calls \ {call}
    /\ UNCHANGED <<ledger, ui, saved, syncing, replies, disturbed, inputs>>

ServeCommand(call, read) ==
    /\ call \in calls
    /\ call.op \notin {"sync", "reconnect"}
    /\ Possible(call.op)
    /\ Room
    /\ ReadLedger(read)
    /\ calls' = calls \ {call}
    /\ ledger' = Append(ledger, KindOf(call.op))
    /\ replies' = IF call.heard THEN replies \cup {Reply(call, ledger', FALSE, read)}
                  ELSE replies
    /\ UNCHANGED <<ui, saved, syncing, disturbed>>

Serve ==
    \E call \in calls :
        \/ RefuseCommand(call)
        \/ \E read \in BOOLEAN : ServeSubscribe(call, read) \/ ServeCommand(call, read)

-----------------------------------------------------------------------------
(* The reducer.                                                            *)

\* projectEvent
Projected(status, kind) ==
    CASE kind = "started" -> "running"
      [] kind \in {"completed", "interrupted", "route_completed"} -> "completed"
      [] kind = "pause" -> "paused"
      [] kind = "continued" -> "idle"
      [] kind \in {"aborted", "terminated", "abandoned", "error"} -> "failed"
      [] OTHER -> status

\* Mutant: the event the page has last is not recognised.
ReducedAgain(view, n) ==
    IF n < view.last THEN view
    ELSE IF n # view.last + 1 THEN [view EXCEPT !.gap = TRUE]
    ELSE [view EXCEPT !.last = n, !.status = Projected(@, ledger[n])]

\* reduceMission on an event: an old one is ignored, one after a gap is not applied.
Reduced(view, n) ==
    IF n <= view.last THEN view
    ELSE IF n # view.last + 1 THEN [view EXCEPT !.gap = TRUE]
    ELSE [view EXCEPT !.last = n, !.status = Projected(@, ledger[n])]

\* projectMissionEvents on the events of a reply, and the reply's own sequence.
ProjectedEvents(view, reply) ==
    LET next == Iterate(Reduced, view, [i \in 1..(reply.sequence - reply.after) |-> reply.after + i])
    IN  [next EXCEPT !.last = IF reply.sequence > @ THEN reply.sequence ELSE @]

-----------------------------------------------------------------------------
(* The page.                                                               *)

\* syncMission: one poll at a time.
Sync ==
    /\ ui.open
    /\ ~syncing
    /\ syncing' = TRUE
    /\ calls' = calls \cup {[op |-> "sync", after |-> ui.last, heard |-> TRUE]}
    /\ UNCHANGED <<ledger, ui, saved, replies, disturbed, inputs>>

\* pauseMission and the pause on a lost connection, forceTerminateMission,
\* resumeRecovery, discardRecovery, reconnectRecovery, and the commands that
\* add an event of no consequence here (launch, approval, memory, handoff).
Command(op) ==
    /\ ui.open
    /\ Input
    /\ Cardinality(replies) + Cardinality(calls) < MaxCalls
    /\ calls' = calls \cup {[op |-> op, after |-> IF op = "reconnect" THEN ui.last ELSE 0,
                             heard |-> TRUE]}
    /\ UNCHANGED <<ledger, ui, saved, syncing, replies, disturbed>>

\* Mutant: pending is cleared by a reply only.
SettledByReply(op, lost) == IF op = "sync" /\ ~lost THEN FALSE ELSE syncing

\* The poll's promise is settled, fulfilled or not.
Settled(op, lost) == IF op = "sync" THEN FALSE ELSE syncing

\* The poll shows "Recovery required" over a mission that has not ended; a reconnect
\* shows it over any.
Overlaid(view, reply) ==
    IF reply.recovery /\ (reply.op = "reconnect" \/ view.status \notin {"completed", "failed"})
    THEN [view EXCEPT !.status = "paused"] ELSE view

\* What the page shows once it has the reply.  A pause is shown without projecting.
Shown(view, reply) ==
    CASE reply.op = "pause" -> [view EXCEPT !.last = reply.sequence, !.status = "paused"]
      [] reply.op = "terminate" -> [ProjectedEvents(view, reply) EXCEPT !.status = "failed"]
      [] reply.op = "discard" -> [ProjectedEvents(view, reply) EXCEPT !.open = FALSE]
      [] OTHER -> Overlaid(ProjectedEvents(view, reply), reply)

\* The reply sets a status although the page has a later sequence.
Overtaken(reply) ==
    reply.sequence < ui.last /\ (reply.op \in {"pause", "terminate"} \/ reply.recovery)

\* The reply has a sequence that is new to the page and not the events up to it.
Hides(reply) == ~reply.read /\ ui.last < reply.sequence

TakeReply(reply) ==
    /\ reply \in replies
    /\ replies' = replies \ {reply}
    /\ ui' = IF ui.open THEN Shown(ui, reply) ELSE ui
    /\ saved' = IF ui.open /\ reply.op \in {"sync", "continue", "discard"} THEN ui' ELSE saved
    /\ syncing' = Settled(reply.op, FALSE)
    /\ disturbed' = (disturbed \/ Overtaken(reply) \/ Hides(reply))
    /\ UNCHANGED <<ledger, calls, inputs>>

\* The connection breaks or the deadline passes, before the call is served or after.
CallLost(call) ==
    /\ Input
    /\ call \in calls
    /\ calls' = calls \ {call}
    /\ syncing' = Settled(call.op, TRUE)
    /\ UNCHANGED <<ledger, ui, saved, replies, disturbed>>

ReplyLost(reply) ==
    /\ Input
    /\ reply \in replies
    /\ replies' = replies \ {reply}
    /\ syncing' = Settled(reply.op, TRUE)
    /\ UNCHANGED <<ledger, ui, saved, calls, disturbed>>

\* loadActiveMission: the page starts over from what was saved; the service may still
\* serve the commands of the old one, which nobody hears of.
Reload ==
    /\ Input
    /\ ui' = saved
    /\ syncing' = FALSE
    /\ replies' = {}
    /\ calls' = {[call EXCEPT !.heard = FALSE] :
                    call \in {c \in calls : c.op \notin {"sync", "reconnect"}}}
    /\ UNCHANGED <<ledger, saved, disturbed>>

Next ==
    \/ \E kind \in AgentKinds \cup {"pause"} : ServiceAppends(kind)
    \/ Serve
    \/ Sync
    \/ \E op \in {"pause", "terminate", "continue", "discard", "reconnect", "command"} : Command(op)
    \/ \E reply \in replies : TakeReply(reply) \/ ReplyLost(reply)
    \/ \E call \in calls : CallLost(call)
    \/ Reload

\* The timer of the poll and the bridge keep running.
Polling == Sync \/ Serve \/ \E reply \in replies : TakeReply(reply)

Spec == Init /\ [][Next]_vars /\ WF_vars(Polling)
-----------------------------------------------------------------------------
\* What the first n events alone say.
StatusAt(n) == Iterate(Projected, "idle", SubSeq(ledger, 1, n))

\* However polls, commands, losses and reloads interleave, the page shows the status
\* that replaying the ledger up to its sequence gives, or the pause of a recovery that
\* is required there: no event is skipped, applied twice, or lost behind a reply that
\* sets the status itself (reducer.ts, App.tsx).  It may be wrong only once the service
\* has answered without events that it could not read, or a reply that sets the status
\* has been overtaken by a later one.
ViewIsProjection ==
    \/ disturbed
    \/ /\ ~ui.gap
       /\ \/ ui.status = StatusAt(ui.last)
          \/ ui.status = "paused" /\ RecoveryRequired(ui.last)

\* The page catches up with the ledger again and again, as long as it is open: a lost
\* poll is followed by another (App.tsx's syncMission).
ViewCatchesUp == []<>(ui.last = Len(ledger) \/ ~ui.open)

\* A mission that needs recovery is not shown as completed, once the page has all its
\* events ("No implicit resume or Completed state", docs/preview/codex-task-matrix.md).
RecoveryIsNotCompletion ==
    ui.open /\ ui.last = Len(ledger) /\ RecoveryRequired(Len(ledger)) => ui.status # "completed"
=============================================================================
