# Agent Mission Control in TLA+

Agent Mission Control supervises coding agents (Codex, Claude) that work on a
repository. A background supervisor owns each *mission*: it starts and stops the
agent, asks the user before risky actions, pauses on trouble, and records
everything in an encrypted append-only ledger from which a restarted supervisor
rebuilds its state. The desktop shell talks to it over a named pipe and shows the
mission as a projection of the ledger.

This directory models those parts in TLA+, checks them with TLC on small
instances, and proves the most important results with TLAPS for every value of
the constants. `PROJECT.json` names the source lines behind every definition, a
mutant for every property, the hazards of the code, and the findings.

`tlc -config MCTasks.cfg MCTasks` runs a model, `tlapm RunAndScreen_proofs.tla`
checks a proof module. A run takes up to four minutes; a proof module, from nothing,
up to a quarter of an hour.

## The system and its modules

Paths are relative to `src/`; `sup/` is `crates/supervisor/src/`.

| Part | Code | Module | Interacts with |
| --- | --- | --- | --- |
| Mission actor: pause, approvals, recovery flag, ledger of one mission | `sup/mission_actor.rs`, `sup/pause.rs`, `crates/policy/src/approval.rs` | `MissionActor` | ledger, service |
| Mission service: commands, runs, event consumers, watchdog | `sup/mission_service.rs` | `MissionService` | actor, adapters, UI |
| Contract of an agent run | `crates/adapter-core/src/adapter.rs` | `AgentRun` | both adapters, service |
| Codex adapter | `crates/adapter-codex/src/` | `CodexRun` | agent process, service |
| Claude adapter | `crates/adapter-claude/src/` | `ClaudeRun` | agent process, service |
| Pipe, handshake, instance mutex, desktop bridge | `sup/ipc.rs`, `sup/lib.rs`, `sup/single_instance.rs`, `crates/protocol/src/handshake.rs`, `apps/desktop/src-tauri/src/supervisor_bridge.rs` | `SupervisorLink` | desktop, service |
| The page and its store | `apps/desktop/src/App.tsx`, `packages/mission-store/src/reducer.ts` | `MissionView` | ledger through the service |
| Scheduler and resource budget | `sup/scheduler.rs`, `sup/resource_budget.rs` | `Scheduler` | nothing calls it yet |
| Ledger, archive, deletion, blob store | `crates/ledger/src/` | `LedgerStore` | actors, service |
| Budget of a mission | `crates/policy/src/budget.rs` | `MissionBudget` | service, contract events |
| Route and evidence | `crates/domain/src/route.rs`, `evidence.rs` | `MissionRoute` | read model |
| Event pipeline and read model | `sup/event_pipeline.rs`, `crates/domain/src/read_model.rs` | `EventPipeline` | ledger |
| Memory and context pack | `crates/memory/src/` | `MemoryStore` | agent's context |
| Approved merge, snapshots | `crates/workspace/src/` | `ApprovedMerge`, `Snapshots` | git, blob store |

Parts that share no state are grouped, with their constants, variables and
properties under names of their own:

| Group | Parts | Proofs |
| --- | --- | --- |
| `Duties` | `ClaudeRun`, `SupervisorLink` | `Duties_proofs` |
| `Turns` | `Scheduler` | `Records_proofs` |
| `Screen` | `MissionView` | `RunAndScreen_proofs`, with those of `CodexRun` |
| `Records` | `MissionRoute`, `ApprovedMerge`, `EventPipeline` | `Records_proofs` |
| `Holdings` | `Snapshots`, `MissionBudget`, `MemoryStore` | `Holdings_proofs` |

`Tasks` puts parts that must make progress together (`CodexRun`, `Duties`,
`Turns`; the page of `Screen` has a run of its own), `Stores` those that keep something (`LedgerStore`, `Records`,
`Holdings`); `MCTasks`, `MCStores`, `MCMissionActor` and `MCApprovals` give their
constants values for TLC. `MissionActor_invariant`, `LedgerStore_invariant` and
`MissionService_registry` hold the proofs of the larger parts. `Iteration` is the
loop over a vector that read model, page, schedule and context pack are written
with, and `FoldRules` proves what such a loop computes.

Scheduler, event pipeline, memory store, merge, snapshots and the actor's
`gate_action`, `authorize_approved_action` and
`check_loadout_before_model_request` are library code no production path calls
yet; they are modelled as their callers in the tests use them.

## How the modules correspond to the code

**One step, one region.** A step of a model is what the code does between two
points where something else can run: an await, an unlock, a commit, a message, a
death of the process. A handler that runs under one lock is one action; a handler
with several is cut, and a field (`cmd.at`, `phase`, `work`, `cmd` of the store)
names the next piece. Trailing calls of a handler are part of its last step.

**Data.** Payloads, digests, identifiers and texts are model values or the
distinctions the code makes among them. What an outside party decides (the policy
verdict, what an agent writes, which append fails, when the UI goes quiet) is a
choice of an action. Every bound is a constant named `Max...` or a limit of the
code made small (`QueueLimit`, `MaxNonces`, `MaxTries`, `MaxActive`).

### MissionActor

| Variable | Code |
| --- | --- |
| `ledger` | the mission's rows of the encrypted ledger, in order of sequence |
| `status` | `up`; `down` after a crash; `failed` when the ledger cannot be replayed |
| `work` | events a handler has still to append before it returns |
| `sequence`, `pause`, `token_counter`, `approvals`, `requires_recovery`, `ui_connected` | the fields of `MissionActor` and `PauseController` |
| `dispatched` | the action `authorize_approved_action` has just let through |

One action per handler. A handler that appends several events computes them up
front, keeps the rest in `work`, and `Continue` appends the next one: the actor's
lock is held, so nothing else runs in between, but every append may fail, which
ends the handler with what has been written, and the process may die between any
two. `Commit` is *append, then apply*; `Refuse` is the failed append. `PauseAfter`
is applied in both cases, because `request_safe_pause` and its kin change the
controller before they append. `Restart` recomputes the state from the ledger.
Replay (`ReplayPause`, `RecoveryRequired`, `ReplayApproval`) and the live side
(`PauseAfter`, `RecoveryAfter`, `ApprovalsAfter`) are translated separately from
the folds and from the handlers, so that their agreement is a result.

### MissionService

One mission. The actor is reduced to what the service looks at (pause state,
what the log would replay, recovery flag, whether its rows and it exist); an adapter to its
registry, control channel, outbox and timer. Commands arrive one at a time over
the pipe and are cut at their awaits (`Arrive`, then a chain of steps named by
`cmd.at`); each launched run has a consumer (`ConsumerStep`) and an adapter loop
(`TakeControl`); the watchdog looks, pauses and tells in three steps. Every append
may fail. `Restart` is the death of the process and `restore_existing`.

### Adapters

`CodexRun` is the task `CodexAdapter::start` spawns: three requests to start a
turn, then the select loop (control first, else the next line), the interrupt, the
end. Lines other than the awaited response are queued up to `QueueLimit`; a
response that comes after its request was given up is put aside. A read is not
safe to cancel, so a dropped one leaves a torn frame. The agent, the service and
one timer per request for approval run beside it. `ClaudeRun` is the simpler task
of the other adapter. `AgentRun` is the contract: events in order while the run is
on, one answer per request and only to a request that was passed on, one end, and
after it nothing but a timer's report. Both adapters implement it
(`KeepsContract`, `ClaudeKeepsContract`: the abstract specification as a property
under a refinement mapping).

### SupervisorLink and MissionView

`SupervisorLink` has the processes (mutex, ready file, stop, crash), the one
connection with its worker, both directions of the pipe, and the bridge with its
session, deadline and single retry after a launch. Responses carry no number, as
in the code. `MissionView` is the page: polling, commands whose replies carry
events too, the reducer, what is saved and reloaded. The bridge serves calls one at
a time, each in a task of its own, so calls and replies on their way are sets: they
overtake one another, and any may be lost. `replay_after` answers a failed read with
no events while the sequence is the actor's (`ReadLedger`), and the page takes that
sequence over. `disturbed` remembers that this happened where it matters, or that a
reply which sets the status itself came after a later one.

### Stores

`LedgerStore` has the tables (events, audit, reference counts, attachments) and
the directory of blobs, which a crash leaves behind as they are; actors append
beside one running command, and blob operations are cut where the file system and
the database part; `retain` may come at any time for a blob with a row, and `torn`
remembers the rows whose file `delete_if_unreferenced` removed before it was cut
short. `MissionBudget` keeps limits, usage and what a restart makes of
them. `MissionRoute` keeps the events that were proposed and not applied,
`EventPipeline` a ledger, which redacts what it stores, a projection of the events
as they came, and subscribers. `MemoryStore` has items and their review by any
author, of whom only the user is let through. `ApprovedMerge` has the two branches,
previews and approvals; `execute` is one step per git command, and the user and the
agent commit, reset, switch and edit between any two. `Snapshots` has files,
references and a half-made snapshot.

## What the runs show

Parts that share no state are checked in one run: `subject` is chosen in the
initial state, and only that part moves.

| Run | Instance | Properties |
| --- | --- | --- |
| `actor` | all handlers, two approvals, ledger of 4 | `TypeOK`; `MemoryMatchesLedger`: after any failed append and any crash, a live actor's sequence, approvals and recovery flag are what a restart would compute; `PauseIsKept`: once a pause is recorded the actor is never `Running` again |
| `approvals` | approval handlers, two approvals, two digests, two authorities, a deadline that can pass, ledger of 6 (of 5 where two approvals are under two authorities) | `ConsumedOncePerApproval`: between two consumptions of an id lie a new request and a new resolution; `RevisionsChain`: each decision continues the previous one by one revision, same subject, legal step; `LoadoutChangeLeavesNoGrant`: before a recorded `loadout_changed` every live approval is revoked; `DispatchIsCovered`: an action goes through only under a recorded grant for it that has not expired, already consumed if it was for one time |
| `service` | two runs, four inputs | `RegistryFollowsConsumer`: the registered run is the newest with a live consumer; `LaunchReplacesNoRun`: a launch or a handoff, which look for a run several awaits before they register theirs, never take the place of one (a continued recovery may); `LostUiPausesMission`; `EndedRunIsForgotten`; `GivenUpRunIsTold`: a consumer that gives up leaves no agent that was never told to pause; `ForceTerminationKills` |
| `tasks`, Codex | one request, queue of 1, four inputs | `KeepsContract`; `RequestIsAnswered`; `PauseIsReported`: each pause that reaches the run leads to the run being paused, to a new report of the pause or its refusal, or to the end of the run; `TerminateEndsRun` |
| `tasks`, Claude | four inputs | `ClaudeKeepsContract`; `ClaudeTerminateEnds` |
| `tasks`, link | two supervisors, one nonce, two tries, two calls | `AnswerMatchesCommand`: a command gets its own result; `CommandRunsOnce`; `ReadyNamesServer`; `CallReturns` |
| `tasks`, scheduler | three missions, one in the foreground, two slots, any number of calls | `ScheduleIsSound`; `ActionsAreHandedOut`: an active mission with work is served again and again, unless the schedule is rebuilt for ever while the mission is not its first |
| `page` | three events of every kind, two calls at once, three inputs | `ViewIsProjection`: the page shows what replaying the ledger up to its sequence gives, unless `disturbed`; `ViewCatchesUp` |
| `stores`, ledger | two missions, one blob, four events each, two lives of an id, eight inputs | `LedgerPassesIntegrity`; `BatchAllOrNothing`; `CountsAreExact`; `ReferencedBlobHasFile`; `DeletedStaysDeleted`; `ArchivedOnce`; `UsageWithinGlobal` |
| `stores`, others | two or three of everything; a merge with two approvals, three commits and two changes by others | `TokensCountedOnce`, `RouteFollowsTable`, `ModelIsReplay`, `PackWasConfirmed`, `OneMergePerApproval`, `SnapshotsHoldTheirBlobs` |

**Why the bounds are enough.** The interesting histories are short. A ledger of 4
holds a pause, its timeout and the termination with one more event, or a request,
its revocation, `loadout_changed` and the pause, each with a failed append or a
crash at any point; a ledger of 6 holds two whole lives of an approval identifier.
Two runs and four inputs hold a run, an event that requires recovery, the launch of
its successor, and the late end of the first consumer; or a lost UI, a command that
races the watchdog and a failed append. Two supervisors and two calls hold a call
that times out, the late response, and the next call over a new session. Eight
inputs of the store hold a mission created, filled, planned, deleted with a crash
in the middle, and created again. Two changes by others and two approvals hold a
merge, a reset of the target and a second attempt with the same approval, or a race
at both branches. What is proved (below) does not depend on the
bounds at all. Symmetry permutes values the models only compare for equality; no
run with a liveness property uses it.

**Fairness.** Only the program's own tasks are assumed to go on, as the runtime
that schedules them guarantees: weak fairness of the service's commands, consumers
and adapter loops together (`Task`), and of the watchdog's tick; of the task of a
Codex run and of its approval timers (30 s in the code); of the task of a Claude
run; of the bridge, whose I/O deadline is a thread of its own; of the page's
polling; of the caller that takes the scheduler's next action. Nothing is assumed
of users, agents, supervisors that may hang, or failures. Deadlock is checked for
the actor; the other parts may really stop, when nobody uses them.

Each property has a mutant in `PROJECT.json`, a plausible slip in the code (a
consumer removes whatever run is registered, a session is kept after a timeout, a
blob with a row counts as present, ...) under which TLC finds it violated.

### Statements the code does not keep

| Run | What TLC shows |
| --- | --- |
| `pause_not_persisted` | The append of a pause fails: the controller stays `PauseRequested`, the retry is refused, nothing is ever written, and a restart replays `Running`; the test `ui_disconnect_is_persisted_and_restart_does_not_resume_agent` covers only an append that succeeds |
| `unread_ledger` | A failed read at a restart counts as an empty ledger, and a paused mission comes back `Running`, although the task matrix says "Pause is fail-closed" |
| `pause_not_delivered` | A safe pause ends with an error before the adapter is told, when its append fails or the mission was already paused, as it is after a recovery: nothing sets the controller back to `Running` |
| `torn_frame` | The loop's 25 ms tick cancels a read in the middle of a line; the rest is taken for a line of its own and the run is given up |
| `budget_limits` | A contract update without a budget makes the next restart restore the default limits, higher ones included, under no newer contract version |
| `view_recovery` | An interrupted run shows as completed, and the page skips the recovery |

The findings in `PROJECT.json` quote the line each one contradicts.

### What the properties leave open

Four properties hold but for cases the code has no protection against. Each names
its cases exactly, so the property also says that there are no others.

* `OneMergePerApproval`: a branch that changes after the git command that looked at
  it, and before the merge, brings in a commit that was not reviewed, or takes the
  merge elsewhere (`raced`). One approval still lets in one merge.
* `ReferencedBlobHasFile`: a deletion cut short between the file and the row leaves a
  row that can be referred to, without content until the blob is put again (`torn`).
* `ViewIsProjection`: a reply without the events that could not be read makes the page
  skip them, and a late reply to a pause, a termination or a poll with a recovery sets
  a status that later events had replaced (`disturbed`).
* `ActionsAreHandedOut`: each rebuild of the schedule puts the cursor back to the
  start, so rebuilds that never end may starve a mission that is not the first.

`ModelIsReplay` compares the live model with a replay after redaction: until a restart
the live model, and what its subscribers are sent, holds the texts that the ledger
redacts.

## What is proved

For every value of the constants, under the named assumptions of the modules:

| Module | Theorem | States |
| --- | --- | --- |
| `MissionActor_invariant` | `TypeCorrect`, `MemoryMatches`, `PauseSurvives` | `TypeOK`, `MemoryMatchesLedger`, `PauseIsKept` always |
| | `ChainHolds`, `ConsumedOnce`, `LoadoutChangeRevokes`, `DispatchCovered` | `RevisionsChain`, `ConsumedOncePerApproval`, `LoadoutChangeLeavesNoGrant`, `DispatchIsCovered`, for the full set of handlers |
| `MissionService_registry` | `RegistryIsCurrent`, `LaunchTakesFreeRegistry` | `RegistryFollowsConsumer` always, `LaunchReplacesNoRun` |
| `LedgerStore_invariant` | `FilesOutliveReferences`, `CountsStayExact`, `UsageStaysWithinGlobal` | `ReferencedBlobHasFile`, `CountsAreExact`, `UsageWithinGlobal` always |
| | `IntegrityHolds`, `CreationIsAtomic`, `DeletionIsFinal`, `ArchiveIsSingle` | `LedgerPassesIntegrity`, `BatchAllOrNothing`, `DeletedStaysDeleted`, `ArchivedOnce` always |
| `RunAndScreen_proofs` | `CodexKeepsContract` | `KeepsContract`: a run of the Codex adapter implements `AgentRun` |
| | `RequestsAreNotDuplicated` | the invariant it rests on |
| | `PageShowsReplay` | `ViewIsProjection` always |
| `Duties_proofs` | `ClaudeRunKeepsContract` | `ClaudeKeepsContract`: a run of the Claude adapter implements `AgentRun` |
| | `CommandGetsItsAnswer`, `CommandIsNotRepeated`, `ReadyFileNamesServer` | `AnswerMatchesCommand`, `CommandRunsOnce`, `ReadyNamesServer` always |
| `Records_proofs` | `RouteKeepsTable` | `RouteFollowsTable` |
| | `ApprovalIsSpent`, `LiveModelIsReplay`, `ScheduleStaysSound` | `OneMergePerApproval`, `ModelIsReplay`, `ScheduleIsSound` always |
| `Holdings_proofs` | `BlobsAreHeld`, `TokensAreCountedOnce`, `PackIsConfirmed` | `SnapshotsHoldTheirBlobs`, `TokensCountedOnce`, `PackWasConfirmed` always |

Every safety property a passing run checks, action properties and refinements
included, is proved.

**Assumptions.** `MissionActor`: a finite set of identifiers, deadlines and the
bound of the ledger are natural numbers, and, as a hypothesis of each theorem, `ReadsFail = FALSE` (the run
`unread_ledger` shows why). `CodexRun`: a request is not one of the words the model
uses for other lines and events. `LedgerStore`: finitely many missions and blobs,
`"none"` is no mission, and the bound on events is a number. `MissionService`:
`MaxRuns` is a natural number. `Duties`: 0, which stands for no process, is no
process identifier. `Turns`: the slots are a natural number. `Holdings`: finitely
many runs; the totals they report, the token budget of a pack and the number of
items are natural numbers. The other parts need none. TLC evaluates the assumptions
in the runs that extend these modules.

**The arguments.**

*Actor.* `MemoryMatchesLedger` is not inductive: in the middle of
`check_loadout_change` the remaining revocations were computed from approvals held
at its start. `IInv` adds that each event still to append continues the approval
*held now* by one revision, no two of them concern the same approval, and before a
pending `loadout_changed` every live approval has its revocation. Replay of
`Append(l, e)` is replay of `l` updated by `e`; every action is a legal sequence of
appends, a quiet step, a crash or a restart; an append keeps memory equal to
replay and what is left legal; a restart re-establishes equality by definition.
`PauseIsKept` and the ledger properties are inductive relative to `IInv`;
`ConsumedOnce` needs that a consumed approval is pending again only after a new
request, and granted again only after a new resolution too.

*Codex.* The contract forbids a second answer, and the task answers what is
pending; so a request must not become pending twice. `ContractInv` says that a
request waits at one place, in the pipe or in the queue, and not once it was
passed on; that what is pending was passed on and not answered; and that a
response is in the pipe only while one is awaited. The last part is needed because a
response that was given up must not be taken for the next one.

*Route.* An event may be applied when the route has moved on since it was
proposed. `RouteInv` keeps that every pending event was legal where it was
proposed; the version check then makes the route still be there.

*Merge.* Between two git commands of `execute` the user and the agent may do what
they like, and any command may fail. `MergeInv` says that the approval of a merge
under way is the user's, that it is used up once the source was looked at, that no
recorded merge has it, and that the branches are still at the reviewed commits as far
as `execute` has looked at them, unless it was overtaken since.

*Blobs.* A row has its file, is torn, or is the one being deleted (`RowHasFile`).
`ReferencedBlobHasFile` also needs what a command in flight has established: a
`put` past its rename has the file, a deletion past its check holds a count of
zero, and the blobs of a deletion's plan are those attached to its mission, which
the check before the transaction shows. `Exact` is `CountsAreExact` extended to
blobs without a row. The usage theorem follows from it, since an attached blob has
a count above zero.

*Ledger.* The integrity report recomputes hashes and sequences. `LedgerInv` says
that the rows of a mission are numbered from 1 without a gap, are none or at least
the three of its creation, and are there exactly when it was created once more often
than deleted; hence a batch is whole and an actor that outlives a deletion, whose
next sequence is not 1, cannot write. A command about to archive has found
the mission not archived, and no other command runs beside it.

*Link.* Responses have no number, so the match must come from the shape of the
conversation: a session in use is in one of a few positions (quiet, greeting,
exchange), fixed by the point the call has reached (`Conversation`). A new session
starts only when the worker of the old one is off, and the pipe is then empty
(`Session`). `Once` adds that a command not sent yet is nowhere else, neither in
the pipe of an abandoned session, nor with its worker, nor among the dispatched
ones, and that only pings are ever tried again. For the ready file, `ServerInv` says
that every process between the creation of the mutex and its end has the mutex, so
that one at a time writes and removes the file.

*Claude.* The contract needs little of this simpler task: `ClaudeInv` ties the phase
to the map of runs, and the output consists of lines.

*Service.* Runs are numbered in the order of their launch, those not launched have
neither agent nor consumer, and a command about to register a run holds the last
one launched, without a consumer (`Numbered`). Then the late end of an older
consumer removes nothing. A launch or a handoff past its look at the registry still
finds it empty (`LaunchIsFree`): consumers only remove runs, and commands come one at
a time.

*Loops over vectors.* `Iterate` is a recursive function, and what it computes is the
subject of `FoldRules`: along the empty sequence the base, along `Append(s, e)` one
application more. Induction over the length is replaced by the least number at which
a claim would fail; the module takes that every nonempty set of numbers has a least
one as a hypothesis, and its users prove it. The module's operator is a constant, and
each proof about a loop instantiates it with the operator of that loop.

*Read model.* A running pipeline's model, once redacted, is the replay of its ledger,
and it knows exactly the events in it (`PipelineInv`); so an event that is sent twice,
as it was or as it was stored, changes neither. Reducing an event and redacting the
model is reducing the redacted event into the redacted model (`ReduceAsStored`). The mission's own ledger has its first event before one can be sent to another
mission by mistake, so the model belongs to its own mission and refuses the other.

*Page.* Replies overlap, are lost and come late. `PageInv` says that page and saved
page show the replay up to their sequence (or the pause of a recovery required
there), that no call asks for events after those the page has, that every reply on
its way starts at or before the page's sequence or hides something, and that the
reply to a pause or a termination ends with that event. Projecting a reply then skips
what is known and continues without a gap. The step that breaks this is one that
sets `disturbed`, which stays (`ViewInv`).

*Schedule.* `ScheduleInv` keeps the schedule equal to what `rebuild_schedule` would
make, the active missions finite and within the slots, and the cursor in range. A
mission that is not active adds no turn, so registering one changes nothing;
`activate_ready` makes as many missions active as there are free slots.

*Snapshots.* The count of a blob is the number of entries of complete snapshots that
refer to it, of the entries of the one being made, and of those a failed clean-up or
a crash left behind (`SnapshotInv`).

*Budget.* What a report is charged is what it adds to the run's highest total;
`BudgetInv` says that the previous total the code keeps for a run, where it keeps
one, is the highest, and that the tokens used, where they are known, are what the
last correction left and the sum of the highest totals since. The
sum is a fold over a set, whose value does not depend on the order
(`Holdings_proofs` proves this for the fold it uses).

*Memory.* Only a confirmation by the user gives an item the status, and every change raises its
version, so a confirmed item has its confirmation, with its words, in the history
(`MemoryInv`). The pack takes candidates while they fit, one after the other; that its
tokens stay within the budget and that it takes nothing but candidates follows with
the rules for loops.

**Only model-checked.** Liveness, since the prover handles neither fairness nor
`ENABLED`: `RequestIsAnswered`, `PauseIsReported`, `TerminateEndsRun`,
`ClaudeTerminateEnds`, `CallReturns`, `ActionsAreHandedOut`, `ViewCatchesUp`,
`LostUiPausesMission`, `EndedRunIsForgotten`, `GivenUpRunIsTold` and
`ForceTerminationKills`. And the statements the code does not keep, each of which is
a counterexample.

## Not modelled, and why

* Conversions and I/O without state of their own: framing, credentials and the
  pipe's access list, key storage, redaction rules, export, executable probing,
  the CC-Switch bridge, the packaging self-test, schema migrations, rendering, the
  git runner and worktrees, process-tree calls. Where another part depends on one,
  it appears as success or failure.
* The policy engine's decision over paths and command text is an input of the
  actor; recovery packages and memory extraction are formatting, and only whether a
  package is current is kept.
* Code nothing calls: `expire()` of an approval and the desktop's update guard.
* The loadout monitor: a launch stores a fingerprint in it, and only
  `check_loadout_before_model_request`, which nothing calls, reads it. What a change
  does to approvals is in `MissionActor`.
* `retention_plan_for_project` only suggests; a blob put again under another media
  type is refused before anything changes.
* Saturation of budgets near the top of `u64`, poisoned locks, and several missions
  at once in the service: missions share the pipe, the watchdog and the adapters'
  registries, keyed by mission or run, and no command touches two.

Looseness, on purpose:

* `requires_recovery` is true of every live run (`mission_actor.rs:533`), so the page
  shows "Recovery required" over a running mission after its first poll; the model
  shows the same, and no document says otherwise.
* Time is not measured. A timeout may pass whenever what it waits for has not come:
  the 5 s without an announced thread (`ThreadMissing`), the approval timers, the I/O
  deadline. The models have the behaviours of the code and more.
* The actor writes only kinds that `EventKind` has a name for, on which the way through
  the text in the ledger is the identity; unknown kinds are the pipeline's and the
  page's matter.
* A plan is compared as a whole where the code compares a hash over all of its fields.
* The text `resource_reason` of the scheduler is left out; nothing reads it back.
