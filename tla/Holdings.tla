------------------------------ MODULE Holdings ------------------------------
(***************************************************************************)
(* What is held and counted: snapshots and their blobs, the budget of a    *)
(* mission, and memory with its context packs.  The parts share no state.  *)
(***************************************************************************)
EXTENDS Integers, FiniteSets

CONSTANTS
    Paths, Contents, MaxSnapshots, SnapshotInputs,  \* of Snapshots
    Runs, Totals, Requests, Default, BudgetInputs,  \* of MissionBudget
    MaxItems, MaxTokens, MaxHistory                 \* of MemoryStore

ASSUME HoldingsAssumption ==
    /\ IsFiniteSet(Runs)
    /\ Totals \subseteq Nat
    /\ MaxTokens \in Nat
    /\ MaxItems \in Nat

VARIABLES
    project, refs, work, snapshots, restored, lost, snapshotCalls,
    contract, version, limits, used, warned, paused, previous, peaks, base, budgetCalls,
    items, history, pack

snapshot == <<project, refs, work, snapshots, restored, lost, snapshotCalls>>
budget == <<contract, version, limits, used, warned, paused, previous, peaks, base, budgetCalls>>
memory == <<items, history, pack>>

Snapshot == INSTANCE Snapshots
    WITH files <- project, MaxInputs <- SnapshotInputs, inputs <- snapshotCalls

Budget == INSTANCE MissionBudget WITH MaxInputs <- BudgetInputs, inputs <- budgetCalls

Memory == INSTANCE MemoryStore
-----------------------------------------------------------------------------
(***************************************************************************)
(* The properties of the parts, stated in their modules.                   *)
(***************************************************************************)
\* No snapshot loses a blob to the clean-up of another (snapshot.rs).
SnapshotsHoldTheirBlobs == Snapshot!SnapshotsHoldTheirBlobs

\* A token of a run is charged once, in however many reports it comes (budget.rs).
TokensCountedOnce == Budget!TokensCountedOnce

\* The limits of a mission grow only with a later contract version of the user
\* ("budget_increase_requires_a_user_contract_version_change", policy/tests/budget.rs).
IncreaseNeedsContract == Budget!IncreaseNeedsContract

\* Only what the user has confirmed gets into a context pack (memory's recall.rs).
PackWasConfirmed == Memory!PackWasConfirmed
=============================================================================
