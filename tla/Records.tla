------------------------------ MODULE Records -------------------------------
(***************************************************************************)
(* What is recorded and read back: the route of a mission, the merges the  *)
(* user approved, and the read model.  The parts share no state.           *)
(***************************************************************************)
EXTENDS Naturals, Sequences

CONSTANTS
    Criteria, MaxVersion, MaxPending,          \* of MissionRoute
    MaxCommits, MaxApprovals, MergeInputs,     \* of ApprovedMerge
    Subscribers, MaxStored                     \* of EventPipeline

VARIABLES
    route, matrix, pending,
    commits, target, source, preview, approvals, step, merges, mergeCalls,
    events, model, status, seen

routes == <<route, matrix, pending>>
merge == <<commits, target, source, preview, approvals, step, merges, mergeCalls>>
pipeline == <<events, model, status, seen>>

Route == INSTANCE MissionRoute

Merge == INSTANCE ApprovedMerge WITH MaxInputs <- MergeInputs, inputs <- mergeCalls

Pipeline == INSTANCE EventPipeline WITH MaxEvents <- MaxStored, ledger <- events
-----------------------------------------------------------------------------
(***************************************************************************)
(* The properties of the parts, stated in their modules.                   *)
(***************************************************************************)
\* A route takes only the transitions of the table, also with stale events (route.rs).
RouteFollowsTable == Route!RouteFollowsTable

\* An approval is good for one merge, of what was reviewed unless a branch changes after
\* it was looked at (merge.rs).
OneMergePerApproval == Merge!OneMergePerApproval

\* The live read model is what replaying the ledger gives, but for what the ledger
\* redacts (event_pipeline.rs).
ModelIsReplay == Pipeline!ModelIsReplay
=============================================================================
