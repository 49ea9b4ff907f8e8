------------------------------- MODULE Screen -------------------------------
(***************************************************************************)
(* The page, which shows a mission, under names of its own, so that it can *)
(* stand beside the run of an agent.                                       *)
(***************************************************************************)
EXTENDS Integers, Sequences

CONSTANTS
    AgentKinds, MaxEvents, PageCalls,  \* of MissionView
    PageInputs                         \* its bound MaxInputs

VARIABLES ledger, ui, saved, syncing, calls, replies, disturbed, pageCount

page == <<ledger, ui, saved, syncing, calls, replies, disturbed, pageCount>>

View == INSTANCE MissionView
    WITH MaxCalls <- PageCalls, MaxInputs <- PageInputs, inputs <- pageCount

PageSpec == View!Spec
-----------------------------------------------------------------------------
\* The page shows what replaying the ledger up to its sequence gives, unless events
\* were hidden from it or a late reply set its status (reducer.ts).
ViewIsProjection == View!ViewIsProjection

\* The page catches up with the ledger again and again (App.tsx).
ViewCatchesUp == View!ViewCatchesUp
=============================================================================
