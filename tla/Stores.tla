------------------------------- MODULE Stores -------------------------------
(***************************************************************************)
(* What is kept and counted: the ledger and its blobs, what is recorded and*)
(* what is held.  The parts share no state here, so each behaviour is one of*)
(* one part, the subject, while the others stay in their initial states.   *)
(***************************************************************************)
EXTENDS LedgerStore, Records, Holdings

CONSTANT Subjects  \* the parts whose behaviours are looked at

VARIABLE subject

all == <<subject, vars, budget, routes, pipeline, memory, merge, snapshot>>

MCInit ==
    /\ subject \in Subjects
    /\ Init
    /\ Budget!Init
    /\ Route!Init
    /\ Pipeline!Init
    /\ Memory!Init
    /\ Merge!Init
    /\ Snapshot!Init
    /\ subject # "snapshot" => \A p, q \in Paths : project[p] = project[q]

Others(changing) ==
    /\ UNCHANGED subject
    /\ changing # "store" => UNCHANGED vars
    /\ changing # "budget" => UNCHANGED budget
    /\ changing # "route" => UNCHANGED routes
    /\ changing # "pipeline" => UNCHANGED pipeline
    /\ changing # "memory" => UNCHANGED memory
    /\ changing # "merge" => UNCHANGED merge
    /\ changing # "snapshot" => UNCHANGED snapshot

MCNext ==
    \/ subject = "store" /\ Next /\ Others("store")
    \/ subject = "budget" /\ Budget!Next /\ Others("budget")
    \/ subject = "route" /\ Route!Next /\ Others("route")
    \/ subject = "pipeline" /\ Pipeline!Next /\ Others("pipeline")
    \/ subject = "memory" /\ Memory!Next /\ Others("memory")
    \/ subject = "merge" /\ Merge!Next /\ Others("merge")
    \/ subject = "snapshot" /\ Snapshot!Next /\ Others("snapshot")

MCSpec == MCInit /\ [][MCNext]_all
=============================================================================
