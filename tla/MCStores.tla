------------------------------ MODULE MCStores ------------------------------
(* Stores, for TLC. *)
EXTENDS Stores, TLC

\* The budget asked for in the runs, a dimension left open, and the limits where none is given.
OneRequest == {[tokens |-> 5, calls |-> -1, clock |-> 3]}

SmallDefault == [tokens |-> 10, calls |-> 9, clock |-> 9]

\* Missions, paths and contents are interchangeable.
Symmetry == Permutations(Missions) \cup Permutations(Paths) \cup Permutations(Contents)
=============================================================================
