--------------------------- MODULE MCMissionActor ---------------------------
EXTENDS MissionActor, TLC

Symmetry == Permutations(ApprovalIds) \cup Permutations(Digests)
=============================================================================
