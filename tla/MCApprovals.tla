---------------------------- MODULE MCApprovals -----------------------------
(***************************************************************************)
(* MissionActor restricted to the handlers that read or write approvals,   *)
(* and to crashes, for ledgers long enough to hold two whole lives of an   *)
(* approval.                                                               *)
(***************************************************************************)
EXTENDS MissionActor, TLC

ApprovalsNext ==
    \/ Continue
    \/ \E a \in ApprovalIds, action \in Subjects, deadline \in Deadlines :
           GateRequiresApproval(a, action, deadline)
    \/ \E a \in ApprovalIds, action \in Subjects, now \in Times :
           \/ \E shown \in Revisions :
                  \/ \E grant \in Scopes : Approve(a, "User", shown, action, now, grant)
                  \/ Deny(a, "User", shown, action, now)
           \/ AuthorizeOnce(a, action, now)
           \/ AuthorizeByClass(a, action, now)
    \/ \E a \in ApprovalIds, shown \in Revisions : Revoke(a, "User", shown)
    \/ CheckLoadoutChange
    \/ Crash \/ Restart

\* Bound: a ledger grows to its full length with one identifier or under one authority.
Approved == {ledger[i] : i \in {i \in DOMAIN ledger : ledger[i].kind \in ApprovalKinds}}

Narrow ==
    \/ Len(ledger) < MaxLedger
    \/ Cardinality({e.id : e \in Approved}) <= 1
    \/ Cardinality({e.approval.subject.authority : e \in Approved}) <= 1

ApprovalsSpec == Init /\ [][ApprovalsNext /\ Narrow']_vars

Symmetry == Permutations(ApprovalIds) \cup Permutations(Digests)
                \cup Permutations(Authorities)
=============================================================================
