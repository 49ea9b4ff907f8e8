---------------------------- MODULE ApprovedMerge ---------------------------
(***************************************************************************)
(* How a route's branch gets into the target branch (crates/workspace):    *)
(* checkpoints commit the route's files (checkpoint.rs), a preview shows   *)
(* what a merge would bring (diff.rs), the user approves that preview, and *)
(* the merge is executed with the approval (merge.rs).  Git is shared with *)
(* the user and the agent, who work on both branches all the time, also    *)
(* between two git commands of execute.                                    *)
(***************************************************************************)
EXTENDS Integers, Sequences, FiniteSets

CONSTANTS
    MaxCommits,    \* bound: commits made on either branch
    MaxApprovals,  \* bound: approvals given
    MaxInputs      \* bound: changes by the user and the agent

VARIABLES
    commits,       \* the number of commits made; a commit is its number
    target,        \* the target branch: its head, whether its worktree is clean, checked out
    source,        \* the head of the route's branch
    preview,       \* {} or {the preview shown last}
    approvals,     \* the approvals given: what they are for, consumed or not
    step,          \* which git command execute comes to next, for which approval
    merges,        \* history: per merge commit, what was merged under which approval
    inputs

vars == <<commits, target, source, preview, approvals, step, merges, inputs>>

\* raced (history): a branch changed after execute had looked at it.
Idle == [at |-> "idle", with |-> 0, source |-> 0, into |-> 0, raced |-> FALSE]

\* Both branches start at commit 0.
Init ==
    /\ commits = 0
    /\ target = [head |-> 0, clean |-> TRUE, out |-> TRUE]
    /\ source = 0
    /\ preview = {}
    /\ approvals = <<>>
    /\ step = Idle
    /\ merges = <<>>
    /\ inputs = 0

Input == inputs < MaxInputs /\ inputs' = inputs + 1

NewCommit == commits < MaxCommits /\ commits' = commits + 1

-----------------------------------------------------------------------------
(* Others at work.                                                         *)

\* Execute, once it has passed one of these steps, has been overtaken.
RacedAfter(steps) == IF step.at \in steps THEN [step EXCEPT !.raced = TRUE] ELSE step

Merged == [approval |-> step.with, source |-> step.source, into |-> step.into, raced |-> step.raced]

\* The user commits to the target.  A merge that is staged goes into that commit, and
\* execute is left with nothing to commit.
UserCommits ==
    /\ Input
    /\ target.out
    /\ NewCommit
    /\ target' = [target EXCEPT !.head = commits + 1]
    /\ IF step.at = "merged"
       THEN step' = [step EXCEPT !.at = "nothing"] /\ merges' = Append(merges, Merged)
       ELSE step' = RacedAfter({"clean", "source", "merging"}) /\ UNCHANGED merges
    /\ UNCHANGED <<source, preview, approvals>>

\* git reset --hard
UserResets(head) ==
    /\ Input
    /\ target.out
    /\ target' = [target EXCEPT !.head = head, !.clean = TRUE]
    /\ step' = IF step.at = "merged" THEN [step EXCEPT !.at = "nothing"]
               ELSE RacedAfter({"clean", "source", "merging"})
    /\ UNCHANGED <<commits, source, preview, approvals, merges>>

UserSwitches ==
    /\ Input
    /\ target' = [target EXCEPT !.out = ~@]
    /\ step' = RacedAfter({"head", "clean", "source", "merging", "merged"})
    /\ UNCHANGED <<commits, source, preview, approvals, merges>>

UserEdits ==
    /\ Input
    /\ target' = [target EXCEPT !.clean = ~@]
    /\ UNCHANGED <<commits, source, preview, approvals, step, merges>>

\* GitCheckpoint::create commits everything, an empty commit included; the agent may
\* commit, amend or rebase too.
Checkpoint ==
    /\ NewCommit
    /\ source' = commits + 1
    /\ step' = RacedAfter({"merging"})
    /\ UNCHANGED <<target, preview, approvals, merges, inputs>>

\* The agent takes commits back.
AgentResets(head) ==
    /\ Input
    /\ source' = head
    /\ step' = RacedAfter({"merging"})
    /\ UNCHANGED <<commits, target, preview, approvals, merges>>

-----------------------------------------------------------------------------
(* Preview and approval.                                                   *)

\* DiffPreview::create: the two commits stand for the digest; the forecast of conflicts
\* is shown and not looked at again.
CreatePreview ==
    /\ preview' = {[target |-> target.head, source |-> source]}
    /\ preview' # preview
    /\ UNCHANGED <<commits, target, source, approvals, step, merges, inputs>>

\* MergeApproval::new, for the preview shown.
Approve(actor) ==
    /\ Len(approvals) < MaxApprovals
    /\ \E p \in preview :
          approvals' = Append(approvals, [actor |-> actor, for |-> p, consumed |-> FALSE])
    /\ UNCHANGED <<commits, target, source, preview, step, merges, inputs>>

-----------------------------------------------------------------------------
(* execute: each git command is a step.                                    *)

Goes(at) ==
    /\ step' = [step EXCEPT !.at = at]
    /\ UNCHANGED <<commits, target, source, preview, merges, inputs>>

ValidateApproval(a, p) == ~a.consumed /\ a.actor = "user" /\ a.for = p

Execute(n) ==
    /\ step.at = "idle"
    /\ \E p \in preview : ValidateApproval(approvals[n], p)
    /\ step' = [Idle EXCEPT !.at = "branch", !.with = n]
    /\ UNCHANGED <<commits, target, source, preview, approvals, merges, inputs>>

Reviewed == approvals[step.with].for

\* validate_target_worktree: symbolic-ref
CheckBranch == step.at = "branch" /\ target.out /\ Goes("head") /\ UNCHANGED approvals

\* rev-parse HEAD, of the branch that is checked out by now.
CheckHead ==
    /\ step.at = "head"
    /\ target.out => target.head = Reviewed.target
    /\ Goes("clean")
    /\ UNCHANGED approvals

\* status
CheckClean == step.at = "clean" /\ target.clean /\ Goes("source") /\ UNCHANGED approvals

\* Mutant: the approval is left to be used again.
CheckSourceUnspent ==
    /\ step.at = "source"
    /\ source = Reviewed.source
    /\ Goes("merging")
    /\ UNCHANGED approvals

\* resolve_head of the source; the approval is consumed.
CheckSource ==
    /\ step.at = "source"
    /\ source = Reviewed.source
    /\ approvals' = [approvals EXCEPT ![step.with].consumed = TRUE]
    /\ Goes("merging")

\* A check that fails, or a git command that does.
ExecuteFails ==
    /\ step.at # "idle"
    /\ step' = Idle
    /\ UNCHANGED <<commits, target, source, preview, approvals, merges, inputs>>

\* git merge of the branch, not of the commit, into the branch that is checked out.  A
\* conflict leaves the worktree as it is for the user.
Merge(conflict) ==
    /\ step.at = "merging"
    /\ step' = IF conflict THEN Idle
               ELSE [step EXCEPT !.at = "merged", !.source = source,
                                 !.into = IF target.out THEN target.head ELSE -1]
    /\ target' = [target EXCEPT !.clean = FALSE]
    /\ UNCHANGED <<commits, source, preview, approvals, merges, inputs>>

\* The commit goes to the branch that is checked out by now.
CommitMerge ==
    /\ step.at = "merged"
    /\ NewCommit
    /\ target' = [target EXCEPT !.clean = TRUE, !.head = IF target.out THEN commits + 1 ELSE @]
    /\ merges' = Append(merges, Merged)
    /\ step' = Idle
    /\ UNCHANGED <<source, preview, approvals, inputs>>

Next ==
    \/ UserCommits \/ UserSwitches \/ UserEdits
    \/ \E head \in 0 .. commits : UserResets(head) \/ AgentResets(head)
    \/ Checkpoint
    \/ CreatePreview
    \/ \E actor \in {"user", "agent"} : Approve(actor)
    \/ \E n \in 1 .. Len(approvals) : Execute(n)
    \/ CheckBranch \/ CheckHead \/ CheckClean \/ CheckSource
    \/ \E conflict \in BOOLEAN : Merge(conflict)
    \/ CommitMerge
    \/ ExecuteFails

Spec == Init /\ [][Next]_vars
-----------------------------------------------------------------------------
\* An approval of the user lets in one merge, however often the branches are reset and
\* execute is tried again, and that merge brings the commit that was reviewed into the
\* commit that was reviewed ("a new preview is required", merge.rs).  Another commit may
\* come in only where a branch changes after execute has looked at it.
OneMergePerApproval ==
    /\ \A i, j \in 1 .. Len(merges) : merges[i].approval = merges[j].approval => i = j
    /\ \A i \in 1 .. Len(merges) :
          LET a == approvals[merges[i].approval]
          IN /\ a.actor = "user" /\ a.consumed
             /\ merges[i].raced \/ (merges[i].source = a.for.source /\ merges[i].into = a.for.target)
=============================================================================
