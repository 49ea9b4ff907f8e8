--------------------------- MODULE Records_proofs ---------------------------
(***************************************************************************)
(* Proofs for the parts that record, and for the scheduler, for every      *)
(* value of the constants: routes, approved merges, the read model and the *)
(* turns of missions.                                                      *)
(***************************************************************************)
EXTENDS Records, Turns, Integers, TLAPS
-----------------------------------------------------------------------------
(***************************************************************************)
(* Routes.  Apply does not look at the table, so the invariant says of     *)
(* every event in flight that it was legal where it was proposed, and the  *)
(* check of the state it expects makes it legal where it is applied.       *)
(***************************************************************************)
Matrices == [Criteria -> Route!Statuses]

Routes == [id : {1, 2}, state : Route!States, version : Nat, evidence : SUBSET Matrices]

\* An event in flight is legal in the state it was proposed in.
Legal(e) ==
    /\ e.to \in Route!States
    /\ e.evidence \subseteq Matrices
    /\ ~Route!IsTerminal(e.from)
    /\ Route!AllowedTransition(e.from, e.to) \/ e.to = "Abandoned"

RouteInv ==
    /\ route \in Routes
    /\ matrix \in Matrices
    /\ \A e \in pending : Legal(e)

\* A state with a way on in the table is not terminal.
LEMMA TableLeavesNoTerminal ==
    ASSUME NEW from, NEW to, Route!AllowedTransition(from, to)
    PROVE  ~Route!IsTerminal(from)
<1>1. CASE <<from, to>> \in Route!Forward
  BY <1>1, Zenon DEF Route!Forward, Route!IsTerminal
<1>2. CASE <<from, to>> \in Route!Interrupting
  BY <1>2, Zenon DEF Route!Interrupting, Route!IsTerminal
<1>3. CASE from \in {"Paused", "Blocked"}
  BY <1>3, Zenon DEF Route!IsTerminal
<1>4. QED
  BY <1>1, <1>2, <1>3, Zenon DEF Route!AllowedTransition

\* An event that is proposed is legal where the route is now (route.rs).
LEMMA ProposeKeeps ==
    ASSUME RouteInv, NEW to \in Route!States, NEW evidence \in SUBSET Matrices, Route!Propose(to, evidence),
           ~Route!IsTerminal(route.state),
           Route!AllowedTransition(route.state, to) \/ to = "Abandoned"
    PROVE  RouteInv'
<1> DEFINE new == [id |-> route.id, from |-> route.state, to |-> to,
                   version |-> route.version, evidence |-> evidence]
<1>1. pending' = pending \cup {new} /\ route' = route /\ matrix' = matrix
  BY Zenon DEF Route!Propose
<1>2. Legal(new)
  BY Zenon DEF Legal
<1> HIDE DEF new
<1>3. QED
  BY <1>1, <1>2, Zenon DEF RouteInv

\* What applying an event does to the route.
LEMMA ApplyFacts ==
    ASSUME RouteInv, NEW e \in pending, Route!Apply(e), route' # route
    PROVE  /\ e.from = route.state
           /\ route' = [route EXCEPT !.state = e.to, !.version = @ + 1,
                        !.evidence = IF e.evidence = {} THEN @ ELSE e.evidence]
           /\ route' \in Routes
           /\ route'.state = e.to
           /\ e.to = "Completed" =>
                 /\ route'.evidence = e.evidence
                 /\ \E statuses \in e.evidence : Route!IsComplete(statuses)
<1>1. /\ Route!Current(e)
      /\ e.to = "Completed" <=> e.evidence # {}
      /\ \A statuses \in e.evidence : Route!IsComplete(statuses)
      /\ route' = [route EXCEPT !.state = e.to, !.version = @ + 1,
                   !.evidence = IF e.evidence = {} THEN @ ELSE e.evidence]
  BY Zenon DEF Route!Apply
<1>2. e.to \in Route!States /\ e.evidence \subseteq Matrices
  BY Zenon DEF RouteInv, Legal
<1>3. route' \in Routes
  <2> DEFINE evidence == IF e.evidence = {} THEN route.evidence ELSE e.evidence
             later == route.version + 1
  <2>1. evidence \in SUBSET Matrices /\ later \in Nat
    BY <1>2 DEF RouteInv, Routes
  <2>2. route' = [route EXCEPT !.state = e.to, !.version = later, !.evidence = evidence]
    BY <1>1, Zenon
  <2> HIDE DEF evidence, later
  <2>3. QED
    BY <1>2, <2>1, <2>2, Zenon DEF RouteInv, Routes
<1>4. route'.state = e.to /\ (e.to = "Completed" => route'.evidence = e.evidence)
  BY <1>1, <1>2, Zenon DEF RouteInv, Routes
<1>5. QED
  BY <1>1, <1>3, <1>4, Zenon DEF Route!Current

\* Every step keeps the proposed events legal where they were proposed.
LEMMA RouteStep == RouteInv /\ [Route!Next]_routes => RouteInv'
<1> SUFFICES ASSUME RouteInv, [Route!Next]_routes PROVE RouteInv'
  BY Zenon
<1>1. ASSUME NEW to \in Route!States, Route!Transition(to) PROVE RouteInv'
  BY <1>1, TableLeavesNoTerminal, ProposeKeeps, Zenon DEF Route!Transition
<1>2. CASE Route!CompleteWithEvidence
  <2>1. Route!AllowedTransition(route.state, "Completed") /\ "Completed" \in Route!States
    BY <1>2, Zenon DEF Route!CompleteWithEvidence, Route!AllowedTransition, Route!Forward,
       Route!States
  <2>2. {matrix} \in SUBSET Matrices
    BY Zenon DEF RouteInv
  <2>3. QED
    BY <1>2, <2>1, <2>2, TableLeavesNoTerminal, ProposeKeeps, Zenon DEF
       Route!CompleteWithEvidence
<1>3. CASE Route!Abandon
  BY <1>3, ProposeKeeps, Zenon DEF Route!Abandon, Route!States
<1>4. ASSUME NEW e \in pending, Route!Apply(e) PROVE RouteInv'
  <2>1. pending' \subseteq pending /\ matrix' = matrix
    BY <1>4, Zenon DEF Route!Apply
  <2>2. route' \in Routes
    BY <1>4, ApplyFacts, Zenon DEF RouteInv
  <2>3. QED
    BY <2>1, <2>2, Zenon DEF RouteInv
<1>5. ASSUME NEW c \in Criteria, NEW evidenced \in BOOLEAN, NEW to \in Route!Statuses,
             Route!RecordEvidence(c, to, evidenced)
      PROVE  RouteInv'
  BY <1>5, Zenon DEF Route!RecordEvidence, RouteInv, Matrices
<1>6. CASE Route!Derive
  <2>1. route' = Route!NewRoute(2) /\ UNCHANGED <<matrix, pending>>
    BY <1>6, Zenon DEF Route!Derive
  <2>2. Route!NewRoute(2) \in Routes
    BY Zenon DEF Route!NewRoute, Routes, Route!States
  <2>3. QED
    BY <2>1, <2>2, Zenon DEF RouteInv
<1>7. CASE UNCHANGED routes
  BY <1>7, Zenon DEF routes, RouteInv
<1>8. QED
  BY <1>1, <1>2, <1>3, <1>4, <1>5, <1>6, <1>7, Zenon DEF Route!Next

\* A step that moves the route moves it along the table.
LEMMA RouteStepFollowsTable == RouteInv /\ [Route!Next]_routes => [Route!FollowsTable]_routes
<1> SUFFICES ASSUME RouteInv, Route!Next, route' # route, route'.id = route.id
             PROVE  Route!FollowsTable
  BY Zenon DEF Route!FollowsTable, routes
<1>1. ASSUME NEW e \in pending, Route!Apply(e) PROVE Route!FollowsTable
  <2>1. Legal(e)
    BY Zenon DEF RouteInv
  <2>2. QED
    BY <1>1, <2>1, ApplyFacts, Zenon DEF Legal, Route!FollowsTable
<1>2. ~Route!Derive
  BY DEF Route!Derive, Route!NewRoute
<1>3. QED
  BY <1>1, <1>2, Zenon DEF Route!Next, Route!RecordEvidence, Route!Transition,
     Route!CompleteWithEvidence, Route!Abandon, Route!Propose

\* A route only takes the transitions of the table of route.rs, leaves no terminal state
\* and is completed only with complete evidence, for any criteria and any number of
\* events in flight, stale ones included.
THEOREM RouteKeepsTable == Route!Spec => RouteFollowsTable
<1>1. Route!Init => RouteInv
  <2> SUFFICES ASSUME Route!Init PROVE RouteInv
    BY Zenon
  <2>1. Route!NewRoute(1) \in Routes
    BY Zenon DEF Route!NewRoute, Routes, Route!States
  <2>2. QED
    BY <2>1, Zenon DEF Route!Init, RouteInv, Matrices, Route!Statuses
<1>2. RouteInv /\ [Route!Next]_(Route!vars) => RouteInv'
  BY RouteStep, Zenon DEF routes, Route!vars
<1>3. RouteInv /\ [Route!Next]_(Route!vars) => [Route!FollowsTable]_(Route!vars)
  BY RouteStepFollowsTable, Zenon DEF routes, Route!vars
<1>4. QED
  BY <1>1, <1>2, <1>3, PTL DEF Route!Spec, RouteFollowsTable, Route!RouteFollowsTable

-----------------------------------------------------------------------------
(***************************************************************************)
(* Approved merges.  The invariant follows execute from one git command to *)
(* the next: as long as no branch has changed behind it, what it has       *)
(* looked at is what was reviewed.  The approval is consumed before git    *)
(* merges, so that every merge there is has an approval that was used up,  *)
(* and execute starts only with one that was not.                          *)
(***************************************************************************)
Targets == [head : Nat, clean : BOOLEAN, out : BOOLEAN]

Checking == {"branch", "head", "clean", "source"}

MergeSteps ==
    [at : Checking \cup {"idle", "merging", "merged", "nothing"}, with : Nat, source : Nat,
     into : Int, raced : BOOLEAN]

Previews == [target : Nat, source : Nat]

Approvals == [actor : {"user", "agent"}, for : Previews, consumed : BOOLEAN]

MergeRecords == [approval : Nat, source : Nat, into : Int, raced : BOOLEAN]

MergeType ==
    /\ commits \in Nat
    /\ target \in Targets
    /\ source \in Nat
    /\ preview \in SUBSET Previews
    /\ approvals \in Seq(Approvals)
    /\ step \in MergeSteps
    /\ merges \in Seq(MergeRecords)

\* What execute has looked at is what was reviewed.
OnCourse ==
    LET reviewed == approvals[step.with].for IN
    /\ step.at = "head" => target.out = TRUE
    /\ step.at \in {"clean", "source", "merging"} =>
          target.out = TRUE /\ target.head = reviewed.target
    /\ step.at = "merging" => source = reviewed.source
    /\ step.at = "merged" => step.source = reviewed.source /\ step.into = reviewed.target

StepSound ==
    step.at # "idle" =>
        /\ step.with \in 1 .. Len(approvals)
        /\ approvals[step.with].actor = "user"
        /\ step.at \in Checking => approvals[step.with].consumed = FALSE
        /\ step.at \notin Checking => approvals[step.with].consumed = TRUE
        /\ step.at \in {"merging", "merged"} =>
              \A i \in 1 .. Len(merges) : merges[i].approval # step.with
        /\ step.raced = TRUE \/ OnCourse

\* The approval of a merge is the user's, used up, and for what was merged.
LetsIn(m) ==
    LET a == approvals[m.approval] IN
    /\ m.approval \in 1 .. Len(approvals)
    /\ a.actor = "user"
    /\ a.consumed = TRUE
    /\ m.raced = TRUE \/ (m.source = a.for.source /\ m.into = a.for.target)

MergesSound ==
    /\ \A i \in 1 .. Len(merges) : LetsIn(merges[i])
    /\ \A i, j \in 1 .. Len(merges) : merges[i].approval = merges[j].approval => i = j

MergeInv == MergeType /\ StepSound /\ MergesSound

\* A branch that moves, or whose files change, is a branch.
LEMMA TargetsType ==
    ASSUME NEW t \in Targets, NEW head \in Nat, NEW flag \in BOOLEAN
    PROVE  /\ [t EXCEPT !.head = head] \in Targets
           /\ [t EXCEPT !.head = head, !.clean = flag] \in Targets
           /\ [t EXCEPT !.clean = flag, !.head = head] \in Targets
           /\ [t EXCEPT !.clean = flag] \in Targets
           /\ [t EXCEPT !.out = flag] \in Targets
  BY Zenon DEF Targets

\* Execute goes on from one git command to the next, or is overtaken.
LEMMA StepMoves ==
    ASSUME NEW s \in MergeSteps,
           NEW at \in Checking \cup {"idle", "merging", "merged", "nothing"}
    PROVE  /\ [s EXCEPT !.at = at] \in MergeSteps
           /\ [s EXCEPT !.at = at].at = at
           /\ [s EXCEPT !.at = at].with = s.with
           /\ [s EXCEPT !.at = at].raced = s.raced
           /\ [s EXCEPT !.raced = TRUE] \in MergeSteps
           /\ [s EXCEPT !.raced = TRUE].at = s.at
           /\ [s EXCEPT !.raced = TRUE].with = s.with
           /\ [s EXCEPT !.raced = TRUE].raced = TRUE
  BY Zenon DEF MergeSteps

\* An execute that is overtaken is where it was, and knows it was overtaken.
LEMMA RacedFacts ==
    ASSUME NEW steps, step \in MergeSteps
    PROVE  /\ Merge!RacedAfter(steps) \in MergeSteps
           /\ Merge!RacedAfter(steps).at = step.at
           /\ Merge!RacedAfter(steps).with = step.with
           /\ \/ Merge!RacedAfter(steps) = step /\ step.at \notin steps
              \/ Merge!RacedAfter(steps).raced = TRUE
  BY StepMoves, Zenon DEF Merge!RacedAfter, MergeSteps

\* Execute has ended.
LEMMA IdleFacts == Merge!Idle \in MergeSteps /\ Merge!Idle.at = "idle"
<1>1. 0 \in Int /\ 0 \in Nat
  OBVIOUS
<1>2. QED
  BY <1>1, Zenon DEF Merge!Idle, MergeSteps

\* Neither an approval nor a merge is added or changed.
LEMMA MergesKept ==
    ASSUME MergesSound, UNCHANGED <<approvals, merges>>
    PROVE  MergesSound'
  BY Zenon DEF MergesSound, LetsIn

\* Execute stays where it is, or ends, while a branch may change behind it.
LEMMA OvertakenKeeps ==
    ASSUME MergeInv, UNCHANGED <<approvals, merges>>, MergeType',
           \/ step'.at = "idle"
           \/ /\ step'.at = step.at /\ step'.with = step.with
              /\ step'.raced = TRUE \/ (step' = step /\ (OnCourse => OnCourse'))
           \/ step.at = "merged" /\ step'.at = "nothing" /\ step'.with = step.with
    PROVE  MergeInv'
<1>1. MergesSound'
  BY MergesKept, Zenon DEF MergeInv
<1>2. CASE step'.at = "idle"
  BY <1>1, <1>2, Zenon DEF MergeInv, StepSound
<1>3. CASE /\ step'.at = step.at /\ step'.with = step.with
           /\ step'.raced = TRUE \/ (step' = step /\ (OnCourse => OnCourse'))
  BY <1>1, <1>3, Zenon DEF MergeInv, StepSound
<1>4. CASE step.at = "merged" /\ step'.at = "nothing" /\ step'.with = step.with
  <2>1. "nothing" \notin Checking /\ "merged" \notin Checking /\ "nothing" # "idle"
        /\ "merged" # "idle"
    BY Zenon DEF Checking
  <2>2. "nothing" \notin {"head", "clean", "source", "merging", "merged"}
    BY Zenon
  <2>3. OnCourse'
    BY <1>4, <2>2, Zenon DEF OnCourse
  <2>4. StepSound'
    BY <1>4, <2>1, <2>2, <2>3, Zenon DEF MergeInv, StepSound
  <2>5. QED
    BY <1>1, <2>4, Zenon DEF MergeInv
<1>5. QED
  BY <1>2, <1>3, <1>4, Zenon

\* The user and the agent work on the branches, and execute may fail at any point.
LEMMA MergeKeptByOthers ==
    ASSUME MergeInv,
           \/ Merge!UserCommits /\ step.at # "merged"
           \/ Merge!UserSwitches \/ Merge!UserEdits \/ Merge!Checkpoint \/ Merge!ExecuteFails
           \/ \E head \in 0 .. commits : Merge!UserResets(head) \/ Merge!AgentResets(head)
    PROVE  MergeInv'
<1>1. /\ commits \in Nat /\ commits + 1 \in Nat /\ \A head \in 0 .. commits : head \in Nat
      /\ target \in Targets /\ source \in Nat /\ step \in MergeSteps
  BY DEF MergeInv, MergeType
<1>2. PICK n \in Nat : n = commits + 1
  BY <1>1, Zenon
<1>3. CASE Merge!UserCommits /\ step.at # "merged"
  <2>1. /\ UNCHANGED <<source, preview, approvals, merges>> /\ commits' = n
        /\ target' = [target EXCEPT !.head = n]
        /\ step' = Merge!RacedAfter({"clean", "source", "merging"})
    BY <1>2, <1>3, Zenon DEF Merge!UserCommits, Merge!NewCommit
  <2>2. MergeType' /\ target'.out = target.out
    BY <1>1, <1>2, <2>1, TargetsType, RacedFacts, Zenon DEF MergeInv, MergeType, Targets
  <2>3. step'.raced # TRUE => step' = step /\ (OnCourse => OnCourse')
    BY <1>1, <2>1, <2>2, RacedFacts, Zenon DEF OnCourse
  <2>4. QED
    BY <1>1, <2>1, <2>2, <2>3, RacedFacts, OvertakenKeeps, Zenon
<1>4. ASSUME NEW head \in 0 .. commits, Merge!UserResets(head) PROVE MergeInv'
  <2>1. /\ UNCHANGED <<commits, source, preview, approvals, merges>>
        /\ target' = [target EXCEPT !.head = head, !.clean = TRUE] /\ head \in Nat
    BY <1>1, <1>4, Zenon DEF Merge!UserResets
  <2>2. target' \in Targets /\ target'.out = target.out
    BY <1>1, <2>1, TargetsType, Zenon DEF Targets
  <2>3. CASE step.at = "merged"
    <3>1. step' = [step EXCEPT !.at = "nothing"]
      BY <1>4, <2>3, Zenon DEF Merge!UserResets
    <3>2. step' \in MergeSteps /\ step'.at = "nothing" /\ step'.with = step.with
      BY <1>1, <3>1, StepMoves, Zenon
    <3>3. MergeType'
      BY <2>1, <2>2, <3>2, Zenon DEF MergeInv, MergeType
    <3>4. QED
      BY <2>1, <2>3, <3>2, <3>3, OvertakenKeeps, Zenon
  <2>4. CASE step.at # "merged"
    <3>1. step' = Merge!RacedAfter({"clean", "source", "merging"})
      BY <1>4, <2>4, Zenon DEF Merge!UserResets
    <3>2. MergeType'
      BY <1>1, <2>1, <2>2, <3>1, RacedFacts, Zenon DEF MergeInv, MergeType
    <3>3. step'.raced # TRUE => step' = step /\ (OnCourse => OnCourse')
      BY <1>1, <2>1, <2>2, <3>1, RacedFacts, Zenon DEF OnCourse
    <3>4. QED
      BY <1>1, <2>1, <3>1, <3>2, <3>3, RacedFacts, OvertakenKeeps, Zenon
  <2>5. QED
    BY <2>3, <2>4, Zenon
<1>5. CASE Merge!UserSwitches
  <2>1. /\ UNCHANGED <<commits, source, preview, approvals, merges>>
        /\ target' = [target EXCEPT !.out = ~target.out]
        /\ step' = Merge!RacedAfter({"head", "clean", "source", "merging", "merged"})
    BY <1>5, Zenon DEF Merge!UserSwitches
  <2>2. MergeType'
    BY <1>1, <2>1, TargetsType, RacedFacts, Zenon DEF MergeInv, MergeType
  <2>3. step'.raced # TRUE => step' = step /\ (OnCourse => OnCourse')
    BY <1>1, <2>1, RacedFacts, Zenon DEF OnCourse
  <2>4. QED
    BY <1>1, <2>1, <2>2, <2>3, RacedFacts, OvertakenKeeps, Zenon
<1>6. CASE Merge!UserEdits
  <2>1. /\ UNCHANGED <<commits, source, preview, approvals, step, merges>>
        /\ target' = [target EXCEPT !.clean = ~target.clean]
    BY <1>6, Zenon DEF Merge!UserEdits
  <2>2. MergeType' /\ target'.out = target.out /\ target'.head = target.head
    BY <1>1, <2>1, TargetsType, Zenon DEF MergeInv, MergeType, Targets
  <2>3. OnCourse => OnCourse'
    BY <2>1, <2>2, Zenon DEF OnCourse
  <2>4. QED
    BY <2>1, <2>2, <2>3, OvertakenKeeps, Zenon
<1>7. CASE Merge!Checkpoint \/ \E head \in 0 .. commits : Merge!AgentResets(head)
  <2>1. /\ UNCHANGED <<target, preview, approvals, merges>> /\ commits' \in Nat
        /\ source' \in Nat /\ step' = Merge!RacedAfter({"merging"})
    BY <1>1, <1>7, Zenon DEF Merge!Checkpoint, Merge!AgentResets, Merge!NewCommit
  <2>2. MergeType'
    BY <1>1, <2>1, RacedFacts, Zenon DEF MergeInv, MergeType
  <2>3. step'.raced # TRUE => step' = step /\ (OnCourse => OnCourse')
    BY <1>1, <2>1, RacedFacts, Zenon DEF OnCourse
  <2>4. QED
    BY <1>1, <2>1, <2>2, <2>3, RacedFacts, OvertakenKeeps, Zenon
<1>8. CASE Merge!ExecuteFails
  BY <1>8, IdleFacts, OvertakenKeeps, Zenon DEF Merge!ExecuteFails, MergeInv, MergeType
<1>9. QED
  BY <1>3, <1>4, <1>5, <1>6, <1>7, <1>8, Zenon

\* A preview shows the heads as they are (diff.rs).
LEMMA MergeKeptByPreview ==
    ASSUME MergeInv, Merge!CreatePreview
    PROVE  MergeInv'
<1>1. /\ preview' = {[target |-> target.head, source |-> source]}
      /\ UNCHANGED <<commits, target, source, approvals, step, merges>>
  BY Zenon DEF Merge!CreatePreview
<1>2. target.head \in Nat /\ source \in Nat
  BY Zenon DEF MergeInv, MergeType, Targets
<1>3. MergeType'
  <2>1. [target |-> target.head, source |-> source] \in Previews
    BY <1>2, Zenon DEF Previews
  <2>2. QED
    BY <1>1, <2>1, Zenon DEF MergeInv, MergeType
<1>4. OnCourse => OnCourse'
  BY <1>1, Zenon DEF OnCourse
<1>5. QED
  BY <1>1, <1>3, <1>4, OvertakenKeeps, Zenon

\* An approval is for the preview that is shown (merge.rs).
LEMMA MergeKeptByApprove ==
    ASSUME MergeInv, NEW actor \in {"user", "agent"}, Merge!Approve(actor)
    PROVE  MergeInv'
<1>1. PICK p \in preview :
         approvals' = Append(approvals, [actor |-> actor, for |-> p, consumed |-> FALSE])
  BY Zenon DEF Merge!Approve
<1> DEFINE a == [actor |-> actor, for |-> p, consumed |-> FALSE]
<1>2. UNCHANGED <<commits, target, source, preview, step, merges>>
  BY Zenon DEF Merge!Approve
<1>3. a \in Approvals
  BY Zenon DEF MergeInv, MergeType, Approvals
<1>4. approvals \in Seq(Approvals) /\ approvals' = Append(approvals, a)
  BY <1>1, Zenon DEF MergeInv, MergeType
<1> HIDE DEF a
<1>5. /\ approvals' \in Seq(Approvals)
      /\ \A n \in 1 .. Len(approvals) : n \in 1 .. Len(approvals') /\ approvals'[n] = approvals[n]
  BY <1>3, <1>4
<1>6. MergeType'
  BY <1>2, <1>5, Zenon DEF MergeInv, MergeType
<1>7. StepSound'
  BY <1>2, <1>5, Zenon DEF MergeInv, StepSound, OnCourse
<1>8. \A m : LetsIn(m) => LetsIn(m)'
  BY <1>5, Zenon DEF LetsIn
<1>9. MergesSound'
  BY <1>2, <1>8, Zenon DEF MergeInv, MergesSound
<1>10. QED
  BY <1>6, <1>7, <1>9, Zenon DEF MergeInv

\* Execute starts with an approval of the user that was not used (merge.rs).
LEMMA MergeKeptByExecute ==
    ASSUME MergeInv, NEW n \in 1 .. Len(approvals), Merge!Execute(n)
    PROVE  MergeInv'
<1>1. /\ step' = [Merge!Idle EXCEPT !.at = "branch", !.with = n]
      /\ UNCHANGED <<commits, target, source, preview, approvals, merges>>
      /\ ~approvals[n].consumed /\ approvals[n].actor = "user"
  BY Zenon DEF Merge!Execute, Merge!ValidateApproval
<1>2. n \in Nat /\ approvals[n] \in Approvals
  BY DEF MergeInv, MergeType
<1>3. step' \in MergeSteps /\ step'.at = "branch" /\ step'.with = n
  <2>1. 0 \in Int /\ 0 \in Nat
    OBVIOUS
  <2>2. QED
    BY <1>1, <1>2, <2>1, Zenon DEF Merge!Idle, MergeSteps, Checking
<1>4. "branch" \in Checking
      /\ "branch" \notin {"idle", "head", "clean", "source", "merging", "merged"}
  BY Zenon DEF Checking
<1>5. approvals[n].consumed = FALSE
  BY <1>1, <1>2, Zenon DEF Approvals
<1>6. StepSound'
  BY <1>1, <1>3, <1>4, <1>5, Zenon DEF StepSound, OnCourse
<1>7. QED
  BY <1>1, <1>3, <1>6, MergesKept, Zenon DEF MergeInv, MergeType

\* A check passes that uses nothing up, and execute goes on.
LEMMA MergeKeptByCheck ==
    ASSUME MergeInv, Merge!CheckBranch \/ Merge!CheckHead \/ Merge!CheckClean
    PROVE  MergeInv'
<1>1. UNCHANGED <<commits, target, source, preview, approvals, merges>>
  BY Zenon DEF Merge!CheckBranch, Merge!CheckHead, Merge!CheckClean, Merge!Goes
<1>2. step \in MergeSteps /\ target \in Targets
  BY Zenon DEF MergeInv, MergeType
<1>3. PICK at \in {"head", "clean", "source"} :
        /\ step' = [step EXCEPT !.at = at]
        /\ step.at = CASE at = "head" -> "branch" [] at = "clean" -> "head"
                       [] at = "source" -> "clean"
        /\ at = "head" => target.out
        /\ at = "clean" => (target.out => target.head = approvals[step.with].for.target)
  BY Zenon DEF Merge!CheckBranch, Merge!CheckHead, Merge!CheckClean, Merge!Goes,
     Merge!Reviewed
<1>4. /\ step' \in MergeSteps /\ step'.at = at /\ step'.with = step.with
      /\ step'.raced = step.raced
  BY <1>2, <1>3, StepMoves, Zenon DEF Checking
<1>5. /\ at \in Checking /\ step.at \in Checking /\ step.at # "idle"
      /\ at \notin {"idle", "merging", "merged"}
  BY <1>3, Zenon DEF Checking
<1>6. OnCourse => OnCourse'
  <2>1. target.out \in BOOLEAN
    BY <1>2, Zenon DEF Targets
  <2>2. QED
    BY <1>1, <1>3, <1>4, <1>5, <2>1, Zenon DEF OnCourse
<1>7. StepSound'
  BY <1>1, <1>4, <1>5, <1>6, Zenon DEF MergeInv, StepSound
<1>8. QED
  BY <1>1, <1>4, <1>7, MergesKept, Zenon DEF MergeInv, MergeType

\* The last check uses the approval up, which no merge made before has (merge.rs).
LEMMA MergeKeptByConsume ==
    ASSUME MergeInv, Merge!CheckSource
    PROVE  MergeInv'
<1> DEFINE n == step.with
           used == [approvals[n] EXCEPT !.consumed = TRUE]
<1>1. /\ step.at = "source" /\ source = approvals[n].for.source
      /\ approvals' = [approvals EXCEPT ![n].consumed = TRUE]
      /\ step' = [step EXCEPT !.at = "merging"]
      /\ UNCHANGED <<commits, target, source, preview, merges>>
  BY Zenon DEF Merge!CheckSource, Merge!Goes, Merge!Reviewed
<1>2. /\ step' \in MergeSteps /\ step'.at = "merging" /\ step'.with = n
      /\ step'.raced = step.raced
  BY <1>1, StepMoves, Zenon DEF MergeInv, MergeType
<1>3. "source" \in Checking /\ "merging" \notin Checking /\ "source" # "idle"
      /\ "merging" \notin {"idle", "head", "merged"}
  BY Zenon DEF Checking
<1>4. /\ n \in 1 .. Len(approvals) /\ approvals[n].consumed = FALSE
      /\ approvals[n].actor = "user"
  BY <1>1, <1>3, Zenon DEF MergeInv, StepSound
<1>5. approvals \in Seq(Approvals) /\ approvals[n] \in Approvals
  BY <1>4 DEF MergeInv, MergeType
<1>6. used \in Approvals /\ used.consumed = TRUE /\ used.for = approvals[n].for
      /\ used.actor = approvals[n].actor
  BY <1>5, Zenon DEF Approvals
<1>7. approvals' = [approvals EXCEPT ![n] = used]
  BY <1>1, Zenon
<1> HIDE DEF used, n
<1>8. /\ approvals' \in Seq(Approvals) /\ Len(approvals') = Len(approvals)
      /\ approvals'[n] = used
      /\ \A k \in 1 .. Len(approvals) : k # n => approvals'[k] = approvals[k]
  BY <1>4, <1>5, <1>6, <1>7
<1>9. \A i \in 1 .. Len(merges) : merges[i].approval # n
  BY <1>4, Zenon DEF MergeInv, MergesSound, LetsIn
<1>10. OnCourse => OnCourse'
  BY <1>1, <1>2, <1>3, <1>6, <1>8, Zenon DEF OnCourse, n
<1>11. StepSound'
  BY <1>1, <1>2, <1>3, <1>4, <1>6, <1>8, <1>9, <1>10, Zenon DEF MergeInv, StepSound
<1>12. MergesSound'
  <2>1. \A m : LetsIn(m) => LetsIn(m)'
    BY <1>6, <1>8, Zenon DEF LetsIn
  <2>2. QED
    BY <1>1, <2>1, Zenon DEF MergeInv, MergesSound
<1>13. MergeType'
  BY <1>1, <1>2, <1>8, Zenon DEF MergeInv, MergeType
<1>14. QED
  BY <1>11, <1>12, <1>13, Zenon DEF MergeInv

\* git merges the branch as it is by now into what is checked out by now (merge.rs).
LEMMA MergeKeptByMerge ==
    ASSUME MergeInv, NEW conflict \in BOOLEAN, Merge!Merge(conflict)
    PROVE  MergeInv'
<1> DEFINE into == IF target.out THEN target.head ELSE -1
<1>1. /\ UNCHANGED <<commits, source, preview, approvals, merges>> /\ step.at = "merging"
      /\ target' = [target EXCEPT !.clean = FALSE]
      /\ \/ step' = Merge!Idle
         \/ step' = [step EXCEPT !.at = "merged", !.source = source, !.into = into]
  BY Zenon DEF Merge!Merge
<1>2. step \in MergeSteps /\ source \in Nat /\ target \in Targets /\ target' \in Targets
  BY <1>1, TargetsType, Zenon DEF MergeInv, MergeType, Targets
<1>3. CASE step' = Merge!Idle
  <2>1. step' \in MergeSteps /\ step'.at = "idle"
    BY <1>3, IdleFacts, Zenon
  <2>2. MergeType'
    BY <1>1, <1>2, <2>1, Zenon DEF MergeInv, MergeType
  <2>3. QED
    BY <1>1, <2>1, <2>2, OvertakenKeeps, Zenon
<1>4. CASE step' = [step EXCEPT !.at = "merged", !.source = source, !.into = into]
  <2>1. into \in Int
    <3>1. target.head \in Nat
      BY <1>2, Zenon DEF Targets
    <3>2. QED
      BY <3>1
  <2>2. target.out = TRUE => into = target.head
    BY Zenon
  <2> HIDE DEF into
  <2>3. /\ step' \in MergeSteps /\ step'.at = "merged" /\ step'.with = step.with
        /\ step'.source = source /\ step'.into = into /\ step'.raced = step.raced
    BY <1>2, <1>4, <2>1, Zenon DEF MergeSteps
  <2>4. "merging" \notin Checking /\ "merged" \notin Checking
        /\ "merging" # "idle" /\ "merged" \notin {"idle", "head", "clean", "source", "merging"}
    BY Zenon DEF Checking
  <2>5. OnCourse => OnCourse'
    BY <1>1, <2>2, <2>3, <2>4, Zenon DEF OnCourse
  <2>6. StepSound'
    BY <1>1, <2>3, <2>4, <2>5, Zenon DEF MergeInv, StepSound
  <2>7. QED
    BY <1>1, <1>2, <2>3, <2>6, MergesKept, Zenon DEF MergeInv, MergeType
<1>5. QED
  BY <1>1, <1>3, <1>4, Zenon

\* The merge is committed, by execute or with a commit of the user, under an approval no
\* other merge has (merge.rs).
LEMMA MergeKeptByCommit ==
    ASSUME MergeInv, Merge!CommitMerge \/ (Merge!UserCommits /\ step.at = "merged")
    PROVE  MergeInv'
<1> DEFINE m == [approval |-> step.with, source |-> step.source, into |-> step.into,
                 raced |-> step.raced]
<1>1. /\ step.at = "merged"
      /\ UNCHANGED <<source, preview, approvals>>
      /\ step' = Merge!Idle \/ step' = [step EXCEPT !.at = "nothing"]
      /\ merges' = Append(merges, m)
      /\ commits' = commits + 1
  BY Zenon DEF Merge!CommitMerge, Merge!UserCommits, Merge!NewCommit, Merge!Merged
<1>2. step \in MergeSteps /\ target \in Targets /\ commits + 1 \in Nat
  BY DEF MergeInv, MergeType
<1>3. target' \in Targets
  <2>1. PICK n \in Nat : n = commits + 1
    BY <1>2, Zenon
  <2>2. target.head \in Nat
    BY <1>2, Zenon DEF Targets
  <2>3. \E head \in Nat : \/ target' = [target EXCEPT !.head = head]
                          \/ target' = [target EXCEPT !.clean = TRUE, !.head = head]
    BY <2>1, <2>2, Zenon DEF Merge!CommitMerge, Merge!UserCommits
  <2>4. QED
    BY <1>2, <2>3, TargetsType, Zenon
<1>4. step' \in MergeSteps /\ (step'.at = "idle" \/ (step'.at = "nothing" /\ step'.with = step.with))
  <2>1. CASE step' = Merge!Idle
    BY <2>1, IdleFacts, Zenon
  <2>2. CASE step' = [step EXCEPT !.at = "nothing"]
    BY <1>2, <2>2, StepMoves, Zenon
  <2>3. QED
    BY <1>1, <2>1, <2>2, Zenon
<1>5. "nothing" \notin Checking /\ "merged" \notin Checking /\ "merged" # "idle"
      /\ "nothing" \notin {"idle", "head", "clean", "source", "merging", "merged"}
  BY Zenon DEF Checking
<1>6. m \in MergeRecords
  BY <1>2, Zenon DEF MergeSteps, MergeRecords
<1>7. LetsIn(m) /\ \A i \in 1 .. Len(merges) : merges[i].approval # m.approval
  BY <1>1, <1>5, Zenon DEF MergeInv, StepSound, OnCourse, LetsIn
<1>8. StepSound'
  BY <1>1, <1>4, <1>5, Zenon DEF MergeInv, StepSound, OnCourse
<1>9. merges \in Seq(MergeRecords)
  BY Zenon DEF MergeInv, MergeType
<1> HIDE DEF m
<1>10. /\ merges' \in Seq(MergeRecords)
       /\ Len(merges) \in Nat /\ Len(merges') = Len(merges) + 1
       /\ merges'[Len(merges) + 1] = m
       /\ \A i \in 1 .. Len(merges) : merges'[i] = merges[i]
  BY <1>1, <1>6, <1>9
<1>11. \A i \in 1 .. Len(merges') : i = Len(merges) + 1 \/ i \in 1 .. Len(merges)
  BY <1>10
<1>12. \A r : LetsIn(r) => LetsIn(r)'
  BY <1>1, Zenon DEF LetsIn
<1>13. MergesSound'
  <2>1. (\A i \in 1 .. Len(merges) : LetsIn(merges[i]))'
    BY <1>7, <1>10, <1>11, <1>12, Zenon DEF MergeInv, MergesSound
  <2>2. \A i, j \in 1 .. Len(merges') : merges'[i].approval = merges'[j].approval => i = j
    BY <1>7, <1>10, <1>11, Zenon DEF MergeInv, MergesSound
  <2>3. QED
    BY <2>1, <2>2, Zenon DEF MergesSound
<1>14. MergeType'
  BY <1>1, <1>2, <1>3, <1>4, <1>10, Zenon DEF MergeInv, MergeType
<1>15. QED
  BY <1>8, <1>13, <1>14, Zenon DEF MergeInv

\* Every step keeps merges and approvals in agreement.
LEMMA MergeStep == MergeInv /\ [Merge!Next]_merge => MergeInv'
<1> SUFFICES ASSUME MergeInv, [Merge!Next]_merge PROVE MergeInv'
  OBVIOUS
<1>1. CASE UNCHANGED merge
  <2>1. MergeType' /\ UNCHANGED <<approvals, merges, step>> /\ (OnCourse => OnCourse')
    BY <1>1, Zenon DEF merge, MergeInv, MergeType, OnCourse
  <2>2. QED
    BY <2>1, OvertakenKeeps, Zenon
<1>2. QED
  BY <1>1, MergeKeptByOthers, MergeKeptByPreview, MergeKeptByApprove, MergeKeptByExecute,
     MergeKeptByCheck, MergeKeptByConsume, MergeKeptByMerge, MergeKeptByCommit, Zenon
     DEF Merge!Next

\* An approval of the user lets in at most one merge, of the commit that was reviewed
\* into the commit that was reviewed unless a branch changed after execute had looked at
\* it, however often branches are reset and execute is tried again, for any number of
\* commits and approvals (merge.rs).
THEOREM ApprovalIsSpent == Merge!Spec => []OneMergePerApproval
<1>1. Merge!Init => MergeInv
  <2> SUFFICES ASSUME Merge!Init PROVE MergeInv
    OBVIOUS
  <2>1. /\ target = [head |-> 0, clean |-> TRUE, out |-> TRUE] /\ commits = 0 /\ source = 0
        /\ preview = {} /\ approvals = <<>> /\ step = Merge!Idle /\ merges = <<>>
    BY Zenon DEF Merge!Init
  <2>2. target \in Targets
    BY <2>1 DEF Targets
  <2>3. /\ commits \in Nat /\ source \in Nat
        /\ approvals \in Seq(Approvals) /\ merges \in Seq(MergeRecords) /\ Len(merges) = 0
        /\ 1 .. Len(merges) = {}
    BY <2>1
  <2>4. MergeType /\ step.at = "idle"
    BY <2>1, <2>2, <2>3, IdleFacts, Zenon DEF MergeType
  <2>5. StepSound /\ MergesSound
    BY <2>3, <2>4, Zenon DEF StepSound, MergesSound
  <2>6. QED
    BY <2>4, <2>5, Zenon DEF MergeInv
<1>2. MergeInv /\ [Merge!Next]_(Merge!vars) => MergeInv'
  BY MergeStep, Zenon DEF merge, Merge!vars
<1>3. MergeInv => OneMergePerApproval
  BY Zenon DEF MergeInv, MergesSound, LetsIn, OneMergePerApproval, Merge!OneMergePerApproval
<1>4. QED
  BY <1>1, <1>2, <1>3, PTL DEF Merge!Spec

-----------------------------------------------------------------------------
(***************************************************************************)
(* The read model.  What replaying the ledger gives is told step by step   *)
(* whether or not the pipeline runs, so that recover finds it again.  The  *)
(* ledger holds the event redacted and the model the event as it came:     *)
(* reducing and then redacting is redacting and then reducing.             *)
(***************************************************************************)
Stored == [id : Nat, mission : Pipeline!MissionIds, kind : Pipeline!Kinds, version : Nat,
           state : {"Executing"}, text : Pipeline!Texts]

\* One more event is one more step of the reducer.
ReplaysInSteps ==
    \A log \in Seq(Stored), e \in Stored :
        Pipeline!Replay(Append(log, e)) = Pipeline!Reduce(Pipeline!Replay(log), e)

Entries == [id : Nat, summary : Pipeline!Texts]

Models == [mission : SUBSET Pipeline!MissionIds, contract : Nat,
           route : {"none", "Draft", "Executing"}, version : Nat, evidence : Seq(Entries),
           warnings : Seq(Pipeline!Kinds), applied : SUBSET Nat]

\* A model made of these events of the mission, and of no others.
MadeOf(m, log) ==
    /\ m \in Models
    /\ m.mission = IF Len(log) = 0 THEN {} ELSE {"own"}
    /\ \A i \in 1 .. Len(log) : log[i].id \in m.applied
    /\ \A id \in m.applied : \E i \in 1 .. Len(log) : log[i].id = id

\* Sequences are equal when their elements are.
LEMMA SameSequence ==
    ASSUME NEW S, NEW s \in Seq(S), NEW t \in Seq(S), Len(s) = Len(t),
           \A i \in 1 .. Len(s) : s[i] = t[i]
    PROVE  s = t
<1>1. s = [i \in 1 .. Len(s) |-> s[i]]
  OBVIOUS
<1>2. t = [i \in 1 .. Len(s) |-> t[i]]
  OBVIOUS
<1>3. [i \in 1 .. Len(s) |-> s[i]] = [i \in 1 .. Len(s) |-> t[i]]
  BY Zenon
<1>4. QED
  BY <1>1, <1>2, <1>3, Zenon

\* What the ledger keeps of an event, which it would not redact again.
LEMMA RedactedStored ==
    ASSUME NEW e \in Stored
    PROVE  /\ Pipeline!Redacted(e) \in Stored
           /\ Pipeline!Redacted(e).id = e.id
           /\ Pipeline!Redacted(e).mission = e.mission
           /\ Pipeline!Redacted(e).kind = e.kind
           /\ Pipeline!Redacted(Pipeline!Redacted(e)) = Pipeline!Redacted(e)
<1>1. /\ Pipeline!RedactText(e.text) \in Pipeline!Texts
      /\ Pipeline!RedactText(Pipeline!RedactText(e.text)) = Pipeline!RedactText(e.text)
  BY DEF Stored, Pipeline!Texts, Pipeline!RedactText
<1>2. QED
  BY <1>1, Zenon DEF Stored, Pipeline!Redacted

Cleaned(evidence) ==
    [i \in 1 .. Len(evidence) |->
        [id |-> evidence[i].id, summary |-> Pipeline!RedactText(evidence[i].summary)]]

\* The model as the ledger stores it differs in its evidence alone.
LEMMA AsStoredIs ==
    ASSUME NEW m \in Models
    PROVE  /\ Pipeline!AsStored(m) = [m EXCEPT !.evidence = Cleaned(m.evidence)]
           /\ Cleaned(m.evidence) \in Seq(Entries)
           /\ Pipeline!AsStored(m) \in Models
<1>1. Pipeline!AsStored(m) = [m EXCEPT !.evidence = Cleaned(m.evidence)]
  BY Zenon DEF Pipeline!AsStored, Cleaned
<1>2. m.evidence \in Seq(Entries)
  BY Zenon DEF Models
<1>3. \A x \in Entries :
         [id |-> x.id, summary |-> Pipeline!RedactText(x.summary)] \in Entries
  BY DEF Entries, Pipeline!RedactText, Pipeline!Texts
<1>4. Cleaned(m.evidence) \in Seq(Entries)
  BY <1>2, <1>3 DEF Cleaned
<1>5. QED
  BY <1>1, <1>4, Zenon DEF Models

\* The entry of an event that is redacted is the redacted entry.
LEMMA CleanedAppend ==
    ASSUME NEW evidence \in Seq(Entries), NEW e \in Stored
    PROVE  Cleaned(Append(evidence, Pipeline!Entry(e)))
             = Append(Cleaned(evidence), Pipeline!Entry(Pipeline!Redacted(e)))
<1> DEFINE x == Pipeline!Entry(e)
           y == Pipeline!Entry(Pipeline!Redacted(e))
           s == Append(evidence, x)
           c == Cleaned(evidence)
<1>1. \A z \in Entries :
         [id |-> z.id, summary |-> Pipeline!RedactText(z.summary)] \in Entries
  BY DEF Entries, Pipeline!RedactText, Pipeline!Texts
<1>2. x \in Entries /\ y = [id |-> x.id, summary |-> Pipeline!RedactText(x.summary)]
  BY DEF Stored, Entries, Pipeline!Entry, Pipeline!Redacted
<1> HIDE DEF x, y
<1>3. /\ s \in Seq(Entries) /\ Len(s) = Len(evidence) + 1 /\ s[Len(evidence) + 1] = x
      /\ \A i \in 1 .. Len(evidence) : s[i] = evidence[i]
  BY <1>2
<1>4. /\ c \in Seq(Entries) /\ Len(c) = Len(evidence)
      /\ \A i \in 1 .. Len(evidence) :
            c[i] = [id |-> evidence[i].id, summary |-> Pipeline!RedactText(evidence[i].summary)]
  BY <1>1 DEF Cleaned
<1> HIDE DEF s
<1>5. /\ Cleaned(s) \in Seq(Entries) /\ Len(Cleaned(s)) = Len(s)
      /\ \A i \in 1 .. Len(s) :
            Cleaned(s)[i] = [id |-> s[i].id, summary |-> Pipeline!RedactText(s[i].summary)]
  BY <1>1, <1>3 DEF Cleaned
<1> HIDE DEF c
<1>6. /\ Append(c, y) \in Seq(Entries) /\ Len(Append(c, y)) = Len(evidence) + 1
      /\ Append(c, y)[Len(evidence) + 1] = y
      /\ \A i \in 1 .. Len(evidence) : Append(c, y)[i] = c[i]
  BY <1>1, <1>2, <1>4
<1>7. ASSUME NEW i \in 1 .. Len(Cleaned(s)) PROVE Cleaned(s)[i] = Append(c, y)[i]
  <2>1. i = Len(evidence) + 1 \/ i \in 1 .. Len(evidence)
    BY <1>3, <1>5
  <2>2. i \in 1 .. Len(s)
    BY <1>5, Zenon
  <2>3. QED
    BY <1>2, <1>3, <1>4, <1>5, <1>6, <2>1, <2>2, Zenon
<1>8. Len(Cleaned(s)) = Len(Append(c, y))
  BY <1>3, <1>5, <1>6, Zenon
<1>9. Cleaned(s) = Append(c, y)
  BY <1>5, <1>6, <1>7, <1>8, SameSequence, Zenon
<1>10. QED
  BY <1>9, Zenon DEF s, c, x, y

\* Reducing an event and redacting the model comes to reducing the event redacted.
LEMMA ReduceAsStored ==
    ASSUME NEW m \in Models, NEW e \in Stored
    PROVE  Pipeline!AsStored(Pipeline!Reduce(m, e))
             = Pipeline!Reduce(Pipeline!AsStored(m), Pipeline!Redacted(e))
<1> DEFINE a == Pipeline!AsStored(m)
           r == Pipeline!Redacted(e)
<1>1. /\ a = [m EXCEPT !.evidence = Cleaned(m.evidence)] /\ a \in Models
      /\ Cleaned(m.evidence) \in Seq(Entries)
  BY AsStoredIs, Zenon
<1>2. /\ r \in Stored /\ r.id = e.id /\ r.mission = e.mission /\ r.kind = e.kind
      /\ r.version = e.version /\ r.state = e.state
  BY RedactedStored, Zenon DEF Stored, Pipeline!Redacted
<1>3. a.applied = m.applied /\ a.evidence = Cleaned(m.evidence)
  BY <1>1, Zenon DEF Models
<1>4. CASE Pipeline!Applied(m, e)
  BY <1>2, <1>3, <1>4, Zenon DEF Pipeline!Reduce, Pipeline!Applied
<1>5. CASE ~Pipeline!Applied(m, e)
  <2> DEFINE p == [m EXCEPT !.mission = {e.mission}, !.applied = @ \cup {e.id}]
             q == [a EXCEPT !.mission = {r.mission}, !.applied = @ \cup {r.id}]
             n == Pipeline!Projected(m, e)
             o == Pipeline!Projected(a, r)
  <2>1. Pipeline!Reduce(m, e) = n /\ Pipeline!Reduce(a, r) = o
    BY <1>2, <1>3, <1>5, Zenon DEF Pipeline!Reduce, Pipeline!Applied
  <2>2. p \in Models /\ p.evidence = m.evidence
    BY Zenon DEF Models, Stored
  <2>3. q = [p EXCEPT !.evidence = Cleaned(m.evidence)]
    BY <1>1, <1>2, Zenon DEF Models
  <2>4. /\ e.version \in Nat /\ e.state = "Executing" /\ e.kind \in Pipeline!Kinds
        /\ Pipeline!Entry(e) \in Entries /\ Pipeline!Entry(r) \in Entries
    BY <1>2, Zenon DEF Stored, Entries, Pipeline!Entry
  <2>5. \/ n = [p EXCEPT !.contract = e.version] /\ o = [q EXCEPT !.contract = e.version]
        \/ /\ n = [p EXCEPT !.route = "Draft", !.version = 0]
           /\ o = [q EXCEPT !.route = "Draft", !.version = 0]
        \/ /\ n = [p EXCEPT !.route = e.state, !.version = e.version]
           /\ o = [q EXCEPT !.route = e.state, !.version = e.version]
        \/ /\ n = [p EXCEPT !.evidence = Append(@, Pipeline!Entry(e))]
           /\ o = [q EXCEPT !.evidence = Append(@, Pipeline!Entry(r))]
        \/ /\ n = [p EXCEPT !.warnings = Append(@, e.kind)]
           /\ o = [q EXCEPT !.warnings = Append(@, e.kind)]
        \/ n = p /\ o = q
    BY <1>2, Zenon DEF Pipeline!Projected
  <2> HIDE DEF p, q, n, o, r
  <2>6. ASSUME n \in Models, o = [n EXCEPT !.evidence = Cleaned(n.evidence)]
        PROVE  Pipeline!AsStored(n) = o
    BY <2>6, AsStoredIs, Zenon
  <2>7. CASE /\ n = [p EXCEPT !.contract = e.version]
             /\ o = [q EXCEPT !.contract = e.version]
    <3>1. n \in Models /\ n.evidence = m.evidence
      BY <2>2, <2>4, <2>7, Zenon DEF Models
    <3>2. o = [n EXCEPT !.evidence = Cleaned(m.evidence)]
      BY <2>2, <2>3, <2>7, Zenon DEF Models
    <3>3. QED
      BY <2>1, <2>6, <3>1, <3>2, Zenon DEF r
  <2>8. CASE /\ n = [p EXCEPT !.route = "Draft", !.version = 0]
             /\ o = [q EXCEPT !.route = "Draft", !.version = 0]
    <3>1. n \in Models /\ n.evidence = m.evidence
      BY <2>2, <2>8, Zenon DEF Models
    <3>2. o = [n EXCEPT !.evidence = Cleaned(m.evidence)]
      BY <2>2, <2>3, <2>8, Zenon DEF Models
    <3>3. QED
      BY <2>1, <2>6, <3>1, <3>2, Zenon DEF r
  <2>9. CASE /\ n = [p EXCEPT !.route = e.state, !.version = e.version]
             /\ o = [q EXCEPT !.route = e.state, !.version = e.version]
    <3>1. n \in Models /\ n.evidence = m.evidence
      BY <2>2, <2>4, <2>9, Zenon DEF Models
    <3>2. o = [n EXCEPT !.evidence = Cleaned(m.evidence)]
      BY <2>2, <2>3, <2>9, Zenon DEF Models
    <3>3. QED
      BY <2>1, <2>6, <3>1, <3>2, Zenon DEF r
  <2>10. CASE /\ n = [p EXCEPT !.evidence = Append(@, Pipeline!Entry(e))]
              /\ o = [q EXCEPT !.evidence = Append(@, Pipeline!Entry(r))]
    <3>1. m.evidence \in Seq(Entries)
      BY Zenon DEF Models
    <3>2. Append(m.evidence, Pipeline!Entry(e)) \in Seq(Entries)
      BY <2>4, <3>1
    <3>3. n \in Models /\ n.evidence = Append(m.evidence, Pipeline!Entry(e))
      BY <2>2, <2>10, <3>2, Zenon DEF Models
    <3>4. Cleaned(n.evidence) = Append(Cleaned(m.evidence), Pipeline!Entry(r))
      BY <3>1, <3>3, CleanedAppend, Zenon DEF r
    <3>5. q.evidence = Cleaned(m.evidence)
      BY <2>2, <2>3, Zenon DEF Models
    <3>6. o = [n EXCEPT !.evidence = Append(Cleaned(m.evidence), Pipeline!Entry(r))]
      BY <2>2, <2>3, <2>10, <3>5, Zenon DEF Models
    <3>7. QED
      BY <2>1, <2>6, <3>3, <3>4, <3>6, Zenon DEF r
  <2>11. CASE /\ n = [p EXCEPT !.warnings = Append(@, e.kind)]
              /\ o = [q EXCEPT !.warnings = Append(@, e.kind)]
    <3>1. p.warnings \in Seq(Pipeline!Kinds)
      BY <2>2, Zenon DEF Models
    <3>2. Append(p.warnings, e.kind) \in Seq(Pipeline!Kinds)
      BY <2>4, <3>1
    <3>3. n \in Models /\ n.evidence = m.evidence
      BY <2>2, <2>11, <3>2, Zenon DEF Models
    <3>4. q.warnings = p.warnings
      BY <2>2, <2>3, Zenon DEF Models
    <3>5. o = [n EXCEPT !.evidence = Cleaned(m.evidence)]
      BY <2>2, <2>3, <2>11, <3>4, Zenon DEF Models
    <3>6. QED
      BY <2>1, <2>6, <3>3, <3>5, Zenon DEF r
  <2>12. CASE n = p /\ o = q
    BY <2>1, <2>2, <2>3, <2>6, <2>12, Zenon DEF r
  <2>13. QED
    BY <2>5, <2>7, <2>8, <2>9, <2>10, <2>11, <2>12, Zenon
<1>6. QED
  BY <1>4, <1>5, Zenon

\* The reducer makes the model of a longer log out of the model of a log, whether the
\* event comes as it was sent or as the log has it.
LEMMA ReduceMakes ==
    ASSUME NEW log \in Seq(Stored), NEW m, MadeOf(m, log), NEW e \in Stored, e.mission = "own",
           NEW stored \in Stored, stored.id = e.id
    PROVE  MadeOf(Pipeline!Reduce(m, e), Append(log, stored))
<1> DEFINE longer == Append(log, stored)
           n == Pipeline!Reduce(m, e)
<1>1. /\ Len(longer) = Len(log) + 1 /\ Len(log) \in Nat /\ longer[Len(log) + 1] = stored
      /\ \A i \in 1 .. Len(log) : longer[i] = log[i]
  OBVIOUS
<1>2. /\ n \in Models /\ n.mission = {"own"} /\ n.applied = m.applied \cup {e.id}
  <2>1. m \in Models /\ e \in Stored /\ "own" \in Pipeline!MissionIds
    BY Zenon DEF MadeOf, Pipeline!MissionIds
  <2>2. CASE e.id \in m.applied
    <3>1. Len(log) # 0
      BY <1>1, <2>2 DEF MadeOf
    <3>2. QED
      BY <2>1, <2>2, <3>1, Zenon DEF MadeOf, Pipeline!Reduce, Pipeline!Applied
  <2>3. CASE e.id \notin m.applied
    <3>1. n = Pipeline!Projected(m, e)
      BY <2>3, Zenon DEF Pipeline!Reduce, Pipeline!Applied
    <3> DEFINE p == [m EXCEPT !.mission = {"own"}, !.applied = @ \cup {e.id}]
    <3>2. p \in Models /\ p.mission = {"own"} /\ p.applied = m.applied \cup {e.id}
      BY <2>1, Zenon DEF Models, Stored
    <3>3. \/ n = [p EXCEPT !.contract = e.version]
          \/ n = [p EXCEPT !.route = "Draft", !.version = 0]
          \/ n = [p EXCEPT !.route = e.state, !.version = e.version]
          \/ n = [p EXCEPT !.evidence = Append(@, Pipeline!Entry(e))]
          \/ e.kind \in Pipeline!Kinds /\ n = [p EXCEPT !.warnings = Append(@, e.kind)]
          \/ n = p
      <4>1. e.kind \in Pipeline!Kinds
        BY Zenon DEF Stored
      <4>2. QED
        BY <3>1, <4>1, Zenon DEF Pipeline!Projected
    <3>4. /\ e.version \in Nat /\ e.state = "Executing"
          /\ Pipeline!Entry(e) \in Entries
      BY Zenon DEF Stored, Entries, Pipeline!Entry
    <3> HIDE DEF p, n
    <3>5. CASE n = [p EXCEPT !.contract = e.version]
      BY <3>2, <3>4, <3>5, Zenon DEF Models
    <3>6. CASE n = [p EXCEPT !.route = "Draft", !.version = 0]
      BY <3>2, <3>6, Zenon DEF Models
    <3>7. CASE n = [p EXCEPT !.route = e.state, !.version = e.version]
      BY <3>2, <3>4, <3>7, Zenon DEF Models
    <3>8. CASE n = [p EXCEPT !.evidence = Append(@, Pipeline!Entry(e))]
      <4>1. p.evidence \in Seq(Entries)
        BY <3>2, Zenon DEF Models
      <4>2. Append(p.evidence, Pipeline!Entry(e)) \in Seq(Entries)
        BY <3>4, <4>1
      <4>3. QED
        BY <3>2, <3>8, <4>2, Zenon DEF Models
    <3>9. CASE e.kind \in Pipeline!Kinds /\ n = [p EXCEPT !.warnings = Append(@, e.kind)]
      <4>1. p.warnings \in Seq(Pipeline!Kinds)
        BY <3>2, Zenon DEF Models
      <4>2. Append(p.warnings, e.kind) \in Seq(Pipeline!Kinds)
        BY <3>9, <4>1
      <4>3. QED
        BY <3>2, <3>9, <4>2, Zenon DEF Models
    <3>10. QED
      BY <3>2, <3>3, <3>5, <3>6, <3>7, <3>8, <3>9, Zenon
  <2>4. QED
    BY <2>2, <2>3, Zenon
<1> HIDE DEF longer, n
<1>3. Len(longer) # 0
  BY <1>1
<1>4. ASSUME NEW i \in 1 .. Len(longer) PROVE longer[i].id \in n.applied
  <2>1. CASE i = Len(log) + 1
    BY <1>1, <1>2, <2>1, Zenon
  <2>2. CASE i # Len(log) + 1
    <3>1. i \in 1 .. Len(log) /\ longer[i] = log[i]
      BY <1>1, <2>2
    <3>2. QED
      BY <1>2, <3>1, Zenon DEF MadeOf
  <2>3. QED
    BY <2>1, <2>2, Zenon
<1>5. ASSUME NEW id \in n.applied PROVE \E i \in 1 .. Len(longer) : longer[i].id = id
  <2>1. CASE id = e.id
    BY <1>1, <2>1
  <2>2. CASE id # e.id
    <3>1. PICK i \in 1 .. Len(log) : log[i].id = id
      BY <1>2, <2>2, Zenon DEF MadeOf
    <3>2. i \in 1 .. Len(longer) /\ longer[i].id = id
      BY <1>1, <3>1
    <3>3. QED
      BY <3>2, Zenon
  <2>3. QED
    BY <2>1, <2>2, Zenon
<1>6. QED
  BY <1>2, <1>3, <1>4, <1>5, Zenon DEF MadeOf, longer, n

\* The model is what the log gives, but for the texts that the log has redacted.
Replayed(m, log) ==
    /\ Pipeline!Replayable(log)
    /\ Pipeline!AsStored(m) = Pipeline!Replay(log)
    /\ MadeOf(m, log)

\* A mission is created in its own ledger before anything is sent to another; the
\* model of a running pipeline, and what recover would build, come from that ledger,
\* which holds no secret.
PipelineInv ==
    /\ events \in [Pipeline!MissionIds -> Seq(Stored)]
    /\ \A mission \in Pipeline!MissionIds : \A i \in 1 .. Len(events[mission]) :
          events[mission][i].mission = mission
    /\ \A i \in 1 .. Len(events["own"]) : events["own"][i].id <= Pipeline!Written
    /\ Len(events["foreign"]) # 0 => Len(events["own"]) # 0
    /\ MadeOf(Pipeline!Replay(events["own"]), events["own"])
    /\ Pipeline!AsStored(Pipeline!Replay(events["own"])) = Pipeline!Replay(events["own"])
    /\ status = "Running" => Replayed(model, events["own"])
    /\ seen \in [Subscribers -> {{}, {model}}]

\* Arithmetic of identifiers.
LEMMA Counting ==
    \A a, b \in Nat : /\ a + b \in Nat
                      /\ a + 1 + b = (a + b) + 1
                      /\ a <= b => a # b + 1 /\ a <= b + 1
                      /\ a <= a
OBVIOUS

\* The numbers the events of the mission have.
LEMMA PipelineNumbers ==
    ASSUME PipelineInv
    PROVE  /\ events["own"] \in Seq(Stored) /\ Len(events["own"]) \in Nat
           /\ events["foreign"] \in Seq(Stored) /\ Len(events["foreign"]) \in Nat
           /\ Pipeline!Written = Len(events["own"]) + Len(events["foreign"])
           /\ Pipeline!Written \in Nat
           /\ \A i \in 1 .. Len(events["own"]) :
                 /\ events["own"][i].mission = "own"
                 /\ events["own"][i].id \in Nat
                 /\ events["own"][i].id <= Pipeline!Written
           /\ \A i \in 1 .. Len(events["foreign"]) : events["foreign"][i].mission = "foreign"
<1>1. /\ events["own"] \in Seq(Stored) /\ events["foreign"] \in Seq(Stored)
      /\ \A i \in 1 .. Len(events["own"]) : events["own"][i].mission = "own"
      /\ \A i \in 1 .. Len(events["foreign"]) : events["foreign"][i].mission = "foreign"
      /\ \A i \in 1 .. Len(events["own"]) : events["own"][i].id <= Pipeline!Written
  BY Zenon DEF PipelineInv, Pipeline!MissionIds
<1>2. Len(events["own"]) \in Nat /\ Len(events["foreign"]) \in Nat
  BY <1>1
<1>3. \A i \in 1 .. Len(events["own"]) : events["own"][i] \in Stored
  BY <1>1
<1>4. \A e \in Stored : e.id \in Nat
  BY Zenon DEF Stored
<1>5. Pipeline!Written = Len(events["own"]) + Len(events["foreign"])
  BY Zenon DEF Pipeline!Written
<1>6. Pipeline!Written \in Nat
  BY <1>2, <1>5, Counting, Zenon
<1>7. QED
  BY <1>1, <1>2, <1>3, <1>4, <1>5, <1>6, Zenon

\* The pipeline stores an event of its mission.
LEMMA PipelineKeptByOwn ==
    ASSUME ReplaysInSteps, PipelineInv, NEW e \in Stored, e.mission = "own", e.id = Pipeline!Written + 1,
           NEW gone \in SUBSET Subscribers, Pipeline!AppendEvent(e, gone)
    PROVE  PipelineInv'
<1> DEFINE own == events["own"]
           replay == Pipeline!Replay(own)
           stored == Pipeline!Redacted(e)
<1>0. stored \in Stored /\ stored.id = e.id /\ stored.mission = "own" /\ stored.kind = e.kind
  BY RedactedStored, Zenon
<1> HIDE DEF stored
<1>1. /\ own \in Seq(Stored) /\ Len(own) \in Nat
      /\ events["foreign"] \in Seq(Stored) /\ Len(events["foreign"]) \in Nat
      /\ \A i \in 1 .. Len(events["foreign"]) : events["foreign"][i].mission = "foreign"
  BY PipelineNumbers, Zenon
<1>2. /\ Pipeline!Written \in Nat
      /\ Pipeline!Written = Len(own) + Len(events["foreign"])
      /\ \A i \in 1 .. Len(own) :
            own[i].mission = "own" /\ own[i].id \in Nat /\ own[i].id <= Pipeline!Written
  BY PipelineNumbers, Zenon
<1>3. \A i \in 1 .. Len(own) : own[i].id # e.id
  <2> SUFFICES ASSUME NEW i \in 1 .. Len(own) PROVE own[i].id # e.id
    BY Zenon
  <2>1. own[i].id \in Nat /\ own[i].id <= Pipeline!Written /\ Pipeline!Written \in Nat
    BY <1>2, Zenon
  <2>2. own[i].id # Pipeline!Written + 1
    BY <2>1, Counting, Zenon
  <2>3. QED
    BY <2>2, Zenon
<1>4. ~Pipeline!Stored(e)
  BY <1>0, <1>3, Zenon DEF Pipeline!Stored, stored
<1>5. /\ events' = [events EXCEPT !["own"] = Append(own, stored)]
      /\ events'["own"] = Append(own, stored) /\ events'["foreign"] = events["foreign"]
  BY <1>4, Zenon DEF PipelineInv, Pipeline!AppendEvent, Pipeline!MissionIds, stored
<1>6. /\ Pipeline!AsStored(model) = replay /\ MadeOf(model, own) /\ MadeOf(replay, own)
      /\ Pipeline!AsStored(replay) = replay /\ Pipeline!Replayable(own)
  BY Zenon DEF PipelineInv, Replayed, Pipeline!AppendEvent
<1>7. ~Pipeline!Applied(model, e)
  BY <1>3, <1>6, Zenon DEF Pipeline!Applied, MadeOf
<1>8. Pipeline!Replay(Append(own, stored)) = Pipeline!Reduce(replay, stored)
  BY <1>0, <1>1, Zenon DEF ReplaysInSteps
<1>9. MadeOf(Pipeline!Replay(Append(own, stored)), Append(own, stored))
  BY <1>0, <1>1, <1>6, <1>8, ReduceMakes, Zenon
<1>16. MadeOf(Pipeline!Reduce(model, e), Append(own, stored))
  BY <1>0, <1>1, <1>6, ReduceMakes, Zenon
<1>17. Pipeline!AsStored(Pipeline!Reduce(model, e)) = Pipeline!Replay(Append(own, stored))
  BY <1>6, <1>8, ReduceAsStored, Zenon DEF MadeOf, stored
<1>18. Pipeline!AsStored(Pipeline!Replay(Append(own, stored))) = Pipeline!Replay(Append(own, stored))
  <2>1. Pipeline!Redacted(stored) = stored
    BY RedactedStored, Zenon DEF stored
  <2>2. QED
    BY <1>0, <1>6, <1>8, <2>1, ReduceAsStored, Zenon DEF MadeOf
<1> HIDE DEF replay
<1>10. /\ Append(own, stored) \in Seq(Stored) /\ Len(Append(own, stored)) = Len(own) + 1
       /\ Append(own, stored)[Len(own) + 1] = stored
       /\ \A i \in 1 .. Len(own) : Append(own, stored)[i] = own[i]
  BY <1>0, <1>1
<1>11. Pipeline!Written' = Pipeline!Written + 1
  <2>1. Pipeline!Written' = Len(events'["own"]) + Len(events'["foreign"])
    BY Zenon DEF Pipeline!Written
  <2>2. Pipeline!Written' = Len(own) + 1 + Len(events["foreign"])
    BY <1>5, <1>10, <2>1, Zenon
  <2>3. QED
    BY <1>1, <1>2, <2>2, Counting, Zenon
<1>12. /\ events' \in [Pipeline!MissionIds -> Seq(Stored)]
       /\ \A mission \in Pipeline!MissionIds : \A i \in 1 .. Len(events'[mission]) :
             events'[mission][i].mission = mission
       /\ \A i \in 1 .. Len(events'["own"]) : events'["own"][i].id <= Pipeline!Written'
       /\ Len(events'["own"]) # 0
  <2>1. events' \in [Pipeline!MissionIds -> Seq(Stored)]
    BY <1>5, <1>10, Zenon DEF PipelineInv
  <2>2. ASSUME NEW i \in 1 .. Len(events'["own"])
        PROVE  events'["own"][i].mission = "own" /\ events'["own"][i].id <= Pipeline!Written'
    <3>1. CASE i \in 1 .. Len(own)
      <4>1. own[i].id \in Nat /\ own[i].mission = "own" /\ own[i].id <= Pipeline!Written
        BY <1>2, <3>1, Zenon
      <4>2. QED
        <5>1. own[i].id <= Pipeline!Written + 1
          BY <1>2, <4>1, Counting, Zenon
        <5>2. events'["own"][i] = own[i]
          BY <1>5, <1>10, <3>1, Zenon
        <5>3. QED
          BY <1>11, <4>1, <5>1, <5>2, Zenon
    <3>2. CASE i = Len(own) + 1
      <4>1. events'["own"][i] = stored /\ Pipeline!Written + 1 \in Nat
        BY <1>2, <1>5, <1>10, <3>2, Counting, Zenon
      <4>2. QED
        <5>1. Pipeline!Written + 1 <= Pipeline!Written + 1
          BY <4>1, Counting, Zenon
        <5>2. QED
          BY <1>0, <1>11, <4>1, <5>1, Zenon
    <3>3. QED
      BY <1>1, <1>5, <1>10, <3>1, <3>2
  <2>3. \A i \in 1 .. Len(events'["foreign"]) : events'["foreign"][i].mission = "foreign"
    BY <1>1, <1>5, Zenon
  <2>4. \A mission \in Pipeline!MissionIds : mission = "own" \/ mission = "foreign"
    BY Zenon DEF Pipeline!MissionIds
  <2>5. Len(own) \in Nat /\ Len(own) + 1 # 0
    BY <1>1
  <2>6. Len(events'["own"]) # 0
    BY <1>5, <1>10, <2>5, Zenon
  <2>7. QED
    BY <2>1, <2>2, <2>3, <2>4, <2>6, Zenon
<1>13. CASE Pipeline!Malformed(model, e)
  <2>1. status' = "Paused" /\ UNCHANGED <<model, seen>>
    BY <1>7, <1>13, Zenon DEF Pipeline!AppendEvent, Pipeline!StatusAfter
  <2>2. QED
    BY <1>5, <1>9, <1>12, <1>18, <2>1, Zenon DEF PipelineInv
<1>14. CASE ~Pipeline!Malformed(model, e)
  <2>1. /\ model' = Pipeline!Reduce(model, e)
        /\ seen' = [s \in Subscribers |-> IF seen[s] = {} \/ s \in gone THEN {} ELSE {model'}]
    BY <1>14, Zenon DEF Pipeline!AppendEvent
  <2>2. Pipeline!Replayable(Append(own, stored))
    <3>1. stored.kind \notin Pipeline!BadKinds
      BY <1>0, <1>7, <1>14, Zenon DEF Pipeline!Malformed
    <3>2. \A i \in 1 .. Len(own) + 1 : i = Len(own) + 1 \/ i \in 1 .. Len(own)
      BY <1>1
    <3>3. QED
      BY <1>6, <1>10, <3>1, <3>2, Zenon DEF Pipeline!Replayable
  <2>3. seen' \in [Subscribers -> {{}, {model'}}]
    BY <2>1, Zenon
  <2>4. QED
    BY <1>5, <1>9, <1>12, <1>16, <1>17, <1>18, <2>1, <2>2, <2>3, Zenon DEF PipelineInv, Replayed
<1>15. QED
  BY <1>13, <1>14, Zenon

\* A step that adds no event of the mission, and leaves the model or has applied its event.
LEMMA PipelineKept ==
    ASSUME PipelineInv, events' \in [Pipeline!MissionIds -> Seq(Stored)],
           events'["own"] = events["own"], Len(events["own"]) # 0 \/ events' = events,
           \A i \in 1 .. Len(events'["foreign"]) : events'["foreign"][i].mission = "foreign",
           Pipeline!Written <= Pipeline!Written',
           status' = "Running" => Replayed(model', events["own"]),
           seen' \in [Subscribers -> {{}, {model'}}]
    PROVE  PipelineInv'
<1>1. \A i \in 1 .. Len(events["own"]) :
         /\ events["own"][i].mission = "own" /\ events["own"][i].id \in Nat
         /\ events["own"][i].id <= Pipeline!Written
  BY PipelineNumbers, Zenon
<1>2. Pipeline!Written \in Nat /\ Pipeline!Written' \in Nat
  <2>1. Len(events'["own"]) \in Nat /\ Len(events'["foreign"]) \in Nat
    BY DEF Pipeline!MissionIds
  <2>2. Pipeline!Written' = Len(events'["own"]) + Len(events'["foreign"])
    BY Zenon DEF Pipeline!Written
  <2>3. QED
    BY <2>1, <2>2, PipelineNumbers, Counting, Zenon
<1>3. \A a, b, c \in Nat : a <= b /\ b <= c => a <= c
  OBVIOUS
<1>4. ASSUME NEW i \in 1 .. Len(events["own"]) PROVE events["own"][i].id <= Pipeline!Written'
  <2>1. events["own"][i].id \in Nat /\ events["own"][i].id <= Pipeline!Written
    BY <1>1, Zenon
  <2>2. QED
    BY <1>2, <1>3, <2>1, Zenon
<1>5. \A mission \in Pipeline!MissionIds : \A i \in 1 .. Len(events'[mission]) :
         events'[mission][i].mission = mission
  BY <1>1, Zenon DEF Pipeline!MissionIds
<1>6. Len(events'["foreign"]) # 0 => Len(events'["own"]) # 0
  BY Zenon DEF PipelineInv
<1>7. /\ MadeOf(Pipeline!Replay(events'["own"]), events'["own"])
      /\ Pipeline!AsStored(Pipeline!Replay(events'["own"])) = Pipeline!Replay(events'["own"])
  BY Zenon DEF PipelineInv
<1>8. \A i \in 1 .. Len(events'["own"]) : events'["own"][i].id <= Pipeline!Written'
  BY <1>4, Zenon
<1>9. QED
  BY <1>5, <1>6, <1>7, <1>8, Zenon DEF PipelineInv

\* What an event does to the model of a running pipeline that has it, or that it is not for.
LEMMA PipelineKeptByOther ==
    ASSUME PipelineInv, NEW e \in Stored, NEW gone \in SUBSET Subscribers,
           Pipeline!AppendEvent(e, gone),
           \/ Pipeline!Stored(e)
           \/ e.mission = "foreign" /\ Len(events["own"]) # 0
    PROVE  PipelineInv'
<1>1. /\ events["own"] \in Seq(Stored) /\ events["foreign"] \in Seq(Stored)
      /\ Len(events["own"]) \in Nat /\ Len(events["foreign"]) \in Nat
      /\ \A i \in 1 .. Len(events["foreign"]) : events["foreign"][i].mission = "foreign"
  BY PipelineNumbers, Zenon
<1>2. e.mission \in Pipeline!MissionIds
  BY Zenon DEF Stored
<1>3. status = "Running" /\ Replayed(model, events["own"]) /\ MadeOf(model, events["own"])
  BY Zenon DEF PipelineInv, Replayed, Pipeline!AppendEvent
<1>7. Pipeline!Redacted(e) \in Stored /\ Pipeline!Redacted(e).id = e.id
      /\ Pipeline!Redacted(e).mission = e.mission
  BY RedactedStored, Zenon
<1>4. CASE Pipeline!Applied(model, e) \/ Pipeline!Malformed(model, e)
  <2>1. model' = model /\ seen' \in [Subscribers -> {{}, {model'}}]
    BY <1>4, Zenon DEF Pipeline!AppendEvent, Pipeline!Reduce, PipelineInv
  <2>2. CASE events' = events
    <3>1. Pipeline!Written' = Pipeline!Written /\ Pipeline!Written \in Nat
      BY <2>2, PipelineNumbers, Zenon DEF Pipeline!Written
    <3>2. Pipeline!Written <= Pipeline!Written'
      BY <3>1, Counting, Zenon
    <3>3. events \in [Pipeline!MissionIds -> Seq(Stored)]
      BY Zenon DEF PipelineInv
    <3>4. QED
      BY <1>1, <1>3, <2>1, <2>2, <3>2, <3>3, PipelineKept, Zenon
  <2>3. CASE events' # events
    <3>1. ~Pipeline!Stored(e) /\ e.mission = "foreign" /\ Len(events["own"]) # 0
      BY <2>3, Zenon DEF Pipeline!AppendEvent
    <3>2. events' = [events EXCEPT !["foreign"] = Append(events["foreign"], Pipeline!Redacted(e))]
      BY <3>1, Zenon DEF Pipeline!AppendEvent
    <3>3. /\ events'["own"] = events["own"]
          /\ events'["foreign"] = Append(events["foreign"], Pipeline!Redacted(e))
      BY <3>2, Zenon DEF PipelineInv, Pipeline!MissionIds
    <3>4. /\ Append(events["foreign"], Pipeline!Redacted(e)) \in Seq(Stored)
          /\ Len(Append(events["foreign"], Pipeline!Redacted(e))) = Len(events["foreign"]) + 1
          /\ \A i \in 1 .. Len(Append(events["foreign"], Pipeline!Redacted(e))) :
                Append(events["foreign"], Pipeline!Redacted(e))[i].mission = "foreign"
      <4> DEFINE f == events["foreign"]
                 stored == Pipeline!Redacted(e)
      <4>1. f \in Seq(Stored) /\ stored \in Stored /\ stored.mission = "foreign"
        BY <1>1, <1>7, <3>1, Zenon
      <4>2. \A i \in 1 .. Len(f) : f[i].mission = "foreign"
        BY <1>1, Zenon
      <4> HIDE DEF f, stored
      <4>3. /\ Append(f, stored) \in Seq(Stored) /\ Len(Append(f, stored)) = Len(f) + 1
            /\ \A i \in 1 .. Len(Append(f, stored)) : Append(f, stored)[i].mission = "foreign"
        BY <4>1, <4>2
      <4>4. QED
        BY <4>3, Zenon DEF f, stored
    <3>5. events' \in [Pipeline!MissionIds -> Seq(Stored)]
      BY <3>2, <3>4, Zenon DEF PipelineInv
    <3>6. Pipeline!Written <= Pipeline!Written'
      <4>1. /\ Pipeline!Written = Len(events["own"]) + Len(events["foreign"])
            /\ Pipeline!Written' = Len(events["own"]) + (Len(events["foreign"]) + 1)
        BY <3>3, <3>4, Zenon DEF Pipeline!Written
      <4>2. \A a, b \in Nat : a + b <= a + (b + 1)
        OBVIOUS
      <4>3. QED
        BY <1>1, <4>1, <4>2, Zenon
    <3>7. QED
      BY <1>3, <2>1, <3>1, <3>3, <3>4, <3>5, <3>6, PipelineKept, Zenon
  <2>4. QED
    BY <2>2, <2>3, Zenon
<1>5. Pipeline!Applied(model, e) \/ Pipeline!Malformed(model, e)
  <2>1. CASE e.mission = "own"
    <3>1. PICK i \in 1 .. Len(events["own"]) : events["own"][i] = Pipeline!Redacted(e)
      BY <2>1, Zenon DEF Pipeline!Stored
    <3>2. QED
      BY <1>3, <1>7, <3>1, Zenon DEF MadeOf, Pipeline!Applied
  <2>2. CASE e.mission = "foreign"
    <3>1. Len(events["own"]) # 0
      <4>1. CASE Pipeline!Stored(e)
        <5>1. Len(events["foreign"]) # 0
          BY <1>1, <2>2, <4>1 DEF Pipeline!Stored
        <5>2. QED
          BY <5>1, Zenon DEF PipelineInv
      <4>2. QED
        BY <4>1, Zenon
    <3>2. model.mission = {"own"}
      BY <1>3, <3>1, Zenon DEF MadeOf
    <3>3. QED
      BY <2>2, <3>2, Zenon DEF Pipeline!Malformed
  <2>3. QED
    BY <1>2, <2>1, <2>2, Zenon DEF Pipeline!MissionIds
<1>6. QED
  BY <1>4, <1>5, Zenon

\* A refused event, a new subscriber and a recovery leave the ledger alone.
LEMMA PipelineKeptByQuiet ==
    ASSUME PipelineInv,
           \/ Pipeline!AppendFails \/ Pipeline!Recover
           \/ \E s \in Subscribers : Pipeline!Subscribe(s)
           \/ UNCHANGED pipeline
    PROVE  PipelineInv'
<1>1. events' = events
  BY Zenon DEF Pipeline!AppendFails, Pipeline!Recover, Pipeline!Subscribe, pipeline
<1>2. status' = "Running" => Replayed(model', events["own"])
  BY Zenon DEF PipelineInv, Replayed, Pipeline!AppendFails, Pipeline!Recover, Pipeline!Subscribe, pipeline
<1>3. seen' \in [Subscribers -> {{}, {model'}}]
  <2>1. CASE Pipeline!Recover
    BY <2>1, Zenon DEF Pipeline!Recover
  <2>2. CASE ~Pipeline!Recover
    <3>1. model' = model
      BY <2>2, Zenon DEF Pipeline!AppendFails, Pipeline!Subscribe, pipeline
    <3>2. QED
      BY <2>2, <3>1, Zenon DEF PipelineInv, Pipeline!AppendFails, Pipeline!Subscribe, pipeline
  <2>3. QED
    BY <2>1, <2>2, Zenon
<1>4. QED
  BY <1>1, <1>2, <1>3, Zenon DEF PipelineInv, Pipeline!Written

\* Every step keeps the model equal to the replay (event_pipeline.rs).
LEMMA PipelineStep ==
    ASSUME ReplaysInSteps, PipelineInv, [Pipeline!Next]_pipeline
    PROVE  PipelineInv'
<1>1. ASSUME NEW e \in Pipeline!Events, NEW gone \in SUBSET Subscribers,
             Pipeline!AppendEvent(e, gone)
      PROVE  PipelineInv'
  <2>1. Pipeline!Written \in Nat /\ Pipeline!Written + 1 \in Nat
    BY PipelineNumbers, Counting, Zenon
  <2>2. /\ e.mission \in Pipeline!MissionIds /\ e.id = Pipeline!Written + 1
        /\ e.mission = "own" \/ (e.mission = "foreign" /\ model.mission # {})
        /\ e \in Stored
    BY <2>1 DEF Pipeline!Events, Pipeline!MissionIds, Pipeline!Texts, Stored
  <2>3. CASE e.mission = "own"
    BY <1>1, <2>2, <2>3, PipelineKeptByOwn, Zenon
  <2>4. CASE e.mission = "foreign" /\ model.mission # {}
    <3>1. MadeOf(model, events["own"])
      BY <1>1, Zenon DEF PipelineInv, Replayed, Pipeline!AppendEvent
    <3>2. Len(events["own"]) # 0
      BY <2>4, <3>1, Zenon DEF MadeOf
    <3>3. QED
      BY <1>1, <2>2, <2>4, <3>2, PipelineKeptByOther, Zenon
  <2>5. QED
    BY <2>2, <2>3, <2>4, Zenon
<1>2. ASSUME NEW mission \in Pipeline!MissionIds, NEW i \in 1 .. Len(events[mission]),
             NEW e \in Pipeline!Resent(events[mission][i]), Pipeline!AppendEvent(e, {})
      PROVE  PipelineInv'
  <2>1. PICK stored : stored = events[mission][i]
    BY Zenon
  <2>2. events[mission] \in Seq(Stored) /\ stored.mission = mission
    BY <2>1, Zenon DEF PipelineInv
  <2>3. stored \in Stored
    BY <2>1, <2>2
  <2>4. PICK t \in Pipeline!Texts :
           Pipeline!RedactText(t) = stored.text /\ e = [stored EXCEPT !.text = t]
    BY <2>1, Zenon DEF Pipeline!Resent
  <2>5. e \in Stored /\ e.mission = mission /\ Pipeline!Redacted(e) = stored
    BY <2>2, <2>3, <2>4, Zenon DEF Stored, Pipeline!Redacted
  <2>6. Pipeline!Stored(e)
    BY <2>1, <2>5, Zenon DEF Pipeline!Stored
  <2>7. QED
    BY <1>2, <2>5, <2>6, PipelineKeptByOther, Zenon
<1>3. QED
  BY <1>1, <1>2, PipelineKeptByQuiet, Zenon DEF Pipeline!Next

-----------------------------------------------------------------------------
(***************************************************************************)
(* The scheduler.  The schedule is a fold over the registrations and the   *)
(* slots are a cardinality; the steps use what CountsSets and              *)
(* RebuildsInSteps say of them, which is shown at the end of the module.   *)
(***************************************************************************)
Stages == {"none", "queued", "active", "paused", "completed"}

Actives(states) == {m \in Missions : states[m] = "active"}

Size(S) == Scheduling!Cardinality(S)

Finite(S) == Scheduling!IsFiniteSet(S)

\* What is counted of a part, and of a set with up to n elements more.
CountsSets ==
    /\ Finite({}) /\ Size({}) = 0
    /\ \A S : Finite(S) => Size(S) \in Nat
    /\ \A S, T : Finite(S) /\ T \subseteq S => Finite(T) /\ Size(T) <= Size(S)
    /\ \A S, f : \A n \in Nat :
          Finite(S) => LET more == S \cup {f[i] : i \in 1 .. n}
                       IN  Finite(more) /\ Size(more) <= Size(S) + n

\* The turns of the missions registered, and the schedule made of them.
TurnsOf(missions, states) ==
    [i \in 1 .. Len(missions) |->
        IF states[missions[i]] = "active"
        THEN [n \in 1 .. Scheduling!Weight(missions[i]) |-> missions[i]] ELSE <<>>]

RebuiltOf(missions, states) == Scheduling!Iterate(Scheduling!Extend, <<>>, TurnsOf(missions, states))

\* A mission registered that is not active adds no turn.
RebuildsInSteps ==
    /\ \A states : RebuiltOf(<<>>, states) = <<>>
    /\ \A states : \A missions \in Seq(Missions) : RebuiltOf(missions, states) \in Seq(Missions)
    /\ \A states : \A missions \in Seq(Missions), m \in Missions :
          states[m] # "active" => RebuiltOf(Append(missions, m), states) = RebuiltOf(missions, states)

ScheduleInv ==
    /\ order \in Seq(Missions)
    /\ state \in [Missions -> Stages]
    /\ Finite(Actives(state)) /\ Size(Actives(state)) <= MaxActive
    /\ schedule = RebuiltOf(order, state)
    /\ schedule \in Seq(Missions)
    /\ cursor \in 1 .. Len(schedule) + 1

-----------------------------------------------------------------------------
\* The schedule rebuilt for the missions registered.
LEMMA RebuiltIs ==
    ASSUME NEW states
    PROVE  Scheduling!Rebuilt(states) = RebuiltOf(order, states)
  BY Zenon DEF Scheduling!Rebuilt, RebuiltOf, Scheduling!Turns, TurnsOf

\* The schedule depends on which missions are active, and on nothing else.
LEMMA RebuiltByActives ==
    ASSUME NEW missions \in Seq(Missions), NEW states, NEW others, Actives(states) = Actives(others)
    PROVE  RebuiltOf(missions, states) = RebuiltOf(missions, others)
<1>1. \A i \in 1 .. Len(missions) : missions[i] \in Missions
  OBVIOUS
<1>2. \A i \in 1 .. Len(missions) :
         states[missions[i]] = "active" <=> others[missions[i]] = "active"
  BY <1>1, Zenon DEF Actives
<1>3. TurnsOf(missions, states) = TurnsOf(missions, others)
  BY <1>2, Zenon DEF TurnsOf
<1>4. QED
  BY <1>3, Zenon DEF RebuiltOf

\* The missions activated are no more than the free slots.
LEMMA SlotsAreFilled ==
    ASSUME CountsSets, NEW states \in [Missions -> Stages],
           Finite(Actives(states)), Size(Actives(states)) < MaxActive
    PROVE  LET after == Scheduling!Activated(states) IN
           /\ after \in [Missions -> Stages]
           /\ Finite(Actives(after)) /\ Size(Actives(after)) <= MaxActive
<1> DEFINE after == Scheduling!Activated(states)
           ready0 == Scheduling!Ready(states)
           free == MaxActive - Size(Actives(states))
           more == Actives(states) \cup {ready0[i] : i \in 1 .. free}
<1>1. free \in Nat /\ Size(Actives(states)) \in Nat
  BY TurnsAssumption DEF CountsSets
<1>2. after = [m \in Missions |->
                  IF \E i \in 1 .. Len(ready0) : i <= free /\ ready0[i] = m
                  THEN "active" ELSE states[m]]
  BY Zenon DEF Scheduling!Activated, Scheduling!ActiveCount, Actives, Size
<1> HIDE DEF after, ready0, free
<1>3. after \in [Missions -> Stages]
  BY <1>2, Zenon DEF Stages
<1>4. Finite(more) /\ Size(more) <= Size(Actives(states)) + free
  BY <1>1, Zenon DEF CountsSets
<1>5. Size(Actives(states)) + free = MaxActive
  BY <1>1, TurnsAssumption DEF free
<1>6. Actives(after) \subseteq more
  <2>1. SUFFICES ASSUME NEW m \in Missions, after[m] = "active", states[m] # "active"
                 PROVE  \E i \in 1 .. free : ready0[i] = m
    BY Zenon DEF Actives
  <2>2. PICK i \in 1 .. Len(ready0) : i <= free /\ ready0[i] = m
    BY <1>2, <2>1, Zenon
  <2>3. i \in 1 .. free
    BY <1>1, <2>2
  <2>4. QED
    BY <2>2, <2>3, Zenon
<1>7. Finite(Actives(after)) /\ Size(Actives(after)) <= Size(more) /\ Size(more) \in Nat
      /\ Size(Actives(after)) \in Nat
  <2> HIDE DEF more
  <2>1. QED
    BY <1>4, <1>6, Zenon DEF CountsSets
<1>8. Size(Actives(after)) <= MaxActive
  <2> HIDE DEF more
  <2>1. QED
    BY <1>4, <1>5, <1>7, TurnsAssumption
<1>9. QED
  BY <1>3, <1>7, <1>8, Zenon DEF after

\* activate_ready, once its caller has set the states and no mission became active.
LEMMA ActivateKeeps ==
    ASSUME CountsSets, RebuildsInSteps, ScheduleInv, NEW states \in [Missions -> Stages],
           NEW rebuilt \in BOOLEAN, rebuilt \/ states = state,
           Actives(states) \subseteq Actives(state),
           Scheduling!ActivateReady(states, rebuilt), order' = order
    PROVE  ScheduleInv'
<1>1. /\ Finite(Actives(states)) /\ Size(Actives(states)) <= MaxActive
      /\ Size(Actives(states)) \in Nat
  <2>1. /\ Finite(Actives(states)) /\ Size(Actives(states)) <= Size(Actives(state))
        /\ Size(Actives(states)) \in Nat /\ Size(Actives(state)) \in Nat
    BY Zenon DEF CountsSets, ScheduleInv
  <2>2. QED
    BY <2>1, TurnsAssumption DEF ScheduleInv
<1>2. Scheduling!ActiveCount(states) = Size(Actives(states))
  BY Zenon DEF Scheduling!ActiveCount, Actives, Size
<1>3. \A some : RebuiltOf(order, some) \in Seq(Missions)
  BY Zenon DEF RebuildsInSteps, ScheduleInv
<1>4. \A some : Scheduling!Rebuilt(some) = RebuiltOf(order, some)
  BY RebuiltIs, Zenon
<1>5. CASE Size(Actives(states)) >= MaxActive
  <2>1. /\ state' = states
        /\ \/ schedule' = RebuiltOf(order, states) /\ cursor' = 1
           \/ states = state /\ schedule' = schedule /\ cursor' = cursor
    BY <1>2, <1>4, <1>5, Zenon DEF Scheduling!ActivateReady
  <2>2. schedule' = RebuiltOf(order, states) /\ schedule' \in Seq(Missions)
    BY <1>3, <2>1, Zenon DEF ScheduleInv
  <2>3. cursor' \in 1 .. Len(schedule') + 1
    BY <2>1, <2>2 DEF ScheduleInv
  <2>4. QED
    BY <1>1, <2>1, <2>2, <2>3, Zenon DEF ScheduleInv
<1>6. CASE ~(Size(Actives(states)) >= MaxActive)
  <2> DEFINE after == Scheduling!Activated(states)
  <2>1. state' = after /\ schedule' = RebuiltOf(order, after) /\ cursor' = 1
    BY <1>2, <1>4, <1>6, Zenon DEF Scheduling!ActivateReady, Scheduling!ScheduleAfter
  <2>2. /\ after \in [Missions -> Stages]
        /\ Finite(Actives(after)) /\ Size(Actives(after)) <= MaxActive
    BY <1>1, <1>6, SlotsAreFilled, TurnsAssumption
  <2> HIDE DEF after
  <2>3. schedule' \in Seq(Missions) /\ cursor' \in 1 .. Len(schedule') + 1
    BY <1>3, <2>1
  <2>4. QED
    BY <2>1, <2>2, <2>3, Zenon DEF ScheduleInv
<1>7. QED
  BY <1>5, <1>6, Zenon

\* A mission is paused or completed and frees its slot (scheduler.rs).
LEMMA PausedKeeps ==
    ASSUME CountsSets, RebuildsInSteps, ScheduleInv, NEW m \in Missions,
           NEW stage \in {"paused", "completed"},
           Scheduling!ActivateReady([state EXCEPT ![m] = stage], TRUE), order' = order
    PROVE  ScheduleInv'
<1> DEFINE states == [state EXCEPT ![m] = stage]
<1>1. states \in [Missions -> Stages] /\ Actives(states) \subseteq Actives(state)
  BY Zenon DEF ScheduleInv, Stages, Actives
<1> HIDE DEF states
<1>2. Scheduling!ActivateReady(states, TRUE)
  BY Zenon DEF states
<1>3. QED
  BY <1>1, <1>2, ActivateKeeps, Zenon

\* A mission that is registered is not active (scheduler.rs).
LEMMA RegisterKeeps ==
    ASSUME RebuildsInSteps, ScheduleInv, NEW m \in Missions, Scheduling!Register(m)
    PROVE  ScheduleInv'
<1>1. /\ state[m] = "none" /\ state' = [state EXCEPT ![m] = "queued"]
      /\ order' = Append(order, m) /\ schedule' = schedule /\ cursor' = cursor
  BY Zenon DEF Scheduling!Register
<1>2. order' \in Seq(Missions) /\ state' \in [Missions -> Stages]
  BY <1>1 DEF ScheduleInv, Stages
<1>3. Actives(state') = Actives(state) /\ state'[m] # "active"
  BY <1>1, Zenon DEF ScheduleInv, Actives
<1>4. RebuiltOf(order', state') = RebuiltOf(order, state')
  BY <1>1, <1>3, Zenon DEF RebuildsInSteps, ScheduleInv
<1>5. RebuiltOf(order, state') = RebuiltOf(order, state)
  BY <1>3, RebuiltByActives DEF ScheduleInv
<1>6. QED
  BY <1>1, <1>2, <1>3, <1>4, <1>5, Zenon DEF ScheduleInv

\* The cursor goes round the schedule (scheduler.rs).
LEMMA TakeNextKeeps ==
    ASSUME ScheduleInv, Scheduling!TakeNext
    PROVE  ScheduleInv'
<1>1. UNCHANGED <<order, state, schedule>>
  BY Zenon DEF Scheduling!TakeNext
<1>2. PICK k \in 1 .. Len(schedule) : cursor' = Scheduling!Advanced(cursor, k)
  BY Zenon DEF Scheduling!TakeNext
<1>3. Len(schedule) \in Nat /\ Len(schedule) > 0 /\ cursor \in Nat /\ cursor >= 1 /\ k \in Nat
  BY <1>2 DEF ScheduleInv
<1>4. \A a \in Nat, n \in Nat : n > 0 => (a % n) + 1 \in 1 .. n + 1
  OBVIOUS
<1>5. cursor + k - 1 \in Nat
  BY <1>3
<1>6. cursor' \in 1 .. Len(schedule) + 1
  BY <1>2, <1>3, <1>4, <1>5, Zenon DEF Scheduling!Advanced
<1>7. QED
  BY <1>1, <1>6, Zenon DEF ScheduleInv

\* Every step keeps the schedule as it would be rebuilt.
LEMMA ScheduleStep ==
    ASSUME CountsSets, RebuildsInSteps, ScheduleInv, [Scheduling!Next]_scheduler
    PROVE  ScheduleInv'
<1>1. ASSUME UNCHANGED <<order, state, schedule, cursor>> PROVE ScheduleInv'
  BY <1>1, Zenon DEF ScheduleInv
<1>2. ASSUME NEW m \in Missions, Scheduling!Paused(m), order' = order PROVE ScheduleInv'
  BY <1>2, PausedKeeps, Zenon DEF Scheduling!Paused
<1>3. ASSUME NEW m \in Missions, Scheduling!Enqueue(m) PROVE ScheduleInv'
  BY <1>1, <1>3, Zenon DEF Scheduling!Enqueue
<1>4. ASSUME NEW m \in Missions, Scheduling!Pause(m) PROVE ScheduleInv'
  BY <1>2, <1>4, Zenon DEF Scheduling!Pause
<1>5. ASSUME NEW m \in Missions, Scheduling!Complete(m) PROVE ScheduleInv'
  BY <1>5, PausedKeeps, Zenon DEF Scheduling!Complete
<1>6. ASSUME NEW m \in Missions, NEW observed, Scheduling!ApplyResourceDecision(m, observed)
      PROVE  ScheduleInv'
  BY <1>1, <1>2, <1>6, Zenon DEF Scheduling!ApplyResourceDecision
<1>7. CASE Scheduling!Activate
  <2>1. Scheduling!ActivateReady(state, FALSE) /\ order' = order
    BY <1>7, Zenon DEF Scheduling!Activate
  <2>2. state \in [Missions -> Stages] /\ Actives(state) \subseteq Actives(state)
    BY Zenon DEF ScheduleInv
  <2>3. QED
    BY <2>1, <2>2, ActivateKeeps, Zenon
<1>8. CASE UNCHANGED scheduler
  BY <1>1, <1>8, Zenon DEF scheduler
<1>9. QED
  BY <1>3, <1>4, <1>5, <1>6, <1>7, <1>8, RegisterKeeps, TakeNextKeeps DEF Scheduling!Next

-----------------------------------------------------------------------------
(***************************************************************************)
(* What the steps above use of cardinalities and of folds, and the         *)
(* theorems.                                                               *)
(***************************************************************************)
Sets == INSTANCE FiniteSetTheorems

\* A set of numbers that is not empty has a least one.
LEMMA LeastNumber == \A T \in SUBSET Nat : T # {} => \E n \in T : \A m \in T : n <= m
<1> SUFFICES ASSUME NEW T \in SUBSET Nat, T # {} PROVE \E n \in T : \A m \in T : n <= m
  BY Zenon
<1> DEFINE R == Sets!OpToRel(<, Nat)
<1>1. Sets!IsWellFoundedOn(R, Nat)
  BY Sets!NatLessThanWellFounded, Zenon
<1>2. \A x, y \in Nat : <<x, y>> \in R <=> x < y
  BY Zenon DEF Sets!OpToRel
<1> HIDE DEF R
<1>3. PICK n \in T : \A m \in T : ~(<<m, n>> \in R)
  BY <1>1, Sets!WFMin, Zenon
<1>4. ASSUME NEW m \in T PROVE n <= m
  <2>1. m \in Nat /\ n \in Nat
    BY Zenon
  <2>2. ~(m < n)
    BY <1>2, <1>3, <2>1, Zenon
  <2>3. QED
    BY <2>1, <2>2
<1>5. QED
  BY <1>4

Reduction(m, e) == Pipeline!Reduce(m, e)

Replaying == INSTANCE FoldRules WITH Op <- Reduction

\* Replaying is iterating the reducer.
LEMMA ReplayIs ==
    ASSUME NEW log
    PROVE  Pipeline!Replay(log) = Replaying!Iterate(Reduction, Pipeline!Empty, log)
BY Zenon DEF Pipeline!Replay, Pipeline!Iterate, Replaying!Iterate, Reduction

\* The replay of an empty ledger is the empty model.
LEMMA ReplayNothing == Pipeline!Replay(<<>>) = Pipeline!Empty
BY ReplayIs, LeastNumber, Replaying!IterateEmpty, Zenon DEF Replaying!LeastNumbers

\* One more event is one more step of the reducer, by the rule for loops.
LEMMA ReplayOneMore == ReplaysInSteps
<1> SUFFICES ASSUME NEW log \in Seq(Stored), NEW e \in Stored
             PROVE  Pipeline!Replay(Append(log, e)) = Pipeline!Reduce(Pipeline!Replay(log), e)
  BY Zenon DEF ReplaysInSteps
<1>1. Replaying!Iterate(Reduction, Pipeline!Empty, Append(log, e))
        = Reduction(Replaying!Iterate(Reduction, Pipeline!Empty, log), e)
  BY LeastNumber, Replaying!IterateAppend, Zenon DEF Replaying!LeastNumbers
<1>2. \A m : Reduction(m, e) = Pipeline!Reduce(m, e)
  BY DEF Reduction
<1>3. QED
  BY <1>1, <1>2, ReplayIs, Zenon

\* A running pipeline shows its subscribers what replaying the ledger gives, but for
\* the secrets that the ledger redacts and the live model does not: through
\* events resent, sent by mistake or refused, recoveries and subscribers that go, for
\* any subscribers and any number of events (event_pipeline.rs, read_model.rs).
THEOREM LiveModelIsReplay == Pipeline!Spec => []ModelIsReplay
<1>1. Pipeline!Init => PipelineInv
  <2> SUFFICES ASSUME Pipeline!Init PROVE PipelineInv
    OBVIOUS
  <2>1. /\ events = [mission \in Pipeline!MissionIds |-> <<>>] /\ model = Pipeline!Empty
        /\ status = "Running" /\ seen = [s \in Subscribers |-> {}]
    BY Zenon DEF Pipeline!Init
  <2>2. events["own"] = <<>> /\ events["foreign"] = <<>>
    BY <2>1, Zenon DEF Pipeline!MissionIds
  <2>3. Pipeline!Replay(events["own"]) = Pipeline!Empty
    BY <2>2, ReplayNothing, Zenon
  <2>4. MadeOf(Pipeline!Empty, <<>>)
    BY DEF MadeOf, Models, Pipeline!Empty
  <2>5. Pipeline!Replayable(<<>>)
    BY DEF Pipeline!Replayable
  <2>6. events \in [Pipeline!MissionIds -> Seq(Stored)]
    BY <2>1
  <2>7. seen \in [Subscribers -> {{}, {model}}]
    BY <2>1
  <2>8. \A mission \in Pipeline!MissionIds : Len(events[mission]) = 0
    BY <2>1
  <2>9. Pipeline!AsStored(Pipeline!Empty) = Pipeline!Empty
    <3>1. Pipeline!Empty \in Models /\ Pipeline!Empty.evidence = <<>>
      BY <2>4, Zenon DEF MadeOf, Pipeline!Empty
    <3>2. Cleaned(<<>>) = <<>>
      BY DEF Cleaned
    <3>3. [Pipeline!Empty EXCEPT !.evidence = <<>>] = Pipeline!Empty
      BY DEF Pipeline!Empty
    <3>4. QED
      BY <3>1, <3>2, <3>3, AsStoredIs, Zenon
  <2>10. Replayed(model, events["own"])
    BY <2>1, <2>2, <2>3, <2>4, <2>5, <2>9, Zenon DEF Replayed
  <2>11. QED
    BY <2>1, <2>2, <2>3, <2>4, <2>6, <2>7, <2>8, <2>9, <2>10 DEF PipelineInv
<1>2. PipelineInv /\ [Pipeline!Next]_(Pipeline!vars) => PipelineInv'
  BY ReplayOneMore, PipelineStep DEF pipeline, Pipeline!vars
<1>3. PipelineInv => ModelIsReplay
  BY Zenon DEF PipelineInv, Replayed, ModelIsReplay, Pipeline!ModelIsReplay
<1>4. QED
  BY <1>1, <1>2, <1>3, PTL DEF Pipeline!Spec

\* What the scheduler's proofs use of cardinalities.
LEMMA SetsCounted == CountsSets
<1>1. \A S : Finite(S) <=> Sets!IsFiniteSet(S)
  BY Zenon DEF Finite, Scheduling!IsFiniteSet, Sets!IsFiniteSet
<1>2. \A S : Size(S) = Sets!Cardinality(S)
  BY Zenon DEF Size, Scheduling!Cardinality, Sets!Cardinality
<1>3. Finite({}) /\ Size({}) = 0
  BY <1>1, <1>2, Sets!FS_EmptySet, Zenon
<1>4. ASSUME NEW S, Finite(S) PROVE Size(S) \in Nat
  BY <1>1, <1>2, <1>4, Sets!FS_CardinalityType, Zenon
<1>5. ASSUME NEW S, NEW T, Finite(S), T \subseteq S PROVE Finite(T) /\ Size(T) <= Size(S)
  BY <1>1, <1>2, <1>5, Sets!FS_Subset, Zenon
<1>6. ASSUME NEW S, NEW f, NEW n \in Nat, Finite(S)
      PROVE  LET more == S \cup {f[i] : i \in 1 .. n}
             IN  Finite(more) /\ Size(more) <= Size(S) + n
  <2> DEFINE new == {f[i] : i \in 1 .. n}
             g == [i \in 1 .. n |-> f[i]]
  <2>1. Sets!IsFiniteSet(1 .. n) /\ Sets!Cardinality(1 .. n) = n
    <3>1. 1 \in Int /\ n \in Int
      OBVIOUS
    <3>2. Sets!IsFiniteSet(1 .. n) /\ Sets!Cardinality(1 .. n) = IF 1 > n THEN 0 ELSE n - 1 + 1
      BY <3>1, Sets!FS_Interval, Zenon
    <3>3. (IF 1 > n THEN 0 ELSE n - 1 + 1) = n
      OBVIOUS
    <3>4. QED
      BY <3>2, <3>3
  <2>2. g \in Sets!Surjection(1 .. n, new)
    BY Zenon DEF Sets!Surjection
  <2>3. Sets!IsFiniteSet(new) /\ Sets!Cardinality(new) <= n
    <3> HIDE DEF g, new
    <3>1. Sets!IsFiniteSet(new) /\ Sets!Cardinality(new) <= Sets!Cardinality(1 .. n)
      BY <2>1, <2>2, Sets!FS_Surjection, Zenon
    <3>2. QED
      BY <2>1, <3>1
  <2> HIDE DEF new
  <2>4. Sets!IsFiniteSet(S \cup new) /\ Sets!IsFiniteSet(S \cap new)
        /\ Sets!Cardinality(S \cup new)
              = Sets!Cardinality(S) + Sets!Cardinality(new) - Sets!Cardinality(S \cap new)
    BY <1>1, <1>6, <2>3, Sets!FS_Union, Sets!FS_Intersection, Zenon
  <2>5. /\ Sets!Cardinality(S) \in Nat /\ Sets!Cardinality(new) \in Nat
        /\ Sets!Cardinality(S \cap new) \in Nat
    BY <1>1, <1>6, <2>3, <2>4, Sets!FS_CardinalityType, Zenon
  <2>6. Sets!Cardinality(S \cup new) <= Sets!Cardinality(S) + n
    BY <2>3, <2>4, <2>5
  <2>7. QED
    BY <1>1, <1>2, <2>4, <2>6, Zenon DEF new
<1>7. QED
  BY <1>3, <1>4, <1>5, <1>6, Zenon DEF CountsSets

Extending(turns, more) == Scheduling!Extend(turns, more)

Extended == INSTANCE FoldRules WITH Op <- Extending

\* What the scheduler's proofs use of the loop that rebuilds the schedule.
LEMMA ScheduleRebuilt == RebuildsInSteps
<1>1. \A missions, states :
         RebuiltOf(missions, states) = Extended!Iterate(Extending, <<>>, TurnsOf(missions, states))
  BY Zenon DEF RebuiltOf, Scheduling!Iterate, Extended!Iterate, Extending
<1>2. ASSUME NEW missions \in Seq(Missions), NEW states
      PROVE  /\ TurnsOf(missions, states) \in Seq(Seq(Missions))
             /\ Len(TurnsOf(missions, states)) = Len(missions)
  <2>1. ASSUME NEW i \in 1 .. Len(missions) PROVE TurnsOf(missions, states)[i] \in Seq(Missions)
    <3>1. missions[i] \in Missions /\ Scheduling!Weight(missions[i]) \in Nat
      BY DEF Scheduling!Weight
    <3> DEFINE m == missions[i]
               w == Scheduling!Weight(m)
    <3> HIDE DEF m, w
    <3>2. [n \in 1 .. w |-> m] \in Seq(Missions)
      BY <3>1 DEF m, w
    <3>3. TurnsOf(missions, states)[i] = IF states[m] = "active" THEN [n \in 1 .. w |-> m] ELSE <<>>
      BY Zenon DEF TurnsOf, m, w
    <3>4. QED
      BY <3>2, <3>3
  <2>2. TurnsOf(missions, states) = [i \in 1 .. Len(missions) |-> TurnsOf(missions, states)[i]]
    BY Zenon DEF TurnsOf
  <2>3. QED
    BY <2>1, <2>2
<1>3. ASSUME NEW states PROVE RebuiltOf(<<>>, states) = <<>>
  <2>1. TurnsOf(<<>>, states) = <<>>
    BY DEF TurnsOf
  <2>2. QED
    BY <1>1, <2>1, LeastNumber, Extended!IterateEmpty, Zenon DEF Extended!LeastNumbers
<1>4. ASSUME NEW missions \in Seq(Missions), NEW states
      PROVE  RebuiltOf(missions, states) \in Seq(Missions)
  <2> DEFINE turns == TurnsOf(missions, states)
             T == [k \in 0 .. Len(turns) |-> Seq(Missions)]
  <2>1. turns \in Seq(Seq(Missions)) /\ Len(turns) \in Nat
    BY <1>2
  <2> HIDE DEF turns
  <2>2. T[Len(turns)] = Seq(Missions) /\ T[0] = Seq(Missions)
        /\ \A k \in 1 .. Len(turns) : T[k] = Seq(Missions) /\ T[k - 1] = Seq(Missions)
    BY <2>1
  <2> HIDE DEF T
  <2>3. <<>> \in T[0]
    BY <2>2
  <2>4. ASSUME NEW k \in 1 .. Len(turns), NEW r \in T[k - 1] PROVE Extending(r, turns[k]) \in T[k]
    <3>1. turns[k] \in Seq(Missions) /\ r \in Seq(Missions) /\ T[k] = Seq(Missions)
      BY <2>1, <2>2
    <3>2. r \o turns[k] \in Seq(Missions)
      BY <3>1
    <3>3. QED
      BY <3>1, <3>2, Zenon DEF Extending, Scheduling!Extend
  <2>5. Extended!Iterate(Extending, <<>>, turns) \in T[Len(turns)]
    BY <2>1, <2>3, <2>4, LeastNumber, Extended!IterateWithin, Zenon DEF Extended!LeastNumbers
  <2>6. QED
    BY <1>1, <2>2, <2>5, Zenon DEF turns
<1>5. ASSUME NEW missions \in Seq(Missions), NEW m \in Missions, NEW states, states[m] # "active"
      PROVE  RebuiltOf(Append(missions, m), states) = RebuiltOf(missions, states)
  <2> DEFINE turns == TurnsOf(missions, states)
             longer == Append(missions, m)
  <2>1. turns \in Seq(Seq(Missions)) /\ Len(turns) = Len(missions) /\ Len(missions) \in Nat
    BY <1>2
  <2>2. longer \in Seq(Missions) /\ Len(longer) = Len(missions) + 1 /\ longer[Len(missions) + 1] = m
        /\ \A i \in 1 .. Len(missions) : longer[i] = missions[i]
    OBVIOUS
  <2>3. TurnsOf(longer, states) = Append(turns, <<>>)
    <3>1. Append(turns, <<>>) \in Seq(Seq(Missions)) /\ Len(Append(turns, <<>>)) = Len(missions) + 1
      BY <2>1
    <3>2. TurnsOf(longer, states) \in Seq(Seq(Missions))
          /\ Len(TurnsOf(longer, states)) = Len(missions) + 1
      <4> HIDE DEF longer
      <4>1. QED
        BY <1>2, <2>2
    <3>3. ASSUME NEW i \in 1 .. Len(missions) PROVE TurnsOf(longer, states)[i] = Append(turns, <<>>)[i]
      <4>1. Append(turns, <<>>)[i] = turns[i]
        BY <2>1
      <4>2. i \in 1 .. Len(longer) /\ longer[i] = missions[i]
        BY <2>1, <2>2
      <4>3. QED
        BY <4>1, <4>2, Zenon DEF TurnsOf
    <3>4. TurnsOf(longer, states)[Len(missions) + 1] = <<>>
      <4>1. Len(missions) + 1 \in 1 .. Len(longer)
        BY <2>1, <2>2
      <4>2. QED
        BY <1>5, <2>2, <4>1, Zenon DEF TurnsOf
    <3>5. Append(turns, <<>>)[Len(missions) + 1] = <<>>
      BY <2>1
    <3>6. \A i \in 1 .. Len(missions) + 1 : i \in 1 .. Len(missions) \/ i = Len(missions) + 1
      BY <2>1
    <3> DEFINE a == TurnsOf(longer, states)
               b == Append(turns, <<>>)
    <3>7. \A i \in 1 .. Len(missions) + 1 : a[i] = b[i]
      BY <3>3, <3>4, <3>5, <3>6, Zenon
    <3> HIDE DEF a, b
    <3>8. a \in Seq(Seq(Missions)) /\ b \in Seq(Seq(Missions)) /\ Len(a) = Len(b)
          /\ Len(a) = Len(missions) + 1
      BY <3>1, <3>2 DEF a, b
    <3>9. a = b
      BY <3>7, <3>8, SameSequence, Zenon
    <3>10. QED
      BY <3>9 DEF a, b
  <2>4. Extended!Iterate(Extending, <<>>, Append(turns, <<>>))
           = Extending(Extended!Iterate(Extending, <<>>, turns), <<>>)
    <3> HIDE DEF turns
    <3>1. QED
      BY <2>1, LeastNumber, Extended!IterateAppend, Zenon DEF Extended!LeastNumbers
  <2>5. Extending(RebuiltOf(missions, states), <<>>) = RebuiltOf(missions, states)
    <3>1. \A s \in Seq(Missions) : s \o <<>> = s
      OBVIOUS
    <3>2. QED
      BY <1>4, <3>1, Zenon DEF Extending, Scheduling!Extend
  <2>6. QED
    BY <1>1, <2>3, <2>4, <2>5, Zenon
<1>6. QED
  BY <1>3, <1>4, <1>5, Zenon DEF RebuildsInSteps

\* The schedule holds the active missions, each as often as its weight says, and they
\* are no more than there are slots, for any missions, any number of slots and calls of
\* the scheduler in any order (scheduler.rs, resource_budget.rs).
THEOREM ScheduleStaysSound == Scheduling!Spec => []ScheduleIsSound
<1>1. Scheduling!Init => ScheduleInv
  <2> SUFFICES ASSUME Scheduling!Init PROVE ScheduleInv
    OBVIOUS
  <2>1. order = <<>> /\ state = [m \in Missions |-> "none"] /\ schedule = <<>> /\ cursor = 1
    BY Zenon DEF Scheduling!Init
  <2>2. Actives(state) = {}
    BY <2>1 DEF Actives
  <2>3. Finite(Actives(state)) /\ Size(Actives(state)) = 0
    BY <2>2, SetsCounted, Zenon DEF CountsSets
  <2>4. schedule = RebuiltOf(order, state)
    BY <2>1, ScheduleRebuilt, Zenon DEF RebuildsInSteps
  <2>5. state \in [Missions -> Stages] /\ order \in Seq(Missions) /\ schedule \in Seq(Missions)
        /\ cursor \in 1 .. Len(schedule) + 1
    BY <2>1 DEF Stages
  <2>6. QED
    BY <2>3, <2>4, <2>5, TurnsAssumption DEF ScheduleInv
<1>2. ScheduleInv /\ [Scheduling!Next]_(Scheduling!vars) => ScheduleInv'
  BY ScheduleStep, SetsCounted, ScheduleRebuilt DEF scheduler, Scheduling!vars
<1>3. ScheduleInv => ScheduleIsSound
  <2>1. Scheduling!ActiveCount(state) = Size(Actives(state))
    BY Zenon DEF Scheduling!ActiveCount, Actives, Size
  <2>2. QED
    BY <2>1, RebuiltIs, Zenon DEF ScheduleInv, ScheduleIsSound, Scheduling!ScheduleIsSound
<1>4. QED
  BY <1>1, <1>2, <1>3, PTL DEF Scheduling!Spec
=============================================================================
