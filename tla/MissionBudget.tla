--------------------------- MODULE MissionBudget ----------------------------
(***************************************************************************)
(* The budget tracker of a mission (policy's budget.rs) and how the        *)
(* mission service feeds it (mission_service.rs): the limits come from the *)
(* contract events of the ledger, the usage from the running totals that   *)
(* the agents report, and a dimension at its limit, or of unknown usage,   *)
(* pauses the mission.                                                     *)
(***************************************************************************)
EXTENDS Integers, FiniteSets, FiniteSetsExt, Functions

CONSTANTS
    Runs,
    Totals,        \* the token totals an agent may report
    Requests,      \* the budgets a user may ask for, per dimension a limit or None
    Default,       \* DEFAULT_BUDGET_LIMITS
    MaxInputs      \* bound: launches, reports, contracts, corrections, restarts

Dimensions == {"tokens", "calls", "clock"}

\* In a request: the dimension is not given.  In the usage: it is not known.
None == -1

Unknown == -1

VARIABLES
    contract,      \* the budget of the last ContractUpdated event, or {}
    version,       \* the tracker's contract_version
    limits,
    used,
    warned,
    paused,        \* the mission was asked to pause
    previous,      \* per run: the highest total of its consumer, None if it has none
    peaks,         \* history: per run, the highest total it reported in this process
    base,          \* history: what a correction added to the reported totals
    inputs

vars == <<contract, version, limits, used, warned, paused, previous, peaks, base, inputs>>

LimitsOf(request) == [d \in Dimensions |-> IF request[d] = None THEN Default[d] ELSE request[d]]

\* budget_tracker_from_events: only the last contract event is looked at.
LimitsFrom(budgets) == IF budgets = {} THEN Default ELSE LimitsOf(CHOOSE b \in budgets : TRUE)

\* create_mission, or a restart that finds the mission in the ledger.
NewTracker(budgets) ==
    /\ version' = 1
    /\ limits' = LimitsFrom(budgets)
    /\ used' = [d \in Dimensions |-> 0]
    /\ warned' = {}
    /\ previous' = [r \in Runs |-> None]
    /\ peaks' = [r \in Runs |-> 0]
    /\ base' = 0

Init ==
    /\ \E request \in Requests : contract = {request}
    /\ version = 1
    /\ limits = LimitsFrom(contract)
    /\ used = [d \in Dimensions |-> 0]
    /\ warned = {}
    /\ paused = FALSE
    /\ previous = [r \in Runs |-> None]
    /\ peaks = [r \in Runs |-> 0]
    /\ base = 0
    /\ inputs = 0

Input == inputs < MaxInputs /\ inputs' = inputs + 1

-----------------------------------------------------------------------------
\* record(Sample): an unknown dimension stays unknown.
Sampled(sample) ==
    [d \in Dimensions |-> IF used[d] = Unknown THEN Unknown ELSE used[d] + sample[d]]

Spent(usage, d) == usage[d] = Unknown \/ limits[d] = 0 \/ usage[d] >= limits[d]

Warns(usage) == {d \in Dimensions : ~Spent(usage, d) /\ usage[d] * 5 >= limits[d] * 4}

\* evaluate_safe_boundary with the policy Pause, then apply_budget_signals.
Evaluate(usage) ==
    /\ warned' = warned \cup Warns(usage)
    /\ paused' = (paused \/ \E d \in Dimensions : Spent(usage, d))

\* launch_agent starts a consumer of the run's events.
Launch(r) ==
    /\ Input
    /\ previous[r] = None
    /\ peaks[r] = 0
    /\ previous' = [previous EXCEPT ![r] = 0]
    /\ UNCHANGED <<contract, version, limits, used, warned, paused, peaks, base>>

\* usage_record_from_event
Delta(r, total) == IF total > previous[r] THEN total - previous[r] ELSE 0

\* Mutant: the consumer remembers the last total and not the highest.
LastTotal(r, total) == total

Remembered(r, total) == Max({previous[r], total})

Report(r, total) ==
    /\ Input
    /\ previous[r] # None
    /\ LET usage == Sampled([tokens |-> Delta(r, total), calls |-> 1, clock |-> 0])
       IN used' = usage /\ Evaluate(usage)
    /\ previous' = [previous EXCEPT ![r] = Remembered(r, total)]
    /\ peaks' = [peaks EXCEPT ![r] = Max({@, total})]
    /\ UNCHANGED <<contract, version, limits, base>>

\* A report without a readable total.
ReportUnreadable(r) ==
    /\ Input
    /\ previous[r] # None
    /\ LET usage == [used EXCEPT !.tokens = Unknown]
       IN used' = usage /\ Evaluate(usage)
    /\ UNCHANGED <<contract, version, limits, previous, peaks, base>>

\* The consumer ends and accounts the time of the run.
RunEnds(r, elapsed) ==
    /\ previous[r] # None
    /\ LET usage == Sampled([tokens |-> 0, calls |-> 0, clock |-> elapsed])
       IN used' = usage /\ Evaluate(usage)
    /\ previous' = [previous EXCEPT ![r] = None]
    /\ UNCHANGED <<contract, version, limits, peaks, base, inputs>>

\* record(Correction), which the service does not use.
Correct(total) ==
    /\ Input
    /\ used' = [used EXCEPT !.tokens = total]
    /\ base' = total - FoldFunction(LAMBDA a, b : a + b, 0, peaks)
    /\ UNCHANGED <<contract, version, limits, warned, paused, previous, peaks>>

\* replace_limits, with a later contract of the user.
ReplaceLimits(request) ==
    /\ Input
    /\ version' = version + 1
    /\ limits' = LimitsOf(request)
    /\ warned' = {}
    /\ UNCHANGED <<contract, used, paused, previous, peaks, base>>

\* update_mission_contract: the event has a goal and an expected version, no budget.
UpdateMissionContract ==
    /\ Input
    /\ contract' = {}
    /\ UNCHANGED <<version, limits, used, warned, paused, previous, peaks, base>>

\* The process dies; the next one restores the mission.
Restart ==
    /\ Input
    /\ NewTracker(contract)
    /\ UNCHANGED <<contract, paused>>

Next ==
    \/ \E r \in Runs : Launch(r) \/ ReportUnreadable(r)
    \/ \E r \in Runs, total \in Totals : Report(r, total)
    \/ \E r \in Runs, elapsed \in 1 .. 2 : RunEnds(r, elapsed)
    \/ \E total \in Totals : Correct(total)
    \/ \E request \in Requests : ReplaceLimits(request)
    \/ UpdateMissionContract
    \/ Restart

Spec == Init /\ [][Next]_vars
-----------------------------------------------------------------------------
\* The tokens charged to a mission are the sum over its runs of the highest total each
\* reported, however often a total is repeated or goes back, and whichever runs report
\* in turns; a correction moves the sum and an unknown usage is not charged.
TokensCountedOnce ==
    used.tokens # Unknown => used.tokens = base + FoldFunction(LAMBDA a, b : a + b, 0, peaks)

\* "budget_increase_requires_a_user_contract_version_change": the limits of a mission
\* grow only with a later contract version of the user.
IncreaseNeedsContract ==
    [][(\E d \in Dimensions : limits'[d] > limits[d]) => version' > version]_vars
=============================================================================
