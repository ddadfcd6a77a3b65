------------------------------- MODULE ShadowStage -------------------------------
(***************************************************************************)
(* The shadow stage of a router candidate in one workspace (routing/shadow.  *)
(* py, routing/rollout.py).  A SHADOW version with a daily budget is          *)
(* registered for a candidate, records what it would have chosen beside every *)
(* committed routing receipt, and is scored by branched rollouts after the    *)
(* routed node has finished: a SHADOW arm, then a CONTROL arm.                *)
(*                                                                         *)
(* stage[r] names the awaited call in flight for the node behind receipt r.   *)
(* Registering a shadow version and everything that releases a candidate are  *)
(* requests of operators, and are in RouterRelease.                          *)
(***************************************************************************)
EXTENDS Naturals, Sequences, FiniteSets

CONSTANTS
    Budgets,    \* budgets a shadow policy may be registered under
    CostCap,    \* daily_cost_cap of each budget, in the cost of one arm
    TrialCap,   \* max_trials_per_day of each budget
    HashRank,   \* the order of the ids derived from the budgets, unrelated to their age
    Receipts,   \* routing receipts of the workspace, one per routed node
    Slots,      \* runs that execute at once (ConcurrencyLimiter)
    MaxDay,     \* bound on the days that pass
    None

VARIABLES
    versions,   \* router_model_versions: [id -> [status, parent, root, created]]
    day,        \* today
    decisions,  \* shadow_decisions: [receipt, version]
    results,    \* shadow_rollout_results: [receipt, version, kind, trial, day]
    stage,      \* the call in flight for each receipt's node
    picked      \* the shadow version its hook or its rollout works with

shadowVars == <<day, decisions, results, stage, picked>>

ASSUME ShadowAssumption ==
    /\ IsFiniteSet(Receipts) /\ Slots \in Nat \ {0} /\ MaxDay \in Nat
    /\ \A b \in Budgets : TrialCap[b] \in Nat \ {0} /\ CostCap[b] \in Nat \ {0}

\* derived_id: equal parts give an equal id, other parts another.
DerivedId(source, purpose, cause) == <<source, purpose, cause>>

ShadowId(candidate, budget) == DerivedId(candidate, "shadow", budget)

\* The budget, read back from the labels of a shadow version.
BudgetOf(v) == v[3]

\* LOADABLE_STATUSES: what the loader will assemble.
Loadable == {"CANDIDATE", "SHADOW", "ACTIVE"}

ShadowVersions == {v \in DOMAIN versions : versions[v].status = "SHADOW"}

\* ShadowRoutingHook.shadow_version: the youngest, ties by id.
ShadowVersion ==
    CHOOSE v \in ShadowVersions : \A w \in ShadowVersions :
      \/ versions[w].created < versions[v].created
      \/ /\ versions[w].created = versions[v].created
         /\ HashRank[BudgetOf(w)] <= HashRank[BudgetOf(v)]

InFlight == {"listing", "recording", "executing", "checking", "shadow_arm", "control_arm"}
Busy == {r \in Receipts : stage[r] \in InFlight}

Goto(r, s) == stage' = [stage EXCEPT ![r] = s]

\* The receipt is committed and the post-route hook starts (route).
CommitReceipt(r) ==
    /\ stage[r] = "waiting" /\ Cardinality(Busy) < Slots
    /\ Goto(r, "listing")
    /\ UNCHANGED <<versions, day, decisions, results, picked>>

\* _record lists the versions; a workspace without a shadow version records nothing.
PickShadow(r) ==
    /\ stage[r] = "listing"
    /\ \/ /\ ShadowVersions = {} /\ Goto(r, "executing") /\ UNCHANGED picked
       \/ /\ ShadowVersions # {} /\ Goto(r, "recording")
          /\ picked' = [picked EXCEPT ![r] = ShadowVersion]
    /\ UNCHANGED <<versions, day, decisions, results>>

\* record_shadow_decision: the id is derived, so a receipt has one decision per version.
ShadowDecision(r, v) == [receipt |-> r, version |-> v]

\* The decision of the slate scored by the version that was picked.
RecordDecision(r) ==
    /\ stage[r] = "recording" /\ Goto(r, "executing")
    /\ decisions' = decisions \cup {ShadowDecision(r, picked[r])}
    /\ UNCHANGED <<versions, day, results, picked>>

\* after_receipt swallows every failure of the hook: the executed decision stands.
HookFails(r) ==
    /\ stage[r] \in {"listing", "recording"} /\ Goto(r, "executing")
    /\ UNCHANGED <<versions, day, decisions, results, picked>>

DecisionsFor(r) == {d \in decisions : d.receipt = r}

\* after_node: a receipt without a decision (it was amended, or the hook failed), a node that
\* may not be forked and one outside the sample are left alone.
StartRollout(r) ==
    /\ stage[r] = "executing"
    /\ \/ Goto(r, "done") /\ UNCHANGED picked
       \/ \E d \in DecisionsFor(r) :
            picked' = [picked EXCEPT ![r] = d.version] /\ Goto(r, "checking")
    /\ UNCHANGED <<versions, day, decisions, results>>

RowsOn(v, d) == {x \in results : x.version = v /\ x.day = d}

\* _within_budget: both caps, against the arms that completed today.
WithinBudget(v) ==
    /\ Cardinality(RowsOn(v, day)) < CostCap[BudgetOf(v)]
    /\ Cardinality(RowsOn(v, day)) < TrialCap[BudgetOf(v)]

CheckBudget(r) ==
    /\ stage[r] = "checking"
    /\ Goto(r, IF WithinBudget(picked[r]) THEN "shadow_arm" ELSE "done")
    /\ UNCHANGED <<versions, day, decisions, results, picked>>

Arms(r, kind) == {x \in results : x.receipt = r /\ x.version = picked[r] /\ x.kind = kind}

\* _next_trial: counted from the stored SHADOW arms of the decision.
NextTrial(r) == Cardinality(Arms(r, "SHADOW"))

AddArm(r, kind, trial) ==
    results' = results \cup
      {[receipt |-> r, version |-> picked[r], kind |-> kind, trial |-> trial, day |-> day]}

\* _run_arm: the shadow configuration in a fork of its own.
RunShadowArm(r) ==
    /\ stage[r] = "shadow_arm" /\ Goto(r, "control_arm")
    /\ AddArm(r, "SHADOW", NextTrial(r))
    /\ UNCHANGED <<versions, day, decisions, picked>>

\* Mutant of RunControlArm: the next trial starts without a check of the budget.
RunControlArmAgain(r) ==
    /\ stage[r] = "control_arm" /\ Goto(r, "shadow_arm")
    /\ AddArm(r, "CONTROL", NextTrial(r) - 1)
    /\ UNCHANGED <<versions, day, decisions, picked>>

\* The executed configuration in a sibling fork, under the same trial.
RunControlArm(r) ==
    /\ stage[r] = "control_arm" /\ Goto(r, "done")
    /\ AddArm(r, "CONTROL", NextTrial(r) - 1)
    /\ UNCHANGED <<versions, day, decisions, picked>>

\* An arm raises: after_node swallows it, and what the other arm wrote stays.
ArmFails(r) ==
    /\ stage[r] \in {"shadow_arm", "control_arm"} /\ Goto(r, "done")
    /\ UNCHANGED <<versions, day, decisions, results, picked>>

\* Days matter while a rollout may still run.
NextDay ==
    /\ day < MaxDay /\ \E r \in Receipts : stage[r] # "done" /\ day' = day + 1
    /\ UNCHANGED <<versions, decisions, results, stage, picked>>

ShadowStep ==
    \/ NextDay
    \/ \E r \in Receipts :
         \/ CommitReceipt(r) \/ PickShadow(r) \/ RecordDecision(r) \/ HookFails(r)
         \/ StartRollout(r) \/ CheckBudget(r)
         \/ RunShadowArm(r) \/ RunControlArm(r) \/ ArmFails(r)

ArmsOf(v, heard, kind) ==
    {<<x.receipt, x.trial>> :
       x \in {y \in results : y.version = v /\ y.receipt \in heard /\ y.kind = kind}}

\* Mutant of Complete: a lone arm counts as a pair.
CompleteOrLone(v, heard) == ArmsOf(v, heard, "SHADOW") \cup ArmsOf(v, heard, "CONTROL")

\* paired_deltas: the (decision, trial) groups that hold both arms, of the decisions heard.
Complete(v, heard) == ArmsOf(v, heard, "SHADOW") \cap ArmsOf(v, heard, "CONTROL")

--------------------------------------------------------------------------------
\* The receipts for which both arms of a version are among the rows.
Tried(rows, v) ==
    {r \in Receipts : \A k \in {"SHADOW", "CONTROL"} :
       \E x \in rows : x.receipt = r /\ x.version = v /\ x.kind = k}

\* A day's arms never exceed a cap by more than the rollouts that had passed the check when it
\* was reached: _within_budget counts completed arms only, and each rollout adds two
\* (rollout.py, _within_budget and _rollout).
OvershootBounded ==
    \A v \in ShadowVersions, d \in 0..MaxDay :
      LET rows == Cardinality(RowsOn(v, d)) IN
      /\ rows < TrialCap[BudgetOf(v)] + 2 * Slots
      /\ rows < CostCap[BudgetOf(v)] + 2 * Slots

================================================================================
