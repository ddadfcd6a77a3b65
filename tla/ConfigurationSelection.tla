------------------------- MODULE ConfigurationSelection -------------------------
(***************************************************************************)
(* The pure half of node routing: which execution configurations a node may  *)
(* use at a registry snapshot, and which one is chosen (routing/gates.py,    *)
(* compatibility.py, candidates.py, selector.py, bandit.py, breakers.py,     *)
(* ledger.py).                                                              *)
(*                                                                         *)
(* A catalog is a sequence of complete tuples                               *)
(*   [runtime, provider, tools, skills, verifier, spec, environment,         *)
(*    isolation]                                                            *)
(* and a configuration is a tuple at the adapter version the catalog saw; a  *)
(* tuple's index stands for the order of the configuration hashes.  A case   *)
(* is a node contract with its catalog, its task's authority and the         *)
(* predictions of its tuples; a snapshot is                                 *)
(*   [version, ready, resolved]: each runtime's version, the READY runtimes, *)
(*   each capability's resolution outcome.                                  *)
(***************************************************************************)
EXTENDS Integers, Sequences, FiniteSets, FiniteSetsExt

\* Three-valued verdicts of a constraint; one "no" outranks every "unknown".
Fold(verdicts) ==
    IF "no" \in verdicts THEN "INCOMPATIBLE"
    ELSE IF "unknown" \in verdicts THEN "UNKNOWN" ELSE "COMPATIBLE"

Verdict(holds) == IF holds THEN "yes" ELSE "no"

\* A constraint [attribute, operator, value] against an observed number, -1 for
\* an attribute the configuration does not carry.
Holds(constraint, observed) ==
    IF observed = -1 \/ constraint.operator = "CUSTOM" THEN "unknown"
    ELSE Verdict(CASE constraint.operator = "EQ" -> observed = constraint.value
                   [] constraint.operator = "GTE" -> observed >= constraint.value
                   [] constraint.operator = "LTE" -> observed <= constraint.value)

RuntimeVersionAttribute == "runtime.runtime_version"

\* A version_range is a set of clauses; a literal of -1 is a wildcard.
VersionClauseHolds(clause, version) ==
    IF clause.value = -1 THEN "unknown"
    ELSE Verdict(CASE clause.operator = "EQ" -> version = clause.value
                   [] clause.operator = "NE" -> version # clause.value
                   [] clause.operator = "GTE" -> version >= clause.value
                   [] clause.operator = "LTE" -> version <= clause.value
                   [] clause.operator = "GT" -> version > clause.value
                   [] clause.operator = "LT" -> version < clause.value)

VersionRangeHolds(clauses, version) == Fold({VersionClauseHolds(k, version) : k \in clauses})

--------------------------------------------------------------------------------
(* The rules of each layer, over a tuple t at a snapshot. *)

EnvironmentRule(case, t) ==
    Fold({Holds(k, IF k.attribute \in DOMAIN t.environment
                     THEN t.environment[k.attribute] ELSE -1) :
          k \in {k \in case.constraints : k.attribute # RuntimeVersionAttribute}})

RuntimeRule(case, t, version, snapshot) ==
    LET ranges == {k \in case.constraints : k.attribute = RuntimeVersionAttribute}
        observed == snapshot.version[t.runtime]
    IN  IF t.runtime \notin snapshot.ready THEN "INCOMPATIBLE"
        ELSE IF ranges # {} THEN Fold({Holds(k, observed) : k \in ranges})
        ELSE Fold({Verdict(version = observed)})

ModelRule(case, t, snapshot) ==
    Fold({Verdict(/\ \E r \in snapshot.ready : case.provider[r] = t.provider
                  /\ case.provider[t.runtime] = t.provider)})

MapResolution(outcome) ==
    CASE outcome \in {"OK", "NO_CONNECTOR_REQUIRED"} -> "COMPATIBLE"
      [] outcome = "NONE" -> "UNKNOWN"
      [] outcome \in {"DISABLED", "NO_CONNECTION", "REQUIRE_REAUTH"} -> "INCOMPATIBLE"

SkillRule(case, skill) == Fold({Verdict(skill \in case.installed)})
VerifierRule(case, t) == Fold({Verdict(t.verifier \in case.verifiers)})

Layers(case, t, version, snapshot) ==
    {EnvironmentRule(case, t), RuntimeRule(case, t, version, snapshot),
     ModelRule(case, t, snapshot), VerifierRule(case, t)}
      \cup {MapResolution(snapshot.resolved[c]) : c \in t.tools}
      \cup {SkillRule(case, s) : s \in t.skills}

\* The joint rule: the verification spec first, then what the node requires
\* and the tuple does not bind or bind in range, then the worst layer.
ConfigurationRule(case, t, version, snapshot) ==
    LET resolved == {c \in case.required : snapshot.resolved[c] # "NONE"}
        ranges == {VersionRangeHolds(case.range[c], case.registered[c]) :
                   c \in resolved \cap t.tools}
        layers == Layers(case, t, version, snapshot)
    IN  IF t.spec # case.spec \/ resolved \ t.tools # {} \/ "INCOMPATIBLE" \in ranges
          THEN "INCOMPATIBLE"
        ELSE IF case.required \ (resolved \cup t.tools) # {} \/ "UNKNOWN" \in ranges
          THEN "UNKNOWN"
        ELSE IF "INCOMPATIBLE" \in layers THEN "INCOMPATIBLE"
        ELSE IF "UNKNOWN" \in layers THEN "UNKNOWN" ELSE "COMPATIBLE"

EvaluateJoint(case, t, version, snapshot) ==
    Layers(case, t, version, snapshot) \cup {ConfigurationRule(case, t, version, snapshot)}

RiskRank == [LOW |-> 0, MEDIUM |-> 1, HIGH |-> 2, CRITICAL |-> 3]

\* Authority: the principal, the risk class, and the policy's verdict on every
\* capability the tuple binds that the snapshot knows; a required approval is a refusal.
Admitted(case, t, snapshot) ==
    /\ case.active
    /\ RiskRank[case.taskRisk] <= RiskRank[case.risk]
    /\ \A c \in t.tools : snapshot.resolved[c] # "NONE" => case.authority[c] = "ALLOW"

\* gate_then_evaluate and GatedEvaluation.eligible.
HardEligible(case, t, version, snapshot) ==
    /\ Admitted(case, t, snapshot)
    /\ EvaluateJoint(case, t, version, snapshot) = {"COMPATIBLE"}

--------------------------------------------------------------------------------
(* Candidate construction: the indexes of the tuples kept for the slate. *)

Indexes(case) == DOMAIN case.tuples

\* Every required capability needs a registered, in-scope tool and every
\* requested skill an installed entry, or nothing is built at all.
InScope(case, c, snapshot) ==
    \/ snapshot.resolved[c] = "NO_CONNECTOR_REQUIRED"
    \/ snapshot.resolved[c] # "NO_CONNECTION" /\ c \in case.granted

RequirementsResolve(case, snapshot) ==
    /\ \A c \in case.required : snapshot.resolved[c] # "NONE" /\ InScope(case, c, snapshot)
    /\ case.skills \subseteq case.installed

RequirementFailure(case, t, snapshot) ==
    \/ ~ (case.skills \subseteq t.skills /\ case.required \subseteq t.tools)
    \/ \E c \in case.required : ~ InScope(case, c, snapshot)

\* The n least members of a set of indexes.
First(S, n) == {i \in S : Cardinality({j \in S : j < i}) < n}

\* The catalog is observed at version "seen"; tuples of a runtime whose version
\* is not the snapshot's are left out, the audited fallbacks are added back.
Constructed(case, seen, snapshot) ==
    LET current == {i \in Indexes(case) :
                      LET r == case.tuples[i].runtime
                      IN  seen[r] = snapshot.version[r]}
    IN  IF \/ ~ RequirementsResolve(case, snapshot)
           \/ current = {}
           \/ {case.tuples[i].verifier : i \in current} \cap case.verifiers = {}
        THEN {}
        ELSE First(current, case.beam) \cup (case.fallback \cap current)

\* _validate_fallbacks: an audited fallback of a runtime that changed since the
\* snapshot makes the catalog itself fail.
CatalogFails(case, seen, snapshot) ==
    \E i \in case.fallback : LET r == case.tuples[i].runtime
                             IN  seen[r] # snapshot.version[r]

Eligible(case, seen, snapshot) ==
    {i \in Constructed(case, seen, snapshot) :
        LET t == case.tuples[i]
        IN  /\ ~ RequirementFailure(case, t, snapshot)
            /\ HardEligible(case, t, seen[t.runtime], snapshot)}

SlateByOrder(case, eligible) == First(eligible, case.beam)

\* Sorted fallback first, cut at the beam; a compatible fallback is always kept.
Slate(case, eligible) ==
    LET fallback == eligible \cap case.fallback
    IN  First(fallback, case.beam)
          \cup First(eligible \ fallback, case.beam - Cardinality(fallback))

--------------------------------------------------------------------------------
(* The deterministic selector over a slate of hard-eligible tuples. *)

\* The four axes, larger is better.
Axes(p) == <<p.quality, -p.cost, -p.latency, -p.uncertainty>>

Dominates(case, i, j) ==
    LET a == Axes(case.predicted[i])
        b == Axes(case.predicted[j])
    IN  /\ \A k \in 1..4 : a[k] >= b[k] - case.epsilon
        /\ \E k \in 1..4 : a[k] > b[k] + case.epsilon

PassesSuccess(case, i) == case.predicted[i].success >= case.floor

\* DEFAULT_UTILITY_WEIGHTS (1, 0.3, 0.15), times 20.
Utility(case, i) ==
    LET p == case.predicted[i] IN 20 * p.quality - 6 * p.cost - 3 * p.latency

Dominated(case, slate, i) == \E j \in slate \ {i} : Dominates(case, j, i)

Ranked(case, slate) ==
    {i \in slate \ case.fallback : PassesSuccess(case, i) /\ ~ Dominated(case, slate, i)}

\* The ranking order: utility, then uncertainty, then hash.
Precedes(case, i, j) ==
    LET u == Utility(case, i)
        v == Utility(case, j)
        c == case.predicted[i].uncertainty
        d == case.predicted[j].uncertainty
    IN  u > v \/ (u = v /\ (c < d \/ (c = d /\ i <= j)))

NoPick == 0

Select(case, slate) ==
    LET ranked == Ranked(case, slate)
        fallbacks == slate \cap case.fallback
    IN  IF ranked # {}
          THEN [pick |-> CHOOSE i \in ranked : \A j \in ranked : Precedes(case, i, j),
                type |-> "EXPLOIT"]
        ELSE IF fallbacks # {}
          THEN [pick |-> Min(fallbacks), type |-> "FALLBACK"]
        ELSE [pick |-> NoPick, type |-> "HUMAN_REVIEW_REQUIRED"]

--------------------------------------------------------------------------------
(* Guarded exploration. *)

\* The six breakers; a cohort with no baseline and a runtime with no validated
\* window trip theirs.
Breakers(case, snapshot) ==
    LET e == case.evidence
    IN  {b \in {"false_acceptance_alert", "calibration_exceeded",
                "critical_cohort_regression", "unvalidated_version_drift",
                "verification_coverage_drop", "policy_or_audit_unavailable"} :
           CASE b = "false_acceptance_alert" -> e.falseAcceptance > e.ceiling
             [] b = "calibration_exceeded" -> e.ece > e.maxEce
             [] b = "critical_cohort_regression" ->
                  \E c \in DOMAIN e.lcb : \/ c \notin DOMAIN e.baseline
                                          \/ e.lcb[c] < e.baseline[c] - e.margin
             [] b = "unvalidated_version_drift" ->
                  \E r \in DOMAIN snapshot.version :
                     \/ r \notin DOMAIN e.window
                     \/ snapshot.version[r] \notin e.window[r]
             [] b = "verification_coverage_drop" -> e.coverage < case.floor
             [] b = "policy_or_audit_unavailable" -> ~ e.policy \/ ~ e.audit}

\* Reads that failed: every number on the tripping side, no cohort, no window.
Blind(e) ==
    [e EXCEPT !.falseAcceptance = 10, !.ece = 10, !.lcb = << >>, !.baseline = << >>,
              !.window = << >>, !.coverage = 0, !.audit = FALSE]

Isolated(case, i) == case.tuples[i].isolation = "WORKTREE"

SafeActions(case, slate) ==
    {i \in slate : /\ PassesSuccess(case, i)
                   /\ Isolated(case, i)
                   /\ case.tuples[i].spec = case.spec}

\* The admission ladder of the guarded bandit around the deterministic choice.
Admits(case, slate, greedy, snapshot) ==
    /\ case.risk = "LOW"
    /\ greedy # NoPick
    /\ Isolated(case, greedy)
    /\ ~ case.irreversible
    /\ case.tuples[greedy].spec = case.spec
    /\ case.learned /\ case.shadowPassed
    /\ case.explore.present
    /\ Cardinality(SafeActions(case, slate)) >= 2
    /\ case.beta > 0
    /\ Breakers(case, snapshot) = {}

\* CostLedger.can_explore over the charges [ucb, credit] already recorded;
\* alpha in tenths.
CanExplore(case, count, charged, credited, ucb, credit) ==
    /\ count + 1 <= case.explore.count
    /\ charged + ucb <= case.explore.cost
    /\ 10 * (charged + ucb) <= (10 + case.explore.alpha) * (credited + credit)

================================================================================
