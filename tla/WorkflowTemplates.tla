---------------------------- MODULE WorkflowTemplates ----------------------------
(***************************************************************************)
(* Workflow templates: the five code-defined graphs, their structural        *)
(* validation, and the scheduler's choice of the edge to follow              *)
(* (templates.py, services/run_manager.py).                                 *)
(*                                                                         *)
(* A template is a record: nodes, kind of each node, edges, region (the      *)
(* members of each LOOP node's region), parent of the nodes that have one,   *)
(* gates (the nodes of required_approval_gates), and the two limits of       *)
(* global_budget_policy on edges of kind RETRY.                              *)
(***************************************************************************)
EXTENDS Naturals, FiniteSets, Functions, Graphs

NodeKinds == {"TASK", "AGENT", "TOOL", "VERIFIER", "GATE", "LOOP", "JOIN", "TERMINAL"}
EdgeKinds == {"NORMAL", "CONDITION", "APPROVAL", "RETRY", "LOOP_BACK",
              "FANOUT", "MERGE", "ERROR"}
Guards == {"ON_SUCCESS", "ON_FAIL", "ON_INCONCLUSIVE", "ON_APPROVED", "ON_DENIED",
           "ON_REPLAN_AVAILABLE", "ON_REPLAN_EXHAUSTED"}
NoGuard == "NONE"

\* _KIND_OUTCOMES: what a node of a kind hands to its outgoing edges.
KindOutcomes ==
    [TASK |-> {"SUCCESS"}, AGENT |-> {"SUCCESS", "FAIL"}, TOOL |-> {"SUCCESS"},
     VERIFIER |-> {"SUCCESS", "FAIL", "INCONCLUSIVE"}, GATE |-> {"APPROVED", "DENIED"},
     LOOP |-> {"SUCCESS", "FAIL"}, JOIN |-> {"SUCCESS"}, TERMINAL |-> {}]

\* _GUARD_MATCHES: the outcome a guard waits for.
GuardMatches ==
    [ON_SUCCESS |-> "SUCCESS", ON_FAIL |-> "FAIL", ON_INCONCLUSIVE |-> "INCONCLUSIVE",
     ON_APPROVED |-> "APPROVED", ON_DENIED |-> "DENIED",
     ON_REPLAN_AVAILABLE |-> "FAIL", ON_REPLAN_EXHAUSTED |-> "FAIL"]

\* _TERMINAL_GUARD_STATES: the run state a guarded edge into a TERMINAL means.
TerminalGuardStates ==
    [ON_SUCCESS |-> "SUCCEEDED", ON_APPROVED |-> "SUCCEEDED", ON_FAIL |-> "FAILED",
     ON_INCONCLUSIVE |-> "REQUIRES_HUMAN", ON_DENIED |-> "REQUIRES_HUMAN",
     ON_REPLAN_EXHAUSTED |-> "REQUIRES_HUMAN"]

Matches(e, outcome) == e.guard \in Guards /\ GuardMatches[e.guard] = outcome

Out(t, n) == {e \in t.edges : e.source = n}
In(t, n) == {e \in t.edges : e.target = n}

\* region_owner: the LOOP node that stands for a member of its region.
Owner(t, n) ==
    IF \E l \in DOMAIN t.region : n \in t.region[l] \ {l}
    THEN CHOOSE l \in DOMAIN t.region : n \in t.region[l] \ {l}
    ELSE n
RegionMembers(t) == UNION Range(t.region)
Entry(t) == CHOOSE n \in t.nodes : In(t, n) = {}

--------------------------------------------------------------------------------
(* Structural validation. *)

EdgesWellFormed(t) ==
    /\ \A e, f \in t.edges : e.key = f.key => e = f
    /\ \A e \in t.edges :
         /\ e.source \in t.nodes /\ e.target \in t.nodes
         /\ e.kind \in {"CONDITION", "APPROVAL", "RETRY"} => e.guard # NoGuard
         /\ e.kind \in {"NORMAL", "LOOP_BACK"} => e.guard = NoGuard

\* A LOOP node reaches the members of its region without an edge, and they
\* reach whatever it reaches.
Forward(t) ==
    {<<e.source, e.target>> : e \in t.edges}
    \cup UNION {{l} \X (t.region[l] \ {l}) : l \in DOMAIN t.region}
Backward(t) ==
    {<<e.source, e.target>> : e \in {f \in t.edges : f.kind # "LOOP_BACK"}}
    \cup UNION {(t.region[l] \ {l}) \X {l} : l \in DOMAIN t.region}
Terminals(t) == {n \in t.nodes : t.kind[n] = "TERMINAL"}

Reachable(t) ==
    LET forth == ConnectionsIn([node |-> t.nodes, edge |-> Forward(t)])
        back == ConnectionsIn([node |-> t.nodes, edge |-> Backward(t)])
        entries == {n \in t.nodes : In(t, n) = {}}
    IN  /\ Cardinality(entries) = 1
        /\ \A n \in entries : t.kind[n] = "TASK" /\ \A m \in t.nodes : forth[n, m]
        /\ Terminals(t) # {}
        /\ \A n \in Terminals(t) : Out(t, n) = {}
        /\ \A n \in t.nodes : \E m \in Terminals(t) : back[n, m]

RegionsWellFormed(t) ==
    /\ {n \in t.nodes : t.kind[n] = "LOOP"} = DOMAIN t.region
    /\ \A l \in DOMAIN t.region :
         /\ t.region[l] \subseteq t.nodes
         /\ t.region[l] # {}   \* its act_key
         /\ \A m \in DOMAIN t.region \ {l} :
              (t.region[l] \ {l}) \cap (t.region[m] \ {m}) = {}
    /\ \A e \in t.edges : e.kind = "LOOP_BACK" =>
         \E l \in DOMAIN t.region : {e.source, e.target} \subseteq t.region[l]
    /\ \A n \in DOMAIN t.parent :
         /\ t.parent[n] \in DOMAIN t.region \ {n}
         /\ n \in t.region[t.parent[n]]

GatesMatch(t) == {n \in t.nodes : t.kind[n] = "GATE"} = t.gates

ReplanPaired(t) ==
    LET pair == {"ON_REPLAN_AVAILABLE", "ON_REPLAN_EXHAUSTED"}
    IN  {e.guard : e \in t.edges} \cap pair = IF t.maxReplans > 0 THEN pair ELSE {}

\* The edges that validation counts as taking an outcome of a node.
Covering(t, n, outcome) ==
    IF outcome = "SUCCESS"
    THEN {e \in Out(t, n) : \/ e.kind = "NORMAL" /\ e.guard = NoGuard
                            \/ e.guard = "ON_SUCCESS"}
    ELSE IF outcome = "FAIL"
    THEN {e \in Out(t, n) : /\ e.kind # "RETRY"
                            /\ e.guard \in {"ON_FAIL", "ON_REPLAN_EXHAUSTED"}}
    ELSE {e \in Out(t, n) : Matches(e, outcome)}

\* _validate_guard_coverage
GuardCoverage(t) ==
    \A n \in t.nodes \ RegionMembers(t) :
      /\ \A outcome \in KindOutcomes[t.kind[n]] :
           \E e \in Covering(t, n, outcome) : Covering(t, n, outcome) = {e}
      /\ \A e, f \in Out(t, n) :
           e.kind = "RETRY" /\ f.kind = "RETRY" /\ e.guard = f.guard => e = f

ValidTemplate(t) ==
    /\ EdgesWellFormed(t)
    /\ Reachable(t)
    /\ RegionsWellFormed(t)
    /\ GatesMatch(t)
    /\ ReplanPaired(t)
    /\ GuardCoverage(t)

--------------------------------------------------------------------------------
(* The scheduler's choice. *)

RetryLimit(t, e) ==
    IF e.guard = "ON_REPLAN_AVAILABLE" THEN t.maxReplans ELSE t.maxNodeRetries

RetryOpen(t, e, via) == via[e.key] < RetryLimit(t, e)

\* _select_edge: the edges that may be followed from n on an outcome, when each
\* edge has been entered via[key] times.  Empty means no eligible edge, or an
\* ambiguous one.  Which of two open RETRY edges comes first is left open.
SelectEdge(t, n, outcome, via) ==
    LET retry == {e \in Out(t, n) : /\ e.kind = "RETRY"
                                    /\ Matches(e, outcome)
                                    /\ RetryOpen(t, e, via)}
        guarded == {e \in Out(t, n) : e.kind \in {"CONDITION", "APPROVAL"}
                                      /\ Matches(e, outcome)}
        plain == {e \in Out(t, n) : e.kind = "NORMAL" /\ e.guard = NoGuard}
        single(s) == IF \E e \in s : s = {e} THEN s ELSE {}
    IN  IF retry # {} THEN retry
        ELSE IF guarded # {} THEN single(guarded)
        ELSE IF outcome = "SUCCESS" THEN single(plain)
        ELSE {}

\* The run state that reaching a TERMINAL over edge e commits: an edge without
\* a guard claims success only when it is NORMAL.
TerminalState(e) ==
    IF e.guard # NoGuard
    THEN IF e.guard \in DOMAIN TerminalGuardStates
         THEN TerminalGuardStates[e.guard] ELSE "REQUIRES_HUMAN"
    ELSE IF e.kind = "NORMAL" THEN "SUCCEEDED" ELSE "REQUIRES_HUMAN"

--------------------------------------------------------------------------------
(* The code-defined templates. *)

Edge(key, source, target, kind, guard) ==
    [key |-> key, source |-> source, target |-> target, kind |-> kind, guard |-> guard]
Normal(key, source, target) == Edge(key, source, target, "NORMAL", NoGuard)
When(key, source, target, guard) == Edge(key, source, target, "CONDITION", guard)

Template(kind, region, edges, retries, replans) ==
    [nodes |-> DOMAIN kind, kind |-> kind, edges |-> edges, region |-> region,
     parent |-> [n \in (UNION Range(region)) \ DOMAIN region |->
                   CHOOSE l \in DOMAIN region : n \in region[l]],
     gates |-> {n \in DOMAIN kind : kind[n] = "GATE"},
     maxNodeRetries |-> retries, maxReplans |-> replans]
NoRegion == [l \in {} |-> {}]

DirectV1 ==
    Template([initialize |-> "TASK", act |-> "AGENT", verify |-> "VERIFIER",
              complete |-> "TERMINAL"], NoRegion,
      {Normal("initialize-act", "initialize", "act"),
       Normal("act-verify", "act", "verify"),
       When("act-complete-failed", "act", "complete", "ON_FAIL"),
       When("verify-complete-success", "verify", "complete", "ON_SUCCESS"),
       When("verify-complete-failed", "verify", "complete", "ON_FAIL"),
       When("verify-complete-inconclusive", "verify", "complete", "ON_INCONCLUSIVE")},
      1, 0)

\* The region of the whole-run loop contains its LOOP node; no member names a parent.
FeedbackLoopV1 ==
    [Template([initialize |-> "TASK", act |-> "AGENT", observe |-> "TOOL",
               evaluate |-> "LOOP", verify |-> "VERIFIER", complete |-> "TERMINAL"],
       [evaluate |-> {"act", "observe", "evaluate", "verify"}],
       {Normal("initialize-act", "initialize", "act"),
        Normal("act-observe", "act", "observe"),
        Normal("observe-evaluate", "observe", "evaluate"),
        Edge("evaluate-act", "evaluate", "act", "LOOP_BACK", NoGuard),
        When("evaluate-verify", "evaluate", "verify", "ON_SUCCESS"),
        When("verify-complete", "verify", "complete", "ON_SUCCESS")},
       1, 0) EXCEPT !.parent = [n \in {} |-> n]]

FixedGraphV1 ==
    Template(("initialize" :> "TASK" @@ "plan" :> "AGENT" @@ "approve-plan" :> "GATE"
              @@ "act" :> "AGENT" @@ "observe" :> "TOOL" @@ "verify" :> "VERIFIER"
              @@ "approve-outcome" :> "GATE" @@ "complete" :> "TERMINAL"), NoRegion,
      {Normal("initialize-plan", "initialize", "plan"),
       Edge("plan-approve-plan", "plan", "approve-plan", "APPROVAL", "ON_SUCCESS"),
       When("plan-complete-failed", "plan", "complete", "ON_FAIL"),
       When("approve-plan-act", "approve-plan", "act", "ON_APPROVED"),
       When("approve-plan-complete-denied", "approve-plan", "complete", "ON_DENIED"),
       Normal("act-observe", "act", "observe"),
       When("act-complete-failed", "act", "complete", "ON_FAIL"),
       Normal("observe-verify", "observe", "verify"),
       Edge("verify-act", "verify", "act", "RETRY", "ON_FAIL"),
       When("verify-complete-failed", "verify", "complete", "ON_FAIL"),
       Edge("verify-approve-outcome", "verify", "approve-outcome", "APPROVAL", "ON_SUCCESS"),
       When("verify-complete-inconclusive", "verify", "complete", "ON_INCONCLUSIVE"),
       When("approve-outcome-complete-approved", "approve-outcome", "complete", "ON_APPROVED"),
       When("approve-outcome-complete-denied", "approve-outcome", "complete", "ON_DENIED")},
      1, 0)

HybridRdV1 ==
    Template(("initialize" :> "TASK" @@ "research" :> "AGENT" @@ "theorize" :> "AGENT"
              @@ "experiment" :> "LOOP" @@ "experiment-act" :> "AGENT"
              @@ "experiment-observe" :> "TOOL" @@ "develop" :> "LOOP"
              @@ "develop-act" :> "AGENT" @@ "develop-observe" :> "TOOL"
              @@ "verify" :> "VERIFIER" @@ "complete" :> "TERMINAL"),
      [experiment |-> {"experiment-act", "experiment-observe"},
       develop |-> {"develop-act", "develop-observe"}],
      {Normal("initialize-research", "initialize", "research"),
       Normal("research-theorize", "research", "theorize"),
       When("research-complete-failed", "research", "complete", "ON_FAIL"),
       Normal("theorize-experiment", "theorize", "experiment"),
       When("theorize-complete-failed", "theorize", "complete", "ON_FAIL"),
       Normal("experiment-develop", "experiment", "develop"),
       When("experiment-complete-failed", "experiment", "complete", "ON_FAIL"),
       Normal("experiment-act-observe", "experiment-act", "experiment-observe"),
       Edge("experiment-observe-act", "experiment-observe", "experiment-act",
            "LOOP_BACK", NoGuard),
       Normal("develop-verify", "develop", "verify"),
       When("develop-complete-failed", "develop", "complete", "ON_FAIL"),
       Normal("develop-act-observe", "develop-act", "develop-observe"),
       Edge("develop-observe-act", "develop-observe", "develop-act", "LOOP_BACK", NoGuard),
       When("verify-complete-success", "verify", "complete", "ON_SUCCESS"),
       When("verify-complete-failed", "verify", "complete", "ON_FAIL"),
       When("verify-complete-inconclusive", "verify", "complete", "ON_INCONCLUSIVE")},
      1, 0)

SafeUnknownV1 ==
    Template(("initialize" :> "TASK" @@ "plan" :> "AGENT" @@ "loop" :> "LOOP"
              @@ "loop-act" :> "AGENT" @@ "loop-observe" :> "TOOL" @@ "replan" :> "AGENT"
              @@ "verify" :> "VERIFIER" @@ "complete" :> "TERMINAL"),
      [loop |-> {"loop-act", "loop-observe"}],
      {Normal("initialize-plan", "initialize", "plan"),
       Normal("plan-loop", "plan", "loop"),
       When("plan-complete-failed", "plan", "complete", "ON_FAIL"),
       Normal("loop-verify", "loop", "verify"),
       When("loop-complete-failed", "loop", "complete", "ON_FAIL"),
       Normal("loop-act-observe", "loop-act", "loop-observe"),
       Edge("loop-observe-act", "loop-observe", "loop-act", "LOOP_BACK", NoGuard),
       When("verify-complete-success", "verify", "complete", "ON_SUCCESS"),
       Edge("verify-replan", "verify", "replan", "RETRY", "ON_REPLAN_AVAILABLE"),
       When("verify-complete-exhausted", "verify", "complete", "ON_REPLAN_EXHAUSTED"),
       When("verify-complete-inconclusive", "verify", "complete", "ON_INCONCLUSIVE"),
       Normal("replan-loop", "replan", "loop"),
       When("replan-complete-failed", "replan", "complete", "ON_FAIL")},
      1, 1)

AllTemplates == {DirectV1, FeedbackLoopV1, FixedGraphV1, HybridRdV1, SafeUnknownV1}
==================================================================================
