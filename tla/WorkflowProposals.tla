---------------------------- MODULE WorkflowProposals ----------------------------
(***************************************************************************)
(* Dynamic workflow proposals (orchestration/): the fragment planner, the    *)
(* graph validator, and the compiler from an accepted proposal to the         *)
(* template the scheduler runs.                                               *)
(*                                                                         *)
(* A proposal: kind, risk (rank of the level), runtime and capabilities of   *)
(* each node, edges with their bound on traversals, the verifiers and         *)
(* capabilities it declares, and its repair attempt.  A world is the snapshot *)
(* of what is resolvable now; the policy comes from the task.                  *)
(***************************************************************************)
EXTENDS Integers, WorkflowTemplates

LOW == 0
MEDIUM == 1
HIGH == 2

MaxTraversals == 3
MaxDepth == 8
MaxFanout == 4
NodeTimeout == 300   \* the default of DynamicWorkflowNodeSpec, which no fragment changes
OutcomeGuards == {"ON_SUCCESS", "ON_FAIL", "ON_INCONCLUSIVE", "ON_APPROVED", "ON_DENIED"}

Arc(key, source, target, kind, guard, max) ==
    [key |-> key, source |-> source, target |-> target, kind |-> kind, guard |-> guard,
     max |-> max]
Then(key, source, target) == Arc(key, source, target, "NORMAL", NoGuard, 0)

Fragment(kind, high, arcs) ==
    [kind |-> kind,
     risk |-> [n \in DOMAIN kind |-> IF n \in high THEN HIGH ELSE LOW],
     runtime |-> [n \in DOMAIN kind |->
                    IF kind[n] \in {"AGENT", "LOOP"} THEN "ANY" ELSE "DETERMINISTIC"],
     edges |-> arcs]

SingleActVerify ==
    Fragment([start |-> "TASK", act |-> "AGENT", verify |-> "VERIFIER",
              complete |-> "TERMINAL"], {},
      {Then("start-act", "start", "act"), Then("act-verify", "act", "verify"),
       Then("verify-complete", "verify", "complete")})

BoundedRepair ==
    Fragment(("start" :> "TASK" @@ "repair-loop" :> "LOOP" @@ "verify" :> "VERIFIER"
              @@ "complete" :> "TERMINAL"), {},
      {Then("start-loop", "start", "repair-loop"),
       Then("loop-verify", "repair-loop", "verify"),
       Arc("verify-loop", "verify", "repair-loop", "RETRY", NoGuard, 1),
       Then("verify-complete", "verify", "complete")})

ApprovalGatedChange ==
    Fragment(("start" :> "TASK" @@ "approve-plan" :> "GATE" @@ "act" :> "AGENT"
              @@ "verify" :> "VERIFIER" @@ "approve-outcome" :> "GATE"
              @@ "complete" :> "TERMINAL"),
      {"approve-plan", "act", "approve-outcome"},
      {Then("start-approval", "start", "approve-plan"),
       Then("approval-act", "approve-plan", "act"), Then("act-verify", "act", "verify"),
       Then("verify-approval", "verify", "approve-outcome"),
       Then("approval-complete", "approve-outcome", "complete")})

ParallelAnalysisJoin ==
    Fragment(("start" :> "TASK" @@ "analyze-a" :> "AGENT" @@ "analyze-b" :> "AGENT"
              @@ "join" :> "JOIN" @@ "verify" :> "VERIFIER" @@ "complete" :> "TERMINAL"), {},
      {Then("start-a", "start", "analyze-a"), Then("a-b", "analyze-a", "analyze-b"),
       Then("b-join", "analyze-b", "join"), Then("join-verify", "join", "verify"),
       Then("verify-complete", "verify", "complete")})

SelectFragment(task) ==
    IF task.risk >= HIGH \/ task.irreversible THEN ApprovalGatedChange
    ELSE IF task.parallel /\ task.parallelRuns >= 2 THEN ParallelAnalysisJoin
    ELSE IF task.feedback \/ task.iterations > 1 THEN BoundedRepair
    ELSE SingleActVerify

\* The verifiers of a task: the planner's list, and the one the run manager asks for.
PlannedVerifiers(task) ==
    {"output-contract", "trajectory-policy"} \cup IF task.writes THEN {"git-diff"} ELSE {}
RequiredVerifiers(task) ==
    task.defaults \cup {"trajectory-policy"} \cup (IF task.writes THEN {"git-diff"} ELSE {})
    \cup IF task.outputs \/ task.defaults \ {"git-diff", "trajectory-policy"} = {}
         THEN {"output-contract"} ELSE {}

\* FragmentWorkflowPlanner.propose
Propose(task) ==
    LET f == SelectFragment(task)
    IN  [kind |-> f.kind, runtime |-> f.runtime, edges |-> f.edges,
         risk |-> [n \in DOMAIN f.kind |->
                     IF f.kind[n] = "AGENT" /\ task.risk > f.risk[n] THEN task.risk
                     ELSE f.risk[n]],
         capabilities |-> [n \in DOMAIN f.kind |->
                             IF f.kind[n] \in {"AGENT", "LOOP"} THEN task.allowed ELSE {}],
         required |-> task.allowed, verifiers |-> PlannedVerifiers(task), repair |-> 0]

\* FragmentWorkflowPlanner.repair: the same graph, counted as repaired.
Repair(p) == [p EXCEPT !.repair = @ + 1]

--------------------------------------------------------------------------------
(* GraphValidator: the set of error codes. *)

Nodes(p) == DOMAIN p.kind
KnownEdges(p) == {e \in p.edges : {e.source, e.target} \subseteq Nodes(p)}
ProposalTerminals(p) == {n \in Nodes(p) : p.kind[n] = "TERMINAL"}
ProposalRoots(p) == {n \in Nodes(p) : \A e \in KnownEdges(p) : e.target # n}

\* The nodes a walk over the edges gets to from n without entering a blocked one.
Avoiding(p, n, blocked, edges) ==
    LET open == Nodes(p) \ blocked
        linked == ConnectionsIn([node |-> open,
                                 edge |-> {<<e.source, e.target>> : e \in edges}
                                          \cap (open \X open)])
    IN  IF n \in open THEN {m \in open : linked[n, m]} ELSE {}

OfKind(p, k) == {n \in Nodes(p) : p.kind[n] = k}

\* Mutant of ReachableWithout: the search looks for a node of the kind anywhere in the
\* reachable graph instead of on every path.
ReachableWithoutAny(p, root, targets, k) ==
    /\ Avoiding(p, root, {}, KnownEdges(p)) \cap targets # {}
    /\ Avoiding(p, root, {}, KnownEdges(p)) \cap OfKind(p, k) = {}

\* _terminal_reachable_without_kind, _target_reachable_without_kind
ReachableWithout(p, root, targets, k) ==
    Avoiding(p, root, OfKind(p, k), KnownEdges(p)) \cap targets # {}

UnboundedEdges(p) == {e \in KnownEdges(p) : e.kind \notin {"LOOP_BACK", "RETRY"}}

HasUnboundedCycle(p, root) ==
    \E e \in UnboundedEdges(p) :
      /\ e.source \in Avoiding(p, root, {}, UnboundedEdges(p))
      /\ e.source \in Avoiding(p, e.target, {}, UnboundedEdges(p))

\* The nodes of the longest walk from the root over edges that are not bounded.
Depth(p, root) ==
    LET depth[n \in Nodes(p)] ==
          LET below == {depth[e.target] : e \in {f \in UnboundedEdges(p) : f.source = n}}
          IN  1 + IF below = {} THEN 0 ELSE CHOOSE d \in below : \A c \in below : c <= d
    IN  depth[root]

EdgeErrors(p) ==
    (IF p.edges # KnownEdges(p) THEN {"UNKNOWN_ENDPOINT"} ELSE {})
    \cup UNION {
      (IF e.kind \in {"LOOP_BACK", "RETRY"} /\ e.max \notin 1..MaxTraversals
       THEN {"UNBOUNDED_TRAVERSAL"} ELSE {})
      \cup (IF e.kind \in {"ERROR", "FANOUT", "MERGE", "LOOP_BACK"}
            THEN {"P5_EXECUTOR_UNSUPPORTED_EDGE"} ELSE {})
      \cup (IF e.kind = "CONDITION" /\ e.guard \notin OutcomeGuards
            THEN {"P5_EXECUTOR_UNSUPPORTED_CONDITION"} ELSE {}) : e \in KnownEdges(p)}

Protected(p, n, world) ==
    p.risk[n] >= HIGH \/ p.capabilities[n] \cap world.protected # {}

PathErrors(p, root, world, task) ==
    LET reached == Avoiding(p, root, {}, KnownEdges(p))
        ends == ProposalTerminals(p)
        guarded == {n \in Nodes(p) : Protected(p, n, world)}
    IN  (IF reached # Nodes(p) THEN {"UNREACHABLE_NODE"} ELSE {})
        \cup (IF ends \cap reached = {} THEN {"UNREACHABLE_TERMINAL"} ELSE {})
        \cup (IF HasUnboundedCycle(p, root) THEN {"UNBOUNDED_CYCLE"}
              ELSE IF Depth(p, root) > MaxDepth THEN {"GRAPH_TOO_DEEP"} ELSE {})
        \cup (IF RequiredVerifiers(task) # {} /\ ReachableWithout(p, root, ends, "VERIFIER")
              THEN {"VERIFIER_BYPASS"} ELSE {})
        \cup (IF guarded # {} /\ ReachableWithout(p, root, ends, "GATE")
              THEN {"APPROVAL_BYPASS"} ELSE {})
        \cup (IF ReachableWithout(p, root,
                   {n \in guarded : p.kind[n] \in {"AGENT", "TOOL", "LOOP"}}, "GATE")
              THEN {"APPROVAL_BEFORE_PROTECTED_NODE"} ELSE {})

\* _validate_node
NodeErrors(p, n, world, task) ==
    {CASE c \notin world.capabilities -> "UNKNOWN_CAPABILITY"
       [] c \in world.capabilities /\ c \in task.denied -> "DENIED_CAPABILITY"
       [] OTHER -> "PRIVILEGE_EXPANSION"
       : c \in {d \in p.capabilities[n] : \/ d \notin world.capabilities
                                          \/ d \in task.denied
                                          \/ task.allowed # {} /\ d \notin task.allowed}}
    \cup (IF p.kind[n] = "VERIFIER" /\ ~(p.verifiers \subseteq world.verifiers)
          THEN {"UNKNOWN_VERIFIER"} ELSE {})
    \cup (IF p.risk[n] > task.risk THEN {"RISK_EXPANSION"} ELSE {})
    \cup (IF p.runtime[n] \notin world.runtimes \cup {"ANY", "HUMAN"}
          THEN {"RUNTIME_UNAVAILABLE"} ELSE {})
    \cup (IF p.runtime[n] \in {"CLAUDE", "CODEX"} \ {task.provider}
          THEN {"RUNTIME_INCOMPATIBLE"} ELSE {})
    \cup (IF p.runtime[n] = "HUMAN" /\ p.kind[n] # "GATE"
          THEN {"HUMAN_RUNTIME_KIND_MISMATCH"} ELSE {})
    \cup (IF NodeTimeout > task.wall THEN {"NODE_TIMEOUT_EXCEEDED"} ELSE {})

Errors(p, world, task) ==
    LET fanout(n) == {e \in KnownEdges(p) : e.source = n /\ e.kind = "FANOUT"}
        limit == IF task.parallelRuns < MaxFanout THEN task.parallelRuns ELSE MaxFanout
    IN  EdgeErrors(p)
        \cup (IF Cardinality(ProposalRoots(p)) # 1 THEN {"ROOT_COUNT"} ELSE {})
        \cup (IF ProposalTerminals(p) = {} THEN {"MISSING_TERMINAL"} ELSE {})
        \cup (IF \E n \in Nodes(p) : Cardinality(fanout(n)) > limit
              THEN {"FANOUT_EXCEEDED"} ELSE {})
        \cup (IF ProposalRoots(p) # {}
              THEN PathErrors(p, CHOOSE n \in ProposalRoots(p) : TRUE, world, task) ELSE {})
        \cup UNION {NodeErrors(p, n, world, task) : n \in Nodes(p)}
        \cup (IF p.required \subseteq world.capabilities THEN {} ELSE {"UNKNOWN_CAPABILITY"})
        \cup (IF p.required \cap task.denied = {} THEN {} ELSE {"DENIED_CAPABILITY"})
        \cup (IF RequiredVerifiers(task) \subseteq p.verifiers THEN {} ELSE {"MISSING_VERIFIER"})

Repairable == {"ROOT_COUNT", "MISSING_TERMINAL", "UNREACHABLE_NODE", "GRAPH_TOO_DEEP",
               "NODE_TIMEOUT_EXCEEDED"}

\* GraphValidator.validate
Validate(p, world, task) ==
    LET errors == Errors(p, world, task)
    IN  IF errors = {} THEN "ACCEPT"
        ELSE IF errors \subseteq Repairable /\ p.repair < 1 THEN "REPAIRABLE" ELSE "REJECT"

--------------------------------------------------------------------------------
(* materialize_workflow_template *)

ExecutorKind(k) == IF k = "JOIN" THEN "TASK" ELSE k

FailureGuards(k) ==
    CASE k = "VERIFIER" -> {"ON_FAIL", "ON_INCONCLUSIVE"}
      [] k \in {"AGENT", "LOOP"} -> {"ON_FAIL"}
      [] k = "GATE" -> {"ON_DENIED"}
      [] OTHER -> {}

\* _materialize_edge, and the edge that an approval opens.
MaterializeEdge(p, e) ==
    CASE e.kind = "RETRY" -> Edge(e.key, e.source, e.target, "RETRY", "ON_FAIL")
      [] e.kind = "CONDITION" -> When(e.key, e.source, e.target, e.guard)
      [] e.kind = "APPROVAL" -> Edge(e.key, e.source, e.target, "APPROVAL", "ON_APPROVED")
      [] OTHER -> IF p.kind[e.source] = "GATE"
                  THEN When(e.key, e.source, e.target, "ON_APPROVED")
                  ELSE Normal(e.key, e.source, e.target)

RegionEdges(p) ==
    UNION {{Normal(n \o "-act-observe", n \o "-act", n \o "-observe"),
            Edge(n \o "-observe-act", n \o "-observe", n \o "-act", "LOOP_BACK", NoGuard)}
           : n \in OfKind(p, "LOOP")}

\* Mutant of FallbackEdges: a RETRY edge counts as covering the failure.
FallbackUnlessRetried(p, edges) ==
    LET end == CHOOSE n \in ProposalTerminals(p) : TRUE
        missing(n) == {g \in FailureGuards(ExecutorKind(p.kind[n])) :
                         \A e \in edges : e.source = n => e.guard # g}
    IN  UNION {{When(n \o "-fallback-" \o g, n, end, g) : g \in missing(n)} : n \in Nodes(p)}

\* The failures nothing but a RETRY edge takes end the run: "fail closed".
FallbackEdges(p, edges) ==
    LET end == CHOOSE n \in ProposalTerminals(p) : TRUE
        missing(n) == {g \in FailureGuards(ExecutorKind(p.kind[n])) :
                         \A e \in edges : e.source = n /\ e.kind # "RETRY" => e.guard # g}
    IN  UNION {{When(n \o "-fallback-" \o g, n, end, g) : g \in missing(n)} : n \in Nodes(p)}

Materialize(p) ==
    LET loops == OfKind(p, "LOOP")
        kind == [n \in Nodes(p) |-> ExecutorKind(p.kind[n])]
                @@ [n \in {l \o "-act" : l \in loops} |-> "AGENT"]
                @@ [n \in {l \o "-observe" : l \in loops} |-> "TOOL"]
        written == {MaterializeEdge(p, e) : e \in p.edges}
        retries == {0} \cup {e.max : e \in {f \in p.edges : f.kind = "RETRY"}}
    IN  Template(kind, [l \in loops |-> {l \o "-act", l \o "-observe"}],
                 written \cup RegionEdges(p) \cup FallbackEdges(p, written),
                 CHOOSE r \in retries : \A s \in retries : s <= r, 0)
==================================================================================
