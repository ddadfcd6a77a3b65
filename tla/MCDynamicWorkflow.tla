---------------------------- MODULE MCDynamicWorkflow ----------------------------
(***************************************************************************)
(* Tasks of every kind the planner tells apart, graphs another planner could   *)
(* submit, and requests that race over one task.                               *)
(***************************************************************************)
EXTENDS DynamicWorkflow

Task(risk, allowed, wall) ==
    [risk |-> risk, irreversible |-> FALSE, parallel |-> FALSE, parallelRuns |-> 2,
     feedback |-> FALSE, iterations |-> 1, allowed |-> allowed, denied |-> {},
     writes |-> TRUE, outputs |-> TRUE, defaults |-> {}, wall |-> wall, provider |-> "FAKE"]
Full == [capabilities |-> {"read", "push"}, protected |-> {"push"},
         verifiers |-> {"output-contract", "trajectory-policy", "git-diff"},
         runtimes |-> {"DETERMINISTIC", "FAKE"}]
Less == [Full EXCEPT !.capabilities = {"push"}]

Scenario(task, plans, worlds, ops) ==
    [task |-> task, plans |-> plans, worlds |-> worlds, ops |-> ops]
Straight == [propose |-> "propose", validate |-> "validate", activate |-> "activate"]

\* Every task the planner distinguishes, one request after another.
Tasks == {Scenario(t, {Propose(t)}, <<Full>>, Straight) :
            t \in {[Task(risk, allowed, wall) EXCEPT !.irreversible = i, !.parallel = p,
                                                    !.feedback = f, !.writes = w] :
                     risk \in {LOW, MEDIUM, HIGH}, allowed \in {{"read"}, {"read", "push"}},
                     wall \in {200, 600}, i, p, f, w \in BOOLEAN}}

\* Graphs a step or two away from the reviewed ones: an edge leads elsewhere, and a
\* conditional edge is added.
Variants(p) ==
    {[p EXCEPT !.edges = (@ \ {e}) \cup {[e EXCEPT !.target = n]} \cup more] :
       e \in p.edges, n \in Nodes(p),
       more \in {{}} \cup {{Arc("extra", s, t, "CONDITION", g, 0)} :
                            s \in {m \in Nodes(p) : p.kind[m] \notin {"TASK", "TERMINAL"}},
                            t \in Nodes(p), g \in {"ON_FAIL", "ON_DENIED"}}}
Foreign == UNION {{Scenario(t, {v}, <<Full>>, Straight) : v \in Variants(Propose(t))} :
                    t \in {Task(LOW, {"read"}, 600), Task(HIGH, {"read", "push"}, 600)}}

Plain == Task(LOW, {"read"}, 600)
\* A request per operator, racing over one task while a capability goes away.
Races ==
    {Scenario(Plain, {Propose(Plain)}, <<Full, Less>>,
       Straight @@ [second |-> kind]) : kind \in {"validate", "activate", "cancel"}}
    \cup {Scenario(Plain, {Propose(Plain)}, <<Full>>,
            [propose |-> "propose", select |-> "select", second |-> kind])
            : kind \in {"select", "disable dynamic", "disable search"}}
\* The run is changed while it runs.
Replans ==
    {Scenario(Plain, {Propose(Plain)}, worlds,
       Straight @@ [replan |-> "replan", second |-> kind])
       : kind \in {"replan", "cancel"}, worlds \in {<<Full>>, <<Full, Less>>}}

MCScenarios == Tasks \cup Foreign \cup Races \cup Replans
==================================================================================
