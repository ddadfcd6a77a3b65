------------------------------ MODULE MCNodeRouting ------------------------------
(* Small nodes for the routing model: two runtimes, two capabilities, three *)
(* tuples, and the ways an instance can decide about them.                   *)
EXTENDS NodeRouting

Tuple(runtime, tools, isolation) ==
    [runtime |-> runtime, provider |-> runtime, tools |-> tools, skills |-> {},
     verifier |-> "tests", spec |-> "spec", environment |-> [os |-> 1], isolation |-> isolation]

Prediction(quality, success) ==
    [quality |-> quality, cost |-> 1, latency |-> 1, uncertainty |-> 1, success |-> success,
     ucb |-> 2, lcb |-> 1]

\* A tool node with an audited codex fallback, a claude tuple that beats it and
\* one whose quality is in between.
Base ==
    [tuples |-> <<Tuple("codex", {"read"}, "WORKTREE"), Tuple("claude", {"read"}, "WORKTREE"),
                  Tuple("claude", {"read", "search"}, "WORKTREE")>>,
     constraints |-> {[attribute |-> "os", operator |-> "EQ", value |-> 1]},
     provider |-> [codex |-> "codex", claude |-> "claude"],
     installed |-> {}, verifiers |-> {"tests"}, required |-> {"read"},
     range |-> [read |-> {[operator |-> "GTE", value |-> 1]}, search |-> {}],
     registered |-> [read |-> 1, search |-> 1],
     spec |-> "spec", active |-> TRUE, taskRisk |-> "LOW", risk |-> "LOW",
     authority |-> [read |-> "ALLOW", search |-> "ALLOW"],
     skills |-> {}, granted |-> {"read", "search"}, beam |-> 3, fallback |-> {1},
     predicted |-> <<Prediction(5, 5), Prediction(8, 8), Prediction(6, 8)>>,
     epsilon |-> 0, floor |-> 6, prior |-> 5,
     evidence |-> [falseAcceptance |-> 0, ceiling |-> 1, ece |-> 0, maxEce |-> 1,
                   lcb |-> [all |-> 9], baseline |-> [all |-> 9], margin |-> 1,
                   window |-> [codex |-> {1}, claude |-> {1}], coverage |-> 9,
                   policy |-> TRUE, audit |-> TRUE],
     irreversible |-> FALSE, learned |-> TRUE, shadowPassed |-> TRUE,
     explore |-> [present |-> TRUE, count |-> 1, cost |-> 4, alpha |-> 10],
     beta |-> 1, mode |-> "BASELINE_ONLY", kind |-> "TOOL"]

\* Guarded exploration over the two claude tuples.
Exploring == [Base EXCEPT !.mode = "AUTO"]
\* The same node while the breakers' evidence cannot be read.
Blinded == [Exploring EXCEPT !.evidence = Blind(Base.evidence)]
\* No fallback and nothing above the floor: a person has to choose.
Reviewed == [Base EXCEPT !.fallback = {}, !.floor = 9]
\* An agent node whose every tuple binds a tool.
Bound == [Base EXCEPT !.kind = "AGENT"]
\* A beam of one, the fallback last in hash order.
Narrow == [Base EXCEPT !.beam = 1, !.fallback = {3}]
\* A fallback of better predicted quality that is below the floor itself.
Eclipsed == [Base EXCEPT !.predicted[1] = Prediction(9, 5)]
\* The search tool's policy asks for approval: its tuple is not eligible.
Guarded == [Base EXCEPT !.authority["search"] = "REQUIRE_APPROVAL"]

MCCases == [base |-> Base, exploring |-> Exploring, reviewed |-> Reviewed, bound |-> Bound,
            narrow |-> Narrow, guarded |-> Guarded, blinded |-> Blinded,
            eclipsed |-> Eclipsed]

Scenario(name, runs, c, m, a, w) ==
    [node |-> name, runs |-> runs, crashes |-> c, amends |-> m, apiRoutes |-> a, changes |-> w]

MCScenarios ==
    {Scenario("base", {"r1"}, 1, 0, 0, 2), Scenario("base", {"r1"}, 0, 2, 1, 1),
     Scenario("reviewed", {"r1"}, 1, 1, 0, 0), Scenario("reviewed", {"r1"}, 0, 2, 0, 1),
     Scenario("narrow", {"r1"}, 0, 1, 1, 1), Scenario("guarded", {"r1"}, 0, 1, 1, 0),
     Scenario("bound", {"r1"}, 1, 1, 0, 1), Scenario("exploring", {"r1"}, 1, 0, 1, 1),
     Scenario("blinded", {"r1"}, 0, 0, 0, 1), Scenario("eclipsed", {"r1"}, 0, 0, 0, 1),
     Scenario("exploring", {"r1", "r2"}, 0, 0, 0, 0)}

World(codex, claude, ready, search) ==
    [version |-> [codex |-> codex, claude |-> claude], ready |-> ready,
     resolved |-> [read |-> "NO_CONNECTOR_REQUIRED", search |-> search]]

\* 1: all up; 2: claude upgraded; 3: codex down and the search connection lost.
MCWorlds == <<World(1, 1, {"codex", "claude"}, "OK"),
              World(1, 2, {"codex", "claude"}, "OK"),
              World(1, 2, {"claude"}, "NO_CONNECTION")>>
MCWorldChange == {<<1, 2>>, <<2, 3>>}

================================================================================
