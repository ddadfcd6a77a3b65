------------------------------ MODULE MCCandidateSearch ------------------------------
(***************************************************************************)
(* Searches of every mode on small budgets; crashes, cancellation and retractions *)
(* on the ones where they matter; two runs that search at once.                   *)
(***************************************************************************)
EXTENDS CandidateSearch

MCWorld == [repository |-> "repo", major |-> 2, minor |-> 0, policy |-> "p1",
            verifier |-> "v1", head |-> "SAME", manifest |-> "SAME", skills |-> {"skill"},
            capabilities |-> {"read"}, verifiers |-> {"output"}, enabled |-> TRUE]
MCQuery == [skills |-> {"skill"}, allowed |-> {"read"}, denied |-> {}, failures |-> TRUE,
            maxAge |-> 0, promptSame |-> TRUE, contextSame |-> TRUE, toolsSame |-> TRUE]
MCExperience ==
    [repository |-> "repo", major |-> 2, minor |-> 0, policy |-> "p1", verifier |-> "v1",
     digestsValid |-> TRUE, protected |-> FALSE, trust |-> "HIGH", polarity |-> "POSITIVE",
     taxonomy |-> FALSE, skills |-> {"skill"}, allowed |-> {"read"}, verifiers |-> {"output"},
     provider |-> "CODEX", semantic |-> 80, retracted |-> FALSE, age |-> 10,
     segments |-> "VALID"]

MCPlan(mode, branches, parallel, perBranch, total) ==
    [mode |-> mode, branches |-> branches, parallel |-> parallel, perBranch |-> perBranch,
     total |-> total, seeds |-> <<>>, run |-> "PENDING", accepted |-> TRUE, node |-> "AGENT",
     capabilities |-> FALSE, taskParallel |-> 4, taskTurns |-> total + 1,
     alreadySpent |-> 1, since |-> 0, provider |-> "CODEX", gain |-> 2]
Ready == [ready |-> TRUE, quality |-> 1, pressure |-> 0, latency |-> 0]
Pass(patch, total) == [verdict |-> "PASS", patch |-> patch, total |-> total]
Fails == [verdict |-> "FAIL", patch |-> 1, total |-> 0]
Unsure == [verdict |-> "INCONCLUSIVE", patch |-> 0, total |-> 0]

Base(plan) ==
    [plans |-> [s \in {"a"} |-> plan],
     limits |-> [global |-> 4, provider |-> 4, project |-> 4],
     health |-> [p \in Providers |-> Ready], rivals |-> {}, experiences |-> <<MCExperience>>,
     query |-> MCQuery, worlds |-> <<MCWorld>>,
     outcomes |-> [i \in 1..4 |-> {Pass(i, 5 - i), Fails}],
     ends |-> {"completed", "failed"}, events |-> {}, maxCrashes |-> 0]

Best == MCPlan("BEST_OF_N", 2, 2, 1, 2)
Replay == [MCPlan("REPLAY_BRANCH", 2, 2, 1, 2) EXCEPT !.seeds = <<1>>]

\* How a search ends: every verdict, tie, distance and patch; budgets that run out.
Endings ==
    <<[Base(Best) EXCEPT !.outcomes = [i \in 1..4 |->
         {Fails, Unsure, Pass(0, 3), Pass(1, 3), Pass(1, 5), Pass(2, 4)}],
         !.ends = {"completed", "failed", "cancelled"}, !.events = {"touch"}],
      [Base(MCPlan("BEST_OF_N", 3, 2, 2, 3)) EXCEPT !.events = {"deadline", "fault"}],
      Base(MCPlan("GENERATOR_REVIEWER", 2, 1, 2, 3)),
      [Base(Best) EXCEPT !.health = [p \in Providers |-> [Ready EXCEPT !.ready = FALSE]]],
      Base([Best EXCEPT !.since = 1]), Base([Best EXCEPT !.since = 2]),
      [Base(MCPlan("CROSS_PROVIDER", 2, 2, 1, 2)) EXCEPT !.events = {"abandon"},
         !.rivals = {"CLAUDE"}, !.limits.provider = 2]>>

\* The operator cancels, a call raises, the run is dropped, the workspace is edited.
Disturbed(plan, events) ==
    [Base(plan) EXCEPT !.events = events, !.ends = {"completed"}, !.maxCrashes = 1]
Interruptions ==
    <<Disturbed(Best, {"cancel", "fault"}),
      Disturbed(MCPlan("BEST_OF_N", 3, 2, 1, 3), {"cancel"}),
      Disturbed(MCPlan("GENERATOR_REVIEWER", 2, 2, 2, 4), {"cancel"}),
      Disturbed(Best, {"cancel", "abandon", "touch"}),
      [Disturbed(Best, {"abandon", "touch"}) EXCEPT !.maxCrashes = 2]>>

\* A seed's experience is retracted, or the repository moves away from it.
Moved == [MCWorld EXCEPT !.head = "AHEAD", !.manifest = "CONTENT"]
Seeded(events, worlds, segments) ==
    [Disturbed(Replay, events) EXCEPT !.worlds = worlds,
       !.experiences = <<[MCExperience EXCEPT !.segments = segments]>>,
       !.outcomes = [i \in 1..4 |-> IF i = 1 THEN {Fails, Pass(1, 1)} ELSE {Pass(2, 4)}]]
Replays ==
    <<[Seeded({"retract", "cancel"}, <<MCWorld>>, "VALID") EXCEPT !.maxCrashes = 2],
      Seeded({"retract"}, <<MCWorld, Moved>>, "VALID"),
      Seeded({}, <<MCWorld>>, "EMPTY")>>

\* Two runs search at once with a slot to spare, and with none.
Pair(limit) ==
    [Disturbed(Best, {}) EXCEPT !.maxCrashes = 0, !.plans = [s \in {"a", "b"} |-> Best],
       !.limits = [global |-> limit, provider |-> limit, project |-> limit],
       !.outcomes = [i \in 1..4 |-> {Pass(i, 2 * i)}]]

MCScenarios == Range(Endings \o Interruptions \o Replays \o <<Pair(2), Pair(3)>>)
=====================================================================================
