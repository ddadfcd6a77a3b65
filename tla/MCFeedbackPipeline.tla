--------------------------- MODULE MCFeedbackPipeline ---------------------------
(* Instances of FeedbackPipeline for TLC.                                      *)
EXTENDS FeedbackPipeline

MCClaims == {"tests", "lint"}
MCRequired == {"tests"}

Verdict(verifier, status, session) ==
    [verifier |-> verifier, status |-> status, session |-> session, covers |-> MCClaims]

LocalOp(instance, source, verdicts) ==
    [kind |-> "local", instance |-> instance, source |-> source, producer |-> "builder",
     verdicts |-> verdicts]
FinalOp(run) == [kind |-> "final", run |-> run]
ResolveOp(instance, text) == [kind |-> "resolve", instance |-> instance, text |-> text]
RetractOp(run, expected) == [kind |-> "retract", run |-> run, expected |-> expected]
SnapshotOp == [kind |-> "snapshot"]

Receipt(instance, config) == [instance |-> instance, config |-> config]
Given(instance, source, status) == [instance |-> instance, source |-> source, status |-> status]
Ended(state) == [state |-> state, irreversible |-> FALSE, ambiguous |-> FALSE, complete |-> TRUE]

\* Three verifiers answer about one node, one of them twice, while its run is projected.
Verification ==
    [ops |-> [pass |-> LocalOp("n1", "v1", {Verdict("unit", "PASS", "none")}),
              fail |-> LocalOp("n1", "v2", {[Verdict("review", "FAIL", "none") EXCEPT !.covers = {"tests"}]}),
              again |-> LocalOp("n1", "v2", {Verdict("review", "FAIL", "none")}),
              own |-> LocalOp("n1", "v3", {Verdict("self", "PASS", "builder"),
                                           Verdict("unit", "PASS", "none")}),
              final |-> FinalOp("r1")],
     receipts |-> [r1 |-> <<Receipt("n1", "c1")>>],
     source |-> [r1 |-> Ended("SUCCEEDED")], verdicts |-> <<>>, disturbances |-> 0]

\* Three runs of one node kind disagree; one is projected twice, one is adjudicated, one
\* retracted, and a snapshot is taken meanwhile.
Contradiction ==
    [ops |-> [first |-> FinalOp("r1"), second |-> FinalOp("r2"), third |-> FinalOp("r3"),
              twice |-> FinalOp("r1"), settle |-> ResolveOp("n2", "keep"),
              snapshot |-> SnapshotOp],
     receipts |-> [r1 |-> <<Receipt("n1", "c1")>>, r2 |-> <<Receipt("n2", "c1")>>,
                   r3 |-> <<Receipt("n3", "c1")>>],
     source |-> [r1 |-> Ended("SUCCEEDED"), r2 |-> Ended("FAILED"), r3 |-> Ended("SUCCEEDED")],
     verdicts |-> <<Given("n1", "g1", "PASS"), Given("n2", "g2", "FAIL"),
                    Given("n3", "g3", "PASS")>>,
     disturbances |-> 0]

\* Two adjudications of one line race a retraction, a drifting tree and a dying process.
Disturbed ==
    [Contradiction EXCEPT
        !.ops = [first |-> FinalOp("r1"), second |-> FinalOp("r2"),
                 settle |-> ResolveOp("n1", "keep"), unsettle |-> ResolveOp("n1", "drop"),
                 withdraw |-> RetractOp("r1", 1), stale |-> RetractOp("r1", 1),
                 snapshot |-> SnapshotOp],
        !.disturbances = 1]

\* A node that was routed twice, with a second node after it, and a cancelled run.
Overridden ==
    [ops |-> [final |-> FinalOp("r1"), cancelled |-> FinalOp("r2"), empty |-> FinalOp("r3")],
     receipts |-> [r1 |-> <<Receipt("n1", "c1"), Receipt("n1", "c2"), Receipt("n2", "c1")>>,
                   r2 |-> <<Receipt("n3", "c1")>>, r3 |-> <<>>],
     source |-> [r1 |-> Ended("SUCCEEDED"), r2 |-> Ended("CANCELLED"), r3 |-> Ended("FAILED")],
     verdicts |-> <<Given("n1", "g1", "PASS"), Given("n2", "g2", "PASS")>>,
     disturbances |-> 1]

MCScenarios == {Verification, Contradiction, Disturbed, Overridden}

================================================================================
