----------------------------- MODULE MCRouterRelease -----------------------------
(* Instances of RouterRelease for TLC. *)
EXTENDS RouterRelease, TLC

CONSTANTS c1, c2, r1, r2, r3, b1, b2

MCCandidates == {c1, c2}
MCReceipts == {r1, r2, r3}
MCBudgets == {b1, b2}
MCTrialCap == (b1 :> 1) @@ (b2 :> 3)
MCCostCap == (b1 :> 2) @@ (b2 :> 2)
MCHashRank == (b1 :> 1) @@ (b2 :> 0)

Asks(register, evaluate, promote, rollback) ==
    [register |-> register, evaluate |-> evaluate, promote |-> promote, rollback |-> rollback]

NoRows == [v \in {} |-> None]

Pair(r, v) ==
    {[receipt |-> r, version |-> v, kind |-> k, trial |-> 0, day |-> 0] :
       k \in {"SHADOW", "CONTROL"}}

\* A shadow version of c1 before any node has run.
Shadowed == ShadowId(c1, b1) :> Row("SHADOW", c1, c1, 1)

Staging == [shadow |-> Shadowed, decisions |-> {}, results |-> {}, reports |-> NoRows,
            finished |-> {}, requests |-> Asks(0, 1, 1, 0), crashes |-> 1, rots |-> 0]

\* Both budgets of c1, and the older one has been heard.
Registering == [shadow |-> NoRows, decisions |-> {}, results |-> {}, reports |-> NoRows,
                finished |-> {r2, r3}, requests |-> Asks(2, 1, 1, 0), crashes |-> 0, rots |-> 0]

\* Both candidates through their shadow stages, with reports that approve each over the other.
Approved ==
    LET s1 == ShadowId(c1, b1)
        s2 == ShadowId(c2, b1)
        approved(c, b) == [candidate |-> c, baseline |-> b, decision |-> "PROMOTE"]
    IN [shadow |-> (s1 :> Row("SHADOW", c1, c1, 1)) @@ (s2 :> Row("SHADOW", c2, c2, 0)),
        decisions |-> {[receipt |-> r1, version |-> s1], [receipt |-> r2, version |-> s2]},
        results |-> Pair(r1, s1) \cup Pair(r2, s2),
        reports |-> (ReportId(c1, c2, "k") :> approved(c1, c2))
                      @@ (ReportId(c2, c1, "k") :> approved(c2, c1)),
        finished |-> MCReceipts, requests |-> Asks(0, 0, 3, 2), crashes |-> 1, rots |-> 1]

Symmetry == Permutations(Operators)

MCScenarios == {Staging, Registering, Approved}

================================================================================
