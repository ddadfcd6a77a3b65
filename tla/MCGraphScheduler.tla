------------------------------ MODULE MCGraphScheduler ------------------------------
\* Instances of GraphScheduler: plans over the code-defined templates it executes.
EXTENDS GraphScheduler

PlanOf(template, turns, regionTurns, iterations, auto, time) ==
    [workflow |-> template, maxTurns |-> turns, regionTurns |-> regionTurns,
     maxIterations |-> iterations, autoApprove |-> auto, maxTime |-> time]

Fixed == PlanOf(FixedGraphV1, 3, 1, 1, FALSE, 0)
FixedAuto == PlanOf(FixedGraphV1, 2, 1, 1, TRUE, 0)
FixedClock == PlanOf(FixedGraphV1, 2, 1, 1, FALSE, 1)
SafeUnknown == PlanOf(SafeUnknownV1, 4, 4, 2, FALSE, 0)
Hybrid == PlanOf(HybridRdV1, 4, 2, 1, FALSE, 0)

\* The registry finalizes its templates when the module is imported (templates.py,
\* _template): validation accepts every one of them.
ASSUME BuiltInsValid == \A t \in AllTemplates : ValidTemplate(t)

AllPlans == {Fixed, FixedAuto, FixedClock, SafeUnknown, Hybrid}
====================================================================================
