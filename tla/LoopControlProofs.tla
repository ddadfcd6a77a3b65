--------------------------- MODULE LoopControlProofs ---------------------------
(***************************************************************************)
(* Safety of the bounded loop for every LoopSpec, every set of fingerprints *)
(* and any number of interruptions.                                         *)
(***************************************************************************)
EXTENDS LoopControl, TLAPS

\* The suffix of the ledger each stagnation counter speaks of: when the last
\* iteration completed, the counter is the length of the run of equal rows that
\* ends with it (less one for the no-progress counter, which counts repeats).
CountersDescribeSuffix ==
    PreviousCompleted =>
        /\ state.consecutive_no_progress < Len(ledger)
        /\ \A i \in 1 .. Len(ledger) :
             i >= Len(ledger) - state.consecutive_no_progress =>
                /\ ledger[i].status = "COMPLETED"
                /\ ledger[i].output = ledger[Len(ledger)].output
        /\ state.repeated_failure_count >= 1
        /\ state.repeated_failure_count <= Len(ledger)
        /\ \A i \in 1 .. Len(ledger) :
             i > Len(ledger) - state.repeated_failure_count =>
                /\ ledger[i].status = "COMPLETED"
                /\ ledger[i].finding = ledger[Len(ledger)].finding

\* A stagnation stop is terminal, so nothing is appended after it.
StagnationIsFinal ==
    stop_reason \in {"NO_PROGRESS", "REPEATED_FAILURE"} => status = "REQUIRES_HUMAN"

IInv ==
    /\ TypeOK /\ BudgetFollowsLedger /\ LiveBelowThresholds
    /\ CountersDescribeSuffix /\ StagnationIsFinal /\ StagnationIsReal

\* A charge yields a budget again: the clamp keeps every field a natural.
LEMMA ChargeType ==
    ASSUME NEW r \in LoopBudgetRemaining, NEW t \in Nat
    PROVE  Charge(r, t) \in LoopBudgetRemaining
  BY DEF Charge, Max, LoopBudgetRemaining

\* One more row and its tool calls are what one charge takes from the budget.
LEMMA ChargeFollows ==
    ASSUME NEW r \in LoopBudgetRemaining, NEW t \in Nat, NEW n \in Nat,
           NEW used \in Nat,
           r.iterations = Max(0, MaxIterations - n),
           r.turns = Max(0, MaxTurns - n),
           r.tool_calls = Max(0, MaxToolCalls - used)
    PROVE  /\ Charge(r, t).iterations = Max(0, MaxIterations - (n + 1))
           /\ Charge(r, t).turns = Max(0, MaxTurns - (n + 1))
           /\ Charge(r, t).tool_calls = Max(0, MaxToolCalls - (used + t))
  BY LoopSpecAssumption DEF Charge, Max, LoopBudgetRemaining

\* What terminal_outcome can answer, and what its answer says of the counters.
LEMMA OutcomeCases ==
    ASSUME NEW s, NEW a, NEW o
    PROVE  /\ TerminalOutcome(s, a, o).status \in LoopStatus
           /\ TerminalOutcome(s, a, o).reason \in StopReason
           /\ TerminalOutcome(s, a, o).status \notin LoopTerminal =>
                /\ ~ (s.provider_failure_count >= ProviderFailureThreshold)
                /\ ~ (s.consecutive_no_progress >= NoProgressWindow)
                /\ ~ (s.repeated_failure_count >= RepeatedFailureThreshold)
           /\ TerminalOutcome(s, a, o).reason = "NO_PROGRESS" =>
                /\ TerminalOutcome(s, a, o).status = "REQUIRES_HUMAN"
                /\ s.consecutive_no_progress >= NoProgressWindow
           /\ TerminalOutcome(s, a, o).reason = "REPEATED_FAILURE" =>
                /\ TerminalOutcome(s, a, o).status = "REQUIRES_HUMAN"
                /\ s.repeated_failure_count >= RepeatedFailureThreshold
  BY DEF TerminalOutcome, Stop, Continue, LoopStatus, LoopTerminal, StopReason

THEOREM InitIInv == Init => IInv
  <1> SUFFICES ASSUME Init PROVE IInv OBVIOUS
  <1> USE LoopSpecAssumption
  <1>1. TypeOK
    <2>1. state \in LoopState
      BY DEF Init, LoopState, LoopBudgetRemaining
    <2>2. ledger \in Seq(LoopIteration)
      BY DEF Init
    <2>3. attempt \in BOOLEAN /\ late \in BOOLEAN /\ alive \in BOOLEAN
      BY Zenon DEF Init
    <2>4. interrupts \in 0 .. MaxInterrupts /\ toolsUsed \in Nat
      BY DEF Init
    <2>5. status \in LoopStatus /\ stop_reason \in StopReason
      BY DEF Init, LoopStatus, StopReason
    <2> QED BY <2>1, <2>2, <2>3, <2>4, <2>5 DEF TypeOK
  <1>2. BudgetFollowsLedger
    BY DEF Init, BudgetFollowsLedger, Max
  <1>3. LiveBelowThresholds
    BY DEF Init, LiveBelowThresholds
  <1>4. CountersDescribeSuffix
    BY DEF Init, CountersDescribeSuffix, PreviousCompleted
  <1>5. StagnationIsFinal /\ StagnationIsReal
    BY DEF Init, StagnationIsFinal, StagnationIsReal
  <1> QED BY <1>1, <1>2, <1>3, <1>4, <1>5 DEF IInv

\* Steps that only move the status keep the invariant, provided they revive
\* nothing and claim no stagnation.
LEMMA StatusOnly ==
    ASSUME IInv, UNCHANGED <<state, ledger, toolsUsed>>,
           status' \in LoopStatus, stop_reason' \in StopReason,
           \/ UNCHANGED <<status, stop_reason>>
           \/ /\ stop_reason' \notin {"NO_PROGRESS", "REPEATED_FAILURE"}
              /\ status \notin LoopTerminal,
           attempt' \in BOOLEAN, late' \in BOOLEAN, alive' \in BOOLEAN,
           interrupts' \in 0 .. MaxInterrupts
    PROVE  IInv'
  <1>1. TypeOK' BY DEF IInv, TypeOK
  <1>2. BudgetFollowsLedger' BY DEF IInv, BudgetFollowsLedger
  <1>3. LiveBelowThresholds' BY DEF IInv, LiveBelowThresholds
  <1>4. CountersDescribeSuffix'
    BY DEF IInv, CountersDescribeSuffix, PreviousCompleted
  <1>5. StagnationIsFinal' BY DEF IInv, StagnationIsFinal
  <1>6. StagnationIsReal' BY DEF IInv, StagnationIsReal, LastRows
  <1> QED BY <1>1, <1>2, <1>3, <1>4, <1>5, <1>6 DEF IInv

\* A step that appends one row and charges it once keeps the books balanced.
LEMMA BudgetStep ==
    ASSUME IInv, NEW tools \in Nat, Len(ledger') = Len(ledger) + 1,
           state'.iteration = state.iteration + 1,
           state'.remaining = Charge(state.remaining, tools),
           toolsUsed' = toolsUsed + tools
    PROVE  BudgetFollowsLedger'
  <1>1. /\ state.remaining \in LoopBudgetRemaining
        /\ Len(ledger) \in Nat /\ toolsUsed \in Nat
    BY DEF IInv, TypeOK, LoopState
  <1>2. BudgetFollowsLedger BY DEF IInv
  <1>3. /\ Charge(state.remaining, tools).iterations
              = Max(0, MaxIterations - (Len(ledger) + 1))
        /\ Charge(state.remaining, tools).turns
              = Max(0, MaxTurns - (Len(ledger) + 1))
        /\ Charge(state.remaining, tools).tool_calls
              = Max(0, MaxToolCalls - (toolsUsed + tools))
    BY <1>1, <1>2, ChargeFollows DEF BudgetFollowsLedger
  <1> QED BY <1>1, <1>2, <1>3 DEF BudgetFollowsLedger

\* Closing an attempt without a result: the new row is not a completed one, so
\* the counters stop describing a suffix, and they do not grow.
LEMMA Closing ==
    ASSUME IInv, status \notin LoopTerminal,
           NEW it \in {"INTERRUPTED", "CANCELLED"}, NEW st \in LoopStatus,
           NEW rs \in StopReason \ {"NO_PROGRESS", "REPEATED_FAILURE"},
           NEW tools \in Nat,
           CloseAttempt(it, Stop(st, rs), tools),
           late' \in BOOLEAN, alive' \in BOOLEAN,
           interrupts' \in 0 .. MaxInterrupts
    PROVE  IInv'
  <1> USE LoopSpecAssumption
  <1>1. PICK output \in Evidence :
            /\ ledger' = Append(ledger, Row(it, output, Nothing))
            /\ state' = NextState("INTERRUPTED", output, Nothing, tools)
            /\ status' = st /\ stop_reason' = rs
            /\ toolsUsed' = toolsUsed + tools
    BY DEF CloseAttempt, AppendIteration, Stop
  <1>2. Charge(state.remaining, tools) \in LoopBudgetRemaining
    BY ChargeType DEF IInv, TypeOK, LoopState
  <1>3. /\ state' \in LoopState
        /\ state'.iteration = state.iteration + 1
        /\ state'.remaining = Charge(state.remaining, tools)
        /\ state'.consecutive_no_progress = state.consecutive_no_progress
        /\ state'.repeated_failure_count = state.repeated_failure_count
        /\ state'.provider_failure_count = state.provider_failure_count
    BY <1>1, <1>2 DEF IInv, TypeOK, LoopState, NextState, SameOutput, SameFailure, Completed
  <1>4. /\ ledger' \in Seq(LoopIteration)
        /\ Len(ledger') = Len(ledger) + 1
        /\ ledger'[Len(ledger')].status = it
    <2>1. /\ Row(it, output, Nothing) \in LoopIteration
          /\ Row(it, output, Nothing).status = it
      BY DEF Row, LoopIteration, Evidence
    <2> QED BY <1>1, <2>1 DEF IInv, TypeOK
  <1>5. TypeOK'
    <2>1. attempt' \in BOOLEAN BY Zenon DEF CloseAttempt, AppendIteration
    <2>2. status' \in LoopStatus /\ stop_reason' \in StopReason BY <1>1
    <2>3. toolsUsed' \in Nat BY <1>1 DEF IInv, TypeOK
    <2> QED BY <1>3, <1>4, <2>1, <2>2, <2>3 DEF TypeOK
  <1>6. BudgetFollowsLedger' BY <1>1, <1>3, <1>4, BudgetStep
  <1>7. LiveBelowThresholds'
    BY <1>3 DEF IInv, LiveBelowThresholds
  <1>8. CountersDescribeSuffix'
    BY <1>4 DEF CountersDescribeSuffix, PreviousCompleted
  <1>9. StagnationIsFinal' /\ StagnationIsReal'
    BY <1>1 DEF StagnationIsFinal, StagnationIsReal
  <1> QED BY <1>5, <1>6, <1>7, <1>8, <1>9 DEF IInv

\* A finished iteration.  A completed row extends the suffix the counters
\* describe or starts a new one; a failed row ends it.
LEMMA Finishing ==
    ASSUME IInv, NEW end \in CallEnd, NEW output \in Evidence,
           NEW finding \in Evidence, NEW tools \in Nat, NEW acceptance,
           NEW outOfTime,
           FinishIteration(end, output, finding, tools, acceptance, outOfTime)
    PROVE  IInv'
  <1> USE LoopSpecAssumption
  <1> DEFINE row == Row(IF Completed(end) THEN "COMPLETED" ELSE "FAILED",
                        output, finding)
             next == NextState(end, output, finding, tools)
             decision == TerminalOutcome(next, acceptance, outOfTime)
  <1>1. /\ ledger' = Append(ledger, row) /\ state' = next
        /\ status' = decision.status /\ stop_reason' = decision.reason
        /\ toolsUsed' = toolsUsed + tools
        /\ interrupts' = interrupts /\ status = "RUNNING"
    BY DEF FinishIteration, AppendIteration
  <1>2. attempt' \in BOOLEAN /\ late' \in BOOLEAN /\ alive' \in BOOLEAN
    BY Zenon DEF FinishIteration, AppendIteration, IInv, TypeOK
  <1>3. Charge(state.remaining, tools) \in LoopBudgetRemaining
    BY ChargeType DEF IInv, TypeOK, LoopState
  <1>4. /\ state' \in LoopState
        /\ state'.iteration = state.iteration + 1
        /\ state'.remaining = Charge(state.remaining, tools)
    BY <1>1, <1>3 DEF IInv, TypeOK, LoopState, NextState
  <1>5. /\ row \in LoopIteration
        /\ row.status = IF Completed(end) THEN "COMPLETED" ELSE "FAILED"
        /\ row.output = output /\ row.finding = finding
    BY DEF Row, LoopIteration
  <1> HIDE DEF row
  <1>6. /\ ledger \in Seq(LoopIteration) /\ ledger' \in Seq(LoopIteration)
        /\ Len(ledger) \in Nat /\ Len(ledger') = Len(ledger) + 1
        /\ ledger'[Len(ledger')] = row
        /\ \A i \in 1 .. Len(ledger) : ledger'[i] = ledger[i]
    BY <1>1, <1>5 DEF IInv, TypeOK
  <1>7. TypeOK'
    <2>1. status' \in LoopStatus /\ stop_reason' \in StopReason
      BY <1>1, OutcomeCases
    <2>2. toolsUsed' \in Nat /\ interrupts' \in 0 .. MaxInterrupts
      BY <1>1 DEF IInv, TypeOK
    <2> QED BY <1>2, <1>4, <1>6, <2>1, <2>2 DEF TypeOK
  <1>8. BudgetFollowsLedger' BY <1>1, <1>4, <1>6, BudgetStep
  <1>9. LiveBelowThresholds'
    <2>1. status' \notin LoopTerminal =>
            /\ ~ (state'.provider_failure_count >= ProviderFailureThreshold)
            /\ ~ (state'.consecutive_no_progress >= NoProgressWindow)
            /\ ~ (state'.repeated_failure_count >= RepeatedFailureThreshold)
      BY <1>1, OutcomeCases
    <2> QED BY <1>4, <2>1 DEF LiveBelowThresholds, LoopState
  <1>10. CountersDescribeSuffix'
    <2>1. CASE ~ Completed(end)
      BY <1>5, <1>6, <2>1 DEF CountersDescribeSuffix, PreviousCompleted
    <2>2. CASE Completed(end)
      <3>1. /\ state'.consecutive_no_progress =
                 IF SameOutput(end, output)
                 THEN state.consecutive_no_progress + 1 ELSE 0
            /\ state'.repeated_failure_count =
                 IF SameFailure(end, finding)
                 THEN state.repeated_failure_count + 1 ELSE 1
        BY <1>1, <2>2 DEF NextState
      <3>2. state \in LoopState BY DEF IInv, TypeOK
      <3>3. CountersDescribeSuffix BY DEF IInv
      <3>4. row.status = "COMPLETED" BY <1>5, <2>2
      <3> DEFINE n == Len(ledger)
                 k == state.consecutive_no_progress
                 m == state.repeated_failure_count
      <3>5. /\ n \in Nat /\ k \in Nat /\ m \in Nat
            /\ Len(ledger') = n + 1
            /\ ledger = <<>> => n = 0
            /\ ledger # <<>> => n >= 1
        BY <1>6, <3>2 DEF LoopState
      <3>6. /\ ledger'[n + 1] = row
            /\ \A i \in 1 .. n : ledger'[i] = ledger[i]
        BY <1>6
      <3>7. /\ state'.consecutive_no_progress < n + 1
            /\ \A i \in 1 .. n + 1 :
                 i >= n + 1 - state'.consecutive_no_progress =>
                    /\ ledger'[i].status = "COMPLETED"
                    /\ ledger'[i].output = row.output
        <4>1. CASE SameOutput(end, output)
          <5>1. /\ PreviousCompleted /\ ledger[n].output = row.output
                /\ state'.consecutive_no_progress = k + 1
            BY <1>5, <3>1, <4>1 DEF SameOutput
          <5>2. /\ k < n
                /\ \A i \in 1 .. n : i >= n - k =>
                     /\ ledger[i].status = "COMPLETED"
                     /\ ledger[i].output = ledger[n].output
            BY <3>3, <5>1 DEF CountersDescribeSuffix
          <5>3. \A i \in 1 .. n + 1 : i >= n + 1 - (k + 1) =>
                    /\ ledger'[i].status = "COMPLETED"
                    /\ ledger'[i].output = row.output
            <6> SUFFICES ASSUME NEW i \in 1 .. n + 1, i >= n + 1 - (k + 1)
                         PROVE  /\ ledger'[i].status = "COMPLETED"
                                /\ ledger'[i].output = row.output
              OBVIOUS
            <6>1. CASE i = n + 1 BY <3>4, <3>6, <6>1
            <6>2. CASE i # n + 1
              <7>1. i \in 1 .. n /\ i >= n - k BY <3>5, <6>2
              <7> QED BY <3>6, <5>1, <5>2, <7>1
            <6> QED BY <6>1, <6>2
          <5> QED BY <3>5, <5>1, <5>2, <5>3
        <4>2. CASE ~ SameOutput(end, output)
          BY <3>1, <3>4, <3>5, <3>6, <4>2
        <4> QED BY <4>1, <4>2
      <3>8. /\ state'.repeated_failure_count >= 1
            /\ state'.repeated_failure_count <= n + 1
            /\ \A i \in 1 .. n + 1 :
                 i > n + 1 - state'.repeated_failure_count =>
                    /\ ledger'[i].status = "COMPLETED"
                    /\ ledger'[i].finding = row.finding
        <4>1. CASE SameFailure(end, finding)
          <5>1. /\ PreviousCompleted /\ ledger[n].finding = row.finding
                /\ state'.repeated_failure_count = m + 1
            BY <1>5, <3>1, <4>1 DEF SameFailure
          <5>2. /\ m >= 1 /\ m <= n
                /\ \A i \in 1 .. n : i > n - m =>
                     /\ ledger[i].status = "COMPLETED"
                     /\ ledger[i].finding = ledger[n].finding
            BY <3>3, <5>1 DEF CountersDescribeSuffix
          <5>3. \A i \in 1 .. n + 1 : i > n + 1 - (m + 1) =>
                    /\ ledger'[i].status = "COMPLETED"
                    /\ ledger'[i].finding = row.finding
            <6> SUFFICES ASSUME NEW i \in 1 .. n + 1, i > n + 1 - (m + 1)
                         PROVE  /\ ledger'[i].status = "COMPLETED"
                                /\ ledger'[i].finding = row.finding
              OBVIOUS
            <6>1. CASE i = n + 1 BY <3>4, <3>6, <6>1
            <6>2. CASE i # n + 1
              <7>1. i \in 1 .. n /\ i > n - m BY <3>5, <6>2
              <7> QED BY <3>6, <5>1, <5>2, <7>1
            <6> QED BY <6>1, <6>2
          <5> QED BY <3>5, <5>1, <5>2, <5>3
        <4>2. CASE ~ SameFailure(end, finding)
          BY <3>1, <3>4, <3>5, <3>6, <4>2
        <4> QED BY <4>1, <4>2
      <3>9. ledger'[Len(ledger')] = row BY <1>6
      <3>10. n + 1 = Len(ledger') BY <3>5
      <3> HIDE DEF n, k, m
      <3>11. /\ state'.consecutive_no_progress < Len(ledger')
             /\ \A i \in 1 .. Len(ledger') :
                  i >= Len(ledger') - state'.consecutive_no_progress =>
                     /\ ledger'[i].status = "COMPLETED"
                     /\ ledger'[i].output = ledger'[Len(ledger')].output
        BY <1>4, <1>6, <3>5, <3>7, <3>9, <3>10 DEF LoopState
      <3>12. /\ state'.repeated_failure_count >= 1
             /\ state'.repeated_failure_count <= Len(ledger')
             /\ \A i \in 1 .. Len(ledger') :
                  i > Len(ledger') - state'.repeated_failure_count =>
                     /\ ledger'[i].status = "COMPLETED"
                     /\ ledger'[i].finding = ledger'[Len(ledger')].finding
        BY <1>4, <1>6, <3>5, <3>8, <3>9, <3>10 DEF LoopState
      <3> QED BY <3>11, <3>12 DEF CountersDescribeSuffix
    <2> QED BY <2>1, <2>2
  <1>11. StagnationIsFinal'
    BY <1>1, OutcomeCases DEF StagnationIsFinal, LoopTerminal
  <1>12. StagnationIsReal'
    <2>1. ASSUME stop_reason' \in {"NO_PROGRESS", "REPEATED_FAILURE"}
          PROVE  Completed(end)
      <3>1. CASE stop_reason' = "NO_PROGRESS"
        <4>1. state'.consecutive_no_progress >= NoProgressWindow
          BY <1>1, <3>1, OutcomeCases
        <4>2. state.consecutive_no_progress < NoProgressWindow
          BY <1>1 DEF IInv, LiveBelowThresholds, LoopTerminal
        <4>3. ~ Completed(end) => state'.consecutive_no_progress
                                      = state.consecutive_no_progress
          BY <1>1 DEF NextState, SameOutput
        <4>4. state.consecutive_no_progress \in Nat
          BY DEF IInv, TypeOK, LoopState
        <4> QED BY <4>1, <4>2, <4>3, <4>4
      <3>2. CASE stop_reason' = "REPEATED_FAILURE"
        <4>1. state'.repeated_failure_count >= RepeatedFailureThreshold
          BY <1>1, <3>2, OutcomeCases
        <4>2. state.repeated_failure_count < RepeatedFailureThreshold
          BY <1>1 DEF IInv, LiveBelowThresholds, LoopTerminal
        <4>3. ~ Completed(end) => state'.repeated_failure_count
                                      = state.repeated_failure_count
          BY <1>1 DEF NextState, SameFailure
        <4>4. state.repeated_failure_count \in Nat
          BY DEF IInv, TypeOK, LoopState
        <4> QED BY <4>1, <4>2, <4>3, <4>4
      <3> QED BY <2>1, <3>1, <3>2
    <2>2. Completed(end) => PreviousCompleted'
      BY <1>5, <1>6 DEF PreviousCompleted
    <2>3. /\ state'.consecutive_no_progress \in Nat
          /\ state'.repeated_failure_count \in Nat
          /\ Len(ledger') \in Nat /\ DOMAIN ledger' = 1 .. Len(ledger')
      BY <1>4, <1>6 DEF LoopState
    <2>4. ASSUME stop_reason' = "NO_PROGRESS"
          PROVE  /\ Len(ledger') > NoProgressWindow
                 /\ \A i \in LastRows(NoProgressWindow + 1)' :
                      /\ ledger'[i].status = "COMPLETED"
                      /\ ledger'[i].output = ledger'[Len(ledger')].output
      <3>1. state'.consecutive_no_progress >= NoProgressWindow
        BY <1>1, <2>4, OutcomeCases
      <3>2. PreviousCompleted' BY <2>1, <2>2, <2>4
      <3> QED BY <1>10, <2>3, <3>1, <3>2 DEF CountersDescribeSuffix, LastRows
    <2>5. ASSUME stop_reason' = "REPEATED_FAILURE"
          PROVE  /\ Len(ledger') >= RepeatedFailureThreshold
                 /\ \A i \in LastRows(RepeatedFailureThreshold)' :
                      /\ ledger'[i].status = "COMPLETED"
                      /\ ledger'[i].finding = ledger'[Len(ledger')].finding
      <3>1. state'.repeated_failure_count >= RepeatedFailureThreshold
        BY <1>1, <2>5, OutcomeCases
      <3>2. PreviousCompleted' BY <2>1, <2>2, <2>5
      <3> QED BY <1>10, <2>3, <3>1, <3>2 DEF CountersDescribeSuffix, LastRows
    <2> QED BY <2>4, <2>5 DEF StagnationIsReal
  <1> QED BY <1>7, <1>8, <1>9, <1>10, <1>11, <1>12 DEF IInv

\* Every transition of the loop row keeps the invariant.
THEOREM NextIInv == IInv /\ [Next]_vars => IInv'
  <1> SUFFICES ASSUME IInv, [Next]_vars PROVE IInv' OBVIOUS
  <1> USE LoopSpecAssumption
  <1>0. /\ attempt \in BOOLEAN /\ late \in BOOLEAN /\ alive \in BOOLEAN
        /\ interrupts \in 0 .. MaxInterrupts /\ interrupts \in Nat
        /\ status \in LoopStatus /\ stop_reason \in StopReason
        /\ state.remaining.tool_calls \in Nat
    BY DEF IInv, TypeOK, LoopState, LoopBudgetRemaining
  <1>a. CallTools \subseteq Nat /\ DanglingTools \subseteq Nat
    BY <1>0 DEF CallTools, DanglingTools, Max
  <1>1. CASE ExecuteLoop
    BY <1>0, <1>1, StatusOnly DEF ExecuteLoop, LoopStatus, LoopTerminal, StopReason
  <1>2. CASE DeadlineStop
    BY <1>0, <1>2, StatusOnly DEF DeadlineStop, LoopStatus, LoopTerminal, StopReason
  <1>3. CASE StartIteration
    <2>1. attempt' \in BOOLEAN BY <1>3, Zenon DEF StartIteration
    <2> QED BY <1>0, <1>3, <2>1, StatusOnly DEF StartIteration
  <1>4. CASE FinishAny
    <2>1. PICK tools \in CallTools, outOfTime \in BOOLEAN :
            \/ \E output \in Evidence, finding \in Evidence, acceptance \in Verdict :
                 FinishIteration("completed", output, finding, tools, acceptance,
                                 outOfTime)
            \/ \E end \in CallEnd \ {"completed"} :
                 FinishIteration(end, Nothing, Nothing, tools, "FAIL", outOfTime)
      BY <1>4, Zenon DEF FinishAny
    <2>2. "completed" \in CallEnd /\ Nothing \in Evidence /\ tools \in Nat
      BY <1>a DEF CallEnd, Evidence
    <2> QED BY <2>1, <2>2, Finishing, Zenon
  <1>5. CASE PauseLoop
    <2>1. /\ status \notin LoopTerminal /\ "PAUSED" \in LoopStatus
          /\ "INTERRUPTED" \in StopReason \ {"NO_PROGRESS", "REPEATED_FAILURE"}
      BY <1>5 DEF PauseLoop, LoopTerminal, LoopStatus, StopReason
    <2>2. interrupts' \in 0 .. MaxInterrupts BY <1>0, <1>5 DEF PauseLoop
    <2>3. late' \in BOOLEAN /\ alive' \in BOOLEAN BY <1>0, <1>5 DEF PauseLoop
    <2>4. CASE attempt
      <3>1. PICK tools \in CallTools :
              CloseAttempt("INTERRUPTED", Stop("PAUSED", "INTERRUPTED"), tools)
        BY <1>5, <2>4 DEF PauseLoop
      <3>2. tools \in Nat BY <1>a
      <3> QED BY <2>1, <2>2, <2>3, <3>1, <3>2, Closing
    <2>5. CASE ~ attempt
      <3>1. SetStatus(Stop("PAUSED", "INTERRUPTED")) BY <1>5, <2>5 DEF PauseLoop
      <3> QED BY <1>0, <2>1, <2>2, <2>3, <3>1, StatusOnly DEF SetStatus, Stop
    <2> QED BY <2>4, <2>5
  <1>6. CASE CancelLoop
    <2>1. /\ status \notin LoopTerminal /\ "CANCELLED" \in LoopStatus
          /\ "OPERATOR_CANCELLED" \in
                StopReason \ {"NO_PROGRESS", "REPEATED_FAILURE"}
      BY <1>6 DEF CancelLoop, LoopTerminal, LoopStatus, StopReason
    <2>2. /\ late' \in BOOLEAN /\ alive' \in BOOLEAN
          /\ interrupts' \in 0 .. MaxInterrupts
      BY <1>0, <1>6 DEF CancelLoop
    <2>3. CASE attempt
      <3>1. PICK tools \in DanglingTools :
              CloseAttempt("CANCELLED", Stop("CANCELLED", "OPERATOR_CANCELLED"),
                           tools)
        BY <1>6, <2>3 DEF CancelLoop
      <3>2. tools \in Nat BY <1>a
      <3> QED BY <2>1, <2>2, <3>1, <3>2, Closing
    <2>4. CASE ~ attempt
      <3>1. SetStatus(Stop("CANCELLED", "OPERATOR_CANCELLED"))
        BY <1>6, <2>4 DEF CancelLoop
      <3> QED BY <1>0, <2>1, <2>2, <3>1, StatusOnly DEF SetStatus, Stop
    <2> QED BY <2>3, <2>4
  <1>7. CASE FailLoop
    BY <1>0, <1>7, StatusOnly DEF FailLoop, SetStatus, Stop, LoopStatus, LoopTerminal, StopReason
  <1>8. CASE EscalateResume
    BY <1>0, <1>8, StatusOnly
    DEF EscalateResume, SetStatus, Stop, LoopStatus, LoopTerminal, StopReason
  <1>9. CASE DeadlinePasses
    <2>1. late' \in BOOLEAN BY <1>9, Zenon DEF DeadlinePasses
    <2> QED BY <1>0, <1>9, <2>1, StatusOnly DEF DeadlinePasses
  <1>10. CASE Crash
    <2>1. alive' \in BOOLEAN BY <1>10, Zenon DEF Crash
    <2>2. interrupts' \in 0 .. MaxInterrupts BY <1>0, <1>10 DEF Crash
    <2> QED BY <1>0, <1>10, <2>1, <2>2, StatusOnly DEF Crash
  <1>11. CASE Reconcile
    <2>1. alive' \in BOOLEAN BY <1>11, Zenon DEF Reconcile
    <2>2. late' \in BOOLEAN /\ interrupts' \in 0 .. MaxInterrupts
      BY <1>0, <1>11 DEF Reconcile
    <2>3. ASSUME UNCHANGED <<status, stop_reason, state, ledger, attempt, toolsUsed>>
          PROVE  IInv'
      BY <1>0, <2>1, <2>2, <2>3, StatusOnly
    <2>4. ASSUME status \in {"PENDING", "RUNNING"}, NEW tools \in DanglingTools,
                 CloseAttempt("INTERRUPTED", Stop("PAUSED", "INTERRUPTED"), tools)
          PROVE  IInv'
      <3>1. /\ status \notin LoopTerminal /\ "PAUSED" \in LoopStatus
            /\ "INTERRUPTED" \in StopReason \ {"NO_PROGRESS", "REPEATED_FAILURE"}
        BY <2>4 DEF LoopTerminal, LoopStatus, StopReason
      <3>2. tools \in Nat BY <1>a
      <3> QED BY <2>1, <2>2, <2>4, <3>1, <3>2, Closing
    <2>5. ASSUME status \in {"PENDING", "RUNNING"},
                 NEW st \in {"PAUSED", "REQUIRES_HUMAN"},
                 SetStatus(Stop(st, "INTERRUPTED"))
          PROVE  IInv'
      <3>1. /\ status \notin LoopTerminal /\ st \in LoopStatus
            /\ "INTERRUPTED" \in StopReason \ {"NO_PROGRESS", "REPEATED_FAILURE"}
        BY <2>5 DEF LoopTerminal, LoopStatus, StopReason
      <3> QED BY <1>0, <2>1, <2>2, <2>5, <3>1, StatusOnly DEF SetStatus, Stop
    <2> QED BY <1>11, <2>3, <2>4, <2>5 DEF Reconcile
  <1>12. CASE UNCHANGED vars
    BY <1>0, <1>12, StatusOnly DEF vars
  <1> QED
    BY <1>1, <1>2, <1>3, <1>4, <1>5, <1>6, <1>7, <1>8, <1>9, <1>10, <1>11, <1>12
    DEF Next

\* The invariant holds in every reachable state.
THEOREM LoopInvariant == Spec => []IInv
  BY InitIInv, NextIInv, PTL DEF Spec

\* The row, its aggregate state and its ledger stay well formed.
THEOREM LoopTypeCorrect == Spec => []TypeOK
  <1>1. IInv => TypeOK BY DEF IInv
  <1> QED BY <1>1, LoopInvariant, PTL

\* Each started attempt that is closed is charged exactly once, for any ceilings
\* and any number of pauses, cancellations and restarts.
THEOREM LoopBudgetSafe == Spec => []BudgetFollowsLedger
  <1>1. IInv => BudgetFollowsLedger BY DEF IInv
  <1> QED BY <1>1, LoopInvariant, PTL

\* No interruption lets a counter slip past its threshold in a live loop.
THEOREM LoopThresholdsSafe == Spec => []LiveBelowThresholds
  <1>1. IInv => LiveBelowThresholds BY DEF IInv
  <1> QED BY <1>1, LoopInvariant, PTL

\* A stagnation stop is always backed by that many equal completed iterations.
THEOREM LoopStagnationSound == Spec => []StagnationIsReal
  <1>1. IInv => StagnationIsReal BY DEF IInv
  <1> QED BY <1>1, LoopInvariant, PTL

================================================================================
