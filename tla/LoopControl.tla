------------------------------ MODULE LoopControl ------------------------------
(***************************************************************************)
(* The bounded feedback loop of a whole-run LOOP execution: the aggregate   *)
(* LoopState, the iteration ledger, and the stop decision taken after every *)
(* iteration (looping.py and the loop half of services/run_manager.py).     *)
(*                                                                         *)
(* One action is one durable transition of the loop execution row.  What    *)
(* the provider did in an iteration (tool calls, the fingerprint of the     *)
(* workspace diff, the signature of the verifier findings, the acceptance   *)
(* verdict) is chosen from small sets.  Interleavings of the operator's     *)
(* calls with the background task are the subject of RunLifecycle; here the *)
(* transitions are atomic, as the store makes them.                         *)
(***************************************************************************)
EXTENDS Integers, Sequences, FiniteSets

CONSTANTS
    MaxIterations, MaxTurns, MaxToolCalls,      \* LoopSpec ceilings
    NoProgressWindow, RepeatedFailureThreshold, ProviderFailureThreshold,
    Fingerprints,       \* digests of non-empty diffs and of non-empty findings
    MaxInterrupts       \* bound on pauses and restarts explored

ASSUME LoopSpecAssumption ==
    /\ MaxIterations \in Nat \ {0} /\ MaxTurns \in Nat \ {0}
    /\ MaxToolCalls \in Nat \ {0} /\ NoProgressWindow \in Nat \ {0}
    /\ RepeatedFailureThreshold \in Nat \ {0}
    /\ ProviderFailureThreshold \in Nat \ {0}
    /\ MaxInterrupts \in Nat

VARIABLES
    status,         \* LoopExecution.status
    stop_reason,    \* LoopExecution.stop_reason
    state,          \* LoopExecution.state, counters and remaining budget
    ledger,         \* persisted LoopIteration rows, oldest first
    attempt,        \* a LOOP_ITERATION_STARTED event has no iteration row yet
    late,           \* the persisted wall-time deadline has passed
    alive,          \* the backend process holding the background task is up
    interrupts,     \* pauses and crashes so far
    toolsUsed       \* history: tool calls charged to the loop in total

vars == <<status, stop_reason, state, ledger, attempt, late, alive, interrupts,
          toolsUsed>>

LoopTerminal == {"SUCCEEDED", "FAILED", "CANCELLED", "REQUIRES_HUMAN"}
LoopStatus == {"PENDING", "RUNNING", "PAUSED"} \cup LoopTerminal
StopReason ==
    {"NONE", "VERIFIED_SUCCESS", "MAX_ITERATIONS", "WALL_TIME_EXCEEDED",
     "MAX_TOOL_CALLS", "MAX_TURNS", "NO_PROGRESS", "REPEATED_FAILURE",
     "POLICY_ESCALATION", "PROVIDER_FAILURE", "OPERATOR_CANCELLED",
     "INTERRUPTED"}
Verdict == {"PASS", "FAIL", "INCONCLUSIVE"}

\* The ways a runtime call ends: it completed, the provider failed it, it was
\* interrupted for its tool-call ceiling, or it ran into the deadline.
CallEnd == {"completed", "failed", "MAX_TOOL_CALLS", "WALL_TIME_EXCEEDED"}

Max(a, b) == IF a >= b THEN a ELSE b

--------------------------------------------------------------------------------
(* The iteration step: budgets, counters, and the stop decision. *)

\* Remaining budgets never go below zero, whatever an iteration used.
Charge(remaining, tools) ==
    [tool_calls |-> Max(0, remaining.tool_calls - tools),
     turns |-> Max(0, remaining.turns - 1),
     iterations |-> Max(0, remaining.iterations - 1)]

\* The tool calls one call may report: the request's ceiling is the remaining
\* budget, but never less than one, and the outcome is capped at that ceiling.
CallTools == 0 .. Max(1, state.remaining.tool_calls)

Completed(end) == end = "completed"

\* Mutant: an interrupted row counts as a comparable one.
PreviousAny == ledger # <<>>

\* The previous ledger row is comparable only if it completed.
PreviousCompleted == ledger # <<>> /\ ledger[Len(ledger)].status = "COMPLETED"
SameOutput(end, output) ==
    Completed(end) /\ PreviousCompleted /\ ledger[Len(ledger)].output = output
SameFailure(end, finding) ==
    Completed(end) /\ PreviousCompleted /\ ledger[Len(ledger)].finding = finding

NextState(end, output, finding, tools) ==
    [iteration |-> state.iteration + 1,
     consecutive_no_progress |->
        IF SameOutput(end, output) THEN state.consecutive_no_progress + 1
        ELSE IF Completed(end) THEN 0 ELSE state.consecutive_no_progress,
     repeated_failure_count |->
        IF SameFailure(end, finding) THEN state.repeated_failure_count + 1
        ELSE IF Completed(end) THEN 1 ELSE state.repeated_failure_count,
     provider_failure_count |->
        IF Completed(end) THEN 0
        ELSE IF end = "failed" THEN state.provider_failure_count + 1
        ELSE state.provider_failure_count,
     remaining |-> Charge(state.remaining, tools)]

Stop(loopStatus, reason) == [status |-> loopStatus, reason |-> reason]
Continue == Stop("RUNNING", "NONE")

\* The order of the tests is the order of the code: a verdict first, then
\* provider failures, then the four ceilings, then the two stagnation rules.
\* outOfTime says that less than a second of wall time remains.
TerminalOutcome(s, acceptance, outOfTime) ==
    CASE acceptance = "PASS" -> Stop("SUCCEEDED", "VERIFIED_SUCCESS")
      [] acceptance = "INCONCLUSIVE" ->
            Stop("REQUIRES_HUMAN", "POLICY_ESCALATION")
      [] OTHER ->
            IF s.provider_failure_count >= ProviderFailureThreshold
            THEN Stop("FAILED", "PROVIDER_FAILURE")
            ELSE IF outOfTime THEN Stop("REQUIRES_HUMAN", "WALL_TIME_EXCEEDED")
            ELSE IF s.remaining.tool_calls <= 0
            THEN Stop("REQUIRES_HUMAN", "MAX_TOOL_CALLS")
            ELSE IF s.remaining.turns <= 0
            THEN Stop("REQUIRES_HUMAN", "MAX_TURNS")
            ELSE IF s.remaining.iterations <= 0
            THEN Stop("REQUIRES_HUMAN", "MAX_ITERATIONS")
            ELSE IF s.consecutive_no_progress >= NoProgressWindow
            THEN Stop("REQUIRES_HUMAN", "NO_PROGRESS")
            ELSE IF s.repeated_failure_count >= RepeatedFailureThreshold
            THEN Stop("REQUIRES_HUMAN", "REPEATED_FAILURE")
            ELSE Continue

--------------------------------------------------------------------------------
(* The loop execution row and its transitions. *)

\* The fingerprint of an empty diff, and the signature of no findings at all.
Nothing == "nothing"
Evidence == Fingerprints \cup {Nothing}
Row(iterationStatus, output, finding) ==
    [status |-> iterationStatus, output |-> output, finding |-> finding]

Init ==
    /\ status = "PENDING" /\ stop_reason = "NONE"
    /\ state = [iteration |-> 0, consecutive_no_progress |-> 0,
                repeated_failure_count |-> 0, provider_failure_count |-> 0,
                remaining |-> [tool_calls |-> MaxToolCalls, turns |-> MaxTurns,
                               iterations |-> MaxIterations]]
    /\ ledger = <<>>
    /\ attempt = FALSE /\ late = FALSE /\ alive = TRUE
    /\ interrupts = 0 /\ toolsUsed = 0

\* The background task enters the loop, on start and again on every resume.
ExecuteLoop ==
    /\ alive /\ status \in {"PENDING", "PAUSED"}
    /\ status' = "RUNNING" /\ stop_reason' = "NONE"
    /\ UNCHANGED <<state, ledger, attempt, late, alive, interrupts, toolsUsed>>

\* The top of the loop: past the deadline it finishes, else it starts the next
\* iteration.  Nothing but the deadline is consulted.
DeadlineStop ==
    /\ alive /\ status = "RUNNING" /\ ~attempt /\ late
    /\ status' = "REQUIRES_HUMAN" /\ stop_reason' = "WALL_TIME_EXCEEDED"
    /\ UNCHANGED <<state, ledger, attempt, late, alive, interrupts, toolsUsed>>

\* Mutant: the last budgeted iteration is never started.
StartAllButLast ==
    /\ alive /\ status = "RUNNING" /\ ~attempt /\ ~late
    /\ state.remaining.iterations > 1
    /\ attempt' = TRUE
    /\ UNCHANGED <<status, stop_reason, state, ledger, late, alive, interrupts,
                   toolsUsed>>

StartIteration ==
    /\ alive /\ status = "RUNNING" /\ ~attempt /\ ~late
    /\ attempt' = TRUE
    /\ UNCHANGED <<status, stop_reason, state, ledger, late, alive, interrupts,
                   toolsUsed>>

\* append_loop_iteration: the row, the next aggregate state, the status and the
\* stop reason are one transaction.
AppendIteration(row, next, decision, tools) ==
    /\ ledger' = Append(ledger, row)
    /\ state' = next
    /\ status' = decision.status /\ stop_reason' = decision.reason
    /\ attempt' = FALSE
    /\ toolsUsed' = toolsUsed + tools

\* An iteration whose call ended, verified if the call completed and failed
\* otherwise.
FinishIteration(end, output, finding, tools, acceptance, outOfTime) ==
    /\ alive /\ status = "RUNNING" /\ attempt
    /\ end = "MAX_TOOL_CALLS" => tools = Max(1, state.remaining.tool_calls)
    /\ end = "WALL_TIME_EXCEEDED" => late
    /\ late => outOfTime
    /\ LET next == NextState(end, output, finding, tools)
       IN  AppendIteration(
               Row(IF Completed(end) THEN "COMPLETED" ELSE "FAILED",
                   output, finding),
               next, TerminalOutcome(next, acceptance, outOfTime), tools)
    /\ UNCHANGED <<late, alive, interrupts>>

\* Mutant: closing an attempt is free.
CloseAttemptFree(iterationStatus, decision, tools) ==
    AppendIteration(
        Row(iterationStatus, Nothing, Nothing),
        [state EXCEPT !.iteration = @ + 1], decision, tools)

\* An attempt that is closed without a result keeps the counters and pays one
\* iteration, one turn and the tool calls it made.
CloseAttempt(iterationStatus, decision, tools) ==
    \E output \in Evidence :
      AppendIteration(
        Row(iterationStatus, output, Nothing),
        NextState("INTERRUPTED", output, Nothing, tools), decision, tools)

\* The same decision when no attempt is open: only the row's status moves.
SetStatus(decision) ==
    /\ status' = decision.status /\ stop_reason' = decision.reason
    /\ UNCHANGED <<state, ledger, attempt, toolsUsed>>

\* A pause before the loop is entered or observed at its top moves the status;
\* one that interrupted a call closes that iteration as INTERRUPTED.
PauseLoop ==
    /\ alive /\ status \in {"PENDING", "RUNNING"} /\ interrupts < MaxInterrupts
    /\ interrupts' = interrupts + 1
    /\ IF attempt
       THEN \E tools \in CallTools :
                CloseAttempt("INTERRUPTED", Stop("PAUSED", "INTERRUPTED"), tools)
       ELSE SetStatus(Stop("PAUSED", "INTERRUPTED"))
    /\ UNCHANGED <<late, alive>>

\* _close_dangling_iteration charges the tool events it finds in the log, at
\* most what the budget still holds.
DanglingTools == 0 .. state.remaining.tool_calls

CancelLoop ==
    /\ alive /\ status \notin LoopTerminal
    /\ IF attempt
       THEN \E tools \in DanglingTools :
                CloseAttempt("CANCELLED", Stop("CANCELLED", "OPERATOR_CANCELLED"),
                             tools)
       ELSE SetStatus(Stop("CANCELLED", "OPERATOR_CANCELLED"))
    /\ UNCHANGED <<late, alive, interrupts>>

\* An exception in the task, the resuming one included.  The open attempt is
\* left as it is.
FailLoop ==
    /\ alive /\ status \notin LoopTerminal
    /\ SetStatus(Stop("FAILED", "PROVIDER_FAILURE"))
    /\ UNCHANGED <<late, alive, interrupts>>

\* A resume whose lease, session or worktree is gone ends with a human.
EscalateResume ==
    /\ alive /\ status = "PAUSED"
    /\ SetStatus(Stop("REQUIRES_HUMAN", "INTERRUPTED"))
    /\ UNCHANGED <<late, alive, interrupts>>

DeadlinePasses ==
    /\ ~late /\ late' = TRUE
    /\ UNCHANGED <<status, stop_reason, state, ledger, attempt, alive,
                   interrupts, toolsUsed>>

Crash ==
    /\ alive /\ status \notin LoopTerminal /\ interrupts < MaxInterrupts
    /\ interrupts' = interrupts + 1
    /\ alive' = FALSE
    /\ UNCHANGED <<status, stop_reason, state, ledger, attempt, late, toolsUsed>>

\* Startup reconciliation of this run: leave a paused loop alone; otherwise
\* either the workspace is recoverable and the attempt is closed as INTERRUPTED,
\* or the run is escalated with its attempt still open.
Reconcile ==
    /\ ~alive /\ alive' = TRUE
    /\ \/ /\ status = "PAUSED"
          /\ UNCHANGED <<status, stop_reason, state, ledger, attempt, toolsUsed>>
       \/ /\ status \in {"PENDING", "RUNNING"}
          /\ IF attempt
             THEN \E tools \in DanglingTools :
                      CloseAttempt("INTERRUPTED", Stop("PAUSED", "INTERRUPTED"),
                                   tools)
             ELSE SetStatus(Stop("PAUSED", "INTERRUPTED"))
       \/ /\ status \in {"PENDING", "RUNNING"}
          /\ SetStatus(Stop("REQUIRES_HUMAN", "INTERRUPTED"))
    /\ UNCHANGED <<late, interrupts>>

FinishAny ==
    \E tools \in CallTools, outOfTime \in BOOLEAN :
        \/ \E output \in Evidence, finding \in Evidence,
              acceptance \in Verdict :
                FinishIteration("completed", output, finding, tools, acceptance,
                                outOfTime)
        \/ \E end \in CallEnd \ {"completed"} :
                FinishIteration(end, Nothing, Nothing, tools, "FAIL", outOfTime)

Next ==
    \/ ExecuteLoop \/ DeadlineStop \/ StartIteration \/ FinishAny
    \/ PauseLoop \/ CancelLoop \/ FailLoop \/ EscalateResume
    \/ DeadlinePasses \/ Crash \/ Reconcile

\* Every runtime call ends: _runtime_call puts a timeout on the event stream and
\* five more seconds on the interrupted one.  So the task's own steps are fair;
\* operator calls, crashes and the passing of the deadline are not.
Fairness == WF_vars(DeadlineStop \/ StartIteration \/ FinishAny)

Spec == Init /\ [][Next]_vars /\ Fairness

--------------------------------------------------------------------------------
(* Properties. *)

LoopBudgetRemaining == [tool_calls : Nat, turns : Nat, iterations : Nat]
LoopState ==
    [iteration : Nat, consecutive_no_progress : Nat, repeated_failure_count : Nat,
     provider_failure_count : Nat, remaining : LoopBudgetRemaining]
LoopIteration ==
    [status : {"COMPLETED", "FAILED", "INTERRUPTED", "CANCELLED"},
     output : Evidence, finding : Evidence]

TypeOK ==
    /\ status \in LoopStatus /\ stop_reason \in StopReason
    /\ state \in LoopState
    /\ ledger \in Seq(LoopIteration)
    /\ attempt \in BOOLEAN /\ late \in BOOLEAN /\ alive \in BOOLEAN
    /\ interrupts \in 0 .. MaxInterrupts /\ toolsUsed \in Nat

\* The remaining budget is what the ledger says was used, across every pause,
\* cancellation and restart: each started attempt is charged once and none is
\* charged twice (append_loop_iteration, _close_dangling_iteration).
BudgetFollowsLedger ==
    /\ state.iteration = Len(ledger)
    /\ state.remaining.iterations = Max(0, MaxIterations - Len(ledger))
    /\ state.remaining.turns = Max(0, MaxTurns - Len(ledger))
    /\ state.remaining.tool_calls = Max(0, MaxToolCalls - toolsUsed)

\* A loop that can still run is below every stagnation and failure threshold:
\* terminal_outcome stopped it as soon as one was reached, and no interruption
\* in between lets a counter slip past its threshold.
LiveBelowThresholds ==
    status \notin LoopTerminal =>
        /\ state.consecutive_no_progress < NoProgressWindow
        /\ state.provider_failure_count < ProviderFailureThreshold
        /\ state.repeated_failure_count < RepeatedFailureThreshold

LastRows(n) == {i \in DOMAIN ledger : i > Len(ledger) - n}

\* A loop stopped for NO_PROGRESS really repeated one diff in its last
\* NoProgressWindow + 1 iterations, and one stopped for REPEATED_FAILURE really
\* repeated one finding set, all of them completed and none interrupted
\* (the counters of _next_iteration_state mean what their names say).
StagnationIsReal ==
    /\ stop_reason = "NO_PROGRESS" =>
        /\ Len(ledger) > NoProgressWindow
        /\ \A i \in LastRows(NoProgressWindow + 1) :
             /\ ledger[i].status = "COMPLETED"
             /\ ledger[i].output = ledger[Len(ledger)].output
    /\ stop_reason = "REPEATED_FAILURE" =>
        /\ Len(ledger) >= RepeatedFailureThreshold
        /\ \A i \in LastRows(RepeatedFailureThreshold) :
             /\ ledger[i].status = "COMPLETED"
             /\ ledger[i].finding = ledger[Len(ledger)].finding

\* A running loop ends, pauses or loses its process (V01-P2-001): the ceilings
\* leave no way to iterate for ever.
LoopEventuallyStops == status = "RUNNING" ~> (status # "RUNNING" \/ ~alive)

================================================================================
