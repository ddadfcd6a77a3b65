------------------------------ MODULE GraphScheduler ------------------------------
(***************************************************************************)
(* The graph executor of RunManager (services/run_manager.py): one run of a   *)
(* workflow template, from the loading of its cursor to its terminal commit,  *)
(* with the operator's pause, resume, cancel and approval decisions, crashes  *)
(* of the backend and the reconciliation that follows a restart.             *)
(*                                                                         *)
(* pc names the awaited call in flight; an action is that call's effect with  *)
(* the code that runs up to the next await.  Routing, candidate search and    *)
(* contradicting verdicts are off, as without their services.  Tool calls     *)
(* have a ceiling of the same shape as turns and are left out.               *)
(***************************************************************************)
EXTENDS WorkflowTemplates, Integers, Sequences, FiniteSetsExt

CONSTANTS
    Plans,              \* what the planner may have decided for the run
    FailureThreshold,   \* LoopSpec.provider_failure_threshold
    MaxPauses, MaxCrashes

\* A plan: the template, budgets.max_turns, int(max_turns * budget_fraction) and
\* max_iterations of a loop region, whether the task is below the risk threshold of the
\* gates, and the time the model lets pass.
ASSUME PlansAssumption ==
    /\ \A p \in Plans :
         /\ {p.maxTurns, p.regionTurns, p.maxIterations} \subseteq Nat \ {0}
         /\ p.autoApprove \in BOOLEAN /\ p.maxTime \in Nat
         /\ ValidTemplate(p.workflow)
    /\ FailureThreshold \in Nat \ {0} /\ {MaxPauses, MaxCrashes} \subseteq Nat

VARIABLE plan           \* the run's plan, fixed when the run is created

Workflow == plan.workflow
MaxTurns == plan.maxTurns
RegionTurns == plan.regionTurns
MaxIterations == plan.maxIterations
AutoApprove == plan.autoApprove
MaxTime == plan.maxTime

None == "none"
Smaller(a, b) == IF a < b THEN a ELSE b
Larger(a, b) == IF a < b THEN b ELSE a
RunTerminal == {"SUCCEEDED", "FAILED", "CANCELLED", "REQUIRES_HUMAN"}
Nodes == Workflow.nodes
Gates == Workflow.gates
Tools == {n \in Nodes \ RegionMembers(Workflow) : Workflow.kind[n] = "TOOL"}
Regions == {n \in Nodes : Workflow.kind[n] = "LOOP"}
EdgeKeys == {e.key : e \in Workflow.edges}
RetryKeys == {e.key : e \in {f \in Workflow.edges : f.kind = "RETRY"}}
EdgeOf(key) == CHOOSE e \in Workflow.edges : e.key = key

VARIABLES
    \* The store.
    runState,     \* runs.state
    terminal,     \* the state in the run's terminal event, None before it
    checkpoint,   \* the latest checkpoint: graph (names the run graph), node, edge
    viaLog,       \* per RETRY edge, the NODE_ENTERED events that name it
    spent,        \* runs.budget_spent, turns
    approvals,    \* the status of each gate's approval record, None if not created
    resolved,     \* per gate, the number of APPROVAL_RESOLVED events
    requiredAt,   \* per gate, time of its last unresolved APPROVAL_REQUIRED, -1 if none
    waited,       \* the sum of the waits of the resolved APPROVAL_REQUIRED events
    executions,   \* the loop executions of the run, in order of creation
    started,      \* the number of each LOOP_ITERATION_STARTED event; index is its id
    files,        \* per TOOL node, the numbers of the patches on disk
    \* The backend process.
    backend,      \* "up", "down", or "broken" when the startup reconciliation raised
    pc,
    cursor,       \* node, arrival edge, via counts, gate wait, captures, wait start
    carry,        \* what the executor holds across the call in flight
    pauseRequested,
    pausing,      \* pause() has yet to write PAUSED
    \* The environment and the history.
    now, pauses, crashes,
    calls,        \* provider calls submitted
    verdict,      \* the last acceptance verdict since the last provider call
    followed,     \* per RETRY edge, the checkpoints that route over it
    lost,         \* per RETRY edge, the routings whose NODE_ENTERED never came
    pendingTime   \* ticks during which an announced approval was pending

store == <<runState, terminal, checkpoint, viaLog, spent, approvals, resolved,
           requiredAt, waited, executions, started, files>>
process == <<backend, pc, cursor, carry, pauseRequested, pausing>>
history == <<now, pauses, crashes, calls, verdict, followed, lost, pendingTime>>
vars == <<plan, store, process, history>>

NoCheckpoint == [graph |-> FALSE, node |-> None, edge |-> None]
NoCursor == [node |-> Entry(Workflow), edge |-> None, via |-> [k \in RetryKeys |-> 0],
             gateWait |-> 0, captures |-> [n \in Tools |-> 0], waitStart |-> 0]

Init ==
    /\ plan \in Plans
    /\ runState = "RUNNING" /\ terminal = None /\ checkpoint = NoCheckpoint
    /\ viaLog = [k \in RetryKeys |-> 0] /\ spent = 0
    /\ approvals = [g \in Gates |-> None] /\ resolved = [g \in Gates |-> 0]
    /\ requiredAt = [g \in Gates |-> -1] /\ waited = 0
    /\ executions = <<>> /\ started = <<>> /\ files = [n \in Tools |-> {}]
    /\ backend = "up" /\ pc = "load" /\ cursor = NoCursor /\ carry = None
    /\ pauseRequested = FALSE /\ pausing = FALSE
    /\ now = 0 /\ pauses = 0 /\ crashes = 0
    /\ calls = 0 /\ verdict = None /\ pendingTime = 0
    /\ followed = [k \in RetryKeys |-> 0] /\ lost = [k \in RetryKeys |-> 0]

--------------------------------------------------------------------------------
(* Loop executions. *)

LoopTerminal == {"SUCCEEDED", "FAILED", "CANCELLED", "REQUIRES_HUMAN"}
Indices(n) == {i \in DOMAIN executions : executions[i].node = n}
\* get_loop_execution_for_node (the highest attempt) and _for_run (the latest).
ForNode(n) == Max(Indices(n))
Latest == executions[Len(executions)]
HasLive == executions # <<>> /\ Latest.status \notin LoopTerminal

Dec(n) == IF n > 0 THEN n - 1 ELSE 0

\* _next_iteration_state and append_loop_iteration: the row of the iteration with
\* the given id, and the execution's next state.
WithIteration(x, id, result, status) ==
    [x EXCEPT !.iteration = @ + 1, !.turns = Dec(@), !.iterations = Dec(@),
              !.failures = IF result = "completed" THEN 0
                           ELSE IF result = "failed" THEN @ + 1 ELSE @,
              !.completed = (result = "completed"),
              !.ids = @ \cup {id}, !.status = status]

\* _close_dangling_iteration on the latest execution: the last event that started
\* an iteration of the expected number is taken for its own.
Dangling == {i \in DOMAIN started : started[i] = Latest.iteration + 1}

CloseRaises ==
    /\ HasLive /\ Dangling # {}
    /\ \E i \in 1..(Len(executions) - 1) : Max(Dangling) \in executions[i].ids
Close(status) ==
    IF ~HasLive THEN executions
    ELSE [executions EXCEPT ![Len(executions)] =
            IF Dangling = {} THEN [@ EXCEPT !.status = status]
            ELSE IF Max(Dangling) \in @.ids THEN @
            ELSE WithIteration(@, Max(Dangling), "interrupted", status)]
\* _fail_execution and _escalate_recovery_failure only write the status.
Settle(status) ==
    IF ~HasLive THEN executions
    ELSE [executions EXCEPT ![Len(executions)] = [@ EXCEPT !.status = status]]

--------------------------------------------------------------------------------
(* The executor: the main loop. *)

\* _commit_run_terminal: the first terminal event decides.
Recovered(state) ==
    IF terminal \in {"SUCCEEDED", "CANCELLED"} THEN terminal
    ELSE IF state = "REQUIRES_HUMAN" THEN state ELSE "FAILED"
CommitTerminal(state) ==
    IF terminal = None
    THEN runState' = state /\ terminal' = state
    ELSE /\ runState' = IF runState \in RunTerminal THEN runState ELSE Recovered(state)
         /\ UNCHANGED terminal

FirstCall ==
    [TASK |-> "enter", AGENT |-> "budget", TOOL |-> "enter", VERIFIER |-> "enter",
     GATE |-> "gate_save", LOOP |-> "loop_open"]

\* The head of the loop of _execute_graph, with the cursor c.
BeginNode(c) ==
    /\ cursor' = c
    /\ IF pauseRequested
       THEN pc' = "pause_write" /\ carry' = None /\ pauseRequested' = FALSE
       ELSE /\ UNCHANGED pauseRequested
            /\ IF Workflow.kind[c.node] = "TERMINAL"
               THEN /\ pc' = "commit"
                    /\ carry' = IF c.edge = None THEN "REQUIRES_HUMAN"
                                ELSE TerminalState(EdgeOf(c.edge))
               ELSE pc' = FirstCall[Workflow.kind[c.node]] /\ carry' = None

\* The tail of the loop: what the outcome of the node leads to.
EndNode(c, outcome) ==
    IF outcome \in {"PAUSED", "CANCELLED", "BUDGET_EXHAUSTED"}
    THEN /\ pc' = (IF outcome = "PAUSED" THEN "pause_write"
                   ELSE IF outcome = "CANCELLED" THEN "cancel" ELSE "commit")
         /\ carry' = (IF outcome = "BUDGET_EXHAUSTED" THEN "REQUIRES_HUMAN" ELSE None)
         /\ cursor' = c
    ELSE LET chosen == SelectEdge(Workflow, c.node, outcome, [k \in EdgeKeys |->
                                    IF k \in RetryKeys THEN c.via[k] ELSE 0])
         IN  IF chosen = {}
             THEN pc' = "commit" /\ carry' = "REQUIRES_HUMAN" /\ cursor' = c
             ELSE \E e \in chosen :
                    /\ pc' = "checkpoint" /\ carry' = Owner(Workflow, e.target)
                    /\ cursor' = [c EXCEPT !.edge = e.key,
                                    !.via = [k \in RetryKeys |->
                                               IF k = e.key THEN @[k] + 1 ELSE @[k]]]

runStore == <<runState, terminal>>
gateStore == <<approvals, resolved, requiredAt, waited>>
loopStore == <<executions, started>>
operator == <<backend, pausing, now, pauses, crashes, pendingTime>>

\* Routings that reached their checkpoint and no NODE_ENTERED are lost to the count.
CountLost == lost' = [k \in RetryKeys |-> lost[k] + Larger(0, followed[k] - viaLog[k])]

\* Mutant of Traversals: the traversals of retry edges are not restored from the log.
TraversalsForgotten == [k \in RetryKeys |-> 0]

\* entered_via, rebuilt from the NODE_ENTERED events.
Traversals == viaLog

\* _load_graph_cursor: only a checkpoint that names the run graph counts.
LoadCursor ==
    /\ pc = "load"
    /\ BeginNode([NoCursor EXCEPT
         !.node = IF checkpoint.graph THEN checkpoint.node ELSE @,
         !.edge = IF checkpoint.graph THEN checkpoint.edge ELSE @,
         !.via = Traversals,
         !.gateWait = waited + MapThenSumSet(LAMBDA g : now - requiredAt[g],
                                             {g \in Gates : requiredAt[g] >= 0})])
    /\ CountLost
    /\ UNCHANGED <<store, operator, calls, verdict, followed>>

\* _graph_checkpoint, and the next turn of the loop.
SaveCheckpoint ==
    /\ pc = "checkpoint"
    /\ checkpoint' = [graph |-> TRUE, node |-> carry, edge |-> cursor.edge]
    /\ followed' = [k \in RetryKeys |-> IF k = cursor.edge THEN followed[k] + 1 ELSE followed[k]]
    /\ BeginNode([cursor EXCEPT !.node = carry])
    /\ UNCHANGED <<runStore, viaLog, spent, gateStore, loopStore, files, operator,
                   calls, verdict, lost>>

AfterEnter ==
    [AGENT |-> "submit", TOOL |-> "capture", VERIFIER |-> "verify", LOOP |-> "region"]
\* The NODE_ENTERED event of TASK, AGENT, TOOL, VERIFIER and LOOP nodes.
EnterNode ==
    /\ pc = "enter"
    /\ viaLog' = [k \in RetryKeys |-> IF k = cursor.edge THEN viaLog[k] + 1 ELSE viaLog[k]]
    /\ IF Workflow.kind[cursor.node] = "TASK"
       THEN EndNode(cursor, "SUCCESS")
       ELSE pc' = AfterEnter[Workflow.kind[cursor.node]] /\ carry' = None
            /\ UNCHANGED cursor
    /\ UNCHANGED <<runStore, checkpoint, spent, gateStore, loopStore, files,
                   pauseRequested, operator, calls, verdict, followed, lost>>

\* Mutant of CheckAgentBudget: without turns left, the node waits for more.
CheckAgentBudgetWaits ==
    /\ pc = "budget" /\ spent < MaxTurns
    /\ pc' = "enter" /\ carry' = None /\ UNCHANGED cursor
    /\ UNCHANGED <<store, pauseRequested, operator, calls, verdict, followed, lost>>

\* _graph_agent
CheckAgentBudget ==
    /\ pc = "budget"
    /\ IF spent >= MaxTurns
       THEN EndNode(cursor, "BUDGET_EXHAUSTED")
       ELSE pc' = "enter" /\ carry' = None /\ UNCHANGED cursor
    /\ UNCHANGED <<store, pauseRequested, operator, calls, verdict, followed, lost>>

\* _runtime_call, for a node or for an iteration of its region.
Submit ==
    /\ pc \in {"submit", "iteration_submit"}
    /\ pc' = IF pc = "submit" THEN "calling" ELSE "iteration_calling"
    /\ calls' = calls + 1 /\ verdict' = None
    /\ UNCHANGED <<store, cursor, carry, pauseRequested, operator, followed, lost>>

\* The deadline (stopped), the provider, or an interrupt ends the call.
EndCall(result) ==
    /\ pc = "calling"
    /\ pc' = "account" /\ carry' = result
    /\ UNCHANGED <<store, cursor, pauseRequested, operator, calls, verdict, followed, lost>>

\* The turns charged for a call, whatever its result.
Charge(result) == 1

\* The call is charged before its outcome is looked at.
AccountCall ==
    /\ pc = "account"
    /\ spent' = spent + Charge(carry)
    /\ pauseRequested' = (pauseRequested /\ carry # "cancelled")
    /\ EndNode(cursor, CASE carry = "completed" -> "SUCCESS"
                         [] carry = "failed" -> "FAIL"
                         [] carry = "stopped" -> "BUDGET_EXHAUSTED"
                         [] carry = "cancelled" -> IF pauseRequested THEN "PAUSED"
                                                   ELSE "CANCELLED")
    /\ UNCHANGED <<runStore, checkpoint, viaLog, gateStore, loopStore, files, operator,
                   calls, verdict, followed, lost>>

\* _fail_execution
FailRun ==
    /\ IF runState \in RunTerminal
       THEN UNCHANGED <<runStore, executions>>
       ELSE CommitTerminal("FAILED") /\ executions' = Settle("FAILED")
    /\ pc' = "idle" /\ cursor' = NoCursor /\ carry' = None

\* The TOOL branch of _graph_node_attempt: the patch is numbered by a counter of
\* the cursor, and capture_diff raises if its file exists.  An empty diff leaves none.
Capture ==
    /\ pc = "capture"
    /\ LET n == cursor.node
           number == cursor.captures[n] + 1
           c == [cursor EXCEPT !.captures = [@ EXCEPT ![n] = number]]
       IN  \/ EndNode(c, "SUCCESS") /\ UNCHANGED <<runStore, executions, files>>
           \/ /\ number \notin files[n]
              /\ files' = [files EXCEPT ![n] = @ \cup {number}]
              /\ EndNode(c, "SUCCESS") /\ UNCHANGED <<runStore, executions>>
           \/ number \in files[n] /\ FailRun /\ UNCHANGED files
    /\ UNCHANGED <<checkpoint, viaLog, spent, gateStore, started, pauseRequested, operator,
                   calls, verdict, followed, lost>>

\* _graph_verifier.  Its own capture of final.patch, when no TOOL node has captured, is
\* a call that may raise like any other.
Verify(status) ==
    /\ pc = "verify"
    /\ verdict' = status
    /\ EndNode(cursor, status)
    /\ UNCHANGED <<store, pauseRequested, operator, calls, followed, lost>>

--------------------------------------------------------------------------------
(* The executor: approval gates (_graph_gate). *)

SaveApproval ==
    /\ pc = "gate_save"
    /\ approvals' = [approvals EXCEPT ![cursor.node] = IF @ = None THEN "PENDING" ELSE @]
    /\ carry' = approvals'[cursor.node] /\ pc' = "gate_enter"
    /\ UNCHANGED <<runStore, checkpoint, viaLog, spent, resolved, requiredAt, waited,
                   loopStore, files, cursor, pauseRequested, operator, calls, verdict,
                   followed, lost>>

\* NODE_ENTERED; the record's status is the one save_approval returned.
EnterGate ==
    /\ pc = "gate_enter"
    /\ viaLog' = [k \in RetryKeys |-> IF k = cursor.edge THEN viaLog[k] + 1 ELSE viaLog[k]]
    /\ pc' = IF carry # "PENDING" THEN "gate_late"
             ELSE IF AutoApprove THEN "gate_auto" ELSE "gate_require"
    /\ UNCHANGED <<runStore, checkpoint, spent, gateStore, loopStore, files, cursor, carry,
                   pauseRequested, operator, calls, verdict, followed, lost>>

\* decide_approval refuses a record that is no longer pending.
AutoDecide ==
    /\ pc = "gate_auto"
    /\ IF approvals[cursor.node] = "PENDING"
       THEN /\ approvals' = [approvals EXCEPT ![cursor.node] = "APPROVED"]
            /\ pc' = "gate_resolve" /\ carry' = "APPROVED"
            /\ UNCHANGED <<runStore, executions, cursor>>
       ELSE FailRun /\ UNCHANGED approvals
    /\ UNCHANGED <<checkpoint, viaLog, spent, resolved, requiredAt, waited, started, files,
                   pauseRequested, operator, calls, verdict, followed, lost>>

RequireApproval ==
    /\ pc = "gate_require"
    /\ requiredAt' = [requiredAt EXCEPT ![cursor.node] = now]
    /\ cursor' = [cursor EXCEPT !.waitStart = now]
    /\ pc' = "gate_wait"
    /\ UNCHANGED <<runStore, checkpoint, viaLog, spent, approvals, resolved, waited,
                   loopStore, files, carry, pauseRequested, operator, calls, verdict, followed, lost>>

\* One turn of the polling loop: a decision goes before a pause.
PollApproval ==
    /\ pc = "gate_wait"
    /\ LET c == [cursor EXCEPT !.gateWait = @ + (now - cursor.waitStart)]
       IN  IF approvals[cursor.node] # "PENDING"
           THEN /\ pc' = "gate_resolve" /\ carry' = approvals[cursor.node] /\ cursor' = c
                /\ UNCHANGED pauseRequested
           ELSE pauseRequested /\ pauseRequested' = FALSE /\ EndNode(c, "PAUSED")
    /\ UNCHANGED <<store, operator, calls, verdict, followed, lost>>

\* APPROVAL_RESOLVED closes the wait its APPROVAL_REQUIRED opened.
RecordResolved(g) ==
    /\ resolved' = [resolved EXCEPT ![g] = @ + 1]
    /\ waited' = waited + IF requiredAt[g] >= 0 THEN now - requiredAt[g] ELSE 0
    /\ requiredAt' = [requiredAt EXCEPT ![g] = -1]

ResolveApproval ==
    /\ pc = "gate_resolve"
    /\ RecordResolved(cursor.node)
    /\ EndNode(cursor, carry)
    /\ UNCHANGED <<runStore, checkpoint, viaLog, spent, approvals, loopStore, files,
                   pauseRequested, operator, calls, verdict, followed, lost>>

\* Mutant of ResolveLate: a record that is decided is taken as approved.
ResolveLateApproves ==
    /\ pc = "gate_late"
    /\ IF resolved[cursor.node] = 0 THEN RecordResolved(cursor.node)
       ELSE UNCHANGED <<resolved, waited, requiredAt>>
    /\ EndNode(cursor, "APPROVED")
    /\ UNCHANGED <<runStore, checkpoint, viaLog, spent, approvals, loopStore, files,
                   pauseRequested, operator, calls, verdict, followed, lost>>

\* The record was decided before this entry: the evidence is appended unless it is there.
ResolveLate ==
    /\ pc = "gate_late"
    /\ IF resolved[cursor.node] = 0 THEN RecordResolved(cursor.node)
       ELSE UNCHANGED <<resolved, waited, requiredAt>>
    /\ EndNode(cursor, carry)
    /\ UNCHANGED <<runStore, checkpoint, viaLog, spent, approvals, loopStore, files,
                   pauseRequested, operator, calls, verdict, followed, lost>>

--------------------------------------------------------------------------------
(* The executor: loop regions (_graph_loop, _run_bounded_region). *)

\* The latest attempt of the node is still live.
Continues(n) == Indices(n) # {} /\ executions[ForNode(n)].status \notin LoopTerminal

\* A live execution of the node is continued; otherwise the next attempt draws its
\* turns from what the run has left.
OpenLoop ==
    /\ pc = "loop_open"
    /\ IF Continues(cursor.node)
       THEN pc' = "enter" /\ UNCHANGED <<executions, cursor, carry>>
       ELSE IF spent >= MaxTurns
       THEN EndNode(cursor, "BUDGET_EXHAUSTED") /\ UNCHANGED executions
       ELSE /\ executions' = Append(executions,
                 [node |-> cursor.node, status |-> "PENDING", iteration |-> 0,
                  turns |-> Larger(1, Smaller(RegionTurns, MaxTurns - spent)),
                  iterations |-> MaxIterations, failures |-> 0, completed |-> FALSE,
                  ids |-> {}])
            /\ pc' = "enter" /\ UNCHANGED <<cursor, carry>>
    /\ UNCHANGED <<runStore, checkpoint, viaLog, spent, gateStore, started, files,
                   pauseRequested, operator, calls, verdict, followed, lost>>

\* The head of the region's loop, for the execution x: pause, ceiling, turns, and
\* the wall clock, which may have run out at any time.
BeginIteration(x) ==
    /\ pauseRequested' = FALSE
    /\ \/ pauseRequested /\ pc' = "region_pause"
       \/ ~pauseRequested /\ x.iterations = 0 /\ pc' = "region_ceiling"
       \/ ~pauseRequested /\ x.iterations > 0 /\ pc' = "region_exhausted"
       \/ ~pauseRequested /\ x.iterations > 0 /\ x.turns > 0 /\ pc' = "iteration_start"

StartRegion ==
    /\ pc = "region"
    /\ LET i == ForNode(cursor.node)
       IN  /\ executions' = [executions EXCEPT ![i] = [@ EXCEPT !.status = "RUNNING"]]
           /\ BeginIteration(executions[i])
    /\ UNCHANGED <<runStore, checkpoint, viaLog, spent, gateStore, started, files, cursor,
                   carry, operator, calls, verdict, followed, lost>>

\* The three ways out at the head of the loop.
LeaveRegion ==
    /\ pc \in {"region_pause", "region_ceiling", "region_exhausted"}
    /\ LET i == ForNode(cursor.node)
           write(status) == executions' = [executions EXCEPT ![i] = [@ EXCEPT !.status = status]]
       IN  CASE pc = "region_pause" -> write("PAUSED") /\ EndNode(cursor, "PAUSED")
             [] pc = "region_exhausted" ->
                  write("REQUIRES_HUMAN") /\ EndNode(cursor, "BUDGET_EXHAUSTED")
             [] pc = "region_ceiling" ->
                  IF executions[i].completed
                  THEN write("SUCCEEDED") /\ EndNode(cursor, "SUCCESS")
                  ELSE write("FAILED") /\ EndNode(cursor, "FAIL")
    /\ UNCHANGED <<runStore, checkpoint, viaLog, spent, gateStore, started, files,
                   pauseRequested, operator, calls, verdict, followed, lost>>

StartIteration ==
    /\ pc = "iteration_start"
    /\ started' = Append(started, executions[ForNode(cursor.node)].iteration + 1)
    /\ pc' = "iteration_submit"
    /\ UNCHANGED <<runStore, checkpoint, viaLog, spent, gateStore, executions, files, cursor,
                   carry, pauseRequested, operator, calls, verdict, followed, lost>>

\* A call cancelled by a pause closes its iteration as INTERRUPTED; one cancelled
\* otherwise cancels the run.
EndIterationCall(result) ==
    /\ pc = "iteration_calling"
    /\ carry' = result
    /\ pauseRequested' = (pauseRequested /\ result # "cancelled")
    /\ pc' = IF result # "cancelled" THEN "iteration_append"
             ELSE IF pauseRequested THEN "iteration_interrupt" ELSE "cancel"
    /\ UNCHANGED <<store, cursor, operator, calls, verdict, followed, lost>>

InterruptIteration ==
    /\ pc = "iteration_interrupt"
    /\ LET i == ForNode(cursor.node)
       IN  executions' = [executions EXCEPT ![i] =
                            WithIteration(@, Len(started), "interrupted", "PAUSED")]
    /\ pc' = "iteration_account" /\ carry' = "PAUSED"
    /\ UNCHANGED <<runStore, checkpoint, viaLog, spent, gateStore, started, files, cursor,
                   pauseRequested, operator, calls, verdict, followed, lost>>

\* The row, the state, the status and a checkpoint without a graph or an edge, in one
\* transaction.
AppendIteration ==
    /\ pc = "iteration_append"
    /\ LET i == ForNode(cursor.node)
           x == WithIteration(executions[i], Len(started), carry, "RUNNING")
           last == \/ x.iterations = 0
                   \/ carry = "failed" /\ x.failures >= FailureThreshold
           outcome == IF carry = "stopped" THEN "BUDGET_EXHAUSTED"
                      ELSE IF ~last THEN None
                      ELSE IF carry = "completed" THEN "SUCCESS" ELSE "FAIL"
           status == CASE outcome = "BUDGET_EXHAUSTED" -> "REQUIRES_HUMAN"
                       [] outcome = "SUCCESS" -> "SUCCEEDED"
                       [] outcome = "FAIL" -> "FAILED"
                       [] outcome = None -> "RUNNING"
       IN  /\ executions' = [executions EXCEPT ![i] = [x EXCEPT !.status = status]]
           /\ carry' = outcome
    /\ checkpoint' = [graph |-> FALSE, node |-> cursor.node, edge |-> None]
    /\ pc' = "iteration_account"
    /\ UNCHANGED <<runStore, viaLog, spent, gateStore, started, files, cursor,
                   pauseRequested, operator, calls, verdict, followed, lost>>

AccountIteration ==
    /\ pc = "iteration_account"
    /\ spent' = spent + 1
    /\ IF carry = None
       THEN BeginIteration(executions[ForNode(cursor.node)])
            /\ UNCHANGED <<cursor, carry>>
       ELSE EndNode(cursor, carry) /\ UNCHANGED pauseRequested
    /\ UNCHANGED <<runStore, checkpoint, viaLog, gateStore, loopStore, files, operator,
                   calls, verdict, followed, lost>>

--------------------------------------------------------------------------------
(* The executor: how it stops. *)

Stop == pc' = "idle" /\ cursor' = NoCursor /\ carry' = None

\* _commit_graph_terminal, _graph_budget_stop and the stop without an edge.
CommitGraph ==
    /\ pc = "commit"
    /\ CommitTerminal(carry)
    /\ Stop
    /\ UNCHANGED <<checkpoint, viaLog, spent, gateStore, loopStore, files, pauseRequested,
                   operator, calls, verdict, followed, lost>>

\* _pause_graph
WritePaused ==
    /\ pc = "pause_write"
    /\ runState' = "PAUSED"
    /\ Stop
    /\ UNCHANGED <<terminal, checkpoint, viaLog, spent, gateStore, loopStore, files,
                   pauseRequested, operator, calls, verdict, followed, lost>>

\* _cancel_execution.  When closing the iteration raises, the run is not committed.
CancelExecution ==
    IF runState \in RunTerminal \/ CloseRaises
    THEN UNCHANGED <<runStore, executions>>
    ELSE CommitTerminal("CANCELLED") /\ executions' = Close("CANCELLED")

\* The outcome CANCELLED; an exception there is an executor failure.
CancelByProvider ==
    /\ pc = "cancel"
    /\ IF CloseRaises THEN FailRun ELSE CancelExecution /\ Stop
    /\ UNCHANGED <<checkpoint, viaLog, spent, gateStore, started, files, pauseRequested,
                   operator, calls, verdict, followed, lost>>

\* The call in flight raises.
StepRaises ==
    /\ pc # "idle"
    /\ FailRun
    /\ UNCHANGED <<checkpoint, viaLog, spent, gateStore, started, files, pauseRequested,
                   operator, calls, verdict, followed, lost>>

--------------------------------------------------------------------------------
(* The operator, the clock, crashes and restarts. *)

executor == <<pc, cursor, carry>>
observed == <<calls, verdict, followed, lost>>

\* pause: the request is visible at once, PAUSED is written after the interrupt.
RequestPause ==
    /\ backend = "up" /\ pauses < MaxPauses /\ ~pausing
    /\ runState \notin RunTerminal \cup {"PAUSED"}
    /\ pauseRequested' = TRUE /\ pausing' = TRUE /\ pauses' = pauses + 1
    /\ UNCHANGED <<store, executor, backend, now, crashes, pendingTime, observed>>

FinishPause ==
    /\ pausing
    /\ pausing' = FALSE /\ runState' = "PAUSED"
    /\ UNCHANGED <<terminal, checkpoint, viaLog, spent, gateStore, loopStore, files, executor,
                   pauseRequested, backend, now, pauses, crashes, pendingTime, observed>>

\* resume, with no executor running: its first write is a RUNNING state.
Resume ==
    /\ backend = "up" /\ runState = "PAUSED" /\ pc = "idle"
    /\ pauseRequested' = FALSE /\ runState' = "RUNNING" /\ pc' = "resume"
    /\ UNCHANGED <<terminal, checkpoint, viaLog, spent, gateStore, loopStore, files, cursor,
                   carry, operator, observed>>

\* _escalate_recovery_failure
Escalate == CommitTerminal("REQUIRES_HUMAN") /\ executions' = Settle("REQUIRES_HUMAN")

\* _resume_graph: the workspace or the session may be lost.
ResumeGraph ==
    /\ pc = "resume"
    /\ \/ pc' = "load" /\ runState' = "RUNNING" /\ UNCHANGED <<terminal, executions>>
       \/ pc' = "idle" /\ Escalate
    /\ UNCHANGED <<checkpoint, viaLog, spent, gateStore, started, files, cursor, carry,
                   pauseRequested, operator, observed>>

\* resolve_approval, from the operator.
Decide(g, decision) ==
    /\ backend = "up" /\ approvals[g] = "PENDING"
    /\ approvals' = [approvals EXCEPT ![g] = decision]
    /\ UNCHANGED <<runStore, checkpoint, viaLog, spent, resolved, requiredAt, waited,
                   loopStore, files, process, history>>

\* cancel: the executor's task is cancelled at its await.
Cancel ==
    /\ backend = "up" /\ runState \notin RunTerminal
    /\ CancelExecution /\ Stop
    /\ UNCHANGED <<checkpoint, viaLog, spent, gateStore, started, files, pauseRequested,
                   operator, observed>>

Tick ==
    /\ now < MaxTime
    /\ now' = now + 1
    /\ pendingTime' = pendingTime +
         IF \E g \in Gates : approvals[g] = "PENDING" /\ requiredAt[g] >= 0 THEN 1 ELSE 0
    /\ UNCHANGED <<store, process, pauses, crashes, observed>>

Crash ==
    /\ backend = "up" /\ crashes < MaxCrashes
    /\ backend' = "down" /\ crashes' = crashes + 1
    /\ Stop /\ pauseRequested' = FALSE /\ pausing' = FALSE
    /\ UNCHANGED <<store, now, pauses, pendingTime, observed>>

\* Mutant of RegionResolvesRun: a graph run ends as its latest region ended.
RegionResolvesRunAlways == TRUE

\* Only the execution of a whole-run loop resolves its run.
RegionResolvesRun == FALSE

\* evaluate_checkpoint and classify_run: uncertain side effects and the state of the
\* workspace, which are outside this model, decide.  A run to recreate is escalated when
\* that fails and goes on as a resumable one otherwise.
Classifications == {"resumable", "requires-human"}

\* reconcile, at startup: a terminal event decides; a paused run stays paused; any
\* other is classified, and escalated or left PAUSED with the dangling iteration
\* closed.  An exception there ends the startup.
Reconcile ==
    /\ backend = "down"
    /\ IF RegionResolvesRun /\ executions # <<>> /\ Latest.status \in LoopTerminal
       THEN backend' = "up" /\ CommitTerminal(Latest.status) /\ UNCHANGED executions
       ELSE IF terminal # None
       THEN /\ backend' = "up" /\ runState' = Recovered(runState)
            /\ UNCHANGED <<terminal, executions>>
       ELSE IF runState = "PAUSED" /\ (executions = <<>> \/ Latest.status = "PAUSED")
       THEN backend' = "up" /\ UNCHANGED <<runStore, executions>>
       ELSE \E class \in Classifications :
              IF class = "requires-human" THEN backend' = "up" /\ Escalate
              ELSE IF CloseRaises
              THEN /\ backend' = "broken" /\ runState' = "RECONCILING"
                   /\ UNCHANGED <<terminal, executions>>
              ELSE /\ backend' = "up" /\ runState' = "PAUSED"
                   /\ executions' = Close("PAUSED") /\ UNCHANGED terminal
    /\ UNCHANGED <<checkpoint, viaLog, spent, gateStore, started, files, executor, pausing,
                   pauseRequested, now, pauses, crashes, pendingTime, observed>>

--------------------------------------------------------------------------------
Results == {"completed", "failed", "stopped", "cancelled"}

\* What the executor does on its own.
ExecutorStep ==
    \/ LoadCursor \/ SaveCheckpoint \/ EnterNode \/ CheckAgentBudget \/ Submit
    \/ (\E result \in Results : EndCall(result)) \/ AccountCall \/ Capture
    \/ (\E status \in {"SUCCESS", "FAIL", "INCONCLUSIVE"} : Verify(status))
    \/ SaveApproval \/ EnterGate \/ AutoDecide \/ RequireApproval \/ PollApproval
    \/ ResolveApproval \/ ResolveLate
    \/ OpenLoop \/ StartRegion \/ LeaveRegion \/ StartIteration
    \/ (\E result \in Results : EndIterationCall(result))
    \/ InterruptIteration \/ AppendIteration \/ AccountIteration
    \/ CommitGraph \/ WritePaused \/ CancelByProvider \/ ResumeGraph

OperatorStep ==
    \/ RequestPause \/ Resume \/ Cancel
    \/ (\E g \in Gates : \E decision \in {"APPROVED", "DENIED"} : Decide(g, decision))

Next ==
    /\ ExecutorStep \/ StepRaises \/ OperatorStep \/ FinishPause \/ Tick \/ Crash \/ Reconcile
    /\ UNCHANGED plan

Spec == Init /\ [][Next]_vars

\* The executor is a task of a running event loop, its calls end at their deadline,
\* and a restarted backend reconciles.  Nothing obliges the operator.
FairSpec ==
    /\ Spec
    /\ WF_vars(ExecutorStep /\ UNCHANGED plan)
    /\ WF_vars(FinishPause /\ UNCHANGED plan) /\ WF_vars(Reconcile /\ UNCHANGED plan)

--------------------------------------------------------------------------------

\* A run that is reported SUCCEEDED has a passing acceptance verdict that was reached
\* after its last provider call: completion never accepts its own output, whatever was
\* paused, crashed, retried or resumed on the way.
VerifiedSuccess == terminal = "SUCCEEDED" => verdict = "SUCCESS"

\* GuardedBy[t][n]: the gates on every path from the entry of template t to n.
GuardedBy ==
    [t \in {p.workflow : p \in Plans} |-> [n \in t.nodes |-> {g \in t.gates \ {n} :
       ~ConnectionsIn([node |-> t.nodes \ {g},
            edge |-> {<<a, b>> \in Forward(t) : a # g /\ b # g}])[Entry(t), n]}]]

\* No provider works on a node before every gate that all its paths cross was approved,
\* and success needs the approval of every gate before the terminal. A gate's decision is
\* made durable once in the event log and never before it was taken: polling, late entries
\* after a restart and auto-approval do not repeat it.
GatesRespected ==
    /\ pc \in {"submit", "calling", "account", "capture", "verify"} =>
         \A g \in GuardedBy[Workflow][cursor.node] : approvals[g] = "APPROVED"
    /\ terminal = "SUCCEEDED" =>
         \A g \in Gates : approvals[g] = "APPROVED"
    /\ \A g \in Gates : /\ resolved[g] <= 1
                        /\ resolved[g] = 1 => approvals[g] \in {"APPROVED", "DENIED"}

\* Over all pauses, crashes and resumes a retry edge is followed at most as often as the
\* budget policy allows, once for every routing interrupted between its checkpoint and its
\* NODE_ENTERED aside, and the turn ceiling of a graph without regions holds up to one call
\* per crash: only the call in flight then is never accounted. The wall clock is never
\* stretched by more than the time that passed: no wait at a gate is counted twice.
\* A region never runs more iterations than its ceiling, over all its interruptions, and an
\* iteration row belongs to one execution. In a template with one region only the latest
\* execution is ever live, so cancelling, failing and reconciling, which look at the latest,
\* leave none behind.
BudgetsHold ==
    /\ \A e \in Workflow.edges : e.kind = "RETRY" =>
         followed[e.key] <= RetryLimit(Workflow, e) + lost[e.key]
    /\ Regions = {} /\ terminal = None => calls <= MaxTurns + crashes
    /\ cursor.gateWait <= now
    /\ \A i \in DOMAIN executions :
         /\ executions[i].iteration <= MaxIterations
         /\ \A j \in DOMAIN executions \ {i} : executions[i].ids \cap executions[j].ids = {}
         /\ Cardinality(Regions) = 1 /\ i < Len(executions) =>
              executions[i].status \in LoopTerminal

\* The executor never hangs: it stops, or waits for a human at a gate.
Progress == (pc # "idle") ~> (pc \in {"idle", "gate_wait"})

====================================================================================
