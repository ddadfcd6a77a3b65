--------------------------- MODULE CapabilityGateway ---------------------------
(***************************************************************************)
(* Governed execution of capability calls: authorization, content-bound     *)
(* approval, the durable side-effect ledger and the terminal result         *)
(* (governance.py, persistence/side_effects.py, mcp_gateway.py).            *)
(*                                                                         *)
(* Calls run concurrently in the API process and in gateway processes that   *)
(* share only the database.  pc[c] names the awaited call in flight; a step  *)
(* is its effect and the synchronous code up to the next await.  Any store   *)
(* call may fail, any process may be lost, and the API may restart and       *)
(* reconcile the ledger while gateway processes live on.                     *)
(***************************************************************************)
EXTENDS FiniteSets

CONSTANTS
    Calls,     \* invocations of CapabilityGateway.execute
    Requests   \* what they may ask: [capability, key, arguments]

NoKey == "none"

\* The kinds of capability the policy tells apart: "denied" (disabled, unknown,
\* denied by policy or task, or lacking a permission), "read" (low risk, no side
\* effect), "guarded" (high risk, no side effect), "write" (side effects).
Kinds == {"denied", "read", "guarded", "write"}

ASSUME RequestsAssumption ==
    \A r \in Requests : r.capability \in Kinds

Keys == {r.key : r \in Requests} \ {NoKey}

VARIABLES
    approval,   \* ApprovalRecord.status of each request's approval binding
    ops,        \* SideEffectOperation.status of each idempotency key
    result,     \* CapabilityExecutionResult.status of each call's stored row
    performed,  \* calls whose backend has acted
    request, pc,
    goal,       \* the status a terminal is about to record
    covered,    \* the call is inside the try around the execution
    reply       \* what the caller was told

stored == <<approval, ops, result>>
vars == <<approval, ops, result, performed, request, pc, goal, covered, reply>>

Init ==
    /\ approval = [r \in Requests |-> "NONE"]
    /\ ops = [k \in Keys |-> "NONE"]
    /\ result = [c \in Calls |-> "none"]
    /\ performed = {}
    /\ request \in [Calls -> Requests]
    /\ pc = [c \in Calls |-> "idle"]
    /\ goal = [c \in Calls |-> "none"]
    /\ covered = [c \in Calls |-> FALSE]
    /\ reply = [c \in Calls |-> "none"]

Key(c) == request[c].key
SideEffects(c) == request[c].capability = "write"
Protected(c) == request[c].capability \in {"guarded", "write"}

Goto(c, p) == pc' = [pc EXCEPT ![c] = p]
Reply(c, answer) == Goto(c, "done") /\ reply' = [reply EXCEPT ![c] = answer]

\* A failing call: the try hands it to the except block, otherwise the caller
\* sees the exception.
Fails(c) ==
    \/ /\ covered[c]
       /\ Goto(c, "fail")
       /\ covered' = [covered EXCEPT ![c] = FALSE]
       /\ UNCHANGED <<stored, performed, request, goal, reply>>
    \/ /\ ~covered[c]
       /\ Reply(c, "error")
       /\ UNCHANGED <<stored, performed, request, goal, covered>>

\* _terminal: the row, then the event, then the reply.
Terminal(c, status) ==
    /\ Goto(c, "save")
    /\ goal' = [goal EXCEPT ![c] = status]

--------------------------------------------------------------------------------
(* Authorization. *)

Denies(c) ==
    \/ request[c].capability = "denied"
    \/ SideEffects(c) /\ Key(c) = NoKey
    \/ Protected(c) /\ approval[request[c]] = "DENIED"

\* Mutant: an approval bound without the arguments.
AsksByKey(c) ==
    /\ ~Denies(c) /\ Protected(c)
    /\ \A r \in Requests : r.key = Key(c) => approval[r] # "APPROVED"

Asks(c) == ~Denies(c) /\ Protected(c) /\ approval[request[c]] \in {"NONE", "PENDING"}

\* The run, task, owner, policy and arguments are read and checked.
Begin(c) ==
    /\ pc[c] = "idle"
    /\ \/ Fails(c)
       \/ /\ Goto(c, "authorize")
          /\ UNCHANGED <<stored, performed, request, goal, covered, reply>>

\* The approvals are listed and the policy decides; TOOL_REQUESTED follows.
Authorize(c) ==
    /\ pc[c] = "authorize"
    /\ \/ Fails(c)
       \/ /\ goal' = [goal EXCEPT ![c] = IF Denies(c) THEN "DENIED"
                                         ELSE IF Asks(c) THEN "REQUIRES_APPROVAL"
                                         ELSE "EXECUTING"]
          /\ Goto(c, "requested")
          /\ UNCHANGED <<stored, performed, request, covered, reply>>

Requested(c) ==
    /\ pc[c] = "requested"
    /\ \/ Fails(c)
       \/ /\ goal[c] = "DENIED"
          /\ Terminal(c, "DENIED")
          /\ UNCHANGED <<stored, performed, request, covered, reply>>
       \/ /\ goal[c] # "DENIED"
          /\ Goto(c, IF goal[c] = "EXECUTING" THEN "credentials" ELSE "ensure")
          /\ UNCHANGED <<stored, performed, request, goal, covered, reply>>

\* save_approval keeps the record a concurrent call made first.
EnsureApproval(c) ==
    /\ pc[c] = "ensure"
    /\ \/ Fails(c)
       \/ /\ approval' = [approval EXCEPT ![request[c]] = IF @ = "NONE" THEN "PENDING" ELSE @]
          /\ Goto(c, "pending")
          /\ UNCHANGED <<ops, result, performed, request, goal, covered, reply>>

\* The REQUIRES_APPROVAL row, the APPROVAL_REQUIRED event unless it exists, and
\* the answer.
SavePending(c) ==
    /\ pc[c] = "pending"
    /\ \/ Fails(c)
       \/ /\ result' = [result EXCEPT ![c] = "REQUIRES_APPROVAL"]
          /\ Goto(c, "pending_event")
          /\ UNCHANGED <<approval, ops, performed, request, goal, covered, reply>>

PendingEvent(c) ==
    /\ pc[c] = "pending_event"
    /\ \/ Fails(c)
       \/ /\ Reply(c, "REQUIRES_APPROVAL")
          /\ UNCHANGED <<stored, performed, request, goal, covered>>

\* The operator decides a pending approval once; a cancelled one counts as denied.
DecideApproval(r) ==
    /\ approval[r] = "PENDING"
    /\ \E decision \in {"APPROVED", "DENIED"} :
         approval' = [approval EXCEPT ![r] = decision]
    /\ UNCHANGED <<ops, result, performed, request, pc, goal, covered, reply>>

--------------------------------------------------------------------------------
(* Execution. *)

Credentials(c) ==
    /\ pc[c] = "credentials"
    /\ \/ Fails(c)
       \/ /\ Goto(c, IF SideEffects(c) THEN "intent" ELSE "row")
          /\ UNCHANGED <<stored, performed, request, goal, covered, reply>>

\* Mutant: anything but a failure is a success.
DuplicateResultOptimistic(status) == IF status = "FAILED" THEN "FAILED" ELSE "SUCCEEDED"

\* What a call whose key is already recorded is told.
DuplicateResult(status) ==
    IF status \in {"SUCCEEDED", "FAILED"} THEN status ELSE "UNKNOWN"

\* Mutant: a failed operation may be tried again.
RecordIntentRetries(c) ==
    /\ pc[c] = "intent"
    /\ \/ /\ ops[Key(c)] \in {"NONE", "FAILED"}
          /\ ops' = [ops EXCEPT ![Key(c)] = "INTENT_RECORDED"]
          /\ Goto(c, "row")
          /\ UNCHANGED <<approval, result, performed, request, goal, covered, reply>>
       \/ /\ ops[Key(c)] \notin {"NONE", "FAILED"}
          /\ Terminal(c, DuplicateResult(ops[Key(c)]))
          /\ UNCHANGED <<stored, performed, request, covered, reply>>

\* record_intent: the unique key admits one insert; the others get the row.
RecordIntent(c) ==
    /\ pc[c] = "intent"
    /\ \/ Fails(c)
       \/ /\ ops[Key(c)] = "NONE"
          /\ ops' = [ops EXCEPT ![Key(c)] = "INTENT_RECORDED"]
          /\ Goto(c, "row")
          /\ UNCHANGED <<approval, result, performed, request, goal, covered, reply>>
       \/ /\ ops[Key(c)] # "NONE"
          /\ Terminal(c, DuplicateResult(ops[Key(c)]))
          /\ UNCHANGED <<stored, performed, request, covered, reply>>

SaveExecuting(c) ==
    /\ pc[c] = "row"
    /\ \/ Fails(c)
       \/ /\ result' = [result EXCEPT ![c] = "EXECUTING"]
          /\ Goto(c, "started")
          /\ UNCHANGED <<approval, ops, performed, request, goal, covered, reply>>

\* TOOL_STARTED; what follows runs inside the try.
Started(c) ==
    /\ pc[c] = "started"
    /\ \/ Fails(c)
       \/ /\ Goto(c, "execute")
          /\ covered' = [covered EXCEPT ![c] = TRUE]
          /\ UNCHANGED <<stored, performed, request, goal, reply>>

\* The backend acts and answers, or raises before or after it has acted; an
\* answer the schema rejects or evidence that cannot be stored raises as well.
Execute(c) ==
    /\ pc[c] = "execute"
    /\ \/ Fails(c)
       \/ /\ performed' = performed \cup {c}
          /\ \/ Goto(c, IF Key(c) # NoKey THEN "finish" ELSE "save")
             \/ Goto(c, "execute_failed")
          /\ goal' = [goal EXCEPT ![c] = "SUCCEEDED"]
          /\ UNCHANGED <<stored, request, covered, reply>>

ExecuteFailed(c) == pc[c] = "execute_failed" /\ Fails(c)

\* finish overwrites whatever the key's row holds; a key without one raises.
Finish(c) ==
    /\ pc[c] = "finish"
    /\ \/ Fails(c)
       \/ /\ ops[Key(c)] # "NONE"
          /\ ops' = [ops EXCEPT ![Key(c)] = "SUCCEEDED"]
          /\ Terminal(c, "SUCCEEDED")
          /\ UNCHANGED <<approval, result, performed, request, covered, reply>>

\* The except block.
FailFinish(c) ==
    /\ pc[c] = "fail"
    /\ \/ Fails(c)
       \/ /\ Key(c) # NoKey => ops[Key(c)] # "NONE"
          /\ ops' = IF Key(c) = NoKey THEN ops ELSE [ops EXCEPT ![Key(c)] = "FAILED"]
          /\ Terminal(c, "FAILED")
          /\ UNCHANGED <<approval, result, performed, request, covered, reply>>

SaveTerminal(c) ==
    /\ pc[c] = "save"
    /\ \/ Fails(c)
       \/ /\ result' = [result EXCEPT ![c] = goal[c]]
          /\ Goto(c, "announce")
          /\ UNCHANGED <<approval, ops, performed, request, goal, covered, reply>>

Announce(c) ==
    /\ pc[c] = "announce"
    /\ \/ Fails(c)
       \/ /\ Reply(c, goal[c])
          /\ UNCHANGED <<stored, performed, request, goal, covered>>

--------------------------------------------------------------------------------
(* Processes. *)

\* The process serving the call is lost.
Lose(c) ==
    /\ pc[c] \notin {"idle", "done"}
    /\ Goto(c, "done")
    /\ UNCHANGED <<stored, performed, request, goal, covered, reply>>

\* reconcile_uncertain, when the API process starts.
ReconcileUncertain ==
    /\ \E k \in Keys : ops[k] = "INTENT_RECORDED"
    /\ ops' = [k \in Keys |-> IF ops[k] = "INTENT_RECORDED" THEN "UNKNOWN" ELSE ops[k]]
    /\ UNCHANGED <<approval, result, performed, request, pc, goal, covered, reply>>

CallStep(c) ==
    \/ Begin(c) \/ Authorize(c) \/ Requested(c)
    \/ EnsureApproval(c) \/ SavePending(c) \/ PendingEvent(c)
    \/ Credentials(c) \/ RecordIntent(c) \/ SaveExecuting(c) \/ Started(c)
    \/ Execute(c) \/ ExecuteFailed(c) \/ Finish(c) \/ FailFinish(c)
    \/ SaveTerminal(c) \/ Announce(c) \/ Lose(c)

Next ==
    \/ \E c \in Calls : CallStep(c)
    \/ \E r \in Requests : DecideApproval(r)
    \/ ReconcileUncertain

Spec == Init /\ [][Next]_vars

--------------------------------------------------------------------------------
(* Properties. *)

\* A side effect happens at most once for an idempotency key, whatever mix of
\* retries, lost processes, failing stores and restarts the calls meet.
AtMostOnce ==
    \A c, d \in performed :
        SideEffects(c) /\ SideEffects(d) /\ Key(c) = Key(d) => c = d

\* A protected backend acts only under an approval of exactly this request, and
\* a side effect only after its intent is in the ledger.
EffectGoverned ==
    \A c \in performed :
        /\ Protected(c) => approval[request[c]] = "APPROVED"
        /\ SideEffects(c) => Key(c) # NoKey /\ ops[Key(c)] # "NONE"

\* A caller told that its side effect succeeded, first or as a duplicate, can
\* rely on it: the effect under that key has happened.
SuccessMeansDone ==
    \A c \in Calls : SideEffects(c) /\ reply[c] = "SUCCEEDED" =>
        \E d \in performed : SideEffects(d) /\ Key(d) = Key(c)

================================================================================
