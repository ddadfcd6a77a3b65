------------------------------ MODULE RunLifecycle ------------------------------
(***************************************************************************)
(* One whole-run LOOP execution under concurrent control: the background    *)
(* task that executes or resumes it, operator calls to pause, resume and    *)
(* cancel, the loss of the process, a graceful shutdown, and the startup    *)
(* reconciliation (services/run_manager.py, api/main.py).                   *)
(*                                                                         *)
(* Everything runs on one event loop, so control changes hands only at an   *)
(* await.  A thread's pc names the awaited call in flight; a step is that    *)
(* call's effect together with the synchronous code up to the next await.   *)
(* Adjacent reads are one step where a change between them leads to the      *)
(* same next step.  Node transitions and progress events are left out.      *)
(***************************************************************************)
EXTENDS Integers, Sequences, FiniteSets

CONSTANTS
    Tasks,          \* background tasks that may exist at once
    Callers,        \* API requests that may be in flight at once
    Verdicts,       \* how a finished iteration may end the loop
    MaxIterations,  \* iterations after which the loop has to end
    MaxAttempts,    \* bound on iterations started
    MaxCalls,       \* bound on operator calls
    MaxCrashes      \* bound on lost processes and shutdowns

Terminal == {"SUCCEEDED", "FAILED", "CANCELLED", "REQUIRES_HUMAN"}

ASSUME LifecycleAssumption ==
    /\ Verdicts \subseteq {"SUCCEEDED", "FAILED", "REQUIRES_HUMAN"}
    /\ "reconcile" \notin Tasks \cup Callers
    /\ Tasks \cap Callers = {}
    /\ "none" \notin Tasks \cup Callers

Threads == Tasks \cup Callers \cup {"reconcile"}

VARIABLES
    \* durable
    runState, leased,   \* Run.state; Run.workspace_lease_id is set
    loop,               \* LoopExecution: status, state.iteration, revision
    rows,               \* iteration ids of the persisted LoopIteration rows
    started,            \* number of each LOOP_ITERATION_STARTED event; the
                        \* event's position is its iteration id
    terminals,          \* terminal_state of each terminal run event
    pausedEvent,        \* a RUN_PAUSED event exists
    \* in memory
    pauseRequested, active, background, lock, interrupted, cancelled,
    \* threads
    pc, scope, why, seen, goal, attempt,
    \* environment
    phase, calls, crashes,
    \* history: a restart found a run that was put back to work after its terminal event
    recovered

runVars == <<runState, leased>>
loopVars == <<loop, rows>>
logVars == <<started, terminals, pausedEvent>>
flagVars == <<pauseRequested, active, background, interrupted, cancelled>>
frameVars == <<scope, why, seen, goal, attempt>>
envVars == <<phase, calls, crashes, recovered>>
vars == <<runVars, loopVars, logVars, flagVars, lock, pc, frameVars, envVars>>

NoLoop == [status |-> "NONE", iteration |-> 0, revision |-> 0]

Init ==
    /\ runState = "PENDING" /\ leased = FALSE
    /\ loop = [status |-> "PENDING", iteration |-> 0, revision |-> 0]
    /\ rows = <<>> /\ started = <<>> /\ terminals = <<>> /\ pausedEvent = FALSE
    /\ \E first \in Tasks :
         /\ background = first
         /\ pc = [x \in Threads |-> IF x = first THEN "starting" ELSE "idle"]
         /\ scope = [x \in Threads |-> IF x = first THEN "new" ELSE "bare"]
    /\ pauseRequested = FALSE /\ active = 0 /\ lock = "none"
    /\ interrupted = {} /\ cancelled = {}
    /\ why = [x \in Threads |-> "none"] /\ seen = [x \in Threads |-> NoLoop]
    /\ goal = [x \in Threads |-> "none"] /\ attempt = [x \in Threads |-> 0]
    /\ phase = "up" /\ calls = 0 /\ crashes = 0 /\ recovered = FALSE

\* A run paused before its first iteration, and its task gone.
InitPaused ==
    /\ runState = "PAUSED" /\ leased = TRUE
    /\ loop = [status |-> "PAUSED", iteration |-> 0, revision |-> 1]
    /\ rows = <<>> /\ started = <<>> /\ terminals = <<>> /\ pausedEvent = TRUE
    /\ background = "none"
    /\ pc = [x \in Threads |-> "idle"] /\ scope = [x \in Threads |-> "bare"]
    /\ pauseRequested = FALSE /\ active = 0 /\ lock = "none"
    /\ interrupted = {} /\ cancelled = {}
    /\ why = [x \in Threads |-> "none"] /\ seen = [x \in Threads |-> NoLoop]
    /\ goal = [x \in Threads |-> "none"] /\ attempt = [x \in Threads |-> 0]
    /\ phase = "up" /\ calls = 0 /\ crashes = 0 /\ recovered = FALSE

\* The process was lost after a resume, a pause and a cancellation overlapped and the pause
\* wrote the run's state last.
InitLost ==
    /\ runState = "PAUSED" /\ leased = TRUE
    /\ loop = [status |-> "PAUSED", iteration |-> 1, revision |-> 3]
    /\ rows = <<1>> /\ started = <<1>> /\ terminals = <<"CANCELLED">> /\ pausedEvent = TRUE
    /\ background = "none"
    /\ pc = [x \in Threads |-> "idle"] /\ scope = [x \in Threads |-> "bare"]
    /\ pauseRequested = FALSE /\ active = 0 /\ lock = "none"
    /\ interrupted = {} /\ cancelled = {}
    /\ why = [x \in Threads |-> "none"] /\ seen = [x \in Threads |-> NoLoop]
    /\ goal = [x \in Threads |-> "none"] /\ attempt = [x \in Threads |-> 0]
    /\ phase = "down" /\ calls = 0 /\ crashes = 0 /\ recovered = FALSE

--------------------------------------------------------------------------------
(* Threads.  scope is the try block a thread is in: "new" and "resume" are the *)
(* bodies of the two kinds of task, "handler" an except block of either, and   *)
(* "bare" code outside any of them.                                            *)

At(x, p) == pc[x] = p /\ x \notin cancelled
Goto(x, p) == pc' = [pc EXCEPT ![x] = p]

\* Leaving a task's try statement forgets the run's task and runtime call,
\* whichever task and call those are by now.
Exit(x) ==
    /\ Goto(x, "idle")
    /\ scope' = [scope EXCEPT ![x] = "bare"]
    /\ why' = [why EXCEPT ![x] = "none"]
    /\ seen' = [seen EXCEPT ![x] = NoLoop]
    /\ goal' = [goal EXCEPT ![x] = "none"]
    /\ attempt' = [attempt EXCEPT ![x] = 0]
    /\ IF scope[x] = "bare" THEN UNCHANGED <<active, background>>
       ELSE active' = 0 /\ background' = "none"
    /\ phase' = IF x = "reconcile" THEN "up" ELSE phase
    /\ UNCHANGED <<interrupted, calls, crashes, recovered>>

\* An exception: a task's body hands it to _fail_execution, a handler or a
\* caller lets it go.
Raise(x) ==
    \/ /\ scope[x] \in {"new", "resume"}
       /\ Goto(x, "fail_read")
       /\ scope' = [scope EXCEPT ![x] = "handler"]
       /\ UNCHANGED <<why, seen, goal, attempt, active, background, interrupted, envVars>>
    \/ /\ scope[x] \in {"handler", "bare"}
       /\ Exit(x)

\* The store's optimistic check on the loop row.
Current(x) == loop.status \notin Terminal /\ loop.revision = seen[x].revision
LoopAs(status, steps) ==
    [status |-> status, iteration |-> loop.iteration + steps,
     revision |-> loop.revision + 1]

--------------------------------------------------------------------------------
(* The background task of a new run. *)

NewStarting(t) ==
    /\ At(t, "starting")
    /\ runState' = "STARTING"
    /\ Goto(t, "session")
    /\ UNCHANGED <<leased, loopVars, logVars, flagVars, lock, frameVars, envVars>>

\* Worktree, lease and session; any of them may fail.
NewSession(t) ==
    /\ At(t, "session")
    /\ \/ /\ Raise(t)
          /\ UNCHANGED <<pauseRequested, cancelled>>
       \/ /\ pauseRequested
          /\ pauseRequested' = FALSE
          /\ Goto(t, "new_paused")
          /\ UNCHANGED <<active, background, interrupted, cancelled, frameVars, envVars>>
       \/ /\ ~pauseRequested
          /\ Goto(t, "running")
          /\ UNCHANGED <<flagVars, frameVars, envVars>>
    /\ UNCHANGED <<runVars, loopVars, logVars, lock>>

NewPaused(t) ==
    /\ At(t, "new_paused")
    /\ runState' = "PAUSED" /\ leased' = TRUE
    /\ Goto(t, "new_read")
    /\ UNCHANGED <<loopVars, logVars, flagVars, lock, frameVars, envVars>>

NewRead(t) ==
    /\ At(t, "new_read")
    /\ Goto(t, IF loop.status = "PAUSED" THEN "pause_event" ELSE "loop_write")
    /\ why' = [why EXCEPT ![t] = "new"]
    /\ seen' = [seen EXCEPT ![t] = loop]
    /\ UNCHANGED <<runVars, loopVars, logVars, flagVars, lock, scope, goal, attempt, envVars>>

NewRunning(t) ==
    /\ At(t, "running")
    /\ runState' = "RUNNING" /\ leased' = TRUE
    /\ Goto(t, "enter_read")
    /\ UNCHANGED <<loopVars, logVars, flagVars, lock, frameVars, envVars>>

--------------------------------------------------------------------------------
(* The task that resumes a paused run. *)

\* The lease, the session and the worktree are looked up outside the try block.
ResumeRead(t) ==
    /\ At(t, "resume_read")
    /\ \/ /\ leased
          /\ Goto(t, "resume_session")
          /\ scope' = [scope EXCEPT ![t] = "resume"]
       \/ /\ Goto(t, "escalate_read")
          /\ UNCHANGED scope
    /\ UNCHANGED <<runVars, loopVars, logVars, flagVars, lock, why, seen, goal, attempt, envVars>>

ResumeSession(t) ==
    /\ At(t, "resume_session")
    /\ \/ /\ Raise(t)
       \/ /\ Goto(t, "resume_running")
          /\ UNCHANGED <<active, background, interrupted, frameVars, envVars>>
    /\ UNCHANGED <<runVars, loopVars, logVars, lock, pauseRequested, cancelled>>

ResumeRunning(t) ==
    /\ At(t, "resume_running")
    /\ runState' = "RUNNING"
    /\ Goto(t, "enter_read")
    /\ UNCHANGED <<leased, loopVars, logVars, flagVars, lock, frameVars, envVars>>

--------------------------------------------------------------------------------
(* The loop. *)

EnterLoop(t) ==
    /\ At(t, "enter_read")
    /\ seen' = [seen EXCEPT ![t] = loop]
    /\ why' = [why EXCEPT ![t] = "enter"]
    /\ Goto(t, "loop_write")
    /\ UNCHANGED <<runVars, loopVars, logVars, flagVars, lock, scope, goal, attempt, envVars>>

\* The next iteration, unless the deadline has passed.
Begin(t) ==
    \/ /\ Len(started) < MaxAttempts
       /\ Goto(t, "start")
       /\ UNCHANGED why
    \/ /\ why' = [why EXCEPT ![t] = "deadline"]
       /\ Goto(t, "loop_write")

LoopTop(t) ==
    /\ At(t, "top")
    /\ \/ /\ pauseRequested
          /\ pauseRequested' = FALSE
          /\ why' = [why EXCEPT ![t] = "pause"]
          /\ Goto(t, "close_read")
       \/ /\ ~pauseRequested
          /\ Begin(t)
          /\ UNCHANGED pauseRequested
    /\ UNCHANGED <<runVars, loopVars, logVars, active, background, interrupted, cancelled,
                   lock, scope, seen, goal, attempt, envVars>>

StartIteration(t) ==
    /\ At(t, "start")
    /\ started' = Append(started, seen[t].iteration + 1)
    /\ attempt' = [attempt EXCEPT ![t] = Len(started) + 1]
    /\ Goto(t, "submit")
    /\ UNCHANGED <<runVars, loopVars, terminals, pausedEvent, flagVars, lock, scope, why,
                   seen, goal, envVars>>

Submit(t) ==
    /\ At(t, "submit")
    /\ \/ /\ Raise(t)
       \/ /\ active' = attempt[t]
          /\ Goto(t, "call")
          /\ UNCHANGED <<background, interrupted, frameVars, envVars>>
    /\ UNCHANGED <<runVars, loopVars, logVars, lock, pauseRequested, cancelled>>

\* The call ended by itself, was stopped for a ceiling, or was cancelled, which
\* only an interrupt brings about.  A pause takes precedence over the first and
\* the last, a ceiling over the pause.  Its event stream, the diff and the
\* verifiers may fail.
CallEnds(t) ==
    /\ At(t, "call")
    /\ \/ /\ pauseRequested
          /\ pauseRequested' = FALSE
          /\ Goto(t, "interrupt_row")
          /\ UNCHANGED <<active, background, interrupted, frameVars, envVars>>
       \/ /\ Goto(t, "append")
          /\ UNCHANGED <<pauseRequested, active, background, interrupted, frameVars, envVars>>
       \/ /\ attempt[t] \in interrupted /\ ~pauseRequested
          /\ Goto(t, "cancel_read")
          /\ UNCHANGED <<pauseRequested, active, background, interrupted, frameVars, envVars>>
       \/ /\ Raise(t)
          /\ UNCHANGED pauseRequested
    /\ UNCHANGED <<runVars, loopVars, logVars, lock, cancelled>>

\* append_loop_iteration of a finished iteration; the verdict may end the loop.
AppendRow(t) ==
    /\ At(t, "append")
    /\ \/ /\ Current(t)
          /\ rows' = Append(rows, attempt[t])
          /\ \/ /\ loop.iteration + 1 < MaxIterations
                /\ loop' = LoopAs("RUNNING", 1)
                /\ seen' = [seen EXCEPT ![t] = loop']
                /\ Goto(t, "appended")
                /\ UNCHANGED goal
             \/ \E verdict \in Verdicts :
                /\ loop' = LoopAs(verdict, 1)
                /\ goal' = [goal EXCEPT ![t] = verdict]
                /\ Goto(t, "commit")
                /\ UNCHANGED seen
          /\ UNCHANGED <<active, background, interrupted, scope, why, attempt, envVars>>
       \/ /\ ~Current(t)
          /\ Raise(t)
          /\ UNCHANGED loopVars
    /\ UNCHANGED <<runVars, logVars, lock, pauseRequested, cancelled>>

\* _pause_interrupted_iteration: the row of an iteration a pause ended.
InterruptRow(t) ==
    /\ At(t, "interrupt_row")
    /\ \/ /\ Current(t)
          /\ rows' = Append(rows, attempt[t])
          /\ loop' = LoopAs("PAUSED", 1)
          /\ Goto(t, "set_paused")
          /\ UNCHANGED <<active, background, interrupted, frameVars, envVars>>
       \/ /\ ~Current(t)
          /\ Raise(t)
          /\ UNCHANGED loopVars
    /\ UNCHANGED <<runVars, logVars, lock, pauseRequested, cancelled>>

Appended(t) ==
    /\ At(t, "appended")
    /\ \/ /\ pauseRequested
          /\ pauseRequested' = FALSE
          /\ why' = [why EXCEPT ![t] = "appended"]
          /\ Goto(t, "loop_write")
       \/ /\ ~pauseRequested
          /\ Begin(t)
          /\ UNCHANGED pauseRequested
    /\ UNCHANGED <<runVars, loopVars, logVars, active, background, interrupted, cancelled,
                   lock, scope, seen, goal, attempt, envVars>>

SetPaused(x) ==
    /\ At(x, "set_paused")
    /\ runState' = "PAUSED"
    /\ Goto(x, "pause_event")
    /\ UNCHANGED <<leased, loopVars, logVars, flagVars, lock, frameVars, envVars>>

PauseEvent(x) ==
    /\ At(x, "pause_event")
    /\ pausedEvent' = TRUE
    /\ Exit(x)
    /\ UNCHANGED <<runVars, loopVars, started, terminals, lock, pauseRequested, cancelled>>

--------------------------------------------------------------------------------
(* Writes of the loop row, and what follows each. *)

WriteStatus(reason) ==
    CASE reason \in {"new", "pause", "appended", "control", "reconcile"} -> "PAUSED"
      [] reason = "enter" -> "RUNNING"
      [] reason = "cancel" -> "CANCELLED"
      [] reason = "fail" -> "FAILED"
      [] OTHER -> "REQUIRES_HUMAN"        \* "deadline", "escalate"

\* Mutant: reconciliation closes the loop and forgets the run.
AfterWriteLoopOnly(reason) ==
    CASE reason \in {"new", "reconcile"} -> "pause_event"
      [] reason \in {"pause", "appended"} -> "set_paused"
      [] reason = "control" -> "pause_run"
      [] reason = "enter" -> "top"
      [] OTHER -> "commit"

AfterWrite(reason) ==
    CASE reason = "new" -> "pause_event"
      [] reason \in {"pause", "appended", "reconcile"} -> "set_paused"
      [] reason = "control" -> "pause_run"
      [] reason = "enter" -> "top"
      [] OTHER -> "commit"

Proceed(x) ==
    /\ Goto(x, AfterWrite(why[x]))
    /\ goal' = [goal EXCEPT ![x] = IF AfterWrite(why[x]) = "commit"
                                   THEN WriteStatus(why[x]) ELSE @]
    /\ UNCHANGED <<active, background, interrupted, scope, why, attempt, envVars>>

LoopWrite(x) ==
    /\ At(x, "loop_write")
    /\ \/ /\ Current(x)
          /\ loop' = LoopAs(WriteStatus(why[x]), 0)
          /\ seen' = [seen EXCEPT ![x] = loop']
          /\ Proceed(x)
       \/ /\ ~Current(x)
          /\ Raise(x)
          /\ UNCHANGED loop
    /\ UNCHANGED <<runVars, rows, logVars, lock, pauseRequested, cancelled>>

LastStarted(n) ==
    LET ids == {i \in 1 .. Len(started) : started[i] = n}
    IN  IF ids = {} THEN 0 ELSE CHOOSE i \in ids : \A j \in ids : j <= i

Persisted(id) == \E i \in 1 .. Len(rows) : rows[i] = id

\* _close_dangling_iteration: find the attempt the snapshot does not count.
CloseRead(x) ==
    /\ At(x, "close_read")
    /\ LET id == LastStarted(seen[x].iteration + 1)
       IN  \/ /\ id = 0
              /\ Goto(x, "loop_write")
              /\ UNCHANGED <<goal, attempt>>
           \/ /\ id # 0 /\ Persisted(id)
              /\ Proceed(x)
           \/ /\ id # 0 /\ ~Persisted(id)
              /\ attempt' = [attempt EXCEPT ![x] = id]
              /\ Goto(x, "close_write")
              /\ UNCHANGED goal
    /\ UNCHANGED <<runVars, loopVars, logVars, flagVars, lock, scope, why, seen, envVars>>

\* Mutant: the loser of the race for the row does not look at what won.
CloseWriteBlind(x) ==
    /\ At(x, "close_write")
    /\ rows' = Append(rows, attempt[x])
    /\ loop' = LoopAs(WriteStatus(why[x]), 1)
    /\ Proceed(x)
    /\ UNCHANGED <<seen, runVars, logVars, lock, pauseRequested, cancelled>>

\* The row is written under the same check; a loser that finds the iteration
\* counted goes on as if it had written it.
CloseWrite(x) ==
    /\ At(x, "close_write")
    /\ \/ /\ Current(x)
          /\ rows' = Append(rows, attempt[x])
          /\ loop' = LoopAs(WriteStatus(why[x]), 1)
          /\ Proceed(x)
          /\ UNCHANGED seen
       \/ /\ ~Current(x) /\ loop.iteration >= seen[x].iteration + 1
          /\ Proceed(x)
          /\ UNCHANGED <<loopVars, seen>>
       \/ /\ ~Current(x) /\ loop.iteration < seen[x].iteration + 1
          /\ Raise(x)
          /\ UNCHANGED loopVars
    /\ UNCHANGED <<runVars, logVars, lock, pauseRequested, cancelled>>

--------------------------------------------------------------------------------
(* The three ways to end a run from outside its loop. *)

\* A terminal loop decides the run; otherwise the loop is closed first.
Resolve(x, reason, next) ==
    \/ /\ loop.status \in Terminal
       /\ goal' = [goal EXCEPT ![x] = loop.status]
       /\ Goto(x, "commit")
       /\ UNCHANGED <<why, seen>>
    \/ /\ loop.status \notin Terminal
       /\ why' = [why EXCEPT ![x] = reason]
       /\ seen' = [seen EXCEPT ![x] = loop]
       /\ Goto(x, next)
       /\ UNCHANGED goal

\* _cancel_execution and _fail_execution leave a terminal run alone.
CancelRead(x) ==
    /\ At(x, "cancel_read")
    /\ \/ /\ runState \in Terminal /\ Exit(x)
       \/ /\ runState \notin Terminal
          /\ Resolve(x, "cancel", "close_read")
          /\ UNCHANGED <<active, background, interrupted, scope, attempt, envVars>>
    /\ UNCHANGED <<runVars, loopVars, logVars, lock, pauseRequested, cancelled>>

FailRead(x) ==
    /\ At(x, "fail_read")
    /\ \/ /\ runState \in Terminal /\ Exit(x)
       \/ /\ runState \notin Terminal
          /\ Resolve(x, "fail", "loop_write")
          /\ UNCHANGED <<active, background, interrupted, scope, attempt, envVars>>
    /\ UNCHANGED <<runVars, loopVars, logVars, lock, pauseRequested, cancelled>>

EscalateRead(x) ==
    /\ At(x, "escalate_read")
    /\ Resolve(x, "escalate", "loop_write")
    /\ UNCHANGED <<runVars, loopVars, logVars, flagVars, lock, scope, attempt, envVars>>

--------------------------------------------------------------------------------
(* _commit_run_terminal, under the run's terminal lock. *)

\* Mutant: the terminal lock is not taken.
CommitUnlocked(x) ==
    /\ At(x, "commit")
    /\ \/ /\ terminals = <<>>
          /\ Goto(x, "commit_state")
          /\ UNCHANGED <<active, background, interrupted, frameVars, envVars>>
       \/ /\ terminals # <<>> /\ runState \notin Terminal
          /\ Goto(x, "commit_recover")
          /\ UNCHANGED <<active, background, interrupted, frameVars, envVars>>
       \/ /\ terminals # <<>> /\ runState \in Terminal
          /\ Exit(x)
    /\ UNCHANGED <<lock, runVars, loopVars, logVars, pauseRequested, cancelled>>

Commit(x) ==
    /\ At(x, "commit") /\ lock = "none"
    /\ \/ /\ terminals = <<>>
          /\ lock' = x
          /\ Goto(x, "commit_state")
          /\ UNCHANGED <<active, background, interrupted, frameVars, envVars>>
       \/ /\ terminals # <<>> /\ runState \notin Terminal
          /\ lock' = x
          /\ Goto(x, "commit_recover")
          /\ UNCHANGED <<active, background, interrupted, frameVars, envVars>>
       \/ /\ terminals # <<>> /\ runState \in Terminal
          /\ Exit(x)
          /\ UNCHANGED lock
    /\ UNCHANGED <<runVars, loopVars, logVars, pauseRequested, cancelled>>

\* What a terminal event says of the run: a RUN_FAILED event stands for both
\* FAILED and REQUIRES_HUMAN, and the fallback decides.
FromEvent(event, human) ==
    IF event \in {"SUCCEEDED", "CANCELLED"} THEN event
    ELSE IF human THEN "REQUIRES_HUMAN" ELSE "FAILED"

CommitRecover(x) ==
    /\ At(x, "commit_recover")
    /\ runState' = FromEvent(terminals[1], goal[x] = "REQUIRES_HUMAN")
    /\ lock' = "none"
    /\ Exit(x)
    /\ UNCHANGED <<leased, loopVars, logVars, pauseRequested, cancelled>>

CommitState(x) ==
    /\ At(x, "commit_state")
    /\ runState' = goal[x]
    /\ Goto(x, "commit_event")
    /\ UNCHANGED <<leased, loopVars, logVars, flagVars, lock, frameVars, envVars>>

CommitEvent(x) ==
    /\ At(x, "commit_event")
    /\ terminals' = Append(terminals, goal[x])
    /\ lock' = "none"
    /\ Exit(x)
    /\ UNCHANGED <<runVars, loopVars, started, pausedEvent, pauseRequested, cancelled>>

--------------------------------------------------------------------------------
(* Operator calls. *)

Calling(c) ==
    /\ pc[c] = "idle" /\ phase = "up" /\ calls < MaxCalls
    /\ runState \notin Terminal
    /\ calls' = calls + 1
    /\ UNCHANGED <<phase, crashes, recovered>>

PauseCall(c) ==
    /\ Calling(c) /\ runState # "PAUSED"
    /\ pauseRequested' = TRUE
    /\ Goto(c, IF active # 0 THEN "pause_interrupt" ELSE "pause_read")
    /\ attempt' = [attempt EXCEPT ![c] = active]
    /\ UNCHANGED <<runVars, loopVars, logVars, active, background, interrupted, cancelled,
                   lock, scope, why, seen, goal>>

PauseInterrupt(c) ==
    /\ At(c, "pause_interrupt")
    /\ interrupted' = interrupted \cup {attempt[c]}
    /\ Goto(c, "pause_run")
    /\ UNCHANGED <<runVars, loopVars, logVars, pauseRequested, active, background, cancelled,
                   lock, frameVars, envVars>>

PauseRead(c) ==
    /\ At(c, "pause_read")
    /\ seen' = [seen EXCEPT ![c] = loop]
    /\ why' = [why EXCEPT ![c] = "control"]
    /\ Goto(c, "loop_write")
    /\ UNCHANGED <<runVars, loopVars, logVars, flagVars, lock, scope, goal, attempt, envVars>>

PauseRun(c) ==
    /\ At(c, "pause_run")
    /\ runState' = "PAUSED"
    /\ Exit(c)
    /\ UNCHANGED <<leased, loopVars, logVars, lock, pauseRequested, cancelled>>

Running(t) == t # "none" /\ pc[t] # "idle"

ResumeCall(c) ==
    /\ Calling(c)
    /\ \/ /\ runState # "PAUSED" /\ active # 0
          /\ Goto(c, "resume_active")
          /\ UNCHANGED pauseRequested
       \/ /\ runState = "PAUSED" /\ (background = "none" \/ ~Running(background))
          /\ pauseRequested' = FALSE
          /\ Goto(c, "resume_run")
    /\ UNCHANGED <<runVars, loopVars, logVars, active, background, interrupted, cancelled,
                   lock, frameVars>>

ResumeActive(c) ==
    /\ At(c, "resume_active")
    /\ runState' = "RUNNING"
    /\ Exit(c)
    /\ UNCHANGED <<leased, loopVars, logVars, lock, pauseRequested, cancelled>>

\* The new task takes the run's place in the table whatever is there.
ResumeRun(c) ==
    /\ At(c, "resume_run")
    /\ runState' = "RUNNING"
    /\ \E t \in Tasks :
         /\ pc[t] = "idle"
         /\ background' = t
         /\ pc' = [pc EXCEPT ![c] = "idle", ![t] = "resume_read"]
    /\ UNCHANGED <<leased, loopVars, logVars, pauseRequested, active, interrupted, cancelled,
                   lock, frameVars, envVars>>

CancelTask == cancelled' = cancelled \cup {t \in Tasks : t = background /\ Running(t)}

CancelCall(c) ==
    /\ Calling(c)
    /\ \/ /\ active # 0
          /\ attempt' = [attempt EXCEPT ![c] = active]
          /\ Goto(c, "terminate")
          /\ UNCHANGED cancelled
       \/ /\ active = 0
          /\ CancelTask
          /\ Goto(c, "cancel_read")
          /\ UNCHANGED attempt
    /\ UNCHANGED <<runVars, loopVars, logVars, pauseRequested, active, background, interrupted,
                   lock, scope, why, seen, goal>>

Terminate(c) ==
    /\ At(c, "terminate")
    /\ interrupted' = interrupted \cup {attempt[c]}
    /\ CancelTask
    /\ Goto(c, "cancel_read")
    /\ UNCHANGED <<runVars, loopVars, logVars, pauseRequested, active, background, lock,
                   frameVars, envVars>>

\* Mutant: a task cancelled inside the terminal lock keeps it.
TaskCancelledKeepsLock(t) ==
    /\ t \in cancelled
    /\ cancelled' = cancelled \ {t}
    /\ \/ /\ scope[t] = "new"
          /\ Goto(t, "cancel_read")
          /\ scope' = [scope EXCEPT ![t] = "handler"]
          /\ UNCHANGED <<active, background, interrupted, why, seen, goal, attempt, envVars>>
       \/ /\ scope[t] # "new"
          /\ Exit(t)
    /\ UNCHANGED <<lock, runVars, loopVars, logVars, pauseRequested>>

\* CancelledError reaches a task at its await: the body of a new run's task
\* cancels the run, every other place lets the task end.  A held lock is let go.
TaskCancelled(t) ==
    /\ t \in cancelled
    /\ cancelled' = cancelled \ {t}
    /\ lock' = IF lock = t THEN "none" ELSE lock
    /\ \/ /\ scope[t] = "new"
          /\ Goto(t, "cancel_read")
          /\ scope' = [scope EXCEPT ![t] = "handler"]
          /\ UNCHANGED <<active, background, interrupted, why, seen, goal, attempt, envVars>>
       \/ /\ scope[t] # "new"
          /\ Exit(t)
    /\ UNCHANGED <<runVars, loopVars, logVars, pauseRequested>>

--------------------------------------------------------------------------------
(* The process. *)

\* The lifespan's end cancels the background task; the process ends after it.
Shutdown ==
    /\ phase = "up" /\ crashes < MaxCrashes
    /\ phase' = "closing"
    /\ CancelTask
    /\ UNCHANGED <<runVars, loopVars, logVars, pauseRequested, active, background, interrupted,
                   lock, pc, frameVars, calls, crashes, recovered>>

Crash ==
    /\ phase # "down" /\ crashes < MaxCrashes
    /\ crashes' = crashes + 1
    /\ phase' = "down"
    /\ pauseRequested' = FALSE /\ active' = 0 /\ background' = "none" /\ lock' = "none"
    /\ interrupted' = {} /\ cancelled' = {}
    /\ pc' = [x \in Threads |-> "idle"] /\ scope' = [x \in Threads |-> "bare"]
    /\ why' = [x \in Threads |-> "none"] /\ seen' = [x \in Threads |-> NoLoop]
    /\ goal' = [x \in Threads |-> "none"] /\ attempt' = [x \in Threads |-> 0]
    /\ UNCHANGED <<runVars, loopVars, logVars, calls, recovered>>

\* Reconciliation runs before the first request is served.
Restart ==
    /\ phase = "down"
    /\ phase' = "reconciling"
    /\ Goto("reconcile", "rec_read")
    /\ UNCHANGED <<runVars, loopVars, logVars, flagVars, lock, frameVars, calls, crashes, recovered>>

RecRead ==
    /\ At("reconcile", "rec_read")
    /\ \/ /\ loop.status \in Terminal
          /\ goal' = [goal EXCEPT !["reconcile"] = loop.status]
          /\ Goto("reconcile", IF runState = loop.status THEN "commit" ELSE "rec_state")
          /\ UNCHANGED <<active, background, interrupted, scope, why, seen, attempt, envVars>>
       \/ /\ loop.status \notin Terminal /\ terminals # <<>>
          /\ \/ /\ runState = FromEvent(terminals[Len(terminals)],
                                        runState = "REQUIRES_HUMAN")
                /\ Exit("reconcile")
             \/ /\ runState # FromEvent(terminals[Len(terminals)],
                                        runState = "REQUIRES_HUMAN")
                /\ Goto("reconcile", "rec_recover")
                /\ recovered' = TRUE
                /\ UNCHANGED <<active, background, interrupted, frameVars, phase, calls, crashes>>
       \/ /\ loop.status \notin Terminal /\ terminals = <<>> /\ runState \in Terminal
          /\ goal' = [goal EXCEPT !["reconcile"] = runState]
          /\ Goto("reconcile", "commit")
          /\ UNCHANGED <<active, background, interrupted, scope, why, seen, attempt, envVars>>
       \/ /\ loop.status \notin Terminal /\ terminals = <<>> /\ runState \notin Terminal
          /\ Goto("reconcile", IF runState = "PAUSED" /\ loop.status = "PAUSED"
                               THEN "pause_event" ELSE "rec_mark")
          /\ UNCHANGED <<active, background, interrupted, frameVars, envVars>>
    /\ UNCHANGED <<runVars, loopVars, logVars, lock, pauseRequested, cancelled>>

RecState ==
    /\ At("reconcile", "rec_state")
    /\ runState' = loop.status
    /\ Goto("reconcile", "commit")
    /\ UNCHANGED <<leased, loopVars, logVars, flagVars, lock, frameVars, envVars>>

RecRecover ==
    /\ At("reconcile", "rec_recover")
    /\ runState' = FromEvent(terminals[Len(terminals)], runState = "REQUIRES_HUMAN")
    /\ Exit("reconcile")
    /\ UNCHANGED <<leased, loopVars, logVars, lock, pauseRequested, cancelled>>

\* A run without a lease, or whose workspace or checkpoint cannot be trusted,
\* goes to a human; any other is closed as paused.
RecMark ==
    /\ At("reconcile", "rec_mark")
    /\ runState' = "RECONCILING"
    /\ \/ /\ Goto("reconcile", "escalate_read")
          /\ UNCHANGED <<why, seen>>
       \/ /\ leased
          /\ why' = [why EXCEPT !["reconcile"] = "reconcile"]
          /\ seen' = [seen EXCEPT !["reconcile"] = loop]
          /\ Goto("reconcile", "close_read")
    /\ UNCHANGED <<leased, loopVars, logVars, flagVars, lock, scope, goal, attempt, envVars>>

--------------------------------------------------------------------------------
TaskStep(t) ==
    \/ NewStarting(t) \/ NewSession(t) \/ NewPaused(t) \/ NewRead(t) \/ NewRunning(t)
    \/ ResumeRead(t) \/ ResumeSession(t) \/ ResumeRunning(t)
    \/ EnterLoop(t) \/ LoopTop(t) \/ StartIteration(t) \/ Submit(t) \/ CallEnds(t)
    \/ AppendRow(t) \/ InterruptRow(t) \/ Appended(t) \/ TaskCancelled(t)

SharedStep(x) ==
    \/ SetPaused(x) \/ PauseEvent(x) \/ LoopWrite(x) \/ CloseRead(x) \/ CloseWrite(x)
    \/ CancelRead(x) \/ FailRead(x) \/ EscalateRead(x)
    \/ Commit(x) \/ CommitRecover(x) \/ CommitState(x) \/ CommitEvent(x)

CallerStep(c) ==
    \/ PauseInterrupt(c) \/ PauseRead(c) \/ PauseRun(c) \/ ResumeActive(c) \/ ResumeRun(c)
    \/ Terminate(c)

Operator(c) == PauseCall(c) \/ ResumeCall(c) \/ CancelCall(c)

Reconciliation == RecRead \/ RecState \/ RecRecover \/ RecMark

Next ==
    \/ \E t \in Tasks : TaskStep(t)
    \/ \E c \in Callers : CallerStep(c) \/ Operator(c)
    \/ \E x \in Threads : SharedStep(x)
    \/ Reconciliation \/ Shutdown \/ Crash \/ Restart

\* The event loop runs every ready callback, a runtime call ends by its deadline
\* at the latest, and the supervisor restarts a lost process.  Nothing is assumed
\* of operators, nor of when a process is lost.
Fairness ==
    /\ \A t \in Tasks : WF_vars(pc[t] # "idle" /\ (TaskStep(t) \/ SharedStep(t)))
    /\ \A c \in Callers : WF_vars(pc[c] # "idle" /\ (CallerStep(c) \/ SharedStep(c)))
    /\ WF_vars(pc["reconcile"] # "idle" /\ (Reconciliation \/ SharedStep("reconcile")))
    /\ WF_vars(Restart)

Spec == Init /\ [][Next]_vars
PausedSpec == InitPaused /\ [][Next]_vars
FairSpec == (Init \/ InitLost) /\ [][Next]_vars /\ Fairness

--------------------------------------------------------------------------------
(* Properties. *)

\* "Reconciliation ... never ... emits a second terminal run event"
\* (docs/runbooks/p2-feedback-loops.md:30), and neither does any race of the
\* task with operator calls: _commit_run_terminal decides under a lock.
OneTerminalEvent == Len(terminals) <= 1

Settled == phase = "up" /\ cancelled = {} /\ \A x \in Threads : pc[x] = "idle"

\* Each attempt is closed at most once and counted exactly once, by the task, a pause, a
\* cancellation or a restart (_close_dangling_iteration, append_loop_iteration).
IterationsCounted ==
    /\ loop.iteration = Len(rows)
    /\ \A i, j \in 1 .. Len(rows) : rows[i] = rows[j] => i = j
    /\ \A i \in 1 .. Len(rows) : started[rows[i]] = i

\* The three records of a run agree, whichever of the task, a pause, a cancellation and a
\* restart writes them.  Iterations are counted.  The terminal event reports what a loop that
\* is over decided ("A terminal loop status implies the run outcome", run_manager.py:4066),
\* and once nothing is in flight a cancelled run's loop is cancelled too
\* (tests/test_loop_execution.py:281), except after overlapping requests that a restart had
\* to undo.
RecordsAgree ==
    /\ IterationsCounted
    /\ terminals # <<>> /\ loop.status \in Terminal => terminals[1] = loop.status
    /\ Settled /\ terminals = <<"CANCELLED">> /\ ~recovered => loop.status = "CANCELLED"

\* Whatever step the lost process stopped at, reconciliation leaves the run
\* either over, with its one event and in the state its loop decided, or paused
\* with a paused loop (RunManager.reconcile).
Reconciled ==
    [][phase = "reconciling" /\ phase' = "up" =>
        /\ runState' \in Terminal \cup {"PAUSED"}
        /\ runState' \in Terminal <=> terminals' # <<>>
        /\ loop'.status \in Terminal => runState' = loop'.status
        /\ runState' = "PAUSED" => loop'.status = "PAUSED" /\ pausedEvent']_vars

\* However requests, the task and a restart overlap, all of them come to an end
\* and the manager is at rest again: nobody waits forever for the terminal lock,
\* whoever was cancelled while holding it.
EveryoneFinishes == []<>(\A x \in Threads : pc[x] = "idle")

================================================================================
