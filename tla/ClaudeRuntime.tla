----------------------------- MODULE ClaudeRuntime -----------------------------
(***************************************************************************)
(* ClaudeRuntime: each call is a task, _execute, around a process of its   *)
(* own. task[c] names the await the task is in; an action is what it does   *)
(* from there to its next await.                                            *)
(***************************************************************************)
EXTENDS RuntimeCalls

VARIABLES
  task,              \* none | created | spawning | reading | waiting | stopping | done
  process,           \* none | running | exited
  terminal_message,  \* the result line read so far, "none" before it
  cancelling,        \* the calls whose task has a cancellation it has not seen yet
  interrupted_calls

claudeVars == <<task, process, terminal_message, cancelling>>

ClaudeInit ==
  /\ task = [c \in Calls |-> "none"]
  /\ process = [c \in Calls |-> "none"]
  /\ terminal_message = [c \in Calls |-> "none"]
  /\ cancelling = {}

\* submit starts the task and returns without waiting.
submit(c) ==
  /\ Register(c, "reading")
  /\ task' = [task EXCEPT ![c] = "created"]
  /\ UNCHANGED <<process, terminal_message, cancelling, interrupted_calls>>

To(c, await) == task' = [task EXCEPT ![c] = await]

\* A task goes on from its await unless it is to be cancelled there.
Resumes(c, await) == task[c] = await /\ c \notin cancelling

\* Mutant: the slot is popped whoever holds it.
ReleaseSlotAny(c) ==
  session_active_calls' = [session_active_calls EXCEPT ![SessionOf[c]] = NoCall]

\* The finally block, which gives the session's slot back only while it is still this call's.
ReleaseSlot(c) ==
  session_active_calls' =
    [session_active_calls EXCEPT ![SessionOf[c]] = IF @ = c THEN NoCall ELSE @]

\* The task ends: it reports terminal unless the call has ended already.
Ends(c, terminal) ==
  LET new == {c} \ terminal_calls
  IN  /\ terminal_calls' = terminal_calls \cup new
      /\ queues' = IF new = {} THEN queues
                   ELSE [queues EXCEPT ![c] = @ \o <<terminal, "END">>]
      /\ ended_by' = IF new # {} /\ terminal_message[c] # "none"
                     THEN [ended_by EXCEPT ![c] = c] ELSE ended_by
      /\ ReleaseSlot(c)
      /\ interrupted_calls' = interrupted_calls \ {c}
      /\ To(c, "done")

\* What the handlers of _execute report: the result line if one was read.
Outcome(c, otherwise) ==
  IF terminal_message[c] # "none" THEN terminal_message[c] ELSE otherwise

Start(c) ==
  /\ Resumes(c, "created") /\ To(c, "spawning")
  /\ UNCHANGED <<callVars, process, terminal_message, cancelling, interrupted_calls>>

\* create_subprocess_exec returns, or raises and the call fails.
Spawned(c) ==
  /\ Resumes(c, "spawning")
  /\ \/ /\ process' = [process EXCEPT ![c] = "running"] /\ To(c, "reading")
        /\ UNCHANGED <<callVars, interrupted_calls>>
     \/ Ends(c, "FAILED") /\ UNCHANGED <<process, caller>>
  /\ UNCHANGED <<terminal_message, cancelling>>

\* A line of stdout. The first result is kept until the process has exited, and what
\* follows it is dropped; a line that does not parse is skipped.
ReadLine(c) ==
  /\ Resumes(c, "reading")
  /\ \/ /\ terminal_message[c] = "none"
        /\ Put(c)
        /\ UNCHANGED terminal_message
     \/ /\ terminal_message[c] = "none"
        /\ \E result \in {"COMPLETED", "FAILED"} :
             terminal_message' = [terminal_message EXCEPT ![c] = result]
        /\ UNCHANGED <<queues, terminal_calls, session_active_calls>>
  /\ UNCHANGED <<caller, ended_by, task, process, cancelling, interrupted_calls>>

\* End of stdout, after which the task waits for the process.
EndOfOutput(c) ==
  /\ Resumes(c, "reading") /\ To(c, "waiting")
  /\ UNCHANGED <<callVars, process, terminal_message, cancelling, interrupted_calls>>

Waited(c) ==
  /\ Resumes(c, "waiting") /\ process[c] = "exited"
  /\ Ends(c, Outcome(c, IF c \in interrupted_calls THEN "CANCELLED" ELSE "FAILED"))
  /\ UNCHANGED <<caller, process, terminal_message, cancelling>>

\* asyncio.timeout expires, or a line overruns the reader's limit: the process is killed
\* and waited for. Before there is a process the call fails at once.
Timeout(c) ==
  /\ \E await \in {"spawning", "reading", "waiting"} : Resumes(c, await)
  /\ IF process[c] = "none"
     THEN Ends(c, "FAILED")
     ELSE To(c, "stopping") /\ UNCHANGED <<queues, terminal_calls, session_active_calls, ended_by, interrupted_calls>>
  /\ UNCHANGED <<caller, process, terminal_message, cancelling>>

LineTooLong(c) ==
  /\ Resumes(c, "reading") /\ To(c, "stopping")
  /\ UNCHANGED <<callVars, process, terminal_message, cancelling, interrupted_calls>>

Stopped(c) ==
  /\ Resumes(c, "stopping") /\ process[c] = "exited"
  /\ Ends(c, Outcome(c, "FAILED"))
  /\ UNCHANGED <<caller, process, terminal_message, cancelling>>

\* CancelledError at the await the task is in. A task that has not started never runs its
\* finally block; one that is stopping a process leaves it to its signal; the others
\* terminate the process, if there is one, and wait for it.
Cancelled(c) ==
  /\ c \in cancelling /\ cancelling' = cancelling \ {c}
  /\ CASE task[c] = "created" ->
            To(c, "done") /\ UNCHANGED <<queues, terminal_calls, session_active_calls, ended_by, interrupted_calls>>
       [] task[c] \in {"reading", "waiting"} ->
            To(c, "stopping") /\ UNCHANGED <<queues, terminal_calls, session_active_calls, ended_by, interrupted_calls>>
       [] OTHER -> Ends(c, Outcome(c, "CANCELLED"))
  /\ UNCHANGED <<caller, process, terminal_message>>

\* interrupt signals the process, cancels the task and ends the call without waiting for
\* either.
interrupt(c) ==
  /\ caller[c] = "reading"
  /\ caller' = [caller EXCEPT ![c] = "stopping"]
  /\ IF c \in terminal_calls
     THEN UNCHANGED <<queues, terminal_calls, session_active_calls, cancelling, interrupted_calls>>
     ELSE /\ interrupted_calls' = interrupted_calls \cup {c}
          /\ cancelling' = cancelling \cup {c}
          /\ Finish([o \in {c} |-> "CANCELLED"])
  /\ UNCHANGED <<ended_by, task, process, terminal_message>>

\* The process ends, of itself or by a signal.
Exit(c) ==
  /\ process[c] = "running"
  /\ process' = [process EXCEPT ![c] = "exited"]
  /\ UNCHANGED <<callVars, task, terminal_message, cancelling, interrupted_calls>>

\* The event loop resumes a task whose await is over.
Step(c) == Start(c) \/ Spawned(c) \/ Waited(c) \/ Stopped(c) \/ Cancelled(c)

ClaudeNext ==
  \E c \in Calls :
    \/ submit(c) \/ interrupt(c) \/ Step(c)
    \/ ReadLine(c) \/ EndOfOutput(c) \/ LineTooLong(c) \/ Timeout(c) \/ Exit(c)
    \/ Leave(c) /\ UNCHANGED <<claudeVars, interrupted_calls>>
===============================================================================
