----------------------------- MODULE RuntimeProofs -----------------------------
(***************************************************************************)
(* The streams and session slots of every adapter are sound, for any number *)
(* of calls, sessions, events and servers. What a step does to them is one  *)
(* of three things (StreamStep), each of which keeps StreamsSound; the      *)
(* lemmas about an adapter say which of the three its actions do.           *)
(***************************************************************************)
EXTENDS Runtimes, TLAPS

Kinds == {"EVENT", "END"} \cup Terminals
CallerStates == {"idle", "submitting", "reading", "stopping", "left"}
TaskStates == {"none", "created", "spawning", "reading", "waiting", "stopping", "done"}
Stages == {"none", "server", "starting", "session", "turn", "returned"}

CallsTyped ==
  /\ SessionOf \in [Calls -> Sessions]
  /\ caller \in [Calls -> CallerStates]
  /\ queues \in [Calls -> Seq(Kinds)]
  /\ terminal_calls \subseteq Calls
  /\ session_active_calls \in [Sessions -> Calls \cup {NoCall}]

-----------------------------------------------------------------------------
\* What a step may do to the streams and slots: nothing, one more event on the stream of a
\* call that has not ended, or the end of some calls.
Kept == UNCHANGED <<queues, terminal_calls, session_active_calls>>
Fed(c) == c \notin terminal_calls /\ Put(c)
Ended(new) ==
  /\ new \subseteq Calls /\ new \cap terminal_calls = {}
  /\ terminal_calls' = terminal_calls \cup new
  /\ queues' \in [Calls -> Seq(Kinds)]
  /\ \A c \in Calls \ new : queues'[c] = queues[c]
  /\ \A c \in new : \E t \in Terminals : queues'[c] = queues[c] \o <<t, "END">>
  /\ session_active_calls' \in [Sessions -> Calls \cup {NoCall}]
  /\ \A s \in Sessions : \/ session_active_calls'[s] = session_active_calls[s]
                         \/ session_active_calls[s] \in terminal_calls'
StreamStep == Kept \/ (\E c \in Calls : Fed(c)) \/ (\E new : Ended(new))

\* And to the callers: none begins a call.
CallersKept ==
  /\ caller' \in [Calls -> CallerStates]
  /\ \A c \in Calls : caller'[c] = "idle" <=> caller[c] = "idle"

\* StreamsSound of one stream.
Closed(q) ==
  /\ Len(q) >= 2 /\ q[Len(q) - 1] \in Terminals /\ q[Len(q)] = "END"
  /\ \A i \in 1 .. Len(q) - 2 : q[i] = "EVENT"
Running(q) == \A i \in 1 .. Len(q) : q[i] = "EVENT"

\* An event on an open stream leaves it open.
LEMMA EventKeepsRunning ==
  ASSUME NEW q \in Seq(Kinds), Running(q)
  PROVE  Append(q, "EVENT") \in Seq(Kinds) /\ Running(Append(q, "EVENT"))
BY DEF Kinds, Running

\* A terminal event and the None after it close an open stream.
LEMMA EndCloses ==
  ASSUME NEW q \in Seq(Kinds), Running(q), NEW t \in Terminals
  PROVE  Closed(q \o <<t, "END">>)
<1> DEFINE r == q \o <<t, "END">>
<1>1. Len(q) \in Nat /\ Len(r) = Len(q) + 2
  BY DEF Terminals
<1>2. /\ \A i \in 1 .. Len(q) : r[i] = q[i]
      /\ r[Len(q) + 1] = t /\ r[Len(q) + 2] = "END"
  BY <1>1
<1> QED  BY <1>1, <1>2 DEF Closed, Running

\* _finish_call, for the calls of ends.
LEMMA FinishEnds ==
  ASSUME CallsTyped, NEW ends, DOMAIN ends \subseteq Calls,
         \A c \in DOMAIN ends : ends[c] \in Terminals, Finish(ends)
  PROVE  Ended(DOMAIN ends \ terminal_calls)
<1> DEFINE new == DOMAIN ends \ terminal_calls
<1>1. /\ new \subseteq Calls /\ new \cap terminal_calls = {}
      /\ terminal_calls' = terminal_calls \cup new
  BY DEF Finish
<1>2. ASSUME NEW c \in Calls \ new PROVE queues'[c] = queues[c]
  BY <1>2 DEF Finish
<1>3. ASSUME NEW c \in new PROVE \E t \in Terminals : queues'[c] = queues[c] \o <<t, "END">>
  BY <1>3, <1>1 DEF Finish
<1>4. queues' \in [Calls -> Seq(Kinds)]
  <2>1. ASSUME NEW c \in new PROVE queues[c] \o <<ends[c], "END">> \in Seq(Kinds)
    <3>1. queues[c] \in Seq(Kinds) /\ ends[c] \in Kinds /\ "END" \in Kinds
      BY <2>1, <1>1 DEF CallsTyped, Kinds
    <3>2. <<ends[c], "END">> \in Seq(Kinds)  BY <3>1
    <3> QED  BY <3>1, <3>2
  <2>2. queues' = [c \in Calls |-> IF c \in new THEN queues[c] \o <<ends[c], "END">> ELSE queues[c]]
    BY DEF Finish
  <2> HIDE DEF new
  <2> QED  BY <2>1, <2>2 DEF CallsTyped
<1>5. /\ session_active_calls' \in [Sessions -> Calls \cup {NoCall}]
      /\ \A s \in Sessions : \/ session_active_calls'[s] = session_active_calls[s]
                             \/ session_active_calls[s] \in terminal_calls'
  BY DEF Finish, CallsTyped
<1> QED  BY <1>1, <1>2, <1>3, <1>4, <1>5 DEF Ended

\* Each of the three keeps the streams sound and typed, while nobody begins a call.
LEMMA StreamStepSafe ==
  ASSUME CallsTyped, StreamsSound, StreamStep, CallersKept, UNCHANGED SessionOf
  PROVE  CallsTyped' /\ StreamsSound'
<1> DEFINE Sound(c) == IF c \in terminal_calls THEN Closed(queues[c]) ELSE Running(queues[c])
           Held(c) == Open(c) => session_active_calls[SessionOf[c]] = c
<1>1. \A c \in Calls : Sound(c) /\ Held(c)
  BY DEF StreamsSound, Closed, Running
<1>2. SUFFICES CallsTyped' /\ \A c \in Calls : Sound(c)' /\ Held(c)'
  BY DEF StreamsSound, Closed, Running
<1>3. \A c \in Calls : caller'[c] = "idle" <=> caller[c] = "idle"
  BY DEF CallersKept
<1>4. caller' \in [Calls -> CallerStates] /\ SessionOf' \in [Calls -> Sessions]
  BY DEF CallersKept, CallsTyped
<1>5. CASE Kept
  BY <1>1, <1>3, <1>4, <1>5 DEF Kept, CallsTyped, Open
<1>6. ASSUME NEW d \in Calls, Fed(d) PROVE CallsTyped' /\ \A c \in Calls : Sound(c)' /\ Held(c)'
  <2>1. queues[d] \in Seq(Kinds) /\ Running(queues[d]) /\ d \notin terminal_calls
    BY <1>1, <1>6 DEF Fed, CallsTyped
  <2>2. /\ Append(queues[d], "EVENT") \in Seq(Kinds)
        /\ Running(Append(queues[d], "EVENT"))
    BY <2>1, EventKeepsRunning
  <2>3. /\ queues' = [queues EXCEPT ![d] = Append(queues[d], "EVENT")]
        /\ UNCHANGED <<terminal_calls, session_active_calls>>
    BY <1>6 DEF Fed, Put
  <2>4. CallsTyped'
    BY <1>4, <2>2, <2>3 DEF CallsTyped
  <2>5. ASSUME NEW c \in Calls PROVE Sound(c)'
    BY <1>1, <2>1, <2>2, <2>3 DEF CallsTyped
  <2>6. ASSUME NEW c \in Calls PROVE Held(c)'
    BY <1>1, <1>3, <2>3 DEF Open
  <2> QED  BY <2>4, <2>5, <2>6
<1>7. ASSUME NEW new, Ended(new) PROVE CallsTyped' /\ \A c \in Calls : Sound(c)' /\ Held(c)'
  <2>1. CallsTyped'
    BY <1>4, <1>7 DEF Ended, CallsTyped
  <2>2. ASSUME NEW c \in new PROVE Sound(c)'
    <3>1. c \in Calls /\ c \notin terminal_calls /\ c \in terminal_calls'
      BY <1>7, <2>2 DEF Ended
    <3>2. queues[c] \in Seq(Kinds) /\ Running(queues[c])
      BY <3>1, <1>1 DEF CallsTyped
    <3>3. PICK t \in Terminals : queues'[c] = queues[c] \o <<t, "END">>
      BY <1>7, <2>2 DEF Ended
    <3> QED  BY <3>1, <3>2, <3>3, EndCloses
  <2>3. ASSUME NEW c \in Calls \ new PROVE Sound(c)'
    BY <1>1, <1>7, <2>3 DEF Ended
  <2>4. ASSUME NEW c \in Calls PROVE Held(c)'
    <3>1. SUFFICES ASSUME Open(c)' PROVE session_active_calls'[SessionOf[c]] = c
      BY DEF Open
    <3>2. Open(c) /\ c \notin terminal_calls'
      BY <3>1, <1>3, <1>7 DEF Open, Ended
    <3>3. SessionOf[c] \in Sessions /\ session_active_calls[SessionOf[c]] = c
      BY <3>2, <1>1 DEF CallsTyped
    <3> QED  BY <3>2, <3>3, <1>7 DEF Ended
  <2> QED  BY <2>1, <2>2, <2>3, <2>4
<1> QED  BY <1>5, <1>6, <1>7 DEF StreamStep

\* submit takes the session's slot only from a call that has ended.
LEMMA RegisterSafe ==
  ASSUME CallsTyped, StreamsSound, NEW c \in Calls, NEW then \in CallerStates,
         Register(c, then), UNCHANGED SessionOf
  PROVE  CallsTyped' /\ StreamsSound'
<1>1. CallsTyped'
  BY DEF Register, CallsTyped
<1>2. ASSUME NEW o \in Calls, Open(o)' PROVE session_active_calls'[SessionOf[o]] = o
  <2>1. CASE o = c
    BY <2>1 DEF Register, CallsTyped
  <2>2. CASE o # c
    <3>1. Open(o)
      BY <1>2, <2>2 DEF Register, Open, CallsTyped
    <3>2. session_active_calls[SessionOf[o]] = o /\ o \notin terminal_calls
      BY <3>1 DEF StreamsSound, Open
    <3>3. o # NoCall
      BY CallsAssumption DEF NoCall
    <3>4. SessionOf[o] # SessionOf[c]
      BY <3>2, <3>3 DEF Register
    <3> QED  BY <3>2, <3>4 DEF Register, CallsTyped
  <2> QED  BY <2>1, <2>2
<1> QED  BY <1>1, <1>2 DEF StreamsSound, Register, Open

-----------------------------------------------------------------------------
(* The adapters' own copies of the operations they share.                    *)

\* _finish_call is the same in all three.
LEMMA SharedFinish ==
  ASSUME NEW ends
  PROVE  Claude!Finish(ends) \/ Codex!Finish(ends) \/ Opencode!Finish(ends) => Finish(ends)
BY DEF Finish, Claude!Finish, Codex!Finish, Opencode!Finish, NoCall, Claude!NoCall,
       Codex!NoCall, Opencode!NoCall

\* And so is _put_event.
LEMMA SharedPut ==
  ASSUME NEW c
  PROVE  Claude!Put(c) \/ Codex!Put(c) \/ Opencode!Put(c) => Put(c)
BY DEF Put, Claude!Put, Codex!Put, Opencode!Put

\* And so is what submit does before its first await.
LEMMA SharedRegister ==
  ASSUME NEW c, NEW then
  PROVE  Claude!Register(c, then) \/ Codex!Register(c, then) \/ Opencode!Register(c, then)
           => Register(c, then)
BY DEF Register, Claude!Register, Codex!Register, Opencode!Register, NoCall, Claude!NoCall,
       Codex!NoCall, Opencode!NoCall, InSession, Claude!InSession, Codex!InSession,
       Opencode!InSession

-----------------------------------------------------------------------------
(* ClaudeRuntime.                                                            *)

\* A Claude task that may still report an event runs for a call that has not ended: whoever
\* else ends the call has cancelled the task, which sees it at its next step.
ClaudeInv ==
  /\ task \in [Calls -> TaskStates]
  /\ terminal_message \in [Calls -> {"none", "COMPLETED", "FAILED"}]
  /\ \A c \in Calls :
       /\ caller[c] = "idle" <=> task[c] = "none"
       /\ caller[c] = "idle" => c \notin terminal_calls \cup cancelling
       /\ /\ task[c] \in {"created", "spawning", "reading", "waiting"}
          /\ c \notin cancelling
          => c \notin terminal_calls

\* A task that ends reports a terminal event unless its call has one, and frees no slot but
\* its own call's.
LEMMA ClaudeEnds ==
  ASSUME CallsTyped, NEW c \in Calls, NEW terminal \in Terminals, Claude!Ends(c, terminal)
  PROVE  Ended({c} \ terminal_calls)
<1> DEFINE new == {c} \ terminal_calls
<1>1. /\ new \subseteq Calls /\ new \cap terminal_calls = {}
      /\ terminal_calls' = terminal_calls \cup new /\ c \in terminal_calls'
  BY DEF Claude!Ends
<1>2. queues[c] \o <<terminal, "END">> \in Seq(Kinds)
  <2>1. queues[c] \in Seq(Kinds) /\ terminal \in Kinds /\ "END" \in Kinds
    BY DEF CallsTyped, Kinds
  <2>2. <<terminal, "END">> \in Seq(Kinds)  BY <2>1
  <2> QED  BY <2>1, <2>2
<1>3. \/ new = {} /\ queues' = queues
      \/ new = {c} /\ queues' = [queues EXCEPT ![c] = queues[c] \o <<terminal, "END">>]
  BY DEF Claude!Ends
<1>4. /\ queues' \in [Calls -> Seq(Kinds)]
      /\ \A d \in Calls \ new : queues'[d] = queues[d]
      /\ \A d \in new : \E t \in Terminals : queues'[d] = queues[d] \o <<t, "END">>
  BY <1>2, <1>3 DEF CallsTyped
<1>5. /\ session_active_calls' \in [Sessions -> Calls \cup {NoCall}]
      /\ \A s \in Sessions : \/ session_active_calls'[s] = session_active_calls[s]
                             \/ session_active_calls[s] \in terminal_calls'
  <2>1. session_active_calls' =
          [session_active_calls EXCEPT ![SessionOf[c]] =
             IF session_active_calls[SessionOf[c]] = c THEN NoCall
             ELSE session_active_calls[SessionOf[c]]]
    BY DEF Claude!Ends, Claude!ReleaseSlot, NoCall, Claude!NoCall
  <2> QED  BY <1>1, <2>1 DEF CallsTyped
<1> QED  BY <1>1, <1>4, <1>5 DEF Ended

\* So a task's end keeps the invariant: it is done, and its call has been made.
LEMMA ClaudeEndsSafe ==
  ASSUME CallsTyped, ClaudeInv, NEW c \in Calls, NEW terminal \in Terminals,
         Claude!Ends(c, terminal), task[c] # "none",
         UNCHANGED <<caller, terminal_message>>, cancelling' \in {cancelling, cancelling \ {c}}
  PROVE  StreamStep /\ CallersKept /\ ClaudeInv'
<1>1. StreamStep
  BY ClaudeEnds DEF StreamStep
<1>2. CallersKept
  BY DEF CallersKept, CallsTyped
<1>3. /\ task' = [task EXCEPT ![c] = "done"]
      /\ terminal_calls' \subseteq terminal_calls \cup {c}
  BY DEF Claude!Ends, Claude!To
<1>4. caller[c] # "idle"
  BY DEF ClaudeInv
<1> QED  BY <1>1, <1>2, <1>3, <1>4 DEF ClaudeInv, TaskStates

\* And so does any other step of a task that has not ended its call.
LEMMA ClaudeOnSafe ==
  ASSUME CallsTyped, ClaudeInv, NEW c \in Calls, NEW await \in TaskStates \ {"none"},
         task[c] # "none", task' = [task EXCEPT ![c] = await],
         \/ await \in {"stopping", "done"}
         \/ /\ Kept /\ c \notin cancelling
            /\ task[c] \in {"created", "spawning", "reading", "waiting"},
         UNCHANGED <<terminal_calls, caller, terminal_message>>,
         cancelling' \in {cancelling, cancelling \ {c}}
  PROVE  CallersKept /\ ClaudeInv'
<1>1. caller[c] # "idle"
  BY DEF ClaudeInv
<1> QED  BY <1>1 DEF ClaudeInv, CallersKept, CallsTyped, TaskStates

\* What a task reports is a terminal event.
LEMMA ClaudeOutcome ==
  ASSUME ClaudeInv, NEW c \in Calls, NEW otherwise \in Terminals
  PROVE  Claude!Outcome(c, otherwise) \in Terminals
BY DEF ClaudeInv, Claude!Outcome, Terminals

\* A cancellation reaches the task.
LEMMA ClaudeCancelled ==
  ASSUME NEW c, Claude!Cancelled(c)
  PROVE  /\ cancelling' = cancelling \ {c}
         /\ UNCHANGED <<caller, terminal_message>>
         /\ \/ task[c] = "created" /\ Claude!To(c, "done") /\ Kept
            \/ task[c] \in {"reading", "waiting"} /\ Claude!To(c, "stopping") /\ Kept
            \/ /\ task[c] \notin {"created", "reading", "waiting"}
               /\ Claude!Ends(c, Claude!Outcome(c, "CANCELLED"))
BY Zenon DEF Claude!Cancelled, Kept

\* Every step of the Claude adapter keeps the streams and the invariant.
LEMMA ClaudeSafe ==
  ASSUME CallsTyped, StreamsSound, ClaudeInv, Claude!ClaudeNext, UNCHANGED SessionOf
  PROVE  CallsTyped' /\ StreamsSound' /\ ClaudeInv'
<1> DEFINE Goal == CallsTyped' /\ StreamsSound' /\ ClaudeInv'
<1> PICK c \in Calls :
      \/ Claude!submit(c) \/ Claude!interrupt(c) \/ Claude!Step(c)
      \/ Claude!ReadLine(c) \/ Claude!EndOfOutput(c) \/ Claude!LineTooLong(c)
      \/ Claude!Timeout(c) \/ Claude!Exit(c)
      \/ Claude!Leave(c) /\ UNCHANGED <<Claude!claudeVars, interrupted_calls>>
  BY DEF Claude!ClaudeNext
<1>0. StreamStep /\ CallersKept /\ ClaudeInv' => Goal
  BY StreamStepSafe
<1>k. Kept => StreamStep
  BY DEF StreamStep
<1> SUFFICES Goal  OBVIOUS
<1> HIDE DEF Goal
<1>1. CASE Claude!submit(c)
  <2>1. CallsTyped' /\ StreamsSound'
    BY <1>1, RegisterSafe, SharedRegister DEF Claude!submit, CallerStates
  <2>2. /\ caller' = [caller EXCEPT ![c] = "reading"] /\ caller[c] = "idle"
        /\ task' = [task EXCEPT ![c] = "created"]
        /\ UNCHANGED <<terminal_calls, terminal_message, cancelling>>
    BY <1>1 DEF Claude!submit, Claude!Register
  <2>3. ClaudeInv'
    BY <2>2 DEF ClaudeInv, TaskStates, CallsTyped
  <2> QED  BY <2>1, <2>3 DEF Goal
<1>2. CASE Claude!interrupt(c)
  <2>1. CallersKept
    BY <1>2 DEF Claude!interrupt, CallersKept, CallsTyped, CallerStates
  <2>2. UNCHANGED <<task, terminal_message>> /\ caller[c] = "reading"
    BY <1>2 DEF Claude!interrupt
  <2>3. CASE c \in terminal_calls
    <3>1. Kept /\ UNCHANGED cancelling
      BY <1>2, <2>3 DEF Claude!interrupt, Kept
    <3>2. ClaudeInv'
      BY <3>1, <2>1, <2>2 DEF ClaudeInv, CallersKept, Kept
    <3> QED  BY <1>0, <1>k, <2>1, <3>1, <3>2
  <2>4. CASE c \notin terminal_calls
    <3> DEFINE ends == [o \in {c} |-> "CANCELLED"]
    <3>1. Claude!Finish(ends) /\ cancelling' = cancelling \cup {c}
      BY <1>2, <2>4 DEF Claude!interrupt
    <3>2. Ended({c})
      <4>1. DOMAIN ends = {c} /\ ends[c] = "CANCELLED" /\ "CANCELLED" \in Terminals
        BY DEF Terminals
      <4> HIDE DEF ends
      <4>2. DOMAIN ends \subseteq Calls /\ \A d \in DOMAIN ends : ends[d] \in Terminals
        BY <4>1
      <4>3. Ended(DOMAIN ends \ terminal_calls)
        BY <3>1, <4>2, FinishEnds, SharedFinish
      <4>4. DOMAIN ends \ terminal_calls = {c}
        BY <4>1, <2>4
      <4> QED  BY <4>3, <4>4
    <3>3. terminal_calls' = terminal_calls \cup {c}
      BY <3>2 DEF Ended
    <3>4. ClaudeInv'
      BY <3>1, <3>3, <2>1, <2>2 DEF ClaudeInv, CallersKept
    <3>5. StreamStep  BY <3>2 DEF StreamStep
    <3> QED  BY <1>0, <2>1, <3>4, <3>5
  <2> QED  BY <2>3, <2>4
<1>3. CASE Claude!Start(c)
  <2>1. Kept /\ UNCHANGED <<terminal_calls, caller, terminal_message, cancelling>>
    BY <1>3 DEF Claude!Start, Claude!callVars, Kept
  <2>2. task' = [task EXCEPT ![c] = "spawning"] /\ task[c] = "created" /\ c \notin cancelling
    BY <1>3 DEF Claude!Start, Claude!To, Claude!Resumes
  <2>3. CallersKept /\ ClaudeInv'
    BY <2>1, <2>2, ClaudeOnSafe DEF TaskStates
  <2> QED  BY <1>0, <1>k, <2>1, <2>3
<1>4. CASE Claude!Spawned(c)
  <2>1. /\ task[c] = "spawning" /\ c \notin cancelling
        /\ UNCHANGED <<caller, terminal_message, cancelling>>
    BY <1>4 DEF Claude!Spawned, Claude!Resumes, Claude!callVars
  <2>2. CASE Claude!To(c, "reading") /\ UNCHANGED Claude!callVars
    <3>1. Kept /\ UNCHANGED terminal_calls  BY <2>2 DEF Claude!callVars, Kept
    <3>2. CallersKept /\ ClaudeInv'
      BY <2>1, <2>2, <3>1, ClaudeOnSafe DEF Claude!To, TaskStates
    <3> QED  BY <1>0, <1>k, <3>1, <3>2
  <2>3. CASE Claude!Ends(c, "FAILED")
    <3>1. StreamStep /\ CallersKept /\ ClaudeInv'
      BY <2>1, <2>3, ClaudeEndsSafe DEF Terminals
    <3> QED  BY <1>0, <3>1
  <2> QED  BY <1>4, <2>2, <2>3 DEF Claude!Spawned
<1>5. CASE Claude!Waited(c)
  <2>1. task[c] = "waiting" /\ UNCHANGED <<caller, terminal_message, cancelling>>
    BY <1>5 DEF Claude!Waited, Claude!Resumes
  <2>2. PICK o \in Terminals : Claude!Ends(c, Claude!Outcome(c, o))
    BY <1>5 DEF Claude!Waited, Terminals
  <2>3. Claude!Outcome(c, o) \in Terminals  BY ClaudeOutcome
  <2>4. StreamStep /\ CallersKept /\ ClaudeInv'
    BY <2>1, <2>2, <2>3, ClaudeEndsSafe
  <2> QED  BY <1>0, <2>4
<1>6. CASE Claude!Stopped(c)
  <2>1. task[c] = "stopping" /\ UNCHANGED <<caller, terminal_message, cancelling>>
    BY <1>6 DEF Claude!Stopped, Claude!Resumes
  <2>2. Claude!Ends(c, Claude!Outcome(c, "FAILED")) /\ "FAILED" \in Terminals
    BY <1>6 DEF Claude!Stopped, Terminals
  <2>3. Claude!Outcome(c, "FAILED") \in Terminals  BY <2>2, ClaudeOutcome
  <2>4. StreamStep /\ CallersKept /\ ClaudeInv'
    BY <2>1, <2>2, <2>3, ClaudeEndsSafe
  <2> QED  BY <1>0, <2>4
<1>7. CASE Claude!Cancelled(c)
  <2>1. cancelling' = cancelling \ {c} /\ UNCHANGED <<caller, terminal_message>>
    BY <1>7, ClaudeCancelled
  <2>2. task[c] # "none"
    BY <1>7 DEF Claude!Cancelled, ClaudeInv
  <2>3. ASSUME NEW await \in {"stopping", "done"}, Claude!To(c, await), Kept PROVE Goal
    <3>1. UNCHANGED terminal_calls  BY <2>3 DEF Kept
    <3>2. CallersKept /\ ClaudeInv'
      BY <2>1, <2>2, <2>3, <3>1, ClaudeOnSafe DEF Claude!To, TaskStates
    <3> QED  BY <1>0, <1>k, <2>3, <3>2
  <2>4. CASE Claude!Ends(c, Claude!Outcome(c, "CANCELLED"))
    <3>1. Claude!Outcome(c, "CANCELLED") \in Terminals  BY ClaudeOutcome DEF Terminals
    <3>2. StreamStep /\ CallersKept /\ ClaudeInv'
      BY <2>1, <2>2, <2>4, <3>1, ClaudeEndsSafe
    <3> QED  BY <1>0, <3>2
  <2> QED  BY <1>7, <2>3, <2>4, ClaudeCancelled
<1>8. CASE Claude!ReadLine(c)
  <2>1. /\ task[c] = "reading" /\ c \notin cancelling
        /\ UNCHANGED <<caller, task, cancelling, terminal_calls>>
    BY <1>8 DEF Claude!ReadLine, Claude!Resumes, Claude!Put
  <2>2. StreamStep
    <3>1. c \notin terminal_calls  BY <2>1 DEF ClaudeInv
    <3>2. Claude!Put(c) \/ Kept  BY <1>8 DEF Claude!ReadLine, Kept
    <3> QED  BY <3>1, <3>2, SharedPut DEF StreamStep, Fed
  <2>3. terminal_message' \in [Calls -> {"none", "COMPLETED", "FAILED"}]
    BY <1>8 DEF Claude!ReadLine, ClaudeInv
  <2>4. CallersKept /\ ClaudeInv'
    BY <2>1, <2>3 DEF ClaudeInv, CallersKept, CallsTyped
  <2> QED  BY <1>0, <2>2, <2>4
<1>9. CASE Claude!EndOfOutput(c) \/ Claude!LineTooLong(c)
  <2>1. Kept /\ UNCHANGED <<terminal_calls, caller, terminal_message, cancelling>>
    BY <1>9 DEF Claude!EndOfOutput, Claude!LineTooLong, Claude!callVars, Kept
  <2>2. /\ \E await \in {"waiting", "stopping"} : task' = [task EXCEPT ![c] = await]
        /\ task[c] = "reading" /\ c \notin cancelling
    BY <1>9 DEF Claude!EndOfOutput, Claude!LineTooLong, Claude!To, Claude!Resumes
  <2>3. CallersKept /\ ClaudeInv'
    BY <2>1, <2>2, ClaudeOnSafe DEF TaskStates
  <2> QED  BY <1>0, <1>k, <2>1, <2>3
<1>10. CASE Claude!Timeout(c)
  <2>1. /\ task[c] \in {"spawning", "reading", "waiting"}
        /\ UNCHANGED <<caller, terminal_message, cancelling>>
    BY <1>10 DEF Claude!Timeout, Claude!Resumes
  <2>2. CASE Claude!Ends(c, "FAILED")
    <3>1. StreamStep /\ CallersKept /\ ClaudeInv'
      BY <2>1, <2>2, ClaudeEndsSafe DEF Terminals
    <3> QED  BY <1>0, <3>1
  <2>3. CASE Claude!To(c, "stopping") /\ Kept
    <3>1. UNCHANGED terminal_calls  BY <2>3 DEF Kept
    <3>2. CallersKept /\ ClaudeInv'
      BY <2>1, <2>3, <3>1, ClaudeOnSafe DEF Claude!To, TaskStates
    <3> QED  BY <1>0, <1>k, <2>3, <3>2
  <2> QED  BY <1>10, <2>2, <2>3 DEF Claude!Timeout, Kept
<1>11. CASE Claude!Exit(c)
  <2>1. Kept /\ UNCHANGED <<terminal_calls, caller, task, terminal_message, cancelling>>
    BY <1>11 DEF Claude!Exit, Claude!callVars, Kept
  <2>2. CallersKept /\ ClaudeInv'
    BY <2>1 DEF ClaudeInv, CallersKept, CallsTyped
  <2> QED  BY <1>0, <1>k, <2>1, <2>2
<1>12. CASE Claude!Leave(c) /\ UNCHANGED <<Claude!claudeVars, interrupted_calls>>
  <2>1. Kept /\ UNCHANGED <<terminal_calls, task, terminal_message, cancelling>>
    BY <1>12 DEF Claude!Leave, Claude!claudeVars, Kept
  <2>2. CallersKept
    BY <1>12 DEF Claude!Leave, CallersKept, CallsTyped, CallerStates
  <2>3. ClaudeInv'
    BY <2>1, <2>2 DEF ClaudeInv, CallersKept
  <2> QED  BY <1>0, <1>k, <2>1, <2>2, <2>3
<1> QED
  BY <1>1, <1>2, <1>3, <1>4, <1>5, <1>6, <1>7, <1>8, <1>9, <1>10, <1>11, <1>12 DEF Claude!Step
-----------------------------------------------------------------------------
(* CodexRuntime.                                                             *)

Pendings == {"none", "waiting", "result", "error"}

Awaiting == {"starting", "session", "turn"}

\* A Codex call that has not been made is nowhere in submit, and a request that awaits its
\* answer is one of submit's three.
CodexInv ==
  /\ stage \in [Calls -> Stages]
  /\ pending \in [Calls -> Pendings]
  /\ \A c \in Calls :
       /\ caller[c] = "idle" => stage[c] = "none"
       /\ pending[c] # "none" => stage[c] \in Awaiting

\* What a step of submit does beside the stream: it sends a request or returns.
CodexMoves(c) ==
  \/ Codex!Return(c)
  \/ \E next \in Awaiting :
       /\ stage' = [stage EXCEPT ![c] = next]
       /\ pending' = [pending EXCEPT ![c] = "waiting"]
       /\ UNCHANGED caller

\* A step of a submit that has begun begins no other call.
LEMMA CodexMovesSafe ==
  ASSUME CallsTyped, CodexInv, NEW c \in Calls, caller[c] # "idle", CodexMoves(c)
  PROVE  CallersKept /\ CodexInv'
<1>1. CASE Codex!Return(c)
  BY <1>1 DEF Codex!Return, CallersKept, CallsTyped, CallerStates, CodexInv, Stages, Pendings
<1>2. ASSUME NEW next \in Awaiting, UNCHANGED caller,
             stage' = [stage EXCEPT ![c] = next], pending' = [pending EXCEPT ![c] = "waiting"]
      PROVE  CallersKept /\ CodexInv'
  BY <1>2 DEF CallersKept, CallsTyped, CodexInv, Stages, Pendings, Awaiting
<1> QED  BY <1>1, <1>2 DEF CodexMoves

\* A call that fails ends, and no other does.
LEMMA CodexFails ==
  ASSUME CallsTyped, NEW c \in Calls, NEW terminal \in Terminals,
         Codex!Finish([o \in {c} |-> terminal])
  PROVE  StreamStep
<1> DEFINE ends == [o \in {c} |-> terminal]
<1>1. DOMAIN ends = {c} /\ ends[c] = terminal  OBVIOUS
<1>2. Codex!Finish(ends)  OBVIOUS
<1> HIDE DEF ends
<1>3. Ended(DOMAIN ends \ terminal_calls)
  BY <1>1, <1>2, FinishEnds, SharedFinish
<1> QED  BY <1>3 DEF StreamStep

\* A request that is sent leaves the streams alone.
LEMMA CodexSends ==
  ASSUME NEW c, NEW next \in Awaiting, Codex!Sends(c, next)
  PROVE  CodexMoves(c) /\ Kept
BY DEF Codex!Sends, CodexMoves, Kept

\* So does the request for a turn.
LEMMA CodexStartTurn ==
  ASSUME NEW c, Codex!StartTurn(c)
  PROVE  CodexMoves(c) /\ Kept
<1>1. Codex!Sends(c, "turn") /\ "turn" \in Awaiting  BY DEF Codex!StartTurn, Awaiting
<1> QED  BY <1>1, CodexSends

\* So does whatever submit does once it has a server.
LEMMA CodexWithServer ==
  ASSUME NEW c, Codex!WithServer(c)
  PROVE  CodexMoves(c) /\ Kept
<1>1. \/ Codex!Return(c) /\ UNCHANGED <<queues, terminal_calls, session_active_calls>>
      \/ Codex!StartTurn(c)
      \/ Codex!Sends(c, "session")
  BY Zenon DEF Codex!WithServer
<1>2. CASE Codex!Return(c) /\ UNCHANGED <<queues, terminal_calls, session_active_calls>>
  BY <1>2 DEF CodexMoves, Kept
<1>3. CASE Codex!StartTurn(c)
  BY <1>3, CodexStartTurn
<1>4. CASE Codex!Sends(c, "session")
  BY <1>4, CodexSends DEF Awaiting
<1> QED  BY <1>1, <1>2, <1>3, <1>4

\* A step of submit, by its effect on streams, slots and callers.
LEMMA CodexSubmitting ==
  ASSUME CodexInv, NEW c \in Calls, Codex!Submitting(c)
  PROVE  /\ caller[c] # "idle"
         /\ CodexMoves(c)
         /\ Kept \/ Codex!Finish([o \in {c} |-> "FAILED"])
<1> DEFINE Fails == Codex!Finish([o \in {c} |-> "FAILED"])
           Goal == CodexMoves(c) /\ (Kept \/ Fails)
<1>1. SUFFICES Goal
  <2>1. stage[c] = "server" \/ pending[c] # "none"
    BY DEF Codex!Submitting, Codex!EnsureServer, Codex!Answered, Codex!NotAnswered
  <2> QED  BY <2>1 DEF CodexInv, Awaiting
<1> HIDE DEF Fails
<1>2. CASE Codex!EnsureServer(c)
  <2>1. CASE Codex!WithServer(c)
    BY <2>1, CodexWithServer
  <2>2. CASE /\ stage' = [stage EXCEPT ![c] = "starting"]
             /\ pending' = [pending EXCEPT ![c] = "waiting"]
             /\ UNCHANGED <<caller, queues, terminal_calls, session_active_calls>>
    BY <2>2 DEF CodexMoves, Kept, Awaiting
  <2>3. CASE Codex!Return(c) /\ Fails
    BY <2>3 DEF CodexMoves
  <2> QED  BY <1>2, <2>1, <2>2, <2>3 DEF Codex!EnsureServer, Fails
<1>3. CASE Codex!Answered(c)
  <2>1. stage[c] = "starting" \/ stage[c] = "session" \/ stage[c] = "turn"
    BY <1>3 DEF Codex!Answered, CodexInv, Awaiting
  <2>2. \/ Codex!WithServer(c) \/ Codex!StartupFails(c) \/ Codex!StartTurn(c)
        \/ (Codex!Return(c) /\ Fails)
        \/ Codex!Return(c) /\ UNCHANGED <<queues, terminal_calls, session_active_calls>>
    BY <1>3, <2>1, Zenon DEF Codex!Answered, Fails
  <2>3. Codex!StartupFails(c) => Codex!Return(c) /\ Fails
    BY DEF Codex!StartupFails, Fails
  <2> QED  BY <2>2, <2>3, CodexWithServer, CodexStartTurn DEF Kept, CodexMoves
<1>4. CASE Codex!NotAnswered(c)
  BY <1>4 DEF Codex!NotAnswered, Codex!StartupFails, Fails, CodexMoves
<1> QED  BY <1>2, <1>3, <1>4 DEF Codex!Submitting

\* Every step of the Codex adapter keeps the streams and the invariant.
LEMMA CodexSafe ==
  ASSUME CallsTyped, StreamsSound, CodexInv, Codex!CodexNext, UNCHANGED SessionOf
  PROVE  CallsTyped' /\ StreamsSound' /\ CodexInv'
<1> DEFINE Goal == CallsTyped' /\ StreamsSound' /\ CodexInv'
<1>0. StreamStep /\ CallersKept /\ CodexInv' => Goal
  BY StreamStepSafe
<1>k. Kept => StreamStep
  BY DEF StreamStep
<1>i. /\ CallersKept /\ UNCHANGED <<stage, pending>> => CodexInv'
      /\ UNCHANGED caller => CallersKept
  BY DEF CallersKept, CodexInv, CallsTyped
<1> SUFFICES Goal  OBVIOUS
<1> HIDE DEF Goal
<1>1. ASSUME NEW c \in Calls, Codex!submit(c) PROVE Goal
  <2>1. CallsTyped' /\ StreamsSound'
    BY <1>1, RegisterSafe, SharedRegister DEF Codex!submit, CallerStates
  <2>2. CodexInv'
    BY <1>1 DEF Codex!submit, Codex!Register, Codex!codexVars, CodexInv, Stages, Awaiting,
                CallsTyped
  <2> QED  BY <2>1, <2>2 DEF Goal
<1>2. ASSUME NEW c \in Calls, Codex!Submitting(c) PROVE Goal
  <2>1. /\ caller[c] # "idle" /\ CodexMoves(c)
        /\ Kept \/ Codex!Finish([o \in {c} |-> "FAILED"])
    BY <1>2, CodexSubmitting
  <2>2. StreamStep
    BY <1>k, <2>1, CodexFails DEF Terminals
  <2>3. CallersKept /\ CodexInv'
    BY <2>1, CodexMovesSafe
  <2> QED  BY <1>0, <2>2, <2>3
<1>3. ASSUME NEW c \in Calls, Codex!Abandoned(c) PROVE Goal
  <2>1. Kept  BY <1>3 DEF Codex!Abandoned, Kept
  <2>2. CallersKept /\ CodexInv'
    BY <1>3 DEF Codex!Abandoned, CallersKept, CallsTyped, CallerStates, CodexInv, Stages, Pendings
  <2> QED  BY <1>0, <1>k, <2>1, <2>2
<1>4. ASSUME NEW c \in Calls,
             \/ Codex!interrupt(c)
             \/ Codex!Leave(c) /\ UNCHANGED <<Codex!codexVars, Codex!serverVars>>
      PROVE  Goal
  <2>1. Kept /\ UNCHANGED <<stage, pending>>
    BY <1>4 DEF Codex!interrupt, Codex!Leave, Codex!codexVars, Codex!serverVars, Kept
  <2>2. CallersKept
    BY <1>4 DEF Codex!interrupt, Codex!Leave, CallersKept, CallsTyped, CallerStates
  <2> QED  BY <1>0, <1>k, <1>i, <2>1, <2>2
<1>5. ASSUME NEW c \in Calls, Codex!TakesTurn(c) PROVE Goal
  <2>1. Kept /\ UNCHANGED <<caller, stage, pending>>
    BY <1>5 DEF Codex!TakesTurn, Codex!callVars, Codex!codexVars, Kept
  <2> QED  BY <1>0, <1>k, <1>i, <2>1
<1>6. ASSUME NEW c \in Calls, Codex!Answers(c) PROVE Goal
  <2>1. Kept /\ UNCHANGED <<caller, stage>>
    BY <1>6 DEF Codex!Answers, Codex!callVars, Kept
  <2>2. CodexInv'
    BY <1>6, <2>1 DEF Codex!Answers, CodexInv, Pendings
  <2> QED  BY <1>0, <1>k, <1>i, <2>1, <2>2
<1>7. ASSUME NEW o \in Calls, Codex!Notified(o) PROVE Goal
  <2>1. StreamStep
    BY <1>7, SharedPut DEF Codex!Notified, StreamStep, Fed
  <2>2. UNCHANGED <<caller, stage, pending>>
    BY <1>7 DEF Codex!Notified, Codex!codexVars, Codex!serverVars
  <2> QED  BY <1>0, <1>i, <2>1, <2>2
<1>8. ASSUME NEW o \in Calls, Codex!TurnEnds(o) PROVE Goal
  <2>1. PICK c \in Calls : \E terminal \in Terminals : Codex!Finish([x \in {c} |-> terminal])
    BY <1>8 DEF Codex!TurnEnds, Terminals
  <2>2. StreamStep
    BY <2>1, CodexFails
  <2>3. UNCHANGED <<caller, stage, pending>>
    BY <1>8 DEF Codex!TurnEnds, Codex!codexVars
  <2> QED  BY <1>0, <1>i, <2>2, <2>3
<1>9. ASSUME NEW g, Codex!Dies(g) PROVE Goal
  <2>1. Kept /\ UNCHANGED <<caller, stage, pending>>
    BY <1>9 DEF Codex!Dies, Codex!callVars, Codex!codexVars, Kept
  <2> QED  BY <1>0, <1>k, <1>i, <2>1
<1>10. ASSUME NEW g, Codex!ReaderEnds(g) PROVE Goal
  <2> DEFINE ends == [c \in {x \in Calls : Codex!Open(x)} |-> "FAILED"]
  <2>1. Codex!Finish(ends) /\ UNCHANGED <<caller, stage>>
    BY <1>10 DEF Codex!ReaderEnds
  <2>2. DOMAIN ends \subseteq Calls /\ \A c \in DOMAIN ends : ends[c] \in Terminals
    BY DEF Terminals
  <2> HIDE DEF ends
  <2>3. StreamStep
    BY <2>1, <2>2, FinishEnds, SharedFinish DEF StreamStep
  <2>4. CodexInv'
    BY <1>10, <2>1 DEF Codex!ReaderEnds, CodexInv, Pendings
  <2> QED  BY <1>0, <1>i, <2>1, <2>3, <2>4
<1>11. ASSUME NEW c \in Calls,
              \/ Codex!submit(c) \/ Codex!Submitting(c) \/ Codex!Abandoned(c) \/ Codex!interrupt(c)
              \/ Codex!TakesTurn(c) \/ Codex!Answers(c) \/ Codex!Notified(c) \/ Codex!TurnEnds(c)
              \/ Codex!Leave(c) /\ UNCHANGED <<Codex!codexVars, Codex!serverVars>>
       PROVE  Goal
  BY <1>11, <1>1, <1>2, <1>3, <1>4, <1>5, <1>6, <1>7, <1>8
<1> QED
  BY <1>9, <1>10, <1>11 DEF Codex!CodexNext
-----------------------------------------------------------------------------
(* OpencodeRuntime.                                                          *)

\* An opencode call that has not been made is nowhere in submit.
OpencodeInv ==
  /\ stage \in [Calls -> Stages]
  /\ \A c \in Calls : caller[c] = "idle" => stage[c] = "none"

\* What a step of submit does beside the stream: it sends a request or returns.
OpencodeMoves(c) ==
  \/ Opencode!Return(c)
  \/ \E next \in Stages : stage' = [stage EXCEPT ![c] = next] /\ UNCHANGED caller

\* A step of a submit that has begun begins no other call.
LEMMA OpencodeMovesSafe ==
  ASSUME CallsTyped, OpencodeInv, NEW c \in Calls, caller[c] # "idle", OpencodeMoves(c)
  PROVE  CallersKept /\ OpencodeInv'
<1>1. CASE Opencode!Return(c)
  BY <1>1 DEF Opencode!Return, CallersKept, CallsTyped, CallerStates, OpencodeInv, Stages
<1>2. ASSUME NEW next \in Stages, UNCHANGED caller, stage' = [stage EXCEPT ![c] = next]
      PROVE  CallersKept /\ OpencodeInv'
  BY <1>2 DEF CallersKept, CallsTyped, OpencodeInv
<1> QED  BY <1>1, <1>2 DEF OpencodeMoves

\* _finish_call ends the calls of ends that have not ended.
LEMMA OpencodeFinishes ==
  ASSUME CallsTyped, NEW cs, cs \subseteq Calls, NEW ends, DOMAIN ends = cs,
         \A c \in cs : ends[c] \in Terminals, Opencode!FinishAll(ends)
  PROVE  StreamStep
<1>1. Opencode!Finish(ends)  BY DEF Opencode!FinishAll
<1>2. Ended(DOMAIN ends \ terminal_calls)  BY <1>1, FinishEnds, SharedFinish
<1> QED  BY <1>2 DEF StreamStep

\* _fail_call reports FAILED or CANCELLED.
LEMMA OpencodeFails ==
  ASSUME CallsTyped, NEW cs, cs \subseteq Calls, Opencode!_fail_call(cs)
  PROVE  StreamStep
<1> DEFINE ends == [c \in cs |-> IF c \in interrupted_calls THEN "CANCELLED" ELSE "FAILED"]
<1>1. DOMAIN ends = cs /\ \A c \in cs : ends[c] \in Terminals  BY DEF Terminals
<1>2. Opencode!FinishAll(ends)  BY DEF Opencode!_fail_call
<1> HIDE DEF ends
<1> QED  BY <1>1, <1>2, OpencodeFinishes

\* A call that ends ends no other.
LEMMA OpencodeEndsOne ==
  ASSUME CallsTyped, NEW c \in Calls, NEW terminal \in Terminals,
         Opencode!FinishAll([o \in {c} |-> terminal])
  PROVE  StreamStep
<1> DEFINE ends == [o \in {c} |-> terminal]
<1>1. DOMAIN ends = {c} /\ \A d \in {c} : ends[d] \in Terminals  OBVIOUS
<1>2. Opencode!FinishAll(ends)  OBVIOUS
<1> HIDE DEF ends
<1> QED  BY <1>1, <1>2, OpencodeFinishes

\* What submit does once it has a server leaves the streams alone.
LEMMA OpencodeWithServer ==
  ASSUME NEW c, Opencode!WithServer(c)
  PROVE  OpencodeMoves(c) /\ Kept
<1>1. \/ Opencode!Return(c) /\ UNCHANGED <<queues, terminal_calls, session_active_calls>>
      \/ Opencode!Prompt(c)
      \/ /\ stage' = [stage EXCEPT ![c] = "session"]
         /\ UNCHANGED <<caller, queues, terminal_calls, session_active_calls>>
  BY Zenon DEF Opencode!WithServer
<1>2. CASE Opencode!Prompt(c)
  BY <1>2 DEF Opencode!Prompt, OpencodeMoves, Kept, Stages
<1> QED  BY <1>1, <1>2 DEF OpencodeMoves, Kept, Stages

\* A step of submit, by its effect on streams, slots and callers.
LEMMA OpencodeSubmitting ==
  ASSUME OpencodeInv, NEW c \in Calls, Opencode!Submitting(c)
  PROVE  /\ caller[c] # "idle"
         /\ OpencodeMoves(c)
         /\ Kept \/ Opencode!_fail_call({c})
<1> DEFINE Fails == Opencode!_fail_call({c})
           Goal == OpencodeMoves(c) /\ (Kept \/ Fails)
<1>1. SUFFICES Goal
  <2>1. stage[c] \in {"server", "starting", "session", "turn"}
    BY DEF Opencode!Submitting, Opencode!EnsureServer, Opencode!Listening,
           Opencode!SessionCreated, Opencode!Prompted
  <2> QED  BY <2>1 DEF OpencodeInv
<1>2. Opencode!StartupFails(c) => OpencodeMoves(c) /\ Fails
  BY DEF Opencode!StartupFails, OpencodeMoves
<1>3. Opencode!Prompt(c) => OpencodeMoves(c) /\ Kept
  BY DEF Opencode!Prompt, OpencodeMoves, Kept, Stages
<1> HIDE DEF Fails
<1>4. CASE Opencode!EnsureServer(c)
  <2>1. \/ Opencode!WithServer(c) \/ Opencode!StartupFails(c)
        \/ /\ stage' = [stage EXCEPT ![c] = "starting"]
           /\ UNCHANGED <<caller, queues, terminal_calls, session_active_calls>>
    BY <1>4 DEF Opencode!EnsureServer
  <2> QED  BY <1>2, <2>1, OpencodeWithServer DEF OpencodeMoves, Kept, Stages
<1>5. CASE Opencode!Listening(c)
  <2>1. Opencode!WithServer(c) \/ Opencode!StartupFails(c)
    BY <1>5 DEF Opencode!Listening
  <2> QED  BY <1>2, <2>1, OpencodeWithServer
<1>6. CASE Opencode!SessionCreated(c)
  BY <1>2, <1>3, <1>6 DEF Opencode!SessionCreated
<1>7. CASE Opencode!Prompted(c)
  <2>1. \/ Opencode!Return(c) /\ UNCHANGED <<queues, terminal_calls, session_active_calls>>
        \/ Opencode!StartupFails(c)
    BY <1>7 DEF Opencode!Prompted
  <2> QED  BY <1>2, <2>1 DEF OpencodeMoves, Kept
<1> QED  BY <1>4, <1>5, <1>6, <1>7 DEF Opencode!Submitting

\* An event of the stream starts or feeds the call it goes to, which has not ended.
LEMMA OpencodeHeard ==
  ASSUME NEW s, Opencode!Heard(s), Opencode!Put(Opencode!Target(s))
  PROVE  StreamStep
BY SharedPut DEF Opencode!Heard, StreamStep, Fed

\* One that ends the call ends no other.
LEMMA OpencodeTerminal ==
  ASSUME CallsTyped, NEW s, NEW o, NEW terminal \in Terminals, Opencode!Terminal(s, o, terminal)
  PROVE  StreamStep
<1>1. CASE Kept  BY <1>1 DEF StreamStep
<1>2. CASE Opencode!Heard(s) /\ Opencode!FinishAll([x \in {Opencode!Target(s)} |-> terminal])
  <2>1. PICK c \in Calls : c = Opencode!Target(s)  BY <1>2 DEF Opencode!Heard
  <2>2. Opencode!FinishAll([x \in {c} |-> terminal])  BY <1>2, <2>1
  <2> QED  BY <2>2, OpencodeEndsOne
<1> QED  BY <1>1, <1>2 DEF Opencode!Terminal, Kept

\* Every step of the opencode adapter keeps the streams and the invariant.
LEMMA OpencodeSafe ==
  ASSUME CallsTyped, StreamsSound, OpencodeInv, Opencode!OpencodeNext, UNCHANGED SessionOf
  PROVE  CallsTyped' /\ StreamsSound' /\ OpencodeInv'
<1> DEFINE Goal == CallsTyped' /\ StreamsSound' /\ OpencodeInv'
<1>0. StreamStep /\ CallersKept /\ OpencodeInv' => Goal
  BY StreamStepSafe
<1>k. Kept => StreamStep
  BY DEF StreamStep
<1>i. /\ CallersKept /\ UNCHANGED stage => OpencodeInv'
      /\ UNCHANGED caller => CallersKept
  BY DEF CallersKept, OpencodeInv, CallsTyped
<1>j. StreamStep /\ UNCHANGED <<caller, stage>> => Goal
  BY <1>0, <1>i
<1> SUFFICES Goal  OBVIOUS
<1> HIDE DEF Goal
<1>1. ASSUME NEW c \in Calls, Opencode!submit(c) PROVE Goal
  <2>1. CallsTyped' /\ StreamsSound'
    BY <1>1, RegisterSafe, SharedRegister DEF Opencode!submit, CallerStates
  <2>2. OpencodeInv'
    BY <1>1 DEF Opencode!submit, Opencode!Register, OpencodeInv, Stages, CallsTyped
  <2> QED  BY <2>1, <2>2 DEF Goal
<1>2. ASSUME NEW c \in Calls, Opencode!Submitting(c) PROVE Goal
  <2>1. caller[c] # "idle" /\ OpencodeMoves(c) /\ (Kept \/ Opencode!_fail_call({c}))
    BY <1>2, OpencodeSubmitting
  <2>2. StreamStep
    BY <1>k, <2>1, OpencodeFails
  <2>3. CallersKept /\ OpencodeInv'
    BY <2>1, OpencodeMovesSafe
  <2> QED  BY <1>0, <2>2, <2>3
<1>3. ASSUME NEW c \in Calls, Opencode!Abandoned(c) PROVE Goal
  <2>1. Kept  BY <1>3 DEF Opencode!Abandoned, Kept
  <2>2. CallersKept /\ OpencodeInv'
    BY <1>3 DEF Opencode!Abandoned, CallersKept, CallsTyped, CallerStates, OpencodeInv, Stages
  <2> QED  BY <1>0, <1>k, <2>1, <2>2
<1>4. ASSUME NEW c \in Calls,
             \/ Opencode!interrupt(c)
             \/ /\ Opencode!Leave(c)
                /\ UNCHANGED <<Opencode!opencodeVars, Opencode!serverVars, interrupted_calls>>
      PROVE  Goal
  <2>1. Kept /\ UNCHANGED stage
    BY <1>4 DEF Opencode!interrupt, Opencode!Leave, Opencode!serverVars, Kept
  <2>2. CallersKept
    BY <1>4 DEF Opencode!interrupt, Opencode!Leave, CallersKept, CallsTyped, CallerStates
  <2> QED  BY <1>0, <1>k, <1>i, <2>1, <2>2
<1>5. ASSUME NEW c \in Calls, Opencode!Arrives(c) PROVE Goal
  <2>1. Kept /\ UNCHANGED <<caller, stage>>
    BY <1>5 DEF Opencode!Arrives, Opencode!callVars, Kept
  <2> QED  BY <1>j, <1>k, <2>1
<1>6. ASSUME NEW o \in Calls, Opencode!Busy(o) PROVE Goal
  <2>1. UNCHANGED <<caller, stage>>  BY <1>6 DEF Opencode!Busy
  <2>2. \/ Opencode!Heard(SessionOf[o]) /\ Opencode!Put(Opencode!Target(SessionOf[o]))
        \/ Kept
    BY <1>6 DEF Opencode!Busy, Opencode!Starts, Kept
  <2> QED  BY <1>j, <1>k, <2>1, <2>2, OpencodeHeard
<1>7. ASSUME NEW o \in Calls, Opencode!TurnEnds(o) PROVE Goal
  <2>1. UNCHANGED <<caller, stage>>  BY <1>7 DEF Opencode!TurnEnds
  <2>2. PICK terminal \in Terminals : Opencode!Terminal(SessionOf[o], o, terminal)
    BY <1>7 DEF Opencode!TurnEnds, Terminals
  <2> QED  BY <1>j, <2>1, <2>2, OpencodeTerminal
<1>8. ASSUME NEW o \in Calls, Opencode!Notified(o) PROVE Goal
  <2>1. UNCHANGED <<caller, stage>>  BY <1>8 DEF Opencode!Notified, Opencode!serverVars
  <2>2. Opencode!Heard(SessionOf[o]) /\ Opencode!Put(Opencode!Target(SessionOf[o]))
    BY <1>8 DEF Opencode!Notified
  <2> QED  BY <1>j, <2>1, <2>2, OpencodeHeard
<1>9. ASSUME NEW c \in Calls, Opencode!Timeout(c) PROVE Goal
  <2>1. UNCHANGED <<caller, stage>>  BY <1>9 DEF Opencode!Timeout, Opencode!serverVars
  <2>2. Kept \/ Opencode!_fail_call({c})  BY <1>9 DEF Opencode!Timeout, Kept
  <2> QED  BY <1>j, <1>k, <2>1, <2>2, OpencodeFails
<1>10. ASSUME NEW c \in Calls, Opencode!Aborted(c) PROVE Goal
  <2>1. UNCHANGED <<caller, stage>>  BY <1>10 DEF Opencode!Aborted, Opencode!serverVars
  <2>2. Opencode!FinishAll([o \in {c} |-> "CANCELLED"])  BY <1>10 DEF Opencode!Aborted
  <2> QED  BY <1>j, <2>1, <2>2, OpencodeEndsOne DEF Terminals
<1>11. ASSUME NEW s, Opencode!CreationHeard(s) PROVE Goal
  <2>1. UNCHANGED <<caller, stage>>  BY <1>11 DEF Opencode!CreationHeard, Opencode!serverVars
  <2>2. \/ Opencode!Heard(s) /\ Opencode!Put(Opencode!Target(s))
        \/ Opencode!Terminal(s, Opencode!NoPrompt, "COMPLETED")
    BY <1>11 DEF Opencode!CreationHeard, Opencode!Starts
  <2> QED  BY <1>j, <2>1, <2>2, OpencodeHeard, OpencodeTerminal DEF Terminals
<1>12. ASSUME NEW g, Opencode!Dies(g) PROVE Goal
  <2>1. Kept /\ UNCHANGED <<caller, stage>>
    BY <1>12 DEF Opencode!Dies, Opencode!callVars, Kept
  <2> QED  BY <1>j, <1>k, <2>1
<1>13. ASSUME NEW g, Opencode!ServerFails(g) \/ Opencode!ReaderEnds(g) PROVE Goal
  <2>1. UNCHANGED <<caller, stage>>
    BY <1>13 DEF Opencode!ServerFails, Opencode!ReaderEnds, Opencode!serverVars
  <2>2. Opencode!_fail_call({c \in Calls : Opencode!Open(c)})
    BY <1>13 DEF Opencode!ServerFails, Opencode!ReaderEnds, Opencode!_fail_active_runs
  <2> QED  BY <1>j, <2>1, <2>2, OpencodeFails
<1>14. ASSUME NEW c \in Calls,
              \/ Opencode!submit(c) \/ Opencode!Submitting(c) \/ Opencode!Abandoned(c)
              \/ Opencode!Arrives(c) \/ Opencode!Busy(c) \/ Opencode!TurnEnds(c)
              \/ Opencode!Notified(c)
              \/ Opencode!Timeout(c) \/ Opencode!interrupt(c) \/ Opencode!Aborted(c)
              \/ /\ Opencode!Leave(c)
                 /\ UNCHANGED <<Opencode!opencodeVars, Opencode!serverVars, interrupted_calls>>
       PROVE  Goal
  BY <1>14, <1>1, <1>2, <1>3, <1>4, <1>5, <1>6, <1>7, <1>8, <1>9, <1>10
<1> QED
  BY <1>11, <1>12, <1>13, <1>14 DEF Opencode!OpencodeNext

-----------------------------------------------------------------------------
(* The adapters under one contract.                                          *)

\* What keeps StreamsSound inductive: the types, and what each adapter adds.
StreamsInv ==
  /\ CallsTyped /\ StreamsSound
  /\ adapter = "claude" => ClaudeInv
  /\ adapter = "codex" => CodexInv
  /\ adapter = "opencode" => OpencodeInv

\* For any number of calls, sessions, servers and events: every stream of every adapter
\* ends once, with one terminal event and None after it, and an open call holds the slot
\* of its session (_finish_call, submit and the finally blocks of the three runtimes).
THEOREM RuntimeStreamsSound == Spec => []StreamsSound
<1>1. Init => StreamsInv
  <2> SUFFICES ASSUME Init PROVE StreamsInv  OBVIOUS
  <2>1. CallsTyped
    <3>1. SessionOf \in [Calls -> Sessions]
      BY LayoutsAssumption DEF Init, Adapters
    <3> QED  BY <3>1 DEF Init, CallsInit, CallsTyped, CallerStates, Kinds
  <2>2. StreamsSound
    BY DEF Init, CallsInit, StreamsSound, Open
  <2>3. ClaudeInv
    BY DEF Init, CallsInit, Claude!ClaudeInit, ClaudeInv, TaskStates
  <2>4. CodexInv
    BY DEF Init, CallsInit, Codex!ServerInit, Codex!CodexInit, CodexInv, Stages, Pendings
  <2>5. OpencodeInv
    BY DEF Init, CallsInit, Codex!ServerInit, OpencodeInv, Stages
  <2> QED  BY <2>1, <2>2, <2>3, <2>4, <2>5 DEF StreamsInv
<1>2. StreamsInv /\ [Next]_vars => StreamsInv'
  <2> SUFFICES ASSUME StreamsInv, [Next]_vars PROVE StreamsInv'  OBVIOUS
  <2>1. CASE InClaude(Claude!ClaudeNext)
    <3>1. adapter = "claude" /\ UNCHANGED <<adapter, SessionOf>> /\ Claude!ClaudeNext
      BY <2>1 DEF InClaude
    <3> QED  BY <3>1, ClaudeSafe DEF StreamsInv
  <2>2. CASE InCodex(Codex!CodexNext)
    <3>1. adapter = "codex" /\ UNCHANGED <<adapter, SessionOf>> /\ Codex!CodexNext
      BY <2>2 DEF InCodex
    <3> QED  BY <3>1, CodexSafe DEF StreamsInv
  <2>3. CASE InOpencode(Opencode!OpencodeNext)
    <3>1. adapter = "opencode" /\ UNCHANGED <<adapter, SessionOf>> /\ Opencode!OpencodeNext
      BY <2>3 DEF InOpencode
    <3> QED  BY <3>1, OpencodeSafe DEF StreamsInv
  <2>4. CASE UNCHANGED vars
    BY <2>4 DEF vars, callVars, claudeVars, serverVars, codexVars, StreamsInv, CallsTyped,
                StreamsSound, Open, ClaudeInv, CodexInv, OpencodeInv
  <2> QED  BY <2>1, <2>2, <2>3, <2>4 DEF Next
<1>3. StreamsInv => StreamsSound
  BY DEF StreamsInv
<1> QED  BY <1>1, <1>2, <1>3, PTL DEF Spec

================================================================================
