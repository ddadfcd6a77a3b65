---------------------------- MODULE OpencodeRuntime ----------------------------
(***************************************************************************)
(* OpencodeRuntime: every call shares one HTTP server and its global event *)
(* stream. submit waits for the server, for a native session and for the   *)
(* prompt to be accepted; stage[c] names the one it is in. The provider     *)
(* works through the prompts of a native session in order; the stream      *)
(* names the session an event is about, never the prompt.                   *)
(***************************************************************************)
EXTENDS RuntimeCalls

CONSTANT MaxServers   \* bound on the server processes started

VARIABLES
  stage,            \* none | server | starting | session | turn | returned
  server,           \* the number of self.process, 0 before the first
  running,          \* the servers whose process has not exited
  reading,          \* the servers whose event stream is being read
  natives,          \* the sessions that have a native session
  native_to_call,   \* per session, that is per native session
  call_natives,     \* the calls that name their native session
  started_calls,
  timeout_tasks,    \* the calls with a watchdog
  interrupted_calls,
  aborting,         \* the calls whose interrupt awaits the abort request
  fresh,            \* the provider: the sessions whose creation events are still to come
  asked,            \* the server the call's last request went to
  turns             \* the provider: the call's prompt is none | sent | active | over

opencodeVars == <<native_to_call, call_natives, started_calls, timeout_tasks, aborting, fresh>>
serverVars == <<stage, server, running, reading, natives, asked, turns>>

OpencodeInit ==
  /\ native_to_call = [s \in Sessions |-> NoCall]
  /\ call_natives = {} /\ started_calls = {} /\ timeout_tasks = {}
  /\ aborting = {} /\ fresh = {}

submit(c) ==
  /\ Register(c, "submitting")
  /\ stage' = [stage EXCEPT ![c] = "server"]
  /\ UNCHANGED <<opencodeVars, server, running, reading, natives, asked, turns, interrupted_calls>>

--------------------------------------------------------------------------------
\* _finish_call: besides the stream and the slot, the watchdog is cancelled and the native
\* session forgets its call.
FinishAll(ends) ==
  LET new == DOMAIN ends \ terminal_calls
  IN  /\ Finish(ends)
      /\ timeout_tasks' = timeout_tasks \ new
      /\ call_natives' = call_natives \ new
      /\ native_to_call' =
           [s \in Sessions |-> IF \E c \in new \cap call_natives : SessionOf[c] = s THEN NoCall
                               ELSE native_to_call[s]]

\* _fail_call: a call that is being interrupted counts as cancelled.
_fail_call(cs) ==
  FinishAll([c \in cs |-> IF c \in interrupted_calls THEN "CANCELLED" ELSE "FAILED"])

_fail_active_runs == _fail_call({c \in Calls : Open(c)})

Return(c) ==
  /\ stage' = [stage EXCEPT ![c] = "returned"]
  /\ caller' = [caller EXCEPT ![c] = "reading"]

StartupFails(c) == Return(c) /\ _fail_call({c}) /\ UNCHANGED <<natives, asked, turns, fresh>>

\* From the native session to the prompt.
Prompt(c) ==
  /\ natives' = natives \cup {SessionOf[c]}
  /\ native_to_call' = [native_to_call EXCEPT ![SessionOf[c]] = c]
  /\ call_natives' = call_natives \cup {c}
  /\ stage' = [stage EXCEPT ![c] = "turn"]
  /\ asked' = [asked EXCEPT ![c] = server]
  /\ UNCHANGED <<caller, queues, terminal_calls, session_active_calls, timeout_tasks, turns>>

\* What submit does once _ensure_server has returned.
WithServer(c) ==
  CASE c \in terminal_calls ->
         /\ Return(c)
         /\ UNCHANGED <<queues, terminal_calls, session_active_calls>>
         /\ UNCHANGED <<timeout_tasks, call_natives, native_to_call, natives, asked, turns, fresh>>
    [] c \notin terminal_calls /\ SessionOf[c] \in natives -> Prompt(c) /\ UNCHANGED fresh
    [] OTHER -> /\ stage' = [stage EXCEPT ![c] = "session"]
                /\ asked' = [asked EXCEPT ![c] = server]
                /\ UNCHANGED <<caller, queues, terminal_calls, session_active_calls>>
                /\ UNCHANGED <<timeout_tasks, call_natives, native_to_call, natives, turns, fresh>>

\* _ensure_server, under server_lock.
EnsureServer(c) ==
  /\ stage[c] = "server"
  /\ \A o \in Calls : stage[o] # "starting"
  /\ IF server \in running \cap reading
     THEN WithServer(c) /\ UNCHANGED <<server, running>>
     ELSE \/ /\ server < MaxServers
             /\ server' = server + 1
             /\ running' = (running \ {server}) \cup {server'}
             /\ stage' = [stage EXCEPT ![c] = "starting"]
             /\ UNCHANGED <<caller, queues, terminal_calls, session_active_calls>>
             /\ UNCHANGED <<timeout_tasks, call_natives, native_to_call, natives, asked, turns, fresh>>
          \/ /\ StartupFails(c)
             /\ running' = running \ {server}
             /\ UNCHANGED server
  /\ UNCHANGED <<ended_by, reading, started_calls, aborting, interrupted_calls>>

\* The server announces its address and its event stream is opened; or it does not within
\* fifteen seconds, is terminated, and the call fails.
Listening(c) ==
  /\ stage[c] = "starting"
  /\ \/ /\ server \in running
        /\ reading' = reading \cup {server}
        /\ WithServer(c)
        /\ UNCHANGED running
     \/ /\ StartupFails(c)
        /\ running' = running \ {server}
        /\ UNCHANGED reading
  /\ UNCHANGED <<ended_by, server, started_calls, aborting, interrupted_calls>>

\* POST /session answers, or fails or times out. The creation is announced on the stream.
SessionCreated(c) ==
  /\ stage[c] = "session"
  /\ \/ asked[c] \in running /\ Prompt(c) /\ fresh' = fresh \cup {SessionOf[c]}
     \/ StartupFails(c)
  /\ UNCHANGED <<ended_by, server, running, reading, started_calls, aborting, interrupted_calls>>

\* Mutant: no watchdog is armed.
PromptedUnwatched(c) ==
  /\ stage[c] = "turn"
  /\ \/ /\ turns[c] # "none"
        /\ Return(c)
        /\ UNCHANGED <<timeout_tasks, queues, terminal_calls, session_active_calls, call_natives>>
        /\ UNCHANGED <<native_to_call, natives, asked, turns, fresh>>
     \/ StartupFails(c)
  /\ UNCHANGED <<ended_by, server, running, reading, started_calls, aborting, interrupted_calls>>

\* prompt_async answers and the watchdog is armed; or the answer is lost, whether or not
\* the provider has the prompt; or the prompt is refused before it is sent (_prompt_body).
Prompted(c) ==
  /\ stage[c] = "turn"
  /\ \/ /\ turns[c] # "none"
        /\ Return(c)
        /\ timeout_tasks' = timeout_tasks \cup {c}
        /\ UNCHANGED <<queues, terminal_calls, session_active_calls, call_natives, native_to_call>>
        /\ UNCHANGED <<natives, asked, turns, fresh>>
     \/ StartupFails(c)
  /\ UNCHANGED <<ended_by, server, running, reading, started_calls, aborting, interrupted_calls>>

\* The caller's task is cancelled while it waits in submit: the call stays open, without a
\* watchdog.
Abandoned(c) ==
  /\ caller[c] = "submitting"
  /\ caller' = [caller EXCEPT ![c] = "left"]
  /\ stage' = [stage EXCEPT ![c] = "returned"]
  /\ UNCHANGED <<queues, terminal_calls, session_active_calls, ended_by, opencodeVars>>
  /\ UNCHANGED <<server, running, reading, natives, asked, turns, interrupted_calls>>

--------------------------------------------------------------------------------
\* The provider (external): the prompt reaches it while submit waits for the answer and is
\* worked on after the earlier prompts of its session; the process may die.
Arrives(c) ==
  /\ stage[c] = "turn" /\ turns[c] = "none" /\ asked[c] \in running
  /\ turns' = [turns EXCEPT ![c] = "sent"]
  /\ UNCHANGED <<callVars, opencodeVars, stage, server, running, reading, natives, asked, interrupted_calls>>

Dies(g) ==
  /\ g \in running /\ running' = running \ {g}
  /\ UNCHANGED <<callVars, opencodeVars, stage, server, reading, natives, asked, turns, interrupted_calls>>

First(o) == \A x \in InSession(o) : x < o => turns[x] \in {"none", "over"}

--------------------------------------------------------------------------------
\* _handle_event, for an event about session s: it goes to the session's call, unless that
\* has ended.
Target(s) == native_to_call[s]
Heard(s) == Target(s) \in Calls \ terminal_calls

\* busy, and the creation of the session, start the call the first time.
Starts(c) ==
  /\ Put(c)
  /\ started_calls' = started_calls \cup {c}
  /\ UNCHANGED <<timeout_tasks, call_natives, native_to_call>>

\* The provider is at work on the prompt of call o, and says so; what it says before the
\* reader is connected is lost.
Busy(o) ==
  /\ turns[o] \in {"sent", "active"} /\ First(o) /\ asked[o] \in reading
  /\ turns' = [turns EXCEPT ![o] = "active"]
  /\ \/ Heard(SessionOf[o]) /\ Starts(Target(SessionOf[o]))
     \/ /\ turns[o] = "sent"
        /\ UNCHANGED <<queues, terminal_calls, session_active_calls>>
        /\ UNCHANGED <<started_calls, timeout_tasks, call_natives, native_to_call>>
  /\ UNCHANGED <<caller, ended_by, aborting, fresh, interrupted_calls>>
  /\ UNCHANGED <<stage, server, running, reading, natives, asked>>

\* session.idle completes a call that has started and is dropped before that; session.error
\* fails it (an aborted message's CANCELLED goes the way of FAILED). The event is about the prompt of call o, or about none.
Terminal(s, o, terminal) ==
  IF Heard(s) /\ (terminal = "COMPLETED" => Target(s) \in started_calls)
  THEN /\ FinishAll([x \in {Target(s)} |-> terminal])
       /\ ended_by' = [ended_by EXCEPT ![Target(s)] = o]
  ELSE /\ UNCHANGED <<queues, terminal_calls, session_active_calls, ended_by>>
       /\ UNCHANGED <<timeout_tasks, call_natives, native_to_call>>

TurnEnds(o) ==
  /\ turns[o] = "active" /\ asked[o] \in reading
  /\ turns' = [turns EXCEPT ![o] = "over"]
  /\ \E terminal \in {"COMPLETED", "FAILED"} : Terminal(SessionOf[o], o, terminal)
  /\ UNCHANGED <<caller, started_calls, aborting, fresh, interrupted_calls>>
  /\ UNCHANGED <<stage, server, running, reading, natives, asked>>

\* The events of a new session, before any prompt of it is worked on: session.created, and
\* an idle that may follow it.
CreationHeard(s) ==
  /\ s \in fresh /\ server \in reading
  /\ \A c \in Calls : SessionOf[c] = s => turns[c] \in {"none", "sent"}
  /\ \/ Heard(s) /\ Starts(Target(s)) /\ UNCHANGED <<fresh, ended_by>>
     \/ Terminal(s, NoPrompt, "COMPLETED") /\ fresh' = fresh \ {s} /\ UNCHANGED started_calls
  /\ UNCHANGED <<caller, aborting, interrupted_calls, serverVars>>

\* Progress, tool and file events, and a permission the provider asks for.
Notified(o) ==
  /\ turns[o] = "active" /\ asked[o] \in reading /\ Heard(SessionOf[o])
  /\ Put(Target(SessionOf[o]))
  /\ UNCHANGED <<caller, ended_by, opencodeVars, interrupted_calls, serverVars>>

\* The instance is disposed of, or an error names no session: every open call fails.
ServerFails(g) ==
  /\ g \in reading \cap running
  /\ \E c \in Calls : Open(c)
  /\ _fail_active_runs
  /\ UNCHANGED <<caller, ended_by, started_calls, aborting, fresh, interrupted_calls, serverVars>>

\* The finally block of the reader of a stream that has closed or failed.
ReaderEnds(g) ==
  /\ g \in reading
  /\ reading' = reading \ {g}
  /\ _fail_active_runs
  /\ turns' = [c \in Calls |-> IF asked[c] = g /\ turns[c] # "none" THEN "over" ELSE turns[c]]
  /\ UNCHANGED <<caller, ended_by, started_calls, aborting, fresh, interrupted_calls>>
  /\ UNCHANGED <<stage, server, running, natives, asked>>

\* The watchdog's time is up. Nothing tells the provider.
Timeout(c) ==
  /\ c \in timeout_tasks
  /\ IF c \in terminal_calls
     THEN /\ timeout_tasks' = timeout_tasks \ {c}
          /\ UNCHANGED <<queues, terminal_calls, session_active_calls, call_natives, native_to_call>>
     ELSE _fail_call({c})
  /\ UNCHANGED <<caller, ended_by, started_calls, aborting, fresh, interrupted_calls, serverVars>>

\* interrupt asks the provider to abort, whether or not it answers, and then ends the call.
interrupt(c) ==
  /\ caller[c] = "reading"
  /\ caller' = [caller EXCEPT ![c] = "stopping"]
  /\ IF c \in terminal_calls THEN UNCHANGED <<interrupted_calls, aborting>>
     ELSE interrupted_calls' = interrupted_calls \cup {c} /\ aborting' = aborting \cup {c}
  /\ UNCHANGED <<queues, terminal_calls, session_active_calls, ended_by, serverVars>>
  /\ UNCHANGED <<native_to_call, call_natives, started_calls, timeout_tasks, fresh>>

Aborted(c) ==
  /\ c \in aborting /\ aborting' = aborting \ {c}
  /\ FinishAll([o \in {c} |-> "CANCELLED"])
  /\ UNCHANGED <<caller, ended_by, started_calls, fresh, interrupted_calls, serverVars>>

Submitting(c) == EnsureServer(c) \/ Listening(c) \/ SessionCreated(c) \/ Prompted(c)

OpencodeNext ==
  \/ \E c \in Calls :
       \/ submit(c) \/ Submitting(c) \/ Abandoned(c)
       \/ Arrives(c) \/ Busy(c) \/ TurnEnds(c) \/ Notified(c)
       \/ Timeout(c) \/ interrupt(c) \/ Aborted(c)
       \/ Leave(c) /\ UNCHANGED <<opencodeVars, serverVars, interrupted_calls>>
  \/ \E s \in Sessions : CreationHeard(s)
  \/ \E g \in 1 .. MaxServers : Dies(g) \/ ServerFails(g) \/ ReaderEnds(g)
===============================================================================
