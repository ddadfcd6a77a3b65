------------------------------ MODULE CodexRuntime ------------------------------
(***************************************************************************)
(* CodexRuntime: every call shares one App Server, started by the first     *)
(* call that finds none. submit waits for three answers (initialize,        *)
(* thread/start or thread/resume, turn/start); stage[c] names the one it is *)
(* in. A reader task per server process takes its messages one at a time.   *)
(* The servers are numbered in the order they are started.                  *)
(***************************************************************************)
EXTENDS RuntimeCalls

CONSTANT MaxServers   \* bound on the server processes started

VARIABLES
  stage,            \* none | server | starting | session | turn | returned
  server,           \* the number of self.process, 0 before the first
  running,          \* the servers whose process has not exited
  reading,          \* the servers whose reader task has not ended
  pending,          \* the future of the request the call awaits: none | waiting | result | error
  natives,          \* the sessions that have a thread
  loaded_threads,   \* the sessions whose thread this server has loaded
  thread_to_call,   \* per session, that is per thread
  turn_to_call,     \* the calls whose turn id is known
  asked,            \* the server the call's last request went to
  turns             \* the provider: the call's turn is none | sent | active | over

codexVars == <<pending, loaded_threads, thread_to_call, turn_to_call>>
serverVars == <<stage, server, running, reading, natives, asked, turns>>

Live == server \in running \cap reading

ServerInit ==
  /\ stage = [c \in Calls |-> "none"]
  /\ server = 0 /\ running = {} /\ reading = {}
  /\ natives = {}
  /\ asked = [c \in Calls |-> 0]
  /\ turns = [c \in Calls |-> "none"]

CodexInit ==
  /\ pending = [c \in Calls |-> "none"]
  /\ loaded_threads = {}
  /\ thread_to_call = [s \in Sessions |-> NoCall]
  /\ turn_to_call = {}

submit(c) ==
  /\ Register(c, "submitting")
  /\ stage' = [stage EXCEPT ![c] = "server"]
  /\ UNCHANGED <<codexVars, server, running, reading, natives, asked, turns>>

--------------------------------------------------------------------------------
\* Every way submit has of ending: it returns the reference to its caller.
Return(c) ==
  /\ stage' = [stage EXCEPT ![c] = "returned"]
  /\ caller' = [caller EXCEPT ![c] = "reading"]
  /\ pending' = [pending EXCEPT ![c] = "none"]

\* _fail_call from submit's handler.
StartupFails(c) ==
  /\ Return(c)
  /\ Finish([o \in {c} |-> "FAILED"])
  /\ UNCHANGED <<asked, natives, loaded_threads, thread_to_call, turns>>

\* _send raises unless the process is up; the request then waits for its answer.
Sends(c, next) ==
  /\ server \in running
  /\ stage' = [stage EXCEPT ![c] = next]
  /\ pending' = [pending EXCEPT ![c] = "waiting"]
  /\ asked' = [asked EXCEPT ![c] = server]
  /\ UNCHANGED <<caller, queues, terminal_calls, session_active_calls>>

\* From the thread to the request for a turn on it.
StartTurn(c) ==
  LET s == SessionOf[c]
  IN  /\ natives' = natives \cup {s}
      /\ loaded_threads' = loaded_threads \cup {s}
      /\ thread_to_call' = [thread_to_call EXCEPT ![s] = c]
      /\ Sends(c, "turn")
      /\ turns' = [turns EXCEPT ![c] = "sent"]

\* What submit does once _ensure_server has returned: a call that has failed meanwhile
\* returns, a thread this server has loaded is used, another is started or resumed.
WithServer(c) ==
  CASE c \in terminal_calls ->
         /\ Return(c)
         /\ UNCHANGED <<queues, terminal_calls, session_active_calls>>
         /\ UNCHANGED <<asked, natives, loaded_threads, thread_to_call, turns>>
    [] c \notin terminal_calls /\ SessionOf[c] \in natives \cap loaded_threads -> StartTurn(c)
    [] OTHER -> /\ Sends(c, "session")
                /\ UNCHANGED <<natives, loaded_threads, thread_to_call, turns>>

\* _ensure_server, under server_lock: a server that is up is used. Otherwise what is left
\* of the old process is terminated, and a new one is started and sent initialize; or it
\* cannot be started and the call fails.
EnsureServer(c) ==
  /\ stage[c] = "server"
  /\ \A o \in Calls : stage[o] # "starting"
  /\ IF Live
     THEN WithServer(c) /\ UNCHANGED <<server, running, reading>>
     ELSE \/ /\ server < MaxServers
             /\ server' = server + 1
             /\ running' = (running \ {server}) \cup {server'}
             /\ reading' = reading \cup {server'}
             /\ loaded_threads' = {}
             /\ stage' = [stage EXCEPT ![c] = "starting"]
             /\ pending' = [pending EXCEPT ![c] = "waiting"]
             /\ asked' = [asked EXCEPT ![c] = server']
             /\ UNCHANGED <<caller, queues, terminal_calls, session_active_calls>>
             /\ UNCHANGED <<natives, thread_to_call, turns>>
          \/ /\ Return(c) /\ Finish([o \in {c} |-> "FAILED"])
             /\ running' = running \ {server}
             /\ loaded_threads' = {}
             /\ UNCHANGED <<server, reading, asked, natives, thread_to_call, turns>>
  /\ UNCHANGED <<ended_by, turn_to_call>>

\* The answer to initialize, thread/start, thread/resume or turn/start reaches submit.
Answered(c) ==
  /\ pending[c] = "result"
  /\ CASE stage[c] = "starting" ->
            /\ IF server \in running THEN WithServer(c) ELSE StartupFails(c)
            /\ UNCHANGED turn_to_call
       [] stage[c] = "session" ->
            /\ IF server \in running THEN StartTurn(c)
               ELSE /\ Return(c) /\ Finish([o \in {c} |-> "FAILED"])
                    /\ natives' = natives \cup {SessionOf[c]}
                    /\ loaded_threads' = loaded_threads \cup {SessionOf[c]}
                    /\ thread_to_call' = [thread_to_call EXCEPT ![SessionOf[c]] = c]
                    /\ UNCHANGED <<asked, turns>>
            /\ UNCHANGED turn_to_call
       [] stage[c] = "turn" ->
            /\ Return(c)
            /\ turn_to_call' = turn_to_call \cup {c}
            /\ UNCHANGED <<queues, terminal_calls, session_active_calls>>
            /\ UNCHANGED <<asked, natives, loaded_threads, thread_to_call, turns>>
  /\ UNCHANGED <<ended_by, server, running, reading>>

\* The request fails, or its thirty seconds pass: a server that did not answer initialize
\* is terminated, and the call fails.
NotAnswered(c) ==
  /\ pending[c] \in {"waiting", "error"}
  /\ StartupFails(c)
  /\ running' = IF stage[c] = "starting" THEN running \ {server} ELSE running
  /\ UNCHANGED <<ended_by, server, reading, turn_to_call>>

\* The caller's task is cancelled while it waits in submit. CancelledError is no Exception:
\* the call stays open and nobody reads its stream.
Abandoned(c) ==
  /\ caller[c] = "submitting"
  /\ caller' = [caller EXCEPT ![c] = "left"]
  /\ stage' = [stage EXCEPT ![c] = "returned"]
  /\ pending' = [pending EXCEPT ![c] = "none"]
  /\ UNCHANGED <<queues, terminal_calls, session_active_calls, ended_by>>
  /\ UNCHANGED <<asked, loaded_threads, thread_to_call, turn_to_call>>
  /\ UNCHANGED <<server, running, reading, natives, turns>>

--------------------------------------------------------------------------------
\* The App Server (external): it takes up a turn it was sent, answers the requests of the
\* submit calls, and its process may die.
TakesTurn(c) ==
  /\ turns[c] = "sent" /\ asked[c] \in running \cap reading
  /\ turns' = [turns EXCEPT ![c] = "active"]
  /\ UNCHANGED <<callVars, codexVars, stage, server, running, reading, natives, asked>>

\* The reader finds the answer to a request in the server's output.
Answers(c) ==
  /\ pending[c] = "waiting" /\ asked[c] \in reading
  /\ \/ /\ stage[c] = "turn" => turns[c] # "sent"
        /\ pending' = [pending EXCEPT ![c] = "result"]
        /\ UNCHANGED turns
     \/ /\ stage[c] = "turn" => turns[c] = "sent"
        /\ pending' = [pending EXCEPT ![c] = "error"]
        /\ turns' = IF stage[c] = "turn" THEN [turns EXCEPT ![c] = "over"] ELSE turns
  /\ UNCHANGED <<callVars, asked, loaded_threads, thread_to_call, turn_to_call>>
  /\ UNCHANGED <<stage, server, running, reading, natives>>

Dies(g) ==
  /\ g \in running /\ running' = running \ {g}
  /\ UNCHANGED <<callVars, codexVars, stage, server, reading, natives, asked, turns>>

--------------------------------------------------------------------------------
\* Mutant: the thread decides before the turn.
ResolveByThread(o) == thread_to_call[SessionOf[o]]

\* _resolve_call: by the turn's id if it is known, else by its thread.
_resolve_call(o) == IF o \in turn_to_call THEN o ELSE thread_to_call[SessionOf[o]]

\* A message about the turn of call o, which the reader gives to the call it resolves to
\* unless that call has ended.
Receives(o, c) ==
  /\ turns[o] = "active" /\ asked[o] \in reading
  /\ c = _resolve_call(o)

\* _handle_notification for a message that does not end the call, and _handle_server_request,
\* which reports the approval the server asks for.
Notified(o) ==
  \E c \in Calls \ terminal_calls :
    /\ Receives(o, c)
    /\ Put(c)
    /\ UNCHANGED <<caller, ended_by, codexVars, serverVars>>

\* _handle_notification for turn/completed (an interrupted turn's CANCELLED goes the way of
\* FAILED), and for error, after which the turn still completes.
TurnEnds(o) ==
  \E c \in Calls :
    /\ Receives(o, c)
    /\ \/ /\ turns' = [turns EXCEPT ![o] = "over"]
          /\ \E terminal \in {"COMPLETED", "FAILED"} : Finish([x \in {c} |-> terminal])
       \/ /\ c \notin terminal_calls
          /\ Finish([x \in {c} |-> "FAILED"])
          /\ UNCHANGED turns
    /\ ended_by' = IF c \in terminal_calls THEN ended_by ELSE [ended_by EXCEPT ![c] = o]
    /\ UNCHANGED <<caller, codexVars, stage, server, running, reading, natives, asked>>

\* The reader's finally block, at the end of the output of its process or after a protocol
\* failure: every request that waits fails, and so does every open call, of this server or
\* of a later one.
ReaderEnds(g) ==
  /\ g \in reading
  /\ reading' = reading \ {g}
  /\ pending' = [c \in Calls |-> IF pending[c] = "waiting" THEN "error" ELSE pending[c]]
  /\ Finish([c \in {x \in Calls : Open(x)} |-> "FAILED"])
  /\ turns' = [c \in Calls |-> IF asked[c] = g /\ turns[c] # "none" THEN "over" ELSE turns[c]]
  /\ UNCHANGED <<caller, ended_by, asked, loaded_threads, thread_to_call, turn_to_call>>
  /\ UNCHANGED <<stage, server, running, natives>>

\* interrupt asks the server to end the turn and leaves the call to the server's message.
interrupt(c) ==
  /\ caller[c] = "reading"
  /\ caller' = [caller EXCEPT ![c] = "stopping"]
  /\ UNCHANGED <<queues, terminal_calls, session_active_calls, ended_by, codexVars, serverVars>>

Submitting(c) == EnsureServer(c) \/ Answered(c) \/ NotAnswered(c)

CodexNext ==
  \/ \E c \in Calls :
       \/ submit(c) \/ Submitting(c) \/ Abandoned(c) \/ interrupt(c)
       \/ TakesTurn(c) \/ Answers(c) \/ Notified(c) \/ TurnEnds(c)
       \/ Leave(c) /\ UNCHANGED <<codexVars, serverVars>>
  \/ \E g \in 1 .. MaxServers : Dies(g) \/ ReaderEnds(g)
===============================================================================
