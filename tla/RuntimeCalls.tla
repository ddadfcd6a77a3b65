----------------------------- MODULE RuntimeCalls -----------------------------
(***************************************************************************)
(* What the three provider adapters share: one event stream per call, the  *)
(* set of calls that have ended, one active call per session, and the      *)
(* caller, RunManager._runtime_call, which makes the calls of a session    *)
(* one after the other and reads each stream to its end.                   *)
(***************************************************************************)
EXTENDS Integers, Sequences

CONSTANTS
  Sessions,      \* the logical sessions callers hold
  Calls,         \* numbered in the order a caller makes them on a session
  MaxEvents      \* bound on the non-terminal events of one stream

ASSUME CallsAssumption == Calls \subseteq Nat \ {0}

NoCall == 0
NoPrompt == -1   \* in ended_by: the message was about no call's work

VARIABLES
  SessionOf,       \* the session each call is made on, fixed
  caller,          \* idle | submitting | reading | stopping (interrupt asked for) | left
  queues,          \* everything put on the call's queue so far; END is the None that ends it
  terminal_calls,
  session_active_calls,
  ended_by         \* history: the call whose turn the provider's terminal message was about

callVars == <<caller, queues, terminal_calls, session_active_calls, ended_by>>

Terminals == {"COMPLETED", "FAILED", "CANCELLED"}
InSession(c) == {o \in Calls : SessionOf[o] = SessionOf[c]}
Open(c) == caller[c] # "idle" /\ c \notin terminal_calls

CallsInit ==
  /\ caller = [c \in Calls |-> "idle"]
  /\ queues = [c \in Calls |-> <<>>]
  /\ terminal_calls = {}
  /\ session_active_calls = [s \in Sessions |-> NoCall]
  /\ ended_by = [c \in Calls |-> NoCall]

\* The synchronous prefix of every adapter's submit: it refuses a session that has an open
\* call and registers the new one before its first await. The caller is done with the
\* calls it made before on the session.
Register(c, then) ==
  /\ caller[c] = "idle"
  /\ \A o \in InSession(c) : o < c => caller[o] = "left"
  /\ session_active_calls[SessionOf[c]] \in terminal_calls \cup {NoCall}
  /\ session_active_calls' = [session_active_calls EXCEPT ![SessionOf[c]] = c]
  /\ caller' = [caller EXCEPT ![c] = then]
  /\ UNCHANGED <<queues, terminal_calls, ended_by>>

\* _put_event for any event that does not end the call (started, progress, tool, file,
\* approval): the queue is unbounded, so the put does not wait.
Put(c) ==
  /\ Len(queues[c]) < MaxEvents
  /\ queues' = [queues EXCEPT ![c] = Append(@, "EVENT")]
  /\ UNCHANGED <<terminal_calls, session_active_calls>>

\* _finish_call for each call of ends: the first terminal event wins, ends the stream and
\* frees the session.
Finish(ends) ==
  LET new == DOMAIN ends \ terminal_calls
  IN  /\ terminal_calls' = terminal_calls \cup new
      /\ queues' = [c \in Calls |-> IF c \in new THEN queues[c] \o <<ends[c], "END">> ELSE queues[c]]
      /\ session_active_calls' =
           [s \in Sessions |-> IF session_active_calls[s] \in new THEN NoCall
                               ELSE session_active_calls[s]]

\* The caller has read the stream to its end, or has interrupted the call and waited long
\* enough (five seconds after the deadline; a cancelled run does not wait).
Leave(c) ==
  /\ \/ caller[c] \in {"reading", "stopping"} /\ c \in terminal_calls
     \/ caller[c] = "stopping"
  /\ caller' = [caller EXCEPT ![c] = "left"]
  /\ UNCHANGED <<queues, terminal_calls, session_active_calls, ended_by>>

--------------------------------------------------------------------------------
\* Whatever ends a call (the provider, a timeout, an interrupt, a dead server, several of
\* them at once), its stream has one terminal event, that event comes last, and None
\* follows it at once; and an open call holds its session's slot, so no second call can
\* start beside it however late an earlier call of the session cleans up.
StreamsSound ==
  \A c \in Calls :
    LET q == queues[c]
        n == Len(q)
    IN  /\ IF c \in terminal_calls
           THEN /\ n >= 2 /\ q[n - 1] \in Terminals /\ q[n] = "END"
                /\ \A i \in 1 .. n - 2 : q[i] = "EVENT"
           ELSE \A i \in 1 .. n : q[i] = "EVENT"
        /\ Open(c) => session_active_calls[SessionOf[c]] = c
===============================================================================
