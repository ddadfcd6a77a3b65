-------------------------------- MODULE Runtimes --------------------------------
(***************************************************************************)
(* The provider adapters under one contract. A behaviour is of one of them; *)
(* the calls, their streams and their callers are the same for all three.    *)
(***************************************************************************)
EXTENDS RuntimeCalls

CONSTANTS
  Layouts,      \* per adapter: the ways the calls are spread over the sessions
  MaxServers    \* bound on the server processes started

Adapters == {"claude", "codex", "opencode"}

ASSUME LayoutsAssumption == Layouts \in [Adapters -> SUBSET [Calls -> Sessions]]

VARIABLES
  adapter,
  interrupted_calls,
  task, process, terminal_message, cancelling,
  stage, server, running, reading, natives, asked, turns,
  pending, loaded_threads, thread_to_call, turn_to_call,
  native_to_call, call_natives, started_calls, timeout_tasks, aborting, fresh

Claude == INSTANCE ClaudeRuntime
Codex == INSTANCE CodexRuntime
Opencode == INSTANCE OpencodeRuntime

claudeVars == <<task, process, terminal_message, cancelling>>
serverVars == <<stage, server, running, reading, natives, asked, turns>>
codexVars == <<pending, loaded_threads, thread_to_call, turn_to_call>>
opencodeVars == <<native_to_call, call_natives, started_calls, timeout_tasks, aborting, fresh>>
vars == <<callVars, SessionOf, adapter, interrupted_calls, claudeVars, serverVars, codexVars, opencodeVars>>

Init ==
  /\ adapter \in Adapters
  /\ SessionOf \in Layouts[adapter]
  /\ interrupted_calls = {}
  /\ CallsInit
  /\ Claude!ClaudeInit /\ Codex!ServerInit /\ Codex!CodexInit /\ Opencode!OpencodeInit

InClaude(A) ==
  /\ adapter = "claude" /\ A
  /\ UNCHANGED <<adapter, SessionOf, serverVars, codexVars, opencodeVars>>

InCodex(A) ==
  /\ adapter = "codex" /\ A
  /\ UNCHANGED <<adapter, SessionOf, interrupted_calls, claudeVars, opencodeVars>>

InOpencode(A) ==
  /\ adapter = "opencode" /\ A
  /\ UNCHANGED <<adapter, SessionOf, claudeVars, codexVars>>

Next ==
  \/ InClaude(Claude!ClaudeNext)
  \/ InCodex(Codex!CodexNext)
  \/ InOpencode(Opencode!OpencodeNext)

\* The event loop runs what is ready and timers fire. A process that was killed exits, the
\* reader of one that is gone ends, and the App Server, whose turns the adapter puts no
\* limit on, finishes a turn it has taken up.
Fairness ==
  \A c \in Calls :
    /\ WF_vars(InClaude(Claude!Step(c)))
    /\ WF_vars(InClaude(Claude!Timeout(c)))
    /\ WF_vars(InClaude(task[c] = "stopping" /\ Claude!Exit(c)))
    /\ WF_vars(InCodex(Codex!Submitting(c)))
    /\ WF_vars(InCodex(Codex!TurnEnds(c)))
    /\ WF_vars(InOpencode(Opencode!Submitting(c)))
    /\ WF_vars(InOpencode(Opencode!Timeout(c)))

Spec == Init /\ [][Next]_vars /\ Fairness

--------------------------------------------------------------------------------
\* A terminal event that comes from the provider is about the call's own work. The one
\* exception is work the adapter has lost sight of: on Codex a turn whose turn/start it
\* gave up on, so that the turn's id is unknown and its messages fall to the thread's
\* next call; on opencode a prompt whose call the adapter itself ended, and an idle that
\* belongs to the creation of a session no prompt of which has been worked on.
TerminalIsOwn ==
  \A c \in Calls :
    LET o == ended_by[c]
    IN  /\ o \in Calls \ {c} =>
             \/ adapter = "codex" /\ o \notin turn_to_call
             \/ adapter = "opencode" /\ ended_by[o] # o
        /\ o = NoPrompt => \A x \in InSession(c) : x < c => ended_by[x] = NoCall

\* The calls whose callers read their streams all end: no order of timeouts, interrupts, lost
\* answers and dying servers leaves one of them open.
CallEnds == []<>(\A c \in Calls : caller[c] = "reading" => c \in terminal_calls)
=================================================================================
