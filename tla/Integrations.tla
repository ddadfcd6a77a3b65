----------------------------- MODULE Integrations -----------------------------
(***************************************************************************)
(* The integration surface as one system: a remote MCP server and its      *)
(* credentials, and a plugin whose required connector is the one those     *)
(* credentials are for. Clients call the managers' operations; any of them *)
(* may be lost between two awaits (a cancelled request, a dead worker).    *)
(***************************************************************************)
EXTENDS RemoteMcp, PluginManager

CONSTANT MaxEvents   \* per part of the surface: calls, lost calls, epochs and policy edits in all

VARIABLES
  menu,        \* the part of the surface this behaviour exercises
  events       \* how many of them have happened

vars == <<credVars, mcpVars, pluginVars, menu, events>>

Event == events < MaxEvents[menu] /\ events' = events + 1 /\ UNCHANGED menu

\* The states a deployment is in between calls: nothing set up, or a registered server, on
\* or off, with a discovery, and the connection its authorization type calls for.
Init ==
  /\ op = [c \in Clients |-> Idle]
  /\ job = [c \in Clients |-> NoJob]
  /\ menu \in {"remote", "plugin"}
  /\ auth \in IF menu = "remote" THEN {"NONE", "OAUTH2", "EMA"} ELSE {"OAUTH2"}
  /\ \E up \in IF menu = "remote" THEN {"none", "off", "on"} ELSE {"off"} :
       LET connected == up # "none"
           handled == connected /\ auth # "NONE"
       IN  /\ server = CASE up = "none" -> NoServer
                         [] up = "off" -> [NoServer EXCEPT !.state = "DISABLED"]
                         [] OTHER -> [NoServer EXCEPT !.state = "READY", !.enabled = TRUE]
           /\ binding = CASE up = "none" -> "none" [] up = "off" -> "off" [] OTHER -> "on"
           /\ snapshot = IF connected THEN [valid |-> TRUE, tool |-> TRUE, expires |-> 1]
                         ELSE NoSnapshot
           /\ connections = [i \in 1 .. MaxConns |->
                IF i = 1 /\ connected
                THEN [id |-> 1, status |-> "ACTIVE", handle |-> IF handled THEN 1 ELSE 0]
                ELSE NoConnection]
           /\ handles = [h \in 1 .. MaxHandles |->
                IF h = 1 /\ handled
                THEN [id |-> 1, status |-> "ACTIVE", secret |-> 1, expires |-> 1]
                ELSE NoHandle]
           /\ assertion = IF auth = "EMA" THEN [status |-> "ACTIVE", secret |-> 2, expires |-> 2]
                          ELSE NoAssertion
           /\ sealed = 2
           /\ secrets = {s \in 1 .. 2 : IF s = 1 THEN handled ELSE auth = "EMA"}
  /\ transactions = {} /\ clock = 0 /\ revoked = {}
  /\ clean = {} /\ off = FALSE
  /\ inst = [w \in Workspaces |-> NoInstallation]
  /\ versions = [v \in Versions |-> "none"]
  /\ rows = {} /\ bound = [k \in Caps |-> "none"] /\ denied = {}
  /\ events = 0

\* A client that is in no call makes one of its menu.
Call(c) ==
  /\ Event
  /\ op[c] = Idle /\ job[c] = NoJob
  /\ \/ CredentialCall(c) /\ UNCHANGED <<mcpVars, pluginVars>>
     \/ menu = "remote" /\ McpCall(c) /\ UNCHANGED pluginVars
     \/ menu = "plugin" /\ PluginCall(c) /\ UNCHANGED <<credVars, mcpVars>>

Step(c) ==
  /\ \/ CredentialStep(c) /\ UNCHANGED <<mcpVars, pluginVars>>
     \/ McpStep(c) /\ UNCHANGED pluginVars
     \/ PluginStep(c) /\ UNCHANGED <<credVars, mcpVars>>
  /\ UNCHANGED <<menu, events>>

\* The coroutine of a call ends between two awaits and nothing undoes what it wrote.
Lose(c) ==
  /\ Event
  /\ op[c] # Idle \/ job[c] # NoJob
  /\ op' = [op EXCEPT ![c] = Idle] /\ job' = [job EXCEPT ![c] = NoJob]
  /\ UNCHANGED <<auth, connections, handles, secrets, sealed, transactions, assertion, clock, revoked>>
  /\ UNCHANGED <<mcpVars, inst, versions, rows, bound, denied>>

Environment ==
  /\ Event
  /\ \/ menu = "remote" /\ Tick /\ UNCHANGED <<mcpVars, pluginVars>>
     \/ /\ menu = "plugin" /\ \E k \in Caps : EditPolicy(k)
        /\ UNCHANGED <<credVars, mcpVars>>

Next == (\E c \in Clients : Call(c) \/ Step(c) \/ Lose(c)) \/ Environment

Spec == Init /\ [][Next]_vars

=============================================================================
