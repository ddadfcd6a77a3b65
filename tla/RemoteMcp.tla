------------------------------ MODULE RemoteMcp ------------------------------
(***************************************************************************)
(* One remote MCP server: registration, discovery, enabling, disabling and *)
(* tool calls (mcp/manager.py RemoteMcpManager), the gateway's fetch of a  *)
(* connection credential (governance.py) and the resolver's decision       *)
(* whether the mapped capability may run (resolver.py). op[c].server is    *)
(* the row client c read at the start of its call and later writes back.   *)
(***************************************************************************)
EXTENDS Credentials, Sequences

CONSTANTS
  FailureThreshold,   \* health_policy.failure_threshold
  Listings            \* tool lists a discovery may return: sequences of [name, wellFormed]

VARIABLES
  server,    \* the McpServerRow; state "none" before registration
  binding,   \* the capability binding of the mapped tool: none, on or off
  snapshot,  \* the newest discovery snapshot: validity, mapped tool present, expiry
  clean,     \* history: the disables in flight that no enable has overlapped
  off        \* history: such a disable finished, and no enable has begun since

mcpVars == <<server, binding, snapshot, clean, off>>

NoSnapshot == [valid |-> FALSE, tool |-> FALSE, expires |-> 0]

Executable(s) == s.enabled /\ s.state \in {"READY", "DEGRADED"}
CircuitOpen(s) == s.circuit > clock
upsert_mcp_server(s) == server' = s
Enabling == {c \in Clients : op[c].call = "enable"}

\* A call begins: the server row is read and a first check made.
Begin(c, call, pc, then) ==
  /\ At(c, "idle")
  /\ op' = [op EXCEPT ![c] = [Idle EXCEPT !.at = pc, !.call = call, !.then = then,
                                          !.server = server]]

CredentialsUnchanged ==
  UNCHANGED <<auth, connections, handles, secrets, sealed, transactions, assertion, clock, revoked>>

-----------------------------------------------------------------------------
\* register: the server row, disabled; a connector without authorization also gets the
\* workspace's connection, in a second write.
register(c) ==
  /\ server.state = "none"
  /\ At(c, "idle")
  /\ Go(c, IF auth = "NONE" THEN "register_connection" ELSE "idle")
  /\ upsert_mcp_server([NoServer EXCEPT !.state = "DISABLED"])
  /\ UNCHANGED <<binding, snapshot, clean, off>> /\ CredentialsUnchanged

RegisterConnection(c) ==
  /\ At(c, "register_connection")
  /\ connections' = IF Existing # {} THEN connections
                    ELSE [connections EXCEPT ![1] = [id |-> 1, status |-> "ACTIVE", handle |-> 0]]
  /\ Return(c)
  /\ UNCHANGED <<auth, handles, secrets, sealed, transactions, assertion, clock, revoked>>
  /\ UNCHANGED mcpVars

\* _authorization: no credential for auth NONE; an enterprise connection that is not
\* usable is acquired first.
Authorize == CASE auth = "NONE" -> "snapshot"
               [] auth = "EMA" -> "authorization_ema"
               [] OTHER -> "authorization"

refresh_discovery(c) ==
  /\ server.state # "none" /\ ~CircuitOpen(server)
  /\ \E force \in BOOLEAN :
       Begin(c, "discover", IF auth # "NONE" THEN Authorize
                            ELSE IF force THEN "discover" ELSE "snapshot",
             IF force THEN "discover" ELSE "snapshot")
  /\ UNCHANGED <<server, binding, snapshot, clean, off>> /\ CredentialsUnchanged

AuthorizationEma(c) ==
  /\ At(c, "authorization_ema")
  /\ op' = [op EXCEPT ![c].conn = Select,
              ![c].at = IF Usable(Select) THEN "authorization" ELSE "ensure_access"]
  /\ UNCHANGED mcpVars /\ CredentialsUnchanged

Authorization(c) ==
  /\ At(c, "authorization")
  /\ op' = [op EXCEPT ![c].conn = Select,
              ![c].at = IF Usable(Select) /\ Select.handle # 0 THEN "get_handle"
                        ELSE "mark_connection"]
  /\ UNCHANGED mcpVars /\ CredentialsUnchanged

\* _fresh_snapshot: a cached discovery ends refresh_discovery, and lets enable go on when it
\* is valid, holds the mapped tool and the published capability has not changed.
Snapshot(c) ==
  /\ At(c, "snapshot")
  /\ LET fresh == snapshot.expires > clock
     IN  IF op[c].call = "discover"
         THEN IF fresh THEN Return(c) ELSE Go(c, "discover")
         ELSE \/ fresh /\ snapshot.valid /\ snapshot.tool /\ Go(c, "put_binding")
              \/ Return(c)
  /\ UNCHANGED mcpVars /\ CredentialsUnchanged

\* client.discover after its retries: refused, unreachable or oversized, or metadata.
Discover(c) ==
  /\ At(c, "discover")
  /\ \/ Go(c, "mark_connection")
     \/ Go(c, "record_failure")
     \/ Go(c, "save_snapshot")
  /\ UNCHANGED mcpVars /\ CredentialsUnchanged

\* _validated_tools: a tool listed twice or with a malformed schema is an error and is left
\* out, as is one the server's patterns do not admit, without an error.
First(tools, i) == \A j \in 1 .. i - 1 : tools[j].name # tools[i].name
_validated_tools(tools) ==
  LET Admitted(i) == First(tools, i) /\ tools[i].name = "mapped"
  IN  [valid |-> \A i \in DOMAIN tools : First(tools, i) /\ (Admitted(i) => tools[i].wellFormed),
       tool |-> \E i \in DOMAIN tools : Admitted(i) /\ tools[i].wellFormed]

\* The newest snapshot. (An unsupported protocol version has the outcome of a tool listed twice.)
SaveSnapshot(c) ==
  /\ At(c, "save_snapshot")
  /\ \E tools \in Listings :
       LET checked == _validated_tools(tools)
       IN  /\ snapshot' = [valid |-> checked.valid, tool |-> checked.tool, expires |-> clock + 1]
           /\ Go(c, IF checked.valid THEN "refreshed" ELSE "schema_error")
  /\ UNCHANGED <<server, binding, clean, off>> /\ CredentialsUnchanged

\* The row is rebuilt from the copy read before the discovery.
Refreshed(c) ==
  /\ At(c, "refreshed") \/ At(c, "schema_error")
  /\ upsert_mcp_server([op[c].server EXCEPT !.failures = 0, !.circuit = 0, !.state =
       CASE At(c, "schema_error") -> "SCHEMA_ERROR"
         [] op[c].server.enabled -> "READY"
         [] OTHER -> "DISABLED"])
  /\ Return(c)
  /\ UNCHANGED <<binding, snapshot, clean, off>> /\ CredentialsUnchanged

-----------------------------------------------------------------------------
enable(c) ==
  /\ server.state # "none"
  /\ ~(server.enabled /\ server.state = "READY")
  /\ Begin(c, "enable", Authorize, "snapshot")
  /\ off' = FALSE /\ clean' = {}
  /\ UNCHANGED <<server, binding, snapshot>> /\ CredentialsUnchanged

PutBinding(c) ==
  /\ At(c, "put_binding")
  /\ binding' = "on"
  /\ Go(c, "put_server")
  /\ UNCHANGED <<server, snapshot, clean, off>> /\ CredentialsUnchanged

EnableServer(c) ==
  /\ At(c, "put_server")
  /\ upsert_mcp_server([op[c].server EXCEPT !.enabled = TRUE, !.state = "READY"])
  /\ Return(c)
  /\ UNCHANGED <<binding, snapshot, clean, off>> /\ CredentialsUnchanged

\* disable returns at once on a row that is already disabled; else it turns the server's
\* bindings off before it writes its copy of the row.
disable(c) ==
  /\ server.state # "none"
  /\ server.enabled \/ server.state # "DISABLED"
  /\ Begin(c, "disable", "drop_binding", "idle")
  /\ clean' = IF Enabling = {} THEN clean \union {c} ELSE clean \ {c}
  /\ UNCHANGED <<server, binding, snapshot, off>> /\ CredentialsUnchanged

DropBinding_Skipped(c) ==
  /\ At(c, "drop_binding")
  /\ Go(c, "disable_server")
  /\ UNCHANGED <<server, binding, snapshot, clean, off>> /\ CredentialsUnchanged

DropBinding(c) ==
  /\ At(c, "drop_binding")
  /\ binding' = IF binding = "on" THEN "off" ELSE binding
  /\ Go(c, "disable_server")
  /\ UNCHANGED <<server, snapshot, clean, off>> /\ CredentialsUnchanged

DisableServer(c) ==
  /\ At(c, "disable_server")
  /\ upsert_mcp_server([op[c].server EXCEPT !.enabled = FALSE, !.state = "DISABLED"])
  /\ off' = (off \/ c \in clean) /\ clean' = clean \ {c}
  /\ Return(c)
  /\ UNCHANGED <<binding, snapshot>> /\ CredentialsUnchanged

-----------------------------------------------------------------------------
(* Resolution, and a call of the mapped tool.                              *)

Resolves ==
  /\ binding = "on"
  /\ Executable(server) /\ ~CircuitOpen(server)
  /\ Usable(Select)

\* The gateway resolved the capability to a connection; _connection_credentials reads that
\* connection again.
execute(c) ==
  /\ At(c, "idle") /\ Resolves
  /\ op' = [op EXCEPT ![c] = [Idle EXCEPT !.call = "execute", !.conn = Select,
              !.then = "load_server",
              !.at = IF auth = "NONE" THEN "load_server" ELSE "get_connection"]]
  /\ UNCHANGED <<server, binding, snapshot, clean, off>> /\ CredentialsUnchanged

GetConnection(c) ==
  /\ At(c, "get_connection")
  /\ LET conn == connections[op[c].conn.id]
     IN  op' = [op EXCEPT ![c].conn = conn,
                  ![c].at = IF conn.handle = 0 THEN "late_server" ELSE "get_handle"]
  /\ UNCHANGED mcpVars /\ CredentialsUnchanged

\* RemoteMcpManager.execute reads the server row again and refuses one that is not ready.
LoadServer(c) ==
  /\ At(c, "load_server")
  /\ IF Executable(server) /\ ~CircuitOpen(server)
     THEN op' = [op EXCEPT ![c].at = "call_tool", ![c].server = server]
     ELSE Return(c)
  /\ UNCHANGED <<server, binding, snapshot, clean, off>> /\ CredentialsUnchanged

CallTool(c) ==
  /\ At(c, "call_tool")
  /\ Return(c) \/ Go(c, "late_connection") \/ Go(c, "record_failure")
  /\ UNCHANGED mcpVars /\ CredentialsUnchanged

\* mark_auth_required: the server is loaded again, then the connection.
LateServer(c) ==
  /\ At(c, "late_server")
  /\ op' = [op EXCEPT ![c].at = "late_connection", ![c].server = server]
  /\ UNCHANGED <<server, binding, snapshot, clean, off>> /\ CredentialsUnchanged

LateConnection(c) ==
  /\ At(c, "late_connection")
  /\ op' = [op EXCEPT ![c].at = "mark_connection", ![c].conn = connections[op[c].conn.id]]
  /\ UNCHANGED mcpVars /\ CredentialsUnchanged

MarkConnection_Forced(c) ==
  /\ At(c, "mark_connection")
  /\ connections' = IF op[c].conn.id = 0 THEN connections
                    ELSE [connections EXCEPT ![op[c].conn.id] =
                            [op[c].conn EXCEPT !.status = "REAUTH_REQUIRED"]]
  /\ Go(c, "mark_server")
  /\ UNCHANGED <<auth, handles, secrets, sealed, transactions, assertion, clock, revoked>>
  /\ UNCHANGED mcpVars

\* _mark_auth_required: the connection, unless the copy is of a revoked one, then the server.
MarkConnection(c) ==
  /\ At(c, "mark_connection")
  /\ connections' = IF op[c].conn.id = 0 \/ op[c].conn.status = "REVOKED" THEN connections
                    ELSE [connections EXCEPT ![op[c].conn.id] =
                            [op[c].conn EXCEPT !.status = "REAUTH_REQUIRED"]]
  /\ Go(c, "mark_server")
  /\ UNCHANGED <<auth, handles, secrets, sealed, transactions, assertion, clock, revoked>>
  /\ UNCHANGED mcpVars

MarkServer(c) ==
  /\ At(c, "mark_server")
  /\ upsert_mcp_server([op[c].server EXCEPT !.state = "AUTH_REQUIRED"])
  /\ Return(c)
  /\ UNCHANGED <<binding, snapshot, clean, off>> /\ CredentialsUnchanged

\* _record_failure: below the threshold the server is UNREACHABLE; at it, DEGRADED with
\* the circuit open.
RecordFailure(c) ==
  /\ At(c, "record_failure")
  /\ LET failures == op[c].server.failures + 1
         tripped == failures >= FailureThreshold
     IN  upsert_mcp_server([op[c].server EXCEPT !.failures = failures,
                              !.state = IF tripped THEN "DEGRADED" ELSE "UNREACHABLE",
                              !.circuit = IF tripped THEN clock + 1 ELSE 0])
  /\ Return(c)
  /\ UNCHANGED <<binding, snapshot, clean, off>> /\ CredentialsUnchanged

-----------------------------------------------------------------------------
McpCall(c) == register(c) \/ refresh_discovery(c) \/ enable(c) \/ disable(c) \/ execute(c)

McpStep(c) ==
  \/ RegisterConnection(c) \/ AuthorizationEma(c) \/ Authorization(c) \/ Snapshot(c)
  \/ Discover(c) \/ SaveSnapshot(c) \/ Refreshed(c)
  \/ PutBinding(c) \/ EnableServer(c) \/ DropBinding(c) \/ DisableServer(c)
  \/ GetConnection(c) \/ LoadServer(c) \/ CallTool(c) \/ LateServer(c) \/ LateConnection(c)
  \/ MarkConnection(c) \/ MarkServer(c) \/ RecordFailure(c)

-----------------------------------------------------------------------------
\* Once a disable that no enable overlapped has finished, and until somebody calls enable,
\* the mapped capability does not resolve, although discovery, failure records and
\* re-authorization marks that read the row before the disable write it back enabled
\* (mcp/manager.py disable, resolver.py).
DisabledStaysOff == off => ~Resolves

=============================================================================
