----------------------------- MODULE Credentials -----------------------------
(***************************************************************************)
(* Stored credentials for one connector of one principal: the OAuth        *)
(* connection flow (connections.py), the token broker and its secret       *)
(* records (token_broker.py, secrets_store.py) and enterprise-managed      *)
(* authorization from a retained identity assertion (enterprise_auth.py).  *)
(*                                                                         *)
(* Every operation is a coroutine that reads a row, awaits, and later      *)
(* writes back the copy it took: op[c].at names the awaited call client c  *)
(* is in, and an action is that call's effect with the code up to the next *)
(* await. Nothing locks a row across awaits, so copies can be stale.       *)
(* Times are epochs of `clock`; a token, assertion or circuit dated e is   *)
(* over once clock >= e.                                                   *)
(***************************************************************************)
EXTENDS Naturals, FiniteSets, FiniteSetsExt

CONSTANTS
  Clients,      \* coroutines that may run at once
  MaxConns,     \* connection rows
  MaxHandles,   \* token handles ever issued
  MaxSecrets,   \* secret records ever sealed
  MaxClock      \* epochs that may pass

VARIABLES
  op,           \* op[c]: the operation client c is in
  auth,         \* the connector's auth_type
  connections,  \* ConnectionRow by id; status "none" is no row
  handles,      \* TokenHandleRow by id
  secrets,      \* keys of the secret records that exist
  sealed,       \* how many secret records were ever sealed
  transactions, \* OAuth transactions not consumed: the connection each is for, 0 for a new one
  assertion,    \* the principal's retained identity assertion
  clock,
  revoked       \* history: connections revoked while no other call was in flight

credVars == <<op, auth, connections, handles, secrets, sealed, transactions,
              assertion, clock, revoked>>

NoConnection == [id |-> 0, status |-> "none", handle |-> 0]
NoHandle == [id |-> 0, status |-> "none", secret |-> 0, expires |-> 0]
NoAssertion == [status |-> "none", secret |-> 0, expires |-> 0]
NoServer == [state |-> "none", enabled |-> FALSE, failures |-> 0, circuit |-> 0]

\* A client between calls. conn: the caller's copy of the connection; mine: ensure_access's
\* own; server: the caller's copy of the MCP server row; then: where the caller goes on once
\* it holds access material; why: what a token is being acquired for.
Idle == [at |-> "idle", call |-> "none", then |-> "idle", why |-> "none",
         conn |-> NoConnection, mine |-> NoConnection, handle |-> NoHandle,
         secret |-> 0, target |-> 0, retained |-> NoAssertion, server |-> NoServer]

At(c, pc) == op[c].at = pc
Go(c, pc) == op' = [op EXCEPT ![c].at = pc]
Return(c) == op' = [op EXCEPT ![c] = Idle]
Quiet(c) == \A d \in Clients \ {c} : op[d] = Idle

Usable(conn) == conn.status \in {"ACTIVE", "DEGRADED"}
Existing == {i \in 1 .. MaxConns : connections[i].status # "none"}

\* The lowest usable connection of the principal, else the lowest one.
Select ==
  LET usable == {i \in Existing : Usable(connections[i])}
      pool == IF usable # {} THEN usable ELSE Existing
  IN  IF pool = {} THEN NoConnection ELSE connections[Min(pool)]

upsert_connection(conn) == connections' = [connections EXCEPT ![conn.id] = conn]
upsert_token_handle(h) == handles' = [handles EXCEPT ![h.id] = h]

\* EnvelopeSecretStore.seal makes a new key for each record it seals.
Seal(c, pc) ==
  /\ sealed < MaxSecrets
  /\ sealed' = sealed + 1
  /\ secrets' = secrets \union {sealed + 1}
  /\ op' = [op EXCEPT ![c].at = pc, ![c].secret = sealed + 1]

FreeConnection == IF Existing = 1 .. MaxConns THEN 0
                  ELSE Min((1 .. MaxConns) \ Existing)
Issued == {h \in 1 .. MaxHandles : handles[h].status # "none"}

-----------------------------------------------------------------------------
(* Connecting and revoking: ConnectionService.                             *)

\* begin: a transaction to connect (target 0) or to re-authorize a connection.
begin(c, target) ==
  /\ At(c, "idle") /\ auth = "OAUTH2"
  /\ target \in {0} \union Existing
  /\ transactions' = transactions \union {target}
  /\ UNCHANGED <<op, auth, connections, handles, secrets, sealed, assertion, clock, revoked>>

\* complete: consume_oauth_transaction lets one caller take the transaction.
complete(c) ==
  /\ At(c, "idle") /\ auth = "OAUTH2"
  /\ \E target \in transactions :
       /\ transactions' = transactions \ {target}
       /\ op' = [op EXCEPT ![c] = [Idle EXCEPT !.at = "exchange_code", !.call = "complete",
                                               !.target = target]]
       /\ revoked' = revoked \ {target}
  /\ UNCHANGED <<auth, connections, handles, secrets, sealed, assertion, clock>>

ExchangeCode(c) ==
  /\ At(c, "exchange_code")
  /\ Go(c, "store_secret") \/ Return(c)
  /\ UNCHANGED <<auth, connections, handles, secrets, sealed, transactions, assertion, clock, revoked>>

\* store_authorization: the sealed secret first, then the handle that names it.
StoreSecret(c) ==
  /\ At(c, "store_secret")
  /\ Seal(c, "store_handle")
  /\ UNCHANGED <<auth, connections, handles, transactions, assertion, clock, revoked>>

StoreHandle(c) ==
  /\ At(c, "store_handle") /\ Issued # 1 .. MaxHandles
  /\ LET fresh == [id |-> Min((1 .. MaxHandles) \ Issued), status |-> "ACTIVE",
                   secret |-> op[c].secret, expires |-> clock + 1]
         next == CASE op[c].call = "complete" -> "complete_connection"
                   [] op[c].mine.handle = 0 -> "ensure_connection"
                   [] OTHER -> "superseded"
     IN  /\ upsert_token_handle(fresh)
         /\ op' = [op EXCEPT ![c].at = next, ![c].target =
                     IF op[c].call = "complete" THEN @ ELSE fresh.id,
                     ![c].handle = fresh]
  /\ UNCHANGED <<auth, connections, secrets, sealed, transactions, assertion, clock, revoked>>

CompleteConnection(c) ==
  /\ At(c, "complete_connection")
  /\ LET id == IF op[c].target \in Existing THEN op[c].target ELSE FreeConnection
     IN  /\ id # 0
         /\ upsert_connection([id |-> id, status |-> "ACTIVE", handle |-> op[c].handle.id])
  /\ Return(c)
  /\ UNCHANGED <<auth, handles, secrets, sealed, transactions, assertion, clock, revoked>>

\* ConnectionService.revoke: the caller's copy of the row is what is written at the end.
revoke(c, i) ==
  /\ At(c, "idle") /\ i \in Existing /\ auth # "NONE"
  /\ op' = [op EXCEPT ![c] = [Idle EXCEPT !.call = "revoke", !.conn = connections[i],
              !.at = IF connections[i].handle = 0 THEN "revoke_connection" ELSE "revoke_handle"]]
  /\ UNCHANGED <<auth, connections, handles, secrets, sealed, transactions, assertion, clock, revoked>>

RevokeHandle(c) ==
  /\ At(c, "revoke_handle")
  /\ op' = [op EXCEPT ![c].at = "delete_secret", ![c].handle = handles[op[c].conn.handle]]
  /\ UNCHANGED <<auth, connections, handles, secrets, sealed, transactions, assertion, clock, revoked>>

\* TokenBroker.revoke: the provider is asked first (its answer is ignored), then the
\* secret record goes and the handle is marked.
DeleteSecret(c) ==
  /\ At(c, "delete_secret")
  /\ secrets' = secrets \ {op[c].handle.secret}
  /\ Go(c, "mark_revoked")
  /\ UNCHANGED <<auth, connections, handles, sealed, transactions, assertion, clock, revoked>>

MarkRevoked(c) ==
  /\ At(c, "mark_revoked")
  /\ upsert_token_handle([op[c].handle EXCEPT !.status = "REVOKED"])
  /\ Go(c, IF op[c].call = "revoke" THEN "revoke_connection" ELSE "ensure_connection")
  /\ UNCHANGED <<auth, connections, secrets, sealed, transactions, assertion, clock, revoked>>

RevokeConnection(c) ==
  /\ At(c, "revoke_connection")
  /\ upsert_connection([op[c].conn EXCEPT !.status = "REVOKED"])
  /\ revoked' = IF Quiet(c) THEN revoked \union {op[c].conn.id} ELSE revoked
  /\ Return(c)
  /\ UNCHANGED <<auth, handles, secrets, sealed, transactions, assertion, clock>>

-----------------------------------------------------------------------------
(* Access material: EncryptedTokenBroker. The caller has put its           *)
(* connection in op[c].conn; `then` is where it goes on, AccessFailed what *)
(* an error does.                                                          *)

\* A call that found no credential loads server and connection again to mark them
\* (mark_auth_required); discovery and enable mark the copies they hold.
AccessFailed(c) == IF op[c].call = "execute" THEN "late_server" ELSE "mark_connection"

\* get_token_handle, then the checks of get_access_material.
GetHandle(c) ==
  /\ At(c, "get_handle")
  /\ LET h == handles[op[c].conn.handle]
     IN  op' = [op EXCEPT ![c].handle = h,
                  ![c].at = CASE h.status # "ACTIVE" -> AccessFailed(c)
                              [] h.expires <= clock -> "open_stale"
                              [] OTHER -> "open"]
  /\ UNCHANGED <<auth, connections, handles, secrets, sealed, transactions, assertion, clock, revoked>>

Open(c) ==
  /\ At(c, "open")
  /\ Go(c, IF op[c].handle.secret \in secrets THEN op[c].then ELSE AccessFailed(c))
  /\ UNCHANGED <<auth, connections, handles, secrets, sealed, transactions, assertion, clock, revoked>>

\* refresh: with a refresh token the provider is asked, without one (enterprise
\* connectors) the token is acquired again.
OpenStale(c) ==
  /\ At(c, "open_stale")
  /\ Go(c, CASE op[c].handle.secret \notin secrets -> AccessFailed(c)
             [] auth = "EMA" -> "reacquire"
             [] OTHER -> "refresh")
  /\ UNCHANGED <<auth, connections, handles, secrets, sealed, transactions, assertion, clock, revoked>>

Refresh(c) ==
  /\ At(c, "refresh")
  /\ Go(c, "reseal_secret") \/ Go(c, "mark_stale")
  /\ UNCHANGED <<auth, connections, handles, secrets, sealed, transactions, assertion, clock, revoked>>

\* ERROR when the provider rejects the refresh, EXPIRED when nothing can be acquired.
MarkStale(c) ==
  /\ At(c, "mark_stale")
  /\ upsert_token_handle([op[c].handle EXCEPT !.status =
                            IF auth = "EMA" THEN "EXPIRED" ELSE "ERROR"])
  /\ Go(c, AccessFailed(c))
  /\ UNCHANGED <<auth, connections, secrets, sealed, transactions, assertion, clock, revoked>>

ResealSecret(c) ==
  /\ At(c, "reseal_secret")
  /\ Seal(c, "reseal_handle")
  /\ UNCHANGED <<auth, connections, handles, transactions, assertion, clock, revoked>>

ResealHandle(c) ==
  /\ At(c, "reseal_handle")
  /\ LET h == [op[c].handle EXCEPT !.secret = op[c].secret, !.status = "ACTIVE",
                                   !.expires = clock + 1]
     IN  /\ upsert_token_handle(h)
         /\ op' = [op EXCEPT ![c].handle = h, ![c].at = "open"]
  /\ UNCHANGED <<auth, connections, secrets, sealed, transactions, assertion, clock, revoked>>

-----------------------------------------------------------------------------
(* Enterprise-managed authorization: EnterpriseAuthManager.                *)

\* The principal's first connection; a revoked one refuses, none yet makes a PENDING one.
ConnectionFor ==
  IF Existing = {} THEN [NoConnection EXCEPT !.status = "PENDING"]
  ELSE connections[Min(Existing)]

reacquire(c) ==
  /\ At(c, "reacquire")
  /\ LET conn == ConnectionFor
     IN  op' = [op EXCEPT ![c].why = "renew",
                  ![c].at = IF conn.status = "REVOKED" \/ conn.handle # op[c].handle.id
                            THEN "mark_stale" ELSE "get_assertion"]
  /\ UNCHANGED <<auth, connections, handles, secrets, sealed, transactions, assertion, clock, revoked>>

ensure_access(c) ==
  /\ At(c, "ensure_access")
  /\ op' = [op EXCEPT ![c].why = "ensure", ![c].mine = ConnectionFor,
              ![c].at = IF ConnectionFor.status = "REVOKED" THEN "mark_connection"
                        ELSE "get_assertion"]
  /\ UNCHANGED <<auth, connections, handles, secrets, sealed, transactions, assertion, clock, revoked>>

\* What a refused acquisition leads to: an expired handle, or the caller's error path.
Refused(c) == IF op[c].why = "renew" THEN "mark_stale" ELSE "mark_connection"

GetAssertion(c) ==
  /\ At(c, "get_assertion")
  /\ op' = [op EXCEPT ![c].retained = assertion,
              ![c].at = CASE assertion.status # "ACTIVE" -> Refused(c)
                          [] assertion.expires <= clock -> "expire_assertion"
                          [] OTHER -> "open_assertion"]
  /\ UNCHANGED <<auth, connections, handles, secrets, sealed, transactions, assertion, clock, revoked>>

ExpireAssertion(c) ==
  /\ At(c, "expire_assertion")
  /\ assertion' = [op[c].retained EXCEPT !.status = "EXPIRED"]
  /\ Go(c, Refused(c))
  /\ UNCHANGED <<auth, connections, handles, secrets, sealed, transactions, clock, revoked>>

OpenAssertion(c) ==
  /\ At(c, "open_assertion")
  /\ Go(c, IF op[c].retained.secret \in secrets THEN "exchange" ELSE Refused(c))
  /\ UNCHANGED <<auth, connections, handles, secrets, sealed, transactions, assertion, clock, revoked>>

\* _validate_assertion: time has passed since the row was read; the token names its issuer
\* and this client, or configuration changed since the login.
ValidAssertion(a, configured) == configured /\ a.expires > clock

\* _validate_grant: from the assertion's issuer, for the configured audience, not expired.
ValidGrant(g) == g.issuer = "idp" /\ g.addressed /\ g.expires > clock

\* The identity provider is asked for a grant, and the grant checked.
Exchange(c) ==
  /\ At(c, "exchange")
  /\ \/ \E configured \in BOOLEAN,
           g \in [issuer : {"idp", "other"}, addressed : BOOLEAN, expires : {clock, clock + 1}] :
          Go(c, IF ValidAssertion(op[c].retained, configured) /\ ValidGrant(g)
                THEN "grant" ELSE Refused(c))
     \/ Go(c, Refused(c))
  /\ UNCHANGED <<auth, connections, handles, secrets, sealed, transactions, assertion, clock, revoked>>

\* The connector's authorization server turns the grant into a token, or refuses.
Grant(c) ==
  /\ At(c, "grant")
  /\ \/ Go(c, IF op[c].why = "renew" THEN "reseal_secret" ELSE "store_secret")
     \/ Go(c, Refused(c))
  /\ UNCHANGED <<auth, connections, handles, secrets, sealed, transactions, assertion, clock, revoked>>

\* ensure_access destroys the credential its connection had before.
Superseded(c) ==
  /\ At(c, "superseded")
  /\ op' = [op EXCEPT ![c].at = "delete_secret", ![c].handle = handles[op[c].mine.handle]]
  /\ UNCHANGED <<auth, connections, handles, secrets, sealed, transactions, assertion, clock, revoked>>

EnsureConnection(c) ==
  /\ At(c, "ensure_connection")
  /\ LET id == IF op[c].mine.id # 0 THEN op[c].mine.id ELSE FreeConnection
     IN  /\ id # 0
         /\ upsert_connection([id |-> id, status |-> "ACTIVE", handle |-> op[c].target])
  /\ Go(c, "authorization")
  /\ UNCHANGED <<auth, handles, secrets, sealed, transactions, assertion, clock, revoked>>

\* retain_assertion at login, revoke_for_session at logout; the principal has one session
\* at a time.
retain_assertion(c) ==
  /\ At(c, "idle") /\ auth = "EMA" /\ assertion.status # "ACTIVE"
  /\ sealed < MaxSecrets
  /\ sealed' = sealed + 1
  /\ secrets' = secrets \union {sealed + 1}
  /\ op' = [op EXCEPT ![c] = [Idle EXCEPT !.at = "put_assertion", !.call = "login",
                                          !.secret = sealed + 1]]
  /\ UNCHANGED <<auth, connections, handles, transactions, assertion, clock, revoked>>

revoke_for_session(c) ==
  /\ At(c, "idle") /\ auth = "EMA" /\ assertion.status # "none"
  /\ op' = [op EXCEPT ![c] = [Idle EXCEPT !.at = "delete_assertion", !.call = "logout",
                                          !.retained = assertion]]
  /\ UNCHANGED <<auth, connections, handles, secrets, sealed, transactions, assertion, clock, revoked>>

DeleteAssertion(c) ==
  /\ At(c, "delete_assertion")
  /\ secrets' = secrets \ {op[c].retained.secret}
  /\ Go(c, "put_assertion")
  /\ UNCHANGED <<auth, connections, handles, sealed, transactions, assertion, clock, revoked>>

PutAssertion(c) ==
  /\ At(c, "put_assertion")
  /\ assertion' = IF op[c].call = "login"
                  THEN [status |-> "ACTIVE", secret |-> op[c].secret, expires |-> clock + 1]
                  ELSE [op[c].retained EXCEPT !.status = "REVOKED"]
  /\ Return(c)
  /\ UNCHANGED <<auth, connections, handles, secrets, sealed, transactions, clock, revoked>>

-----------------------------------------------------------------------------
Tick ==
  /\ clock < MaxClock
  /\ clock' = clock + 1
  /\ UNCHANGED <<op, auth, connections, handles, secrets, sealed, transactions, assertion, revoked>>

CredentialCall(c) ==
  \/ \E i \in 0 .. MaxConns : begin(c, i)
  \/ complete(c)
  \/ \E i \in 1 .. MaxConns : revoke(c, i)
  \/ retain_assertion(c) \/ revoke_for_session(c)

CredentialStep(c) ==
  \/ ExchangeCode(c) \/ StoreSecret(c) \/ StoreHandle(c) \/ CompleteConnection(c)
  \/ RevokeHandle(c) \/ DeleteSecret(c) \/ MarkRevoked(c) \/ RevokeConnection(c)
  \/ GetHandle(c) \/ Open(c) \/ OpenStale(c) \/ Refresh(c) \/ MarkStale(c)
  \/ ResealSecret(c) \/ ResealHandle(c)
  \/ reacquire(c) \/ ensure_access(c) \/ GetAssertion(c) \/ ExpireAssertion(c)
  \/ OpenAssertion(c) \/ Exchange(c) \/ Grant(c) \/ Superseded(c) \/ EnsureConnection(c)
  \/ DeleteAssertion(c) \/ PutAssertion(c)

-----------------------------------------------------------------------------
\* A revocation made while no other call is in flight is final: until the user authorizes
\* the connection again, neither discovery, nor a refused call, nor enterprise
\* re-acquisition brings the row back (connections.py revoke, mcp/manager.py
\* _mark_auth_required, enterprise_auth.py _connection_for).
RevocationHolds == \A i \in revoked : connections[i].status = "REVOKED"

=============================================================================
