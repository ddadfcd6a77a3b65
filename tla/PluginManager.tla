---------------------------- MODULE PluginManager ----------------------------
(***************************************************************************)
(* The life cycle of one plugin in several workspaces (plugins/manager.py  *)
(* with trust.py, dependencies.py and registration.py): install, upgrade,  *)
(* rollback, enable, disable, remove. An installation is a row per         *)
(* workspace; the version registry, the capability rows (immutable per     *)
(* capability version) and the bindings of the plugin's own connector are  *)
(* shared by all workspaces. Each call works on the copy of the row it     *)
(* read first and every write is a blind upsert of that copy, so calls     *)
(* that overlap overwrite each other. A call may also be lost at any await.*)
(***************************************************************************)
EXTENDS Credentials

CONSTANTS
  Workspaces, Home,   \* Home is the workspace the connections of Credentials belong to
  Packages,           \* what the package source can deliver; a digest is a package's own
  Versions,           \* plugin versions
  Caps,               \* capability ids
  Declared,           \* per capability: the permissions it requires, whether it has effects
  GrantedPermissions, \* what the deployment's policy engine may hand out
  AllowUnverifiedDev,
  KeyLevel            \* the trust the configured signing key confers

VARIABLES
  job,       \* job[c]: the plugin call client c is in
  inst,      \* PluginInstallationRow by workspace
  versions,  \* the version registry: digest by version, "none" when absent
  rows,      \* capability rows
  bound,     \* bindings of the plugin connector: none, on or off
  denied     \* capabilities the policy denies outright

pluginVars == <<job, inst, versions, rows, bound, denied>>

NoPackage == [digest |-> "none", version |-> 0, caps |-> <<>>, risk |-> "LOW",
              signature |-> "none", needs |-> FALSE]

\* by: who moved the row to ENABLED, the manager at the end of a version change or an
\* administrator's enable.
NoInstallation == [state |-> "none", version |-> 0, digest |-> "none", previous |-> 0,
                   grants |-> <<>>, consent |-> "none", registered |-> {},
                   unsatisfied |-> FALSE, by |-> "none"]

NoJob == [at |-> "idle", ws |-> Home, copy |-> NoInstallation, pkg |-> NoPackage,
          consent |-> "none", consented |-> {}, pin |-> "none", key |-> "none", todo |-> {},
          lacking |-> FALSE, turn |-> "on", final |-> "none"]

_LIVE_STATES == {"INSTALLED", "SETUP_REQUIRED", "READY", "ENABLED", "DISABLED"}

_ALLOWED_TRANSITIONS ==
  UNION { {"DISCOVERED"} \X {"VALIDATING", "FAILED"},
          {"VALIDATING"} \X {"INSTALLED", "FAILED", "REMOVED"},
          {"INSTALLED"} \X {"SETUP_REQUIRED", "READY", "FAILED", "REMOVED"},
          {"SETUP_REQUIRED"} \X {"VALIDATING", "READY", "DISABLED", "FAILED", "REMOVED"},
          {"READY"} \X {"VALIDATING", "ENABLED", "DISABLED", "SETUP_REQUIRED", "FAILED", "REMOVED"},
          {"ENABLED"} \X {"VALIDATING", "READY", "DISABLED", "SETUP_REQUIRED", "FAILED", "REMOVED"},
          {"DISABLED"} \X {"VALIDATING", "READY", "ENABLED", "FAILED", "REMOVED"},
          {"FAILED"} \X {"VALIDATING", "REMOVED"} }

-----------------------------------------------------------------------------
(* Trust: what a package's signature is worth and what its risk asks for.  *)

TRUST_RANK == [refused |-> 0, UNVERIFIED_DEV |-> 1, WORKSPACE_APPROVED |-> 2,
               SIGNED_THIRD_PARTY |-> 3]

manifest_min_trust(pkg) == CASE pkg.risk = "CRITICAL" -> "SIGNED_THIRD_PARTY"
                             [] pkg.risk = "HIGH" -> "WORKSPACE_APPROVED"
                             [] OTHER -> "UNVERIFIED_DEV"

\* A content pin does not attest authorship; a signature by an unknown key, or one that does
\* not verify, is refused.
verify(pkg, pin) ==
  CASE pin \notin {"none", pkg.digest} -> "refused"
    [] pkg.signature = "KEY" -> KeyLevel
    [] pkg.signature \in {"none", "SHA256_PIN"} /\ AllowUnverifiedDev -> "UNVERIFIED_DEV"
    [] OTHER -> "refused"

verify_for_install(pkg, pin) ==
  TRUST_RANK[verify(pkg, pin)] >= TRUST_RANK[manifest_min_trust(pkg)]

-----------------------------------------------------------------------------
(* Grants: what policy gives of what a manifest requests.                  *)

\* _evaluate_capability: all of it, a read-only remainder, or nothing.
Evaluate(k) ==
  LET requested == Declared[k].permissions
      retained == requested \intersect GrantedPermissions
  IN  CASE k \in denied -> "DENIED"
        [] retained = requested -> "GRANTED"
        [] Declared[k].effects /\ retained # {} -> "DOWNGRADED_READ_ONLY"
        [] OTHER -> "DENIED"

_evaluate_grants(pkg) == [k \in DOMAIN pkg.caps |-> Evaluate(k)]

granted_capability_ids(grants) == {k \in DOMAIN grants : grants[k] # "DENIED"}
Withheld(grants) == {k \in DOMAIN grants : grants[k] # "GRANTED"}

\* _consent: it echoes the package's digest and names nothing policy withheld.
_consent(j, grants) ==
  /\ j.consent = j.pkg.digest
  /\ j.consented \subseteq DOMAIN j.pkg.caps
  /\ j.consented \subseteq granted_capability_ids(grants)

\* resolve_connector_requirements: only Home has connections for the required connector.
Unsatisfied(j) ==
  /\ j.pkg.needs
  /\ ~(j.ws = Home /\ \E i \in Existing : Usable(connections[i]))

-----------------------------------------------------------------------------
(* Steps of a call. Each writes, from its own copy, what the code awaits.  *)

In(c, pc) == job[c].at = pc
Jump(c, pc) == job' = [job EXCEPT ![c].at = pc]
Leave(c) == job' = [job EXCEPT ![c] = NoJob]
CanMove(from, to) == from = to \/ <<from, to>> \in _ALLOWED_TRANSITIONS

\* _transition: the copy's own state decides whether the move is allowed; a refusal raises.
Transition(c, copy, to, next) ==
  IF CanMove(copy.state, to)
  THEN LET moved == [copy EXCEPT !.state = to]
       IN  /\ inst' = [inst EXCEPT ![job[c].ws] = moved]
           /\ job' = IF next = "idle" THEN [job EXCEPT ![c] = NoJob]
                     ELSE [job EXCEPT ![c].copy = moved, ![c].at = next]
  ELSE Leave(c) /\ UNCHANGED inst

\* A call starts with a package and a consent: at "discover" for install, "validate" else.
Start(c, w, pc, copy, pkg, consent, consented, pin) ==
  /\ op[c] = Idle /\ In(c, "idle")
  /\ job' = [job EXCEPT ![c] = [NoJob EXCEPT !.at = pc, !.ws = w, !.copy = copy, !.pkg = pkg,
                !.consent = consent, !.consented = consented, !.pin = pin]]
  /\ UNCHANGED <<inst, versions, rows, bound, denied>>

\* install: refused over a live installation; any other row is reused, blank.
install(c, w, pkg, consent, consented, pin) ==
  /\ inst[w].state \notin _LIVE_STATES
  /\ Start(c, w, "discover",
           [NoInstallation EXCEPT !.state = "DISCOVERED", !.version = pkg.version,
                                  !.digest = pkg.digest],
           pkg, consent, consented, pin)

\* upgrade: the new version and digest are in the row from VALIDATING on, the grants,
\* consent and registered ids of the old version with them.
upgrade(c, w, pkg, consent, consented, pin) ==
  /\ inst[w].state \in _LIVE_STATES
  /\ pkg.version # inst[w].version
  /\ Start(c, w, "validate",
           [inst[w] EXCEPT !.previous = inst[w].version, !.version = pkg.version,
                           !.digest = pkg.digest],
           pkg, consent, consented, pin)

\* rollback: to the registered package of the previous version, with consent to all it asks.
rollback(c, w) ==
  /\ inst[w].state \in _LIVE_STATES
  /\ inst[w].previous # 0
  /\ \E pkg \in Packages :
       /\ pkg.version = inst[w].previous
       /\ pkg.digest = versions[pkg.version]
       /\ Start(c, w, "validate",
                [inst[w] EXCEPT !.previous = inst[w].version, !.version = pkg.version,
                                !.digest = pkg.digest],
                pkg, pkg.digest, DOMAIN pkg.caps, pkg.digest)

\* enable, disable and remove turn the bindings, then move the row to its final state.
Turn(c, w, turn, final) ==
  /\ op[c] = Idle /\ In(c, "idle")
  /\ inst[w].state \in _LIVE_STATES
  /\ job' = [job EXCEPT ![c] = [NoJob EXCEPT !.at = "list_bindings", !.ws = w,
                !.copy = [inst[w] EXCEPT !.by = IF final = "ENABLED" THEN "admin" ELSE @],
                !.turn = turn, !.final = final]]
  /\ UNCHANGED <<inst, versions, rows, bound, denied>>

enable_plugin(c, w) ==
  /\ inst[w].state # "ENABLED" /\ ~inst[w].unsatisfied
  /\ Turn(c, w, "on", "ENABLED")

disable_plugin(c, w) ==
  /\ inst[w].state # "DISABLED"
  /\ Turn(c, w, "off", "DISABLED")

\* An enabled plugin is removed only with force, which a caller may always pass.
remove(c, w) == Turn(c, w, "off", "REMOVED")

-----------------------------------------------------------------------------
(* _apply_version.                                                         *)

Discovered(c) ==
  /\ In(c, "discover")
  /\ inst' = [inst EXCEPT ![job[c].ws] = job[c].copy]
  /\ Jump(c, "validate")
  /\ UNCHANGED <<versions, rows, bound, denied>>

Validate(c) ==
  /\ In(c, "validate")
  /\ Transition(c, job[c].copy, "VALIDATING",
                IF verify_for_install(job[c].pkg, job[c].pin) THEN "connections" ELSE "fail")
  /\ UNCHANGED <<versions, rows, bound, denied>>

Fail(c) ==
  /\ In(c, "fail")
  /\ Transition(c, job[c].copy, "FAILED", "idle")
  /\ UNCHANGED <<versions, rows, bound, denied>>

ListConnections(c) ==
  /\ In(c, "connections")
  /\ job' = [job EXCEPT ![c].at = "policy", ![c].lacking = Unsatisfied(job[c])]
  /\ UNCHANGED <<inst, versions, rows, bound, denied>>

\* The policy is read, the grants evaluated and the consent checked against them.
ReadPolicy(c) ==
  /\ In(c, "policy")
  /\ LET grants == _evaluate_grants(job[c].pkg)
         copy == [job[c].copy EXCEPT !.grants = grants, !.consent = job[c].consent,
                                      !.unsatisfied = job[c].lacking]
     IN  IF ~_consent(job[c], grants) THEN Jump(c, "fail")
         ELSE job' = [job EXCEPT ![c].copy = copy, ![c].consented = {}, ![c].at =
                        IF granted_capability_ids(grants) = {} THEN "denied" ELSE "get_version"]
  /\ UNCHANGED <<inst, versions, rows, bound, denied>>

\* Policy denied everything: the evaluation is written before the row fails.
Denied(c) ==
  /\ In(c, "denied")
  /\ inst' = [inst EXCEPT ![job[c].ws] = job[c].copy]
  /\ Jump(c, "fail")
  /\ UNCHANGED <<versions, rows, bound, denied>>

\* _register: one capability row after the other, then the bindings.
Register(c) ==
  job' = [job EXCEPT ![c].at = "get_capability",
            ![c].todo = granted_capability_ids(job[c].copy.grants)]

GetVersion_Unchecked(c) ==
  /\ In(c, "get_version")
  /\ IF versions[job[c].pkg.version] = "none" THEN Jump(c, "put_version") ELSE Register(c)
  /\ UNCHANGED <<inst, versions, rows, bound, denied>>

\* _record_version raises, outside the handler that would fail the row, when the version is
\* registered with another digest or somebody registers it in between.
GetVersion(c) ==
  /\ In(c, "get_version")
  /\ LET known == versions[job[c].pkg.version]
     IN  CASE known = "none" -> Jump(c, "put_version")
           [] known = job[c].pkg.digest -> Register(c)
           [] OTHER -> Leave(c)
  /\ UNCHANGED <<inst, versions, rows, bound, denied>>

PutVersion(c) ==
  /\ In(c, "put_version")
  /\ IF versions[job[c].pkg.version] = "none"
     THEN /\ versions' = [versions EXCEPT ![job[c].pkg.version] = job[c].pkg.digest]
          /\ Register(c)
     ELSE Leave(c) /\ UNCHANGED versions
  /\ UNCHANGED <<inst, rows, bound, denied>>

\* The row project_capabilities makes of a granted capability.
Projected(c, k) ==
  [cap |-> k, capVersion |-> job[c].pkg.caps[k], version |-> job[c].pkg.version,
   digest |-> job[c].pkg.digest, decision |-> job[c].copy.grants[k], ws |-> job[c].ws]

Stored(c, k) == {r \in rows : r.cap = k /\ r.capVersion = job[c].pkg.caps[k]}

\* Whether a stored row is the one this version would contribute, whichever workspace
\* registered it.
_same_contribution(r, projected) ==
  r.version = projected.version /\ r.digest = projected.digest /\ r.decision = projected.decision

\* get_capability: a row this version already contributed is kept, the next one taken up.
GetCapability(c) ==
  /\ In(c, "get_capability")
  /\ IF job[c].todo = {}
     THEN job' = [job EXCEPT ![c].at = "put_binding", ![c].todo =
                    granted_capability_ids(job[c].copy.grants)]
     ELSE LET k == CHOOSE k \in job[c].todo : TRUE IN
            IF \E r \in Stored(c, k) : _same_contribution(r, Projected(c, k))
            THEN job' = [job EXCEPT ![c].todo = @ \ {k}]
            ELSE job' = [job EXCEPT ![c].at = "put_capability", ![c].key = k]
  /\ UNCHANGED <<inst, versions, rows, bound, denied>>

\* upsert_capability: a stored version of a capability is immutable, so one that differs
\* raises and the installation fails.
PutCapability(c) ==
  /\ In(c, "put_capability")
  /\ LET k == job[c].key
     IN  IF Stored(c, k) \subseteq {Projected(c, k)}
         THEN /\ rows' = rows \union {Projected(c, k)}
              /\ job' = [job EXCEPT ![c].at = "get_capability", ![c].todo = @ \ {k}]
         ELSE Jump(c, "fail") /\ UNCHANGED rows
  /\ UNCHANGED <<inst, versions, bound, denied>>

\* project_bindings: every binding this version registers is written enabled.
PutPluginBinding(c) ==
  /\ In(c, "put_binding")
  /\ IF job[c].todo = {}
     THEN Jump(c, "entry") /\ UNCHANGED bound
     ELSE LET k == CHOOSE k \in job[c].todo : TRUE IN
            /\ bound' = [bound EXCEPT ![k] = "on"]
            /\ job' = [job EXCEPT ![c].todo = @ \ {k}]
  /\ UNCHANGED <<inst, versions, rows, denied>>

\* Skills, the registry entry and the declared MCP servers: any of them may raise.
Entry(c) ==
  /\ In(c, "entry")
  /\ \/ Jump(c, "fail")
     \/ job' = [job EXCEPT ![c].at = "installed", ![c].copy.registered =
                  granted_capability_ids(job[c].copy.grants)]
  /\ UNCHANGED <<inst, versions, rows, bound, denied>>

Installed(c) ==
  /\ In(c, "installed")
  /\ Transition(c, job[c].copy, "INSTALLED", "ready")
  /\ UNCHANGED <<versions, rows, bound, denied>>

\* A required connector without a usable connection parks the row in SETUP_REQUIRED.
Ready(c) ==
  /\ In(c, "ready")
  /\ IF job[c].copy.unsatisfied THEN Transition(c, job[c].copy, "SETUP_REQUIRED", "idle")
     ELSE Transition(c, job[c].copy, "READY", "settle")
  /\ UNCHANGED <<versions, rows, bound, denied>>

\* A version policy granted only in part ends DISABLED, a fully granted one ENABLED.
Settle(c) ==
  /\ In(c, "settle")
  /\ LET on == Withheld(job[c].copy.grants) = {}
     IN  job' = [job EXCEPT ![c].at = "list_bindings", ![c].copy.by = IF on THEN "manager" ELSE @,
                   ![c].turn = IF on THEN "on" ELSE "off",
                   ![c].final = IF on THEN "ENABLED" ELSE "DISABLED"]
  /\ UNCHANGED <<inst, versions, rows, bound, denied>>

-----------------------------------------------------------------------------
\* _set_registration_enabled: the bindings are listed once, then flipped one by one. (The
\* capability rows are immutable; their own flag never changes.)
ListBindings(c) ==
  /\ In(c, "list_bindings")
  /\ job' = [job EXCEPT ![c].at = "flip", ![c].todo =
                {k \in job[c].copy.registered : bound[k] \notin {"none", job[c].turn}}]
  /\ UNCHANGED <<inst, versions, rows, bound, denied>>

Flip(c) ==
  /\ In(c, "flip") /\ job[c].todo # {}
  /\ LET k == CHOOSE k \in job[c].todo : TRUE IN
       /\ bound' = [bound EXCEPT ![k] = job[c].turn]
       /\ job' = [job EXCEPT ![c].todo = @ \ {k}]
  /\ UNCHANGED <<inst, versions, rows, denied>>

Finish(c) ==
  /\ In(c, "flip") /\ job[c].todo = {}
  /\ Transition(c, job[c].copy, job[c].final, "idle")
  /\ UNCHANGED <<versions, rows, bound, denied>>

\* An administrator edits the policy between calls.
EditPolicy(k) ==
  /\ denied' = IF k \in denied THEN denied \ {k} ELSE denied \union {k}
  /\ UNCHANGED <<job, inst, versions, rows, bound>>

-----------------------------------------------------------------------------
\* Consent to all the package asks for or to nothing, to another digest, or with a pin that
\* does not match.
Consents(pkg) == { <<pkg.digest, DOMAIN pkg.caps, "none">>, <<pkg.digest, {}, "none">>,
                   <<"other", {}, "none">>, <<pkg.digest, {}, "other">> }

PluginCall(c) ==
  \E w \in Workspaces :
    \/ \E pkg \in Packages : \E consent \in Consents(pkg) :
         \/ install(c, w, pkg, consent[1], consent[2], consent[3])
         \/ upgrade(c, w, pkg, consent[1], consent[2], consent[3])
    \/ rollback(c, w) \/ enable_plugin(c, w) \/ disable_plugin(c, w) \/ remove(c, w)

PluginStep(c) ==
  \/ Discovered(c) \/ Validate(c) \/ Fail(c) \/ ListConnections(c) \/ ReadPolicy(c)
  \/ Denied(c) \/ GetVersion(c) \/ PutVersion(c) \/ GetCapability(c) \/ PutCapability(c)
  \/ PutPluginBinding(c) \/ Entry(c) \/ Installed(c) \/ Ready(c) \/ Settle(c)
  \/ ListBindings(c) \/ Flip(c) \/ Finish(c)

-----------------------------------------------------------------------------
\* _plugin_gate: whichever workspace registered the capability, the installation of the
\* workspace that asks decides. (A reinstallation keeps the row's installation id.)
_plugin_gate(w, k) == inst[w].state = "ENABLED" /\ k \in inst[w].registered

PluginResolves(w, k) == bound[k] = "on" /\ _plugin_gate(w, k)

\* What an installation lets resolve is what was decided for it.  A live row is of one
\* piece: its consent is for the digest of its own version, which is the registered one, and
\* every capability it registers has a row contributed by that version under the decision
\* the row records.  A capability resolves in a workspace only when policy granted it there,
\* and when policy withheld something of that version, only after an administrator's enable.
\* No install, upgrade or rollback changes this, however calls overlap, are lost halfway or
\* write back old copies, and whatever another workspace registers or turns on (manager.py
\* _apply_version, _record_version, _register; resolver.py _plugin_gate).
InstallationSound ==
  \A w \in Workspaces :
    /\ inst[w].state \in _LIVE_STATES =>
         /\ inst[w].consent = inst[w].digest
         /\ versions[inst[w].version] = inst[w].digest
         /\ inst[w].registered = granted_capability_ids(inst[w].grants)
         /\ \A k \in inst[w].registered :
              \E r \in rows : /\ r.cap = k
                              /\ r.version = inst[w].version /\ r.digest = inst[w].digest
                              /\ r.decision = inst[w].grants[k]
    /\ \A k \in Caps :
         PluginResolves(w, k) =>
           /\ k \in granted_capability_ids(inst[w].grants)
           /\ Withheld(inst[w].grants) # {} => inst[w].by = "admin"

=============================================================================
