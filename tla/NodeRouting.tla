------------------------------- MODULE NodeRouting -------------------------------
(***************************************************************************)
(* Routing and dispatch of one routed graph node in each of several runs of  *)
(* a workspace (routing/service.py, routing/freeze.py, services/             *)
(* run_manager.py, feedback/recovery.py).                                   *)
(*                                                                         *)
(* The executor of a run freezes the node contract of its attempt, restores  *)
(* or creates a routing receipt, claims it for dispatch and executes the     *)
(* claimed configuration.  Meanwhile an operator may override or cancel a    *)
(* receipt or route the contract through the API, runtimes and connections   *)
(* change, and the process may crash.  pc[r] names the awaited call in       *)
(* flight.  Routing transactions are serialised per run (routing_transaction)*)
(* while the exploration budget they check belongs to the workspace, so a    *)
(* route is two steps: it decides under its run's lock, then commits.        *)
(***************************************************************************)
EXTENDS ConfigurationSelection

CONSTANTS
    Runs,          \* runs of one workspace, each with one routed node
    Cases,         \* the nodes with their catalogs and policies, by name
    Scenarios,     \* what a behaviour may be about: [node, runs, crashes, amends,
                   \* apiRoutes, changes], the case, the runs that reach it, and bounds on
                   \* what happens from outside
    Worlds,        \* the states of runtimes and connections, by number
    WorldChange,   \* the changes between them: <<from, to>>
    MaxAttempts    \* resource_cap.maximum_attempts

ASSUME BoundsAssumption ==
    /\ MaxAttempts \in Nat \ {0}
    /\ \A s \in Scenarios : /\ s.runs \subseteq Runs
                            /\ s.crashes \in Nat /\ s.amends \in Nat
                            /\ s.apiRoutes \in Nat /\ s.changes \in Nat

VARIABLES
    node,        \* the name of the case at hand
    world,       \* the current member of DOMAIN Worlds
    contracts,   \* attempts of each run whose node contract is stored
    receipts,    \* each run's stored receipts, in order
    dispatched,  \* each run's dispatch events: indexes of claimed receipts
    executed,    \* each run's executions: [attempt, pick, version]
    route,       \* the route that holds each run's transaction, or NoRoute
    pc, attempt,
    attempted,   \* the cursor's attempted configuration hashes
    receipt,     \* the cursor's receipt, 0 for none
    snapshot,    \* the world of the executor's routing snapshot
    error,       \* the code of the exception being recovered from
    api,         \* an API route before its transaction: [attempt, world], or NoApi
    crashes, amends, apiRoutes, changes   \* how many may still happen

stored == <<contracts, receipts, dispatched, executed>>
cursor == <<pc, attempt, attempted, receipt, snapshot, error>>
outside == <<api, crashes, amends, apiRoutes, changes>>
vars == <<node, world, stored, route, cursor, outside>>

case == Cases[node]
NoWorld == 0
NoReceipt == 0
NoRoute == [by |-> "none"]
NoApi == [attempt |-> 0, world |-> NoWorld]
Now == Worlds[world]
At(w) == Worlds[w]

Init ==
    /\ \E s \in Scenarios :
        /\ node = s.node
        /\ pc = [r \in Runs |-> IF r \in s.runs THEN "freeze" ELSE "done"]
        /\ crashes = s.crashes /\ amends = s.amends
        /\ apiRoutes = s.apiRoutes /\ changes = s.changes
    /\ world = 1
    /\ contracts = [r \in Runs |-> {}]
    /\ receipts = [r \in Runs |-> << >>]
    /\ dispatched = [r \in Runs |-> {}]
    /\ executed = [r \in Runs |-> {}]
    /\ route = [r \in Runs |-> NoRoute]
    /\ attempt = [r \in Runs |-> 1]
    /\ attempted = [r \in Runs |-> {}]
    /\ receipt = [r \in Runs |-> NoReceipt]
    /\ snapshot = [r \in Runs |-> NoWorld]
    /\ error = [r \in Runs |-> "none"]
    /\ api = [r \in Runs |-> NoApi]

Goto(r, p) == pc' = [pc EXCEPT ![r] = p]

--------------------------------------------------------------------------------
(* Stored receipts. *)

OfContract(r, a) == {i \in DOMAIN receipts[r] : receipts[r][i].attempt = a}
Superseded(r, i) == \E j \in DOMAIN receipts[r] : receipts[r][j].supersedes = i
Heads(r, a) == {i \in OfContract(r, a) : ~ Superseded(r, i)}
Claimed(r, a) == \E i \in dispatched[r] : receipts[r][i].attempt = a

\* The configuration a receipt selects: a tuple at the snapshot's version.
Configuration(x) ==
    <<x.pick, At(x.world).version[case.tuples[x.pick].runtime]>>

AssertAmendableUnclaimed(r, i) ==
    IF Superseded(r, i) THEN "RECEIPT_VERSION_CONFLICT"
    ELSE IF receipts[r][i].status = "CANCELLED" THEN "RECEIPT_CANCELLED" ELSE "ok"

AssertAmendableAnyVersion(r, i) ==
    IF receipts[r][i].status = "CANCELLED" THEN "RECEIPT_CANCELLED"
    ELSE IF Claimed(r, receipts[r][i].attempt) THEN "RECEIPT_ALREADY_DISPATCHED"
    ELSE "ok"

AssertAmendable(r, i) ==
    IF Superseded(r, i) THEN "RECEIPT_VERSION_CONFLICT"
    ELSE IF receipts[r][i].status = "CANCELLED" THEN "RECEIPT_CANCELLED"
    ELSE IF Claimed(r, receipts[r][i].attempt) THEN "RECEIPT_ALREADY_DISPATCHED"
    ELSE "ok"

Append1(r, x) == receipts' = [receipts EXCEPT ![r] = Append(@, x)]

--------------------------------------------------------------------------------
(* Routing: NodeRoutingService.route. *)

\* The exploration ledger is rebuilt from the workspace's committed receipts.
Explored == {e \in UNION {{r} \X DOMAIN receipts[r] : r \in Runs} :
               receipts[e[1]][e[2]].type = "EXPLORE"}
Charged == MapThenSumSet(LAMBDA e : case.predicted[receipts[e[1]][e[2]].pick].ucb, Explored)
Credited == MapThenSumSet(LAMBDA e : receipts[e[1]][e[2]].credit, Explored)

\* The deterministic selection of each case, by slate.
Selection ==
    [n \in DOMAIN Cases |-> [slate \in SUBSET Indexes(Cases[n]) |-> Select(Cases[n], slate)]]

\* What may be decided for a slate: the deterministic selection, or in AUTO any
\* action of the safe set when the guarded bandit admits and can afford it.
Decisions(slate, w) ==
    LET baseline == Selection[node][slate]
        credit == case.predicted[baseline.pick].lcb
        affordable(i) ==
            CanExplore(case, Cardinality(Explored), Charged, Credited,
                       case.predicted[i].ucb, credit)
    IN  IF case.mode = "AUTO" /\ Admits(case, slate, baseline.pick, At(w))
          THEN {IF affordable(i)
                  THEN [pick |-> i, type |-> "EXPLORE", credit |-> credit]
                  ELSE [pick |-> baseline.pick, type |-> baseline.type, credit |-> 0] :
                i \in SafeActions(case, slate)}
          ELSE {[pick |-> baseline.pick, type |-> baseline.type, credit |-> 0]}

Existing(r, a, w) ==
    {i \in OfContract(r, a) : receipts[r][i].by = "route" /\ At(receipts[r][i].world) = At(w)}

\* The eligible tuples of each case when the world is now and the snapshot w,
\* and the slate left once the configurations that already failed are excluded.
EligibleAt ==
    [n \in DOMAIN Cases |-> [now \in DOMAIN Worlds |-> [w \in DOMAIN Worlds |->
        Eligible(Cases[n], At(now).version, At(w))]]]

SlateFor(w, excluded) ==
    Slate(case, {i \in EligibleAt[node][world][w] :
                   <<i, Now.version[case.tuples[i].runtime]>> \notin excluded})

\* The transaction up to the decision: replay, one head, amendable, then build,
\* score and select under the run's lock.
BeginRoute(r, by, a, w, excluded) ==
    \E slate \in {SlateFor(w, excluded)} : \E d \in Decisions(slate, w) :
        route' = [route EXCEPT ![r] =
            [by |-> by, attempt |-> a, world |-> w, decision |-> d, slate |-> slate,
             supersedes |-> IF Heads(r, a) = {} THEN NoReceipt ELSE CHOOSE i \in Heads(r, a) : TRUE]]

\* Why a route raises instead of deciding, "ok" when it does not.
RouteRefusal(r, a, w) ==
    IF CatalogFails(case, Now.version, At(w)) THEN "CATALOG"
    ELSE IF Cardinality(Heads(r, a)) > 1 THEN "RECEIPT_VERSION_CONFLICT"
    ELSE IF Heads(r, a) = {} THEN "ok"
    ELSE AssertAmendable(r, CHOOSE i \in Heads(r, a) : TRUE)

RoutedReceipt(x) ==
    [attempt |-> x.attempt, by |-> "route", supersedes |-> x.supersedes, world |-> x.world,
     pick |-> x.decision.pick, type |-> x.decision.type, credit |-> x.decision.credit,
     status |-> "READY", slate |-> x.slate]

--------------------------------------------------------------------------------
(* The executor: _graph_node_attempt and _prepare_routed_node. *)

Freeze(r) ==
    /\ pc[r] = "freeze"
    /\ contracts' = [contracts EXCEPT ![r] = @ \cup {attempt[r]}]
    /\ Goto(r, "latest")
    /\ UNCHANGED <<node, world, receipts, dispatched, executed, route, attempt, attempted,
                   receipt, snapshot, error, outside>>

Raise(r, code) ==
    /\ Goto(r, "recover")
    /\ error' = [error EXCEPT ![r] = code]

\* The synchronous code after a receipt is in hand: review waits, an agent
\* configuration that binds tools is refused, anything else is claimed.
Hold(r, i, x) ==
    /\ receipt' = [receipt EXCEPT ![r] = i]
    /\ IF x.type = "HUMAN_REVIEW_REQUIRED" THEN Goto(r, "waiting") /\ UNCHANGED error
       ELSE IF case.kind = "AGENT" /\ case.tuples[x.pick].tools # {}
         THEN Raise(r, "SELECTED_AGENT_TOOL_BINDING_UNAVAILABLE")
       ELSE Goto(r, "health") /\ UNCHANGED error

\* latest_receipt: the durable head, not the cursor, is authoritative.
LatestReceipt(r) ==
    /\ pc[r] = "latest"
    /\ IF Heads(r, attempt[r]) = {}
         THEN Goto(r, "snapshot") /\ UNCHANGED <<receipt, error>>
         ELSE LET i == CHOOSE i \in Heads(r, attempt[r]) :
                          \A j \in Heads(r, attempt[r]) : j <= i
              IN  Hold(r, i, receipts[r][i])
    /\ UNCHANGED <<node, world, stored, route, attempt, attempted, snapshot, outside>>

Snapshot(r) ==
    /\ pc[r] = "snapshot"
    /\ snapshot' = [snapshot EXCEPT ![r] = world]
    /\ Goto(r, "route")
    /\ UNCHANGED <<node, world, stored, route, attempt, attempted, receipt, error, outside>>

RouteReplay(r) ==
    /\ pc[r] = "route" /\ route[r] = NoRoute
    /\ ~ CatalogFails(case, Now.version, At(snapshot[r]))
    /\ \E i \in Existing(r, attempt[r], snapshot[r]) : Hold(r, i, receipts[r][i])
    /\ UNCHANGED <<node, world, stored, route, attempt, attempted, snapshot, outside>>

RouteRefused(r) ==
    /\ pc[r] = "route" /\ route[r] = NoRoute
    /\ \/ Existing(r, attempt[r], snapshot[r]) = {}
       \/ CatalogFails(case, Now.version, At(snapshot[r]))
    /\ RouteRefusal(r, attempt[r], snapshot[r]) # "ok"
    /\ Raise(r, RouteRefusal(r, attempt[r], snapshot[r]))
    /\ UNCHANGED <<node, world, stored, route, attempt, attempted, receipt, snapshot, outside>>

RouteBegin(r) ==
    /\ pc[r] = "route" /\ route[r] = NoRoute
    /\ Existing(r, attempt[r], snapshot[r]) = {}
    /\ RouteRefusal(r, attempt[r], snapshot[r]) = "ok"
    /\ BeginRoute(r, "executor", attempt[r], snapshot[r], attempted[r])
    /\ Goto(r, "commit")
    /\ UNCHANGED <<node, world, stored, attempt, attempted, receipt, snapshot, error, outside>>

RouteCommit(r) ==
    /\ pc[r] = "commit"
    /\ Append1(r, RoutedReceipt(route[r]))
    /\ Hold(r, Len(receipts[r]) + 1, RoutedReceipt(route[r]))
    /\ route' = [route EXCEPT ![r] = NoRoute]
    /\ UNCHANGED <<node, world, contracts, dispatched, executed, attempt, attempted, snapshot,
                   outside>>

\* claim_dispatch before its transaction: the live runtime against the receipt.
ClaimHealth(r) ==
    /\ pc[r] = "health"
    /\ LET c == Configuration(receipts[r][receipt[r]])
           runtime == case.tuples[c[1]].runtime
       IN  IF Now.version[runtime] # c[2] THEN Raise(r, "RUNTIME_VERSION_DRIFT")
           ELSE IF runtime \notin Now.ready THEN Raise(r, "RUNTIME_UNAVAILABLE")
           ELSE Goto(r, "claim") /\ UNCHANGED error
    /\ UNCHANGED <<node, world, stored, route, attempt, attempted, receipt, snapshot, outside>>

ClaimDispatch(r) ==
    /\ pc[r] = "claim" /\ route[r] = NoRoute
    /\ IF AssertAmendable(r, receipt[r]) = "ok"
         THEN /\ dispatched' = [dispatched EXCEPT ![r] = @ \cup {receipt[r]}]
              /\ Goto(r, "execute")
              /\ UNCHANGED error
         ELSE Raise(r, AssertAmendable(r, receipt[r])) /\ UNCHANGED dispatched
    /\ UNCHANGED <<node, world, contracts, receipts, executed, route, attempt, attempted, receipt,
                   snapshot, outside>>

\* Session creation, submission and the node's outcome.
Execute(r) ==
    /\ pc[r] = "execute"
    /\ LET c == Configuration(receipts[r][receipt[r]])
       IN  executed' = [executed EXCEPT ![r] =
               @ \cup {[attempt |-> attempt[r], pick |-> c[1], version |-> c[2]]}]
    /\ \E outcome \in {"done", "returned"} : Goto(r, outcome)
    /\ UNCHANGED <<node, world, contracts, receipts, dispatched, route, attempt, attempted,
                   receipt, snapshot, error, outside>>

\* A node that returned FAIL after its dispatch is not a configuration failure:
\* the graph ends, or re-enters it through an edge of its own as a new attempt
\* (MaxAttempts also bounds how often the graph comes back).
Reenter(r) ==
    /\ pc[r] = "returned" /\ attempt[r] < MaxAttempts
    /\ attempt' = [attempt EXCEPT ![r] = @ + 1]
    /\ receipt' = [receipt EXCEPT ![r] = NoReceipt]
    /\ Goto(r, "freeze")
    /\ UNCHANGED <<node, world, stored, route, attempted, snapshot, error, outside>>

GiveUp(r) ==
    /\ pc[r] = "returned"
    /\ Goto(r, "failed")
    /\ UNCHANGED <<node, world, stored, route, attempt, attempted, receipt, snapshot, error,
                   outside>>

--------------------------------------------------------------------------------
(* Recovery: _reroute_after_failure and RecoveryGuard.decide. *)

\* Only a drifted runtime is a configuration failure; it is rerouted while the
\* attempt cap holds, fewer than two configurations failed before it, and the
\* slate still holds a candidate worth trying (the Wilson bound times the prior
\* exceeds epsilon: for slates of at most four, whenever one is eligible).
RerouteAllowed(r) ==
    LET x == receipts[r][receipt[r]]
        left == {i \in x.slate :
                   <<i, At(x.world).version[case.tuples[i].runtime]>> \notin attempted[r]}
    IN  /\ error[r] = "RUNTIME_VERSION_DRIFT" /\ receipt[r] # NoReceipt
        /\ attempt[r] < MaxAttempts
        /\ Cardinality(attempted[r]) < 2
        /\ left # {} /\ case.prior > 0

Reroute(r) ==
    /\ pc[r] = "recover"
    /\ RerouteAllowed(r)
    /\ attempted' = [attempted EXCEPT ![r] = @ \cup {Configuration(receipts[r][receipt[r]])}]
    /\ attempt' = [attempt EXCEPT ![r] = @ + 1]
    /\ receipt' = [receipt EXCEPT ![r] = NoReceipt]
    /\ error' = [error EXCEPT ![r] = "none"]
    /\ Goto(r, "freeze")
    /\ UNCHANGED <<node, world, stored, route, snapshot, outside>>

\* Every other failure propagates and fails the run.
Propagate(r) ==
    /\ pc[r] = "recover"
    /\ ~ RerouteAllowed(r)
    /\ Goto(r, "failed")
    /\ UNCHANGED <<node, world, stored, route, attempt, attempted, receipt, snapshot, error,
                   outside>>

--------------------------------------------------------------------------------
(* The process: a crash loses cursors, API calls and open transactions. *)

CrashKeepsLocks ==
    /\ crashes > 0
    /\ crashes' = crashes - 1
    /\ pc' = [r \in Runs |-> IF pc[r] \in {"done", "failed", "waiting"} THEN pc[r] ELSE "down"]
    /\ api' = [r \in Runs |-> NoApi]
    /\ UNCHANGED <<node, world, stored, route, attempt, attempted, receipt, snapshot, error,
                   amends, apiRoutes, changes>>

Crash ==
    /\ crashes > 0
    /\ crashes' = crashes - 1
    /\ pc' = [r \in Runs |-> IF pc[r] \in {"done", "failed", "waiting"} THEN pc[r] ELSE "down"]
    /\ route' = [r \in Runs |-> NoRoute]
    /\ api' = [r \in Runs |-> NoApi]
    /\ UNCHANGED <<node, world, stored, attempt, attempted, receipt, snapshot, error, amends,
                   apiRoutes, changes>>

\* _recovered_attempts: one after the highest attempt that was dispatched.
RecoveredAttempt(r) ==
    IF dispatched[r] = {} THEN 1
    ELSE Max({receipts[r][i].attempt : i \in dispatched[r]}) + 1

\* A resumed run rebuilds its cursor and reaches the node again.
Restart(r) ==
    /\ pc[r] \in {"down", "waiting"}
    /\ attempt' = [attempt EXCEPT ![r] = RecoveredAttempt(r)]
    /\ attempted' = [attempted EXCEPT ![r] = {}]
    /\ receipt' = [receipt EXCEPT ![r] = NoReceipt]
    /\ snapshot' = [snapshot EXCEPT ![r] = NoWorld]
    /\ error' = [error EXCEPT ![r] = "none"]
    /\ Goto(r, "freeze")
    /\ UNCHANGED <<node, world, stored, route, outside>>

--------------------------------------------------------------------------------
(* The operator and the API. *)

\* override (pick) and cancel (NoPick): replayed for the same request, otherwise
\* a receipt that supersedes the original while it is amendable.
Amend(r, i, pick) ==
    /\ route[r] = NoRoute
    /\ amends > 0
    /\ ~ \E j \in DOMAIN receipts[r] : /\ receipts[r][j].by = "amend"
                                      /\ receipts[r][j].supersedes = i
                                      /\ receipts[r][j].pick = pick
    /\ AssertAmendable(r, i) = "ok"
    /\ amends' = amends - 1
    /\ Append1(r, [receipts[r][i] EXCEPT
           !.by = "amend", !.supersedes = i, !.pick = pick, !.credit = 0,
           !.type = IF pick = NoPick THEN "HUMAN_REVIEW_REQUIRED" ELSE "HUMAN_OVERRIDE",
           !.status = IF pick = NoPick THEN "CANCELLED" ELSE "READY"])
    /\ UNCHANGED <<node, world, contracts, dispatched, executed, route, cursor, api, crashes,
                   apiRoutes, changes>>

\* route_execution: the snapshot is taken first, no configuration is excluded.
ApiSnapshot(r, a) ==
    /\ apiRoutes > 0 /\ api[r] = NoApi
    /\ apiRoutes' = apiRoutes - 1
    /\ api' = [api EXCEPT ![r] = [attempt |-> a, world |-> world]]
    /\ UNCHANGED <<node, world, stored, route, cursor, crashes, amends, changes>>

ApiRoute(r) ==
    LET a == api[r].attempt
        w == api[r].world
    IN  /\ api[r] # NoApi /\ route[r] = NoRoute
        /\ IF Existing(r, a, w) = {} /\ RouteRefusal(r, a, w) = "ok"
             THEN BeginRoute(r, "api", a, w, {})
             ELSE UNCHANGED route
        /\ api' = [api EXCEPT ![r] = NoApi]
        /\ UNCHANGED <<node, world, stored, cursor, crashes, amends, apiRoutes, changes>>

ApiCommit(r) ==
    /\ route[r].by = "api"
    /\ Append1(r, RoutedReceipt(route[r]))
    /\ route' = [route EXCEPT ![r] = NoRoute]
    /\ UNCHANGED <<node, world, contracts, dispatched, executed, cursor, outside>>

\* External: runtimes are upgraded or go down, connections come and go.
ChangeWorld ==
    /\ changes > 0
    /\ changes' = changes - 1
    /\ \E w \in DOMAIN Worlds : <<world, w>> \in WorldChange /\ world' = w
    /\ UNCHANGED <<node, stored, route, cursor, api, crashes, amends, apiRoutes>>

Executor(r) ==
    \/ Freeze(r) \/ LatestReceipt(r) \/ Snapshot(r)
    \/ RouteReplay(r) \/ RouteRefused(r) \/ RouteBegin(r) \/ RouteCommit(r)
    \/ ClaimHealth(r) \/ ClaimDispatch(r) \/ Execute(r)
    \/ Reenter(r) \/ GiveUp(r) \/ Reroute(r) \/ Propagate(r)

Operator(r) ==
    \/ \E i \in DOMAIN receipts[r] :
          \E pick \in receipts[r][i].slate \cup {NoPick} : Amend(r, i, pick)
    \/ \E a \in contracts[r] : ApiSnapshot(r, a)

Next ==
    \/ \E r \in Runs : Executor(r) \/ Operator(r) \/ ApiRoute(r) \/ ApiCommit(r) \/ Restart(r)
    \/ Crash
    \/ ChangeWorld

Spec == Init /\ [][Next]_vars

\* The event loop runs a ready coroutine to its next await, so the steps of an
\* executor and of an API transaction are fair; operators, crashes, restarts
\* and the outside world are not.
FairSpec ==
    Spec /\ \A r \in Runs : WF_vars(Executor(r)) /\ WF_vars(ApiRoute(r)) /\ WF_vars(ApiCommit(r))

--------------------------------------------------------------------------------
(* Properties. *)

Working == {"freeze", "latest", "snapshot", "route", "commit", "health", "claim"}
Settled == {"done", "failed", "waiting", "down"}

\* The receipts of a contract form one line whoever wrote them: a receipt is
\* superseded at most once, by a later one of its contract, exactly one is the
\* head, and a routing request is never decided twice (route's replay check,
\* _assert_amendable and the per-run routing transaction).
ChainLinear ==
    \A r \in Runs :
        /\ \A a \in contracts[r] : OfContract(r, a) # {} => Cardinality(Heads(r, a)) = 1
        /\ \A i, j \in DOMAIN receipts[r] : i < j =>
              LET x == receipts[r][i]
                  y == receipts[r][j]
              IN  /\ x.supersedes # j
                  /\ y.supersedes = i => x.attempt = y.attempt
                  /\ y.supersedes # NoReceipt => x.supersedes # y.supersedes
                  /\ ~ (x.by = "route" /\ y.by = "route" /\ x.attempt = y.attempt
                        /\ x.world = y.world)

\* What was dispatched stays what the record says: a contract is claimed at most
\* once, its claimed receipt is never superseded or cancelled afterwards, and
\* every execution ran that receipt's configuration (claim_dispatch, override
\* and cancel racing in one run).  No executor works towards a claim of a
\* contract that is already claimed, which would strand the run on
\* RECEIPT_ALREADY_DISPATCHED: crashes and restarts re-enter the node under a
\* fresh attempt (_recovered_attempts).
ClaimedIsFinal ==
    \A r \in Runs :
        /\ \A i, j \in dispatched[r] :
              receipts[r][i].attempt = receipts[r][j].attempt => i = j
        /\ \A i \in dispatched[r] : ~ Superseded(r, i) /\ receipts[r][i].status = "READY"
        /\ \A e \in executed[r] : \E i \in dispatched[r] :
              /\ receipts[r][i].attempt = e.attempt
              /\ Configuration(receipts[r][i]) = <<e.pick, e.version>>
        /\ pc[r] \in Working => ~ Claimed(r, attempt[r])

\* A routed decision is the best its snapshot allows. A node is left to a person only when no
\* audited fallback is compatible: the beam never pushes the last fallback out of the slate.
\* A deterministic choice is never beaten by a candidate of its slate (at least as good on all
\* four axes and better on one), and a fallback is taken only when no other candidate that
\* passes the success floor is undominated.  What is dispatched was hard-eligible at the
\* snapshot its receipt cites and on the runtime version the claim saw, also when an operator
\* chose it from the slate of an older decision.  Runs decide on the workspace's committed
\* receipts while holding only their own lock, so explorations exceed their count by at most
\* one decision in flight for each other run.
SelectionSound ==
    /\ Cardinality(Explored)
         <= case.explore.count + Cardinality({r \in Runs : contracts[r] # {}}) - 1
    /\ \A r \in Runs : \A i \in DOMAIN receipts[r] :
        LET x == receipts[r][i]
        IN  /\ x.by = "route"
                 /\ EligibleAt[node][x.world][x.world] \cap case.fallback # {}
                 => x.slate \cap case.fallback # {} /\ x.type # "HUMAN_REVIEW_REQUIRED"
            /\ x.type = "EXPLOIT" => /\ PassesSuccess(case, x.pick)
                                      /\ ~ Dominated(case, x.slate, x.pick)
            /\ x.type = "FALLBACK" => \A j \in x.slate \ case.fallback :
                                          ~ PassesSuccess(case, j) \/ Dominated(case, x.slate, j)
            /\ i \in dispatched[r] =>
                 /\ x.pick \in x.slate
                 /\ HardEligible(case, case.tuples[x.pick], Configuration(x)[2], At(x.world))

\* The nodes of both runs settle, in each other's presence: each is done, fails,
\* waits for a person, or its process is lost.
NodeSettles == []<>(\A r \in Runs : pc[r] \in Settled)

================================================================================
