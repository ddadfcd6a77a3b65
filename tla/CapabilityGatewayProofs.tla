------------------------ MODULE CapabilityGatewayProofs ------------------------
(***************************************************************************)
(* At-most-once execution and governed effects of CapabilityGateway, for any *)
(* set of calls and any set of requests.                                    *)
(***************************************************************************)
EXTENDS CapabilityGateway, TLAPS

\* Places a call reaches only after the policy allowed it.
Allowed == {"credentials", "intent", "row", "started", "execute"}
\* Places a side-effecting call reaches only as the one that recorded the intent.
Owning == {"row", "started", "execute"}

\* A call that owns its key's intent, or has already acted on it.
Claims(c) == SideEffects(c) /\ (pc[c] \in Owning \/ c \in performed)

Shapes ==
    /\ DOMAIN pc = Calls /\ DOMAIN goal = Calls
    /\ DOMAIN ops = Keys
    /\ approval \in [Requests -> {"NONE", "PENDING", "APPROVED", "DENIED"}]
    /\ request \in [Calls -> Requests]
    /\ performed \subseteq Calls

\* An allowed call is approved: an approval, once given, never changes.
Approved ==
    \A c \in Calls :
        (pc[c] = "requested" /\ goal[c] = "EXECUTING") \/ pc[c] \in Allowed \/ c \in performed =>
            /\ Protected(c) => approval[request[c]] = "APPROVED"
            /\ SideEffects(c) => Key(c) # NoKey
            /\ request[c].capability # "denied"

\* A claimed key has its row, and one claim.
OneClaim ==
    /\ \A c \in Calls : Claims(c) => ops[Key(c)] # "NONE"
    /\ \A c, d \in Calls : Claims(c) /\ Claims(d) /\ Key(c) = Key(d) => c = d

IInv == Shapes /\ Approved /\ OneClaim

\* The invariant gives the two safety properties.
LEMMA IInvSafe == IInv => AtMostOnce /\ EffectGoverned
BY DEF IInv, Shapes, Approved, OneClaim, Claims, AtMostOnce, EffectGoverned

\* Nothing is allowed, claimed or performed initially.
LEMMA InitIInv == Init => IInv
BY DEF Init, IInv, Shapes, Approved, OneClaim, Claims, Allowed, Owning

\* The key of a call that has one is in the ledger's domain.
LEMMA KeyInKeys ==
    ASSUME request \in [Calls -> Requests], NEW c \in Calls, Key(c) # NoKey
    PROVE  Key(c) \in Keys
BY DEF Key, Keys

\* A step that only moves a call to a place outside Allowed (and not to
\* "requested") preserves the invariant.
LEMMA LeaveSafe ==
    ASSUME IInv, NEW c \in Calls, NEW p,
           p \notin Allowed \cup {"requested"},
           pc' = [pc EXCEPT ![c] = p],
           DOMAIN goal' = Calls,
           \A d \in Calls : d # c => goal'[d] = goal[d],
           UNCHANGED <<approval, ops, performed, request>>
    PROVE  IInv'
BY DEF IInv, Shapes, Approved, OneClaim, Claims, Allowed, Owning, Key, SideEffects, Protected

\* A failing store call leads out of the allowed places.
LEMMA FailsSafe ==
    ASSUME IInv, NEW c \in Calls, Fails(c)
    PROVE  IInv'
<1>1. CASE covered[c]
  <2>1. pc' = [pc EXCEPT ![c] = "fail"] /\ UNCHANGED <<approval, ops, performed, request, goal>>
    BY <1>1 DEF Fails, Goto, stored
  <2> QED BY <2>1, LeaveSafe DEF Allowed, IInv, Shapes
<1>2. CASE ~covered[c]
  <2>1. pc' = [pc EXCEPT ![c] = "done"] /\ UNCHANGED <<approval, ops, performed, request, goal>>
    BY <1>2 DEF Fails, Reply, Goto, stored
  <2> QED BY <2>1, LeaveSafe DEF Allowed, IInv, Shapes
<1> QED BY <1>1, <1>2

\* Authorization: the steps up to the answer for a pending approval.
LEMMA AuthorizationSafe ==
    ASSUME IInv, NEW c \in Calls,
           Begin(c) \/ Authorize(c) \/ Requested(c) \/ EnsureApproval(c)
             \/ SavePending(c) \/ PendingEvent(c)
    PROVE  IInv'
<1> USE FailsSafe
<1>1. CASE Begin(c)
  <2>1. CASE ~Fails(c)
    <3>1. pc' = [pc EXCEPT ![c] = "authorize"]
          /\ UNCHANGED <<approval, ops, performed, request, goal>>
      BY <1>1, <2>1 DEF Begin, Goto, stored
    <3> QED BY <3>1, LeaveSafe DEF Allowed, IInv, Shapes
  <2> QED BY <2>1
<1>2. CASE Authorize(c)
  <2>1. CASE ~Fails(c)
    <3>1. /\ pc' = [pc EXCEPT ![c] = "requested"]
          /\ goal' = [goal EXCEPT ![c] = IF Denies(c) THEN "DENIED"
                                         ELSE IF Asks(c) THEN "REQUIRES_APPROVAL"
                                         ELSE "EXECUTING"]
          /\ UNCHANGED <<approval, ops, performed, request>>
      BY <1>2, <2>1 DEF Authorize, Goto, stored
    <3>2. goal'[c] = "EXECUTING" => ~Denies(c) /\ ~Asks(c)
      BY <3>1 DEF IInv, Shapes
    <3> QED
      BY <3>1, <3>2 DEF IInv, Shapes, Approved, OneClaim, Claims, Allowed, Owning, Key,
         SideEffects, Protected, Denies, Asks
  <2> QED BY <2>1
<1>3. CASE Requested(c)
  <2>1. CASE ~Fails(c) /\ goal[c] = "DENIED"
    <3>1. /\ pc' = [pc EXCEPT ![c] = "save"]
          /\ goal' = [goal EXCEPT ![c] = "DENIED"]
          /\ UNCHANGED <<approval, ops, performed, request>>
      BY <1>3, <2>1 DEF Requested, Terminal, Goto, stored
    <3> QED BY <3>1, LeaveSafe DEF Allowed, IInv, Shapes
  <2>2. CASE ~Fails(c) /\ goal[c] = "EXECUTING"
    <3>1. /\ pc[c] = "requested"
          /\ pc' = [pc EXCEPT ![c] = "credentials"]
          /\ UNCHANGED <<approval, ops, performed, request, goal>>
      BY <1>3, <2>2 DEF Requested, Goto, stored
    <3> QED
      BY <2>2, <3>1 DEF IInv, Shapes, Approved, OneClaim, Claims, Allowed, Owning, Key,
         SideEffects, Protected
  <2>3. CASE ~Fails(c) /\ goal[c] \notin {"DENIED", "EXECUTING"}
    <3>1. /\ pc' = [pc EXCEPT ![c] = "ensure"]
          /\ UNCHANGED <<approval, ops, performed, request, goal>>
      BY <1>3, <2>3 DEF Requested, Goto, stored
    <3> QED BY <3>1, LeaveSafe DEF Allowed, IInv, Shapes
  <2> QED BY <2>1, <2>2, <2>3
<1>4. CASE EnsureApproval(c)
  <2>1. CASE ~Fails(c)
    <3>1. /\ approval' = [approval EXCEPT ![request[c]] = IF @ = "NONE" THEN "PENDING" ELSE @]
          /\ pc' = [pc EXCEPT ![c] = "pending"]
          /\ UNCHANGED <<ops, performed, request, goal>>
      BY <1>4, <2>1 DEF EnsureApproval, Goto
    <3>2. Shapes'
      BY <3>1 DEF IInv, Shapes
    <3>3. \A r \in Requests : approval[r] = "APPROVED" => approval'[r] = "APPROVED"
      BY <3>1 DEF IInv, Shapes
    <3> QED
      BY <3>1, <3>2, <3>3 DEF IInv, Shapes, Approved, OneClaim, Claims, Allowed, Owning, Key,
         SideEffects, Protected
  <2> QED BY <2>1
<1>5. CASE SavePending(c)
  <2>1. CASE ~Fails(c)
    <3>1. /\ pc' = [pc EXCEPT ![c] = "pending_event"]
          /\ UNCHANGED <<approval, ops, performed, request, goal>>
      BY <1>5, <2>1 DEF SavePending, Goto
    <3> QED BY <3>1, LeaveSafe DEF Allowed, IInv, Shapes
  <2> QED BY <2>1
<1>6. CASE PendingEvent(c)
  <2>1. CASE ~Fails(c)
    <3>1. /\ pc' = [pc EXCEPT ![c] = "done"]
          /\ UNCHANGED <<approval, ops, performed, request, goal>>
      BY <1>6, <2>1 DEF PendingEvent, Reply, Goto, stored
    <3> QED BY <3>1, LeaveSafe DEF Allowed, IInv, Shapes
  <2> QED BY <2>1
<1> QED BY <1>1, <1>2, <1>3, <1>4, <1>5, <1>6

\* Up to the backend: recording the intent makes the only claim on its key.
LEMMA ExecutionSafe ==
    ASSUME IInv, NEW c \in Calls,
           Credentials(c) \/ RecordIntent(c) \/ SaveExecuting(c) \/ Started(c) \/ Execute(c)
    PROVE  IInv'
<1> USE FailsSafe
<1>1. CASE Credentials(c)
  <2>1. CASE ~Fails(c)
    <3>1. /\ pc[c] = "credentials"
          /\ pc' = [pc EXCEPT ![c] = IF SideEffects(c) THEN "intent" ELSE "row"]
          /\ UNCHANGED <<approval, ops, performed, request, goal>>
      BY <1>1, <2>1 DEF Credentials, Goto, stored
    <3> QED
      BY <3>1 DEF IInv, Shapes, Approved, OneClaim, Claims, Allowed, Owning, Key,
         SideEffects, Protected
  <2> QED BY <2>1
<1>2. CASE RecordIntent(c)
  <2>1. CASE ~Fails(c) /\ ops[Key(c)] = "NONE"
    <3>1. /\ pc[c] = "intent"
          /\ ops' = [ops EXCEPT ![Key(c)] = "INTENT_RECORDED"]
          /\ pc' = [pc EXCEPT ![c] = "row"]
          /\ UNCHANGED <<approval, performed, request, goal>>
      BY <1>2, <2>1 DEF RecordIntent, Goto
    <3>2. Shapes' /\ Approved'
      BY <3>1 DEF IInv, Shapes, Approved, Allowed, Key, SideEffects, Protected
    <3>3. \A d \in Calls : Claims(d) => Key(d) # Key(c)
      BY <2>1 DEF IInv, OneClaim
    <3>4. \A d \in Calls : Claims(d)' => d = c \/ Claims(d)
      BY <3>1 DEF IInv, Shapes, Claims, SideEffects
    <3>5. \A d \in Calls : Key(d)' = Key(d)
      BY <3>1 DEF Key
    <3>6. \A d \in Calls : Claims(d) => ops'[Key(d)] # "NONE"
      BY <3>1, <3>3 DEF IInv, OneClaim, Shapes
    <3>7. Claims(c)' => ops'[Key(c)] # "NONE"
      <4>1. SUFFICES ASSUME SideEffects(c) PROVE ops'[Key(c)] # "NONE"
        BY <3>1 DEF Claims, SideEffects
      <4>2. Key(c) \in Keys
        BY <3>1, <4>1, KeyInKeys DEF IInv, Shapes, Approved, Allowed
      <4> QED BY <3>1, <4>2 DEF IInv, Shapes
    <3>8. OneClaim'
      BY <3>3, <3>4, <3>5, <3>6, <3>7 DEF IInv, OneClaim
    <3> QED BY <3>2, <3>8 DEF IInv
  <2>2. CASE ~Fails(c) /\ ops[Key(c)] # "NONE"
    <3>1. /\ pc' = [pc EXCEPT ![c] = "save"]
          /\ goal' = [goal EXCEPT ![c] = DuplicateResult(ops[Key(c)])]
          /\ UNCHANGED <<approval, ops, performed, request>>
      BY <1>2, <2>2 DEF RecordIntent, Terminal, Goto, stored
    <3> QED BY <3>1, LeaveSafe DEF Allowed, IInv, Shapes
  <2> QED BY <2>1, <2>2
<1>3. CASE SaveExecuting(c)
  <2>1. CASE ~Fails(c)
    <3>1. /\ pc[c] = "row"
          /\ pc' = [pc EXCEPT ![c] = "started"]
          /\ UNCHANGED <<approval, ops, performed, request, goal>>
      BY <1>3, <2>1 DEF SaveExecuting, Goto
    <3> QED
      BY <3>1 DEF IInv, Shapes, Approved, OneClaim, Claims, Allowed, Owning, Key,
         SideEffects, Protected
  <2> QED BY <2>1
<1>4. CASE Started(c)
  <2>1. CASE ~Fails(c)
    <3>1. /\ pc[c] = "started"
          /\ pc' = [pc EXCEPT ![c] = "execute"]
          /\ UNCHANGED <<approval, ops, performed, request, goal>>
      BY <1>4, <2>1 DEF Started, Goto, stored
    <3> QED
      BY <3>1 DEF IInv, Shapes, Approved, OneClaim, Claims, Allowed, Owning, Key,
         SideEffects, Protected
  <2> QED BY <2>1
<1>5. CASE Execute(c)
  <2>1. CASE ~Fails(c)
    <3>1. PICK p \in {"finish", "save", "execute_failed"} :
            /\ pc[c] = "execute"
            /\ pc' = [pc EXCEPT ![c] = p]
            /\ performed' = performed \cup {c}
            /\ goal' = [goal EXCEPT ![c] = "SUCCEEDED"]
            /\ UNCHANGED <<approval, ops, request>>
      BY <1>5, <2>1 DEF Execute, Goto, stored
    <3>2. Shapes' /\ Approved'
      BY <3>1 DEF IInv, Shapes, Approved, Allowed, Key, SideEffects, Protected
    <3>3. \A d \in Calls : Claims(d)' => Claims(d)
      BY <3>1 DEF IInv, Shapes, Claims, Owning, SideEffects
    <3>4. OneClaim'
      BY <3>1, <3>3 DEF IInv, OneClaim, Key
    <3> QED BY <3>2, <3>4 DEF IInv
  <2> QED BY <2>1
<1> QED BY <1>1, <1>2, <1>3, <1>4, <1>5

\* After the backend: a ledger row is overwritten but never removed.
LEMMA OutcomeSafe ==
    ASSUME IInv, NEW c \in Calls,
           ExecuteFailed(c) \/ Finish(c) \/ FailFinish(c) \/ SaveTerminal(c)
             \/ Announce(c) \/ Lose(c)
    PROVE  IInv'
<1> USE FailsSafe
<1>1. CASE ExecuteFailed(c)
  BY <1>1 DEF ExecuteFailed
<1>2. ASSUME NEW status \in {"SUCCEEDED", "FAILED"}, NEW g,
             ops' = [ops EXCEPT ![Key(c)] = status],
             pc' = [pc EXCEPT ![c] = "save"],
             goal' = [goal EXCEPT ![c] = g],
             UNCHANGED <<approval, performed, request>>
      PROVE  IInv'
  <2>1. Shapes' /\ Approved'
    BY <1>2 DEF IInv, Shapes, Approved, Allowed, Key, SideEffects, Protected
  <2>2. \A d \in Calls : Claims(d)' => Claims(d)
    BY <1>2 DEF IInv, Shapes, Claims, Owning, SideEffects
  <2>3. \A d \in Calls : Claims(d) => ops'[Key(d)] # "NONE"
    <3>1. SUFFICES ASSUME NEW d \in Calls, Claims(d) PROVE ops'[Key(d)] # "NONE"
      OBVIOUS
    <3>2. Key(d) \in Keys
      BY <3>1, KeyInKeys DEF IInv, Shapes, Approved, Claims, Owning, Allowed
    <3> QED BY <1>2, <3>1, <3>2 DEF IInv, Shapes, OneClaim
  <2>4. OneClaim'
    BY <1>2, <2>2, <2>3 DEF IInv, OneClaim, Key
  <2> QED BY <2>1, <2>4 DEF IInv
<1>3. CASE Finish(c)
  BY <1>2, <1>3 DEF Finish, Terminal, Goto
<1>4. CASE FailFinish(c)
  <2>1. CASE ~Fails(c) /\ Key(c) = NoKey
    <3>1. /\ pc' = [pc EXCEPT ![c] = "save"]
          /\ goal' = [goal EXCEPT ![c] = "FAILED"]
          /\ UNCHANGED <<approval, ops, performed, request>>
      BY <1>4, <2>1 DEF FailFinish, Terminal, Goto
    <3> QED BY <3>1, LeaveSafe DEF Allowed, IInv, Shapes
  <2>2. CASE ~Fails(c) /\ Key(c) # NoKey
    BY <1>2, <1>4, <2>2 DEF FailFinish, Terminal, Goto
  <2> QED BY <2>1, <2>2
<1>5. CASE SaveTerminal(c)
  <2>1. CASE ~Fails(c)
    <3>1. /\ pc' = [pc EXCEPT ![c] = "announce"]
          /\ UNCHANGED <<approval, ops, performed, request, goal>>
      BY <1>5, <2>1 DEF SaveTerminal, Goto
    <3> QED BY <3>1, LeaveSafe DEF Allowed, IInv, Shapes
  <2> QED BY <2>1
<1>6. CASE Announce(c)
  <2>1. CASE ~Fails(c)
    <3>1. /\ pc' = [pc EXCEPT ![c] = "done"]
          /\ UNCHANGED <<approval, ops, performed, request, goal>>
      BY <1>6, <2>1 DEF Announce, Reply, Goto, stored
    <3> QED BY <3>1, LeaveSafe DEF Allowed, IInv, Shapes
  <2> QED BY <2>1
<1>7. CASE Lose(c)
  <2>1. /\ pc' = [pc EXCEPT ![c] = "done"]
        /\ UNCHANGED <<approval, ops, performed, request, goal>>
    BY <1>7 DEF Lose, Goto, stored
  <2> QED BY <2>1, LeaveSafe DEF Allowed, IInv, Shapes
<1> QED BY <1>1, <1>3, <1>4, <1>5, <1>6, <1>7

\* An approval is decided only while it is pending.
LEMMA DecideSafe ==
    ASSUME IInv, NEW r \in Requests, DecideApproval(r)
    PROVE  IInv'
<1>1. Shapes'
  BY DEF DecideApproval, IInv, Shapes
<1>2. \A q \in Requests : approval[q] = "APPROVED" => approval'[q] = "APPROVED"
  BY DEF DecideApproval, IInv, Shapes
<1> QED
  BY <1>1, <1>2 DEF DecideApproval, IInv, Shapes, Approved, OneClaim, Claims, Key,
     SideEffects, Protected

\* Reconciliation keeps every row.
LEMMA ReconcileSafe ==
    ASSUME IInv, ReconcileUncertain
    PROVE  IInv'
<1>1. Shapes' /\ Approved'
  BY DEF ReconcileUncertain, IInv, Shapes, Approved, Key, SideEffects, Protected
<1>2. \A d \in Calls : Claims(d) => ops'[Key(d)] # "NONE"
  <2>1. SUFFICES ASSUME NEW d \in Calls, Claims(d) PROVE ops'[Key(d)] # "NONE"
    OBVIOUS
  <2>2. Key(d) \in Keys
    BY <2>1, KeyInKeys DEF IInv, Shapes, Approved, Claims, Owning, Allowed
  <2> QED BY <2>1, <2>2 DEF ReconcileUncertain, IInv, OneClaim
<1>3. \A d \in Calls : (Claims(d)' <=> Claims(d)) /\ Key(d)' = Key(d)
  BY DEF ReconcileUncertain, Claims, SideEffects, Key
<1>4. OneClaim'
  BY <1>2, <1>3 DEF IInv, OneClaim
<1> QED BY <1>1, <1>4 DEF IInv

\* Every step preserves the invariant.
LEMMA NextIInv == IInv /\ [Next]_vars => IInv'
<1> SUFFICES ASSUME IInv, [Next]_vars PROVE IInv'
  OBVIOUS
<1>1. ASSUME NEW c \in Calls, CallStep(c) PROVE IInv'
  BY <1>1, AuthorizationSafe, ExecutionSafe, OutcomeSafe DEF CallStep
<1>2. CASE UNCHANGED vars
  BY <1>2 DEF vars, IInv, Shapes, Approved, OneClaim, Claims, Key, SideEffects, Protected
<1> QED BY <1>1, <1>2, DecideSafe, ReconcileSafe DEF Next

\* CapabilityGateway.execute performs a side effect at most once per idempotency
\* key: the insert on the unique key admits one claim, nothing removes the row,
\* and only the claimant reaches the backend.
THEOREM CapabilityAtMostOnce == Spec => []AtMostOnce
BY InitIInv, NextIInv, IInvSafe, PTL DEF Spec

\* No protected backend acts without the operator's approval of exactly that
\* request, and no side effect precedes its durable intent.
THEOREM CapabilityEffectGoverned == Spec => []EffectGoverned
BY InitIInv, NextIInv, IInvSafe, PTL DEF Spec

--------------------------------------------------------------------------------
(* What a caller is told. *)

\* Requests carry a key only where there is a side effect to record, if they get so far.
KeysAreForEffects == \A r \in Requests : r.capability \in {"read", "guarded"} => r.key = NoKey

\* The effect under a key has happened.
Done(k) == \E d \in performed : SideEffects(d) /\ Key(d) = k

\* A success that is recorded, about to be recorded or reported is one of an effect that has
\* happened.
Outcomes ==
    /\ DOMAIN reply = Calls
    /\ \A k \in Keys : ops[k] = "SUCCEEDED" => Done(k)
    /\ \A c \in Calls : pc[c] = "finish" => c \in performed /\ Key(c) # NoKey
    /\ \A c \in Calls : SideEffects(c) /\ goal[c] = "SUCCEEDED" => Done(Key(c))
    /\ \A c \in Calls : SideEffects(c) /\ reply[c] = "SUCCEEDED" => Done(Key(c))

\* An effect is not undone, so only what is newly called a success needs one.
LEMMA OutcomesKept ==
    ASSUME Outcomes, request' = request, performed \subseteq performed', DOMAIN reply' = Calls,
           \A k \in Keys : ops'[k] = "SUCCEEDED" => ops[k] = "SUCCEEDED" \/ Done(k)',
           \A d \in Calls : pc'[d] = "finish" =>
             pc[d] = "finish" \/ (d \in performed' /\ Key(d) # NoKey),
           \A d \in Calls : SideEffects(d) /\ goal'[d] = "SUCCEEDED" =>
             goal[d] = "SUCCEEDED" \/ Done(Key(d))',
           \A d \in Calls : SideEffects(d) /\ reply'[d] = "SUCCEEDED" =>
             reply[d] = "SUCCEEDED" \/ goal[d] = "SUCCEEDED"
    PROVE  Outcomes'
<1>1. \A k : Done(k) => Done(k)'
  BY DEF Done, SideEffects, Key
<1>2. \A d : Key(d)' = Key(d) /\ (SideEffects(d)' <=> SideEffects(d))
  BY DEF Key, SideEffects
<1>3. \A d \in Calls : SideEffects(d) /\ goal'[d] = "SUCCEEDED" => Done(Key(d))'
  BY <1>1, <1>2 DEF Outcomes
<1>4. \A d \in Calls : SideEffects(d) /\ reply'[d] = "SUCCEEDED" => Done(Key(d))'
  BY <1>1, <1>2 DEF Outcomes
<1> QED
  BY <1>1, <1>2, <1>3, <1>4 DEF Outcomes

\* A step of one call that records no success and does not go to finish.
LEMMA QuietOutcome ==
    ASSUME IInv, Outcomes, NEW c \in Calls, NEW p, p # "finish", pc' = [pc EXCEPT ![c] = p],
           UNCHANGED <<ops, performed, request>>,
           UNCHANGED goal \/ \E g : g # "SUCCEEDED" /\ goal' = [goal EXCEPT ![c] = g],
           UNCHANGED reply \/ \E a : /\ a = "SUCCEEDED" => goal[c] = "SUCCEEDED"
                                     /\ reply' = [reply EXCEPT ![c] = a]
    PROVE  Outcomes'
<1>1. DOMAIN pc = Calls /\ DOMAIN goal = Calls /\ DOMAIN reply = Calls
  BY DEF IInv, Shapes, Outcomes
<1>2. DOMAIN reply' = Calls
  BY <1>1
<1>3. \A d \in Calls : pc'[d] = "finish" => pc[d] = "finish"
  BY <1>1
<1>4. \A d \in Calls : goal'[d] = "SUCCEEDED" => goal[d] = "SUCCEEDED"
  BY <1>1
<1>5. \A d \in Calls : reply'[d] = "SUCCEEDED" => reply[d] = "SUCCEEDED" \/ goal[d] = "SUCCEEDED"
  BY <1>1
<1> QED
  BY <1>2, <1>3, <1>4, <1>5, OutcomesKept

\* A failing call reports no success.
LEMMA FailsOutcome ==
    ASSUME IInv, Outcomes, NEW c \in Calls, Fails(c)
    PROVE  Outcomes'
<1>1. CASE covered[c]
  BY <1>1, QuietOutcome DEF Fails, Goto, stored
<1>2. CASE ~covered[c]
  BY <1>2, QuietOutcome DEF Fails, Reply, Goto, stored
<1> QED
  BY <1>1, <1>2

\* The steps that perform nothing and finish nothing.
LEMMA QuietSteps ==
    ASSUME IInv, Outcomes, NEW c \in Calls,
           \/ Begin(c) \/ Authorize(c) \/ Requested(c) \/ EnsureApproval(c) \/ SavePending(c)
           \/ PendingEvent(c) \/ Credentials(c) \/ SaveExecuting(c) \/ Started(c)
           \/ ExecuteFailed(c) \/ SaveTerminal(c) \/ Announce(c) \/ Lose(c)
    PROVE  Outcomes'
<1> SUFFICES ASSUME ~Fails(c)
             PROVE  Outcomes'
  BY FailsOutcome
<1>1. CASE Begin(c)
  BY <1>1, QuietOutcome DEF Begin, Goto, stored
<1>2. CASE Authorize(c)
  <2>1. PICK g \in {"DENIED", "REQUIRES_APPROVAL", "EXECUTING"} : goal' = [goal EXCEPT ![c] = g]
    BY <1>2 DEF Authorize
  <2> QED
    BY <1>2, <2>1, QuietOutcome DEF Authorize, Goto, stored
<1>3. CASE Requested(c)
  <2>1. CASE goal[c] = "DENIED"
    BY <1>3, <2>1, QuietOutcome DEF Requested, Terminal, Goto, stored
  <2>2. CASE goal[c] # "DENIED"
    BY <1>3, <2>2, QuietOutcome DEF Requested, Goto, stored
  <2> QED
    BY <2>1, <2>2
<1>4. CASE EnsureApproval(c)
  BY <1>4, QuietOutcome DEF EnsureApproval, Goto
<1>5. CASE SavePending(c)
  BY <1>5, QuietOutcome DEF SavePending, Goto
<1>6. CASE PendingEvent(c)
  BY <1>6, QuietOutcome DEF PendingEvent, Reply, Goto, stored
<1>7. CASE Credentials(c)
  BY <1>7, QuietOutcome DEF Credentials, Goto, stored
<1>8. CASE SaveExecuting(c)
  BY <1>8, QuietOutcome DEF SaveExecuting, Goto
<1>9. CASE Started(c)
  BY <1>9, QuietOutcome DEF Started, Goto, stored
<1>10. CASE ExecuteFailed(c)
  BY <1>10 DEF ExecuteFailed
<1>11. CASE SaveTerminal(c)
  BY <1>11, QuietOutcome DEF SaveTerminal, Goto
<1>12. CASE Announce(c)
  BY <1>12, QuietOutcome DEF Announce, Reply, Goto, stored
<1>13. CASE Lose(c)
  BY <1>13, QuietOutcome DEF Lose, Goto, stored
<1> QED
  BY <1>1, <1>2, <1>3, <1>4, <1>5, <1>6, <1>7, <1>8, <1>9, <1>10, <1>11, <1>12, <1>13

\* A duplicate is told a success only where the ledger has one.
LEMMA IntentOutcome ==
    ASSUME IInv, Outcomes, NEW c \in Calls, RecordIntent(c)
    PROVE  Outcomes'
<1> SUFFICES ASSUME ~Fails(c)
             PROVE  Outcomes'
  BY FailsOutcome
<1>0. DOMAIN pc = Calls /\ DOMAIN goal = Calls /\ DOMAIN ops = Keys /\ DOMAIN reply = Calls
  BY DEF IInv, Shapes, Outcomes
<1>1. CASE ops[Key(c)] = "NONE"
  <2>1. /\ ops' = [ops EXCEPT ![Key(c)] = "INTENT_RECORDED"] /\ pc' = [pc EXCEPT ![c] = "row"]
        /\ UNCHANGED <<performed, request, goal, reply>>
    BY <1>1 DEF RecordIntent, Goto
  <2>2. \A k \in Keys : ops'[k] = "SUCCEEDED" => ops[k] = "SUCCEEDED"
    BY <1>0, <2>1
  <2>3. \A d \in Calls : pc'[d] = "finish" => pc[d] = "finish"
    BY <1>0, <2>1
  <2> QED
    BY <1>0, <2>1, <2>2, <2>3, OutcomesKept
<1>2. CASE ops[Key(c)] # "NONE"
  <2>1. /\ pc' = [pc EXCEPT ![c] = "save"]
        /\ goal' = [goal EXCEPT ![c] = DuplicateResult(ops[Key(c)])]
        /\ pc[c] = "intent" /\ UNCHANGED <<ops, performed, request, reply>>
    BY <1>2 DEF RecordIntent, Terminal, Goto, stored
  <2>2. SideEffects(c) /\ goal'[c] = "SUCCEEDED" => Done(Key(c))
    <3>1. SideEffects(c) => Key(c) \in Keys
      BY <2>1, KeyInKeys DEF IInv, Shapes, Approved, Allowed
    <3>2. goal'[c] = "SUCCEEDED" => ops[Key(c)] = "SUCCEEDED"
      BY <1>0, <2>1 DEF DuplicateResult
    <3> QED
      BY <3>1, <3>2 DEF Outcomes
  <2>3. Done(Key(c)) => Done(Key(c))'
    BY <2>1 DEF Done, SideEffects, Key
  <2>4. \A d \in Calls : SideEffects(d) /\ goal'[d] = "SUCCEEDED" =>
          goal[d] = "SUCCEEDED" \/ Done(Key(d))'
    BY <1>0, <2>1, <2>2, <2>3
  <2>5. \A d \in Calls : pc'[d] = "finish" => pc[d] = "finish"
    BY <1>0, <2>1
  <2> QED
    BY <1>0, <2>1, <2>4, <2>5, OutcomesKept
<1> QED
  BY <1>1, <1>2

\* The backend has acted when its answer is about to be recorded.
LEMMA ExecuteOutcome ==
    ASSUME IInv, Outcomes, NEW c \in Calls, Execute(c)
    PROVE  Outcomes'
<1> SUFFICES ASSUME ~Fails(c)
             PROVE  Outcomes'
  BY FailsOutcome
<1>0. DOMAIN pc = Calls /\ DOMAIN goal = Calls /\ DOMAIN reply = Calls
  BY DEF IInv, Shapes, Outcomes
<1>1. PICK p : /\ pc' = [pc EXCEPT ![c] = p] /\ (p = "finish" => Key(c) # NoKey)
               /\ performed' = performed \cup {c} /\ goal' = [goal EXCEPT ![c] = "SUCCEEDED"]
               /\ UNCHANGED <<ops, request, reply>>
  BY DEF Execute, Goto, stored
<1>2. SideEffects(c) => Done(Key(c))'
  BY <1>1 DEF Done, SideEffects, Key
<1>3. \A d \in Calls : SideEffects(d) /\ goal'[d] = "SUCCEEDED" =>
        goal[d] = "SUCCEEDED" \/ Done(Key(d))'
  BY <1>0, <1>1, <1>2
<1>4. \A d \in Calls : pc'[d] = "finish" =>
        pc[d] = "finish" \/ (d \in performed' /\ Key(d) # NoKey)
  BY <1>0, <1>1
<1> QED
  BY <1>0, <1>1, <1>3, <1>4, OutcomesKept

\* finish is reached by a call whose effect has happened; with keys kept for side effects, the
\* row it marks a success is the one of that effect.
LEMMA FinishOutcome ==
    ASSUME KeysAreForEffects, IInv, Outcomes, NEW c \in Calls, Finish(c) \/ FailFinish(c)
    PROVE  Outcomes'
<1> SUFFICES ASSUME ~Fails(c)
             PROVE  Outcomes'
  BY FailsOutcome
<1>0. DOMAIN pc = Calls /\ DOMAIN goal = Calls /\ DOMAIN ops = Keys /\ DOMAIN reply = Calls
  BY DEF IInv, Shapes, Outcomes
<1>1. CASE Finish(c)
  <2>1. /\ ops' = [ops EXCEPT ![Key(c)] = "SUCCEEDED"] /\ pc' = [pc EXCEPT ![c] = "save"]
        /\ goal' = [goal EXCEPT ![c] = "SUCCEEDED"] /\ pc[c] = "finish"
        /\ UNCHANGED <<performed, request, reply>>
    BY <1>1 DEF Finish, Terminal, Goto
  <2>2. c \in performed /\ Key(c) # NoKey
    BY <2>1 DEF Outcomes
  <2>3. request[c] \in Requests /\ request[c].capability # "denied"
    BY <2>2 DEF IInv, Shapes, Approved
  <2>4. SideEffects(c)
    BY <2>2, <2>3, RequestsAssumption DEF KeysAreForEffects, SideEffects, Key, Kinds
  <2>5. Done(Key(c))'
    BY <2>1, <2>2, <2>4 DEF Done, SideEffects, Key
  <2>6. Key(c)' = Key(c)
    BY <2>1 DEF Key
  <2>7. \A k \in Keys : ops'[k] = "SUCCEEDED" => ops[k] = "SUCCEEDED" \/ Done(k)'
    BY <1>0, <2>1, <2>5, <2>6
  <2>8. \A d \in Calls : SideEffects(d) /\ goal'[d] = "SUCCEEDED" =>
          goal[d] = "SUCCEEDED" \/ Done(Key(d))'
    BY <1>0, <2>1, <2>5
  <2>9. \A d \in Calls : pc'[d] = "finish" => pc[d] = "finish"
    BY <1>0, <2>1
  <2> QED
    BY <1>0, <2>1, <2>7, <2>8, <2>9, OutcomesKept
<1>2. CASE FailFinish(c)
  <2>1. /\ ops' = IF Key(c) = NoKey THEN ops ELSE [ops EXCEPT ![Key(c)] = "FAILED"]
        /\ pc' = [pc EXCEPT ![c] = "save"] /\ goal' = [goal EXCEPT ![c] = "FAILED"]
        /\ UNCHANGED <<performed, request, reply>>
    BY <1>2 DEF FailFinish, Terminal, Goto
  <2>2. \A k \in Keys : ops'[k] = "SUCCEEDED" => ops[k] = "SUCCEEDED"
    BY <1>0, <2>1
  <2>3. \A d \in Calls : goal'[d] = "SUCCEEDED" => goal[d] = "SUCCEEDED"
    BY <1>0, <2>1
  <2>4. \A d \in Calls : pc'[d] = "finish" => pc[d] = "finish"
    BY <1>0, <2>1
  <2> QED
    BY <1>0, <2>1, <2>2, <2>3, <2>4, OutcomesKept
<1> QED
  BY <1>1, <1>2

\* What is said of a success holds initially and is kept by every step.
LEMMA OutcomesInv ==
    ASSUME KeysAreForEffects
    PROVE  /\ Init => Outcomes
           /\ IInv /\ Outcomes /\ [Next]_vars => Outcomes'
<1>1. Init => Outcomes
  BY DEF Init, Outcomes
<1>2. ASSUME IInv, Outcomes, [Next]_vars
      PROVE  Outcomes'
  <2>1. ASSUME NEW c \in Calls, CallStep(c)
        PROVE  Outcomes'
    BY <1>2, <2>1, QuietSteps, IntentOutcome, ExecuteOutcome, FinishOutcome DEF CallStep
  <2>2. ASSUME NEW r \in Requests, DecideApproval(r)
        PROVE  Outcomes'
    BY <1>2, <2>2 DEF DecideApproval, Outcomes, Done, SideEffects, Key
  <2>3. CASE ReconcileUncertain
    <3>1. \A k \in Keys : ops'[k] = "SUCCEEDED" => ops[k] = "SUCCEEDED"
      BY <2>3 DEF ReconcileUncertain
    <3> QED
      BY <1>2, <2>3, <3>1 DEF ReconcileUncertain, Outcomes, Done, SideEffects, Key
  <2>4. CASE UNCHANGED vars
    BY <1>2, <2>4 DEF vars, Outcomes, Done, SideEffects, Key
  <2> QED
    BY <1>2, <2>1, <2>2, <2>3, <2>4 DEF Next
<1> QED
  BY <1>1, <1>2

\* A caller told that its side effect succeeded, first or as a duplicate, can rely on it, as
\* long as requests without a side effect carry no key (finish is by key, whoever calls it).
THEOREM CapabilitySuccessMeansDone ==
    ASSUME KeysAreForEffects
    PROVE  Spec => []SuccessMeansDone
<1>1. Outcomes => SuccessMeansDone
  BY DEF Outcomes, SuccessMeansDone, Done
<1> QED
  BY <1>1, InitIInv, NextIInv, OutcomesInv, PTL DEF Spec

================================================================================
