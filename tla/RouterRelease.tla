------------------------------ MODULE RouterRelease ------------------------------
(***************************************************************************)
(* Evaluation, promotion and rollback of router versions in one workspace    *)
(* (routing/promotion.py, routing/activation.py, api/router_admin.py, api/    *)
(* shadow.py) over the shadow stage they gate on.                            *)
(*                                                                         *)
(* Operators' requests run concurrently, in any number of API processes;      *)
(* req[o].at names the awaited call in flight.  An activation writes its two   *)
(* version rows and its ledger entry in one transaction under the workspace's *)
(* advisory lock (activation_transaction): one step.  What it read and        *)
(* drilled before may be stale by then.  A rollout of the ledger is never      *)
(* rewritten: "active" is its last entry.                                     *)
(***************************************************************************)
EXTENDS ShadowStage

CONSTANTS
    Candidates,   \* trained versions with a holdout evaluation
    Operators,    \* administrators with a request in flight
    Keys,         \* idempotency keys of evaluations
    Causes,       \* what an operator may write as the cause of a rollback
    MinPaired,    \* shadow_min_paired_runs
    Scenarios     \* where a behaviour starts, and bounds: [shadow, decisions,
                  \* results, reports, finished, requests, crashes, rots]

VARIABLES
    now,       \* the clock, as read by whoever builds a row
    reports,   \* router_promotion_reports: [id -> [candidate, baseline, decision]]
    ledger,    \* router_activations of the workspace family, in sequence
    lost,      \* trained versions whose artefact bytes cannot be read back
    req,       \* the request of each operator
    requests,  \* how many requests of each kind may still be made
    crashes, rots

releaseVars == <<now, reports, ledger, lost, req>>
bounds == <<requests, crashes, rots>>
vars == <<versions, shadowVars, releaseVars, bounds>>

Idle(answer) == [at |-> "idle", answer |-> answer]
Answer(o, answer) == req' = [req EXCEPT ![o] = Idle(answer)]
Step(o, r) == req' = [req EXCEPT ![o] = r]

\* The ledger's last entry, and what stands for none.
NoEntry == [kind |-> "NONE"]
LedgerHead == IF ledger = <<>> THEN NoEntry ELSE ledger[Len(ledger)]

Row(status, parent, root, created) ==
    [status |-> status, parent |-> parent, root |-> root, created |-> created]

--------------------------------------------------------------------------------
(* The store. *)

\* _guard_v04_drift: an id that is there already is only accepted with the very same body.
Stored(rows) == \A id \in DOMAIN rows \cap DOMAIN versions : rows[id] = versions[id]

\* A table with the rows of another that it lacks, and one with a single row.
Extended(table, rows) ==
    [id \in DOMAIN table \cup DOMAIN rows |-> IF id \in DOMAIN table THEN table[id] ELSE rows[id]]
Single(id, row) == [x \in {id} |-> row]

Put(rows) == versions' = Extended(versions, rows)

--------------------------------------------------------------------------------
(* Registering a shadow version (ShadowEvaluator.register). *)

Begin(o, kind) ==
    /\ req[o].at = "idle" /\ requests[kind] > 0
    /\ requests' = [requests EXCEPT ![kind] = @ - 1]

\* The same candidate and budget return the first row; only a CANDIDATE is shadowed.
RegisterShadow(o) ==
    /\ Begin(o, "register")
    /\ \E c \in DOMAIN versions, b \in Budgets :
         \/ /\ versions[c].status # "CANDIDATE" /\ Answer(o, "refused") /\ UNCHANGED now
         \/ /\ versions[c].status = "CANDIDATE" /\ ShadowId(c, b) \in DOMAIN versions
            /\ Answer(o, "replayed") /\ UNCHANGED now
         \/ /\ versions[c].status = "CANDIDATE" /\ ShadowId(c, b) \notin DOMAIN versions
            /\ now' = now + 1
            /\ Step(o, [at |-> "register_put", candidate |-> c, budget |-> b,
                        created |-> now])
    /\ UNCHANGED <<versions, shadowVars, reports, ledger, lost, crashes, rots>>

PutShadow(o) ==
    /\ req[o].at = "register_put"
    /\ LET r == req[o]
           rows == Single(ShadowId(r.candidate, r.budget),
                          Row("SHADOW", r.candidate, versions[r.candidate].root, r.created))
       IN  \/ /\ Stored(rows) /\ Put(rows) /\ Answer(o, "done")
           \/ /\ ~Stored(rows) /\ Answer(o, "immutable") /\ UNCHANGED versions
    /\ UNCHANGED <<shadowVars, now, reports, ledger, lost, bounds>>

--------------------------------------------------------------------------------
(* The evaluation that seals a promotion report (PromotionEvaluator.evaluate). *)

\* A version can be assembled: its status may route and its artefacts are readable.
Assembles(v) == versions[v].status \in Loadable /\ versions[v].root \notin lost

\* What the holdout says of the candidate: a regression, non-inferior, or better by delta_min.
\* A version that cannot be drilled or assembled is a critical finding of its own.
Scores(c, b) ==
    IF Assembles(c) /\ Assembles(b) THEN {"regression", "non_inferior", "better"}
                                    ELSE {"regression"}

ReportId(c, b, k) == <<c, b, k>>

\* evaluate up to _shadow: a sealed report is returned, a leaking holdout refused.
Evaluate(o) ==
    /\ Begin(o, "evaluate")
    /\ \E c \in Candidates, b \in DOMAIN versions, k \in Keys :
         \/ /\ ReportId(c, b, k) \in DOMAIN reports /\ Answer(o, "replayed")
         \/ /\ ReportId(c, b, k) \notin DOMAIN reports /\ Answer(o, "refused")
         \/ /\ ReportId(c, b, k) \notin DOMAIN reports /\ c # b
            /\ \E s \in Scores(c, b) :
                 Step(o, [at |-> "evaluate_shadow", candidate |-> c, baseline |-> b,
                          key |-> k, score |-> s])
    /\ UNCHANGED <<versions, shadowVars, now, reports, ledger, lost, crashes, rots>>

Greatest(vs) == CHOOSE v \in vs : \A w \in vs : HashRank[BudgetOf(w)] <= HashRank[BudgetOf(v)]

\* _shadow lists the candidate's shadow versions and their decisions, and keeps the decisions
\* of the version with the greatest id; shadow_report refuses an empty list of them.
ReadDecisions(o) ==
    /\ req[o].at = "evaluate_shadow"
    /\ LET r == req[o]
           mine == {v \in ShadowVersions : versions[v].parent = r.candidate}
           heard == {d \in decisions : d.version \in mine}
       IN  \/ /\ heard = {}
              /\ Step(o, [at |-> "evaluate_put", candidate |-> r.candidate,
                          baseline |-> r.baseline, key |-> r.key, score |-> r.score,
                          shadow |-> FALSE])
           \/ /\ heard # {} /\ \E d \in heard : d.version = Greatest(mine)
              /\ Step(o, [at |-> "evaluate_results", candidate |-> r.candidate,
                          baseline |-> r.baseline, key |-> r.key, score |-> r.score,
                          version |-> Greatest(mine),
                          heard |-> {d.receipt : d \in
                                       {e \in heard : e.version = Greatest(mine)}}])
           \/ /\ heard # {} /\ ~\E d \in heard : d.version = Greatest(mine)
              /\ Answer(o, "invalid")
    /\ UNCHANGED <<versions, shadowVars, now, reports, ledger, lost, bounds>>

\* shadow_gate: enough complete pairs, and the lower bound of their delta at the margin.
ShadowGate(v, heard, inferior) == Cardinality(Complete(v, heard)) >= MinPaired /\ ~inferior

ReadResults(o) ==
    /\ req[o].at = "evaluate_results"
    /\ \E inferior \in BOOLEAN :
         LET r == req[o]
         IN  Step(o, [at |-> "evaluate_put", candidate |-> r.candidate,
                      baseline |-> r.baseline, key |-> r.key, score |-> r.score,
                      shadow |-> ShadowGate(r.version, r.heard, inferior)])
    /\ UNCHANGED <<versions, shadowVars, now, reports, ledger, lost, bounds>>

Decision(score, shadow) ==
    IF score = "regression" THEN "REJECT"
    ELSE IF score = "better" /\ shadow THEN "PROMOTE" ELSE "REQUIRE_REVIEW"

\* put_router_promotion_report: another evaluation under the key may have sealed its own.
PutReport(o) ==
    /\ req[o].at = "evaluate_put"
    /\ LET r == req[o]
           id == ReportId(r.candidate, r.baseline, r.key)
       IN  \/ /\ id \in DOMAIN reports /\ Answer(o, "immutable") /\ UNCHANGED reports
           \/ /\ id \notin DOMAIN reports /\ Answer(o, "done")
              /\ reports' = Extended(reports, Single(id,
                   [candidate |-> r.candidate, baseline |-> r.baseline,
                    decision |-> Decision(r.score, r.shadow)]))
    /\ UNCHANGED <<versions, shadowVars, now, ledger, lost, bounds>>

--------------------------------------------------------------------------------
(* Promotion and rollback (PromotionService). *)

ServedBy(report) == LedgerHead # NoEntry /\ LedgerHead.report = report

\* promote before the transaction: an approved report, not the one now serving, whose rollback
\* target loads and predicts (RollbackDrill.run).
Promote(o) ==
    /\ Begin(o, "promote")
    /\ \E id \in DOMAIN reports :
         \/ reports[id].decision # "PROMOTE" /\ Answer(o, "refused")
         \/ reports[id].decision = "PROMOTE" /\ ServedBy(id) /\ Answer(o, "replayed")
         \/ /\ reports[id].decision = "PROMOTE" /\ ~ServedBy(id)
            /\ Step(o, [at |-> "promote_drill", report |-> id, read |-> LedgerHead])
    /\ UNCHANGED <<versions, shadowVars, now, reports, ledger, lost, crashes, rots>>

DrillTarget(o) ==
    /\ req[o].at = "promote_drill"
    /\ \/ /\ Assembles(reports[req[o].report].baseline)
          /\ Step(o, [at |-> "promote_commit", report |-> req[o].report, read |-> req[o].read])
       \/ ~Assembles(reports[req[o].report].baseline) /\ Answer(o, "refused")
    /\ UNCHANGED <<versions, shadowVars, now, reports, ledger, lost, bounds>>

\* _version_row: a new row beside its source, with the same artefacts, at a new time.
VersionRow(source, status, purpose, cause) ==
    Single(DerivedId(source, purpose, cause), Row(status, source, versions[source].root, now))

\* activate_router_version: the rows and the entry together, or nothing at all.
Activate(o, rows, entry) ==
    /\ now' = now + 1
    /\ \/ Stored(rows) /\ Put(rows) /\ ledger' = Append(ledger, entry) /\ Answer(o, "done")
       \/ ~Stored(rows) /\ Answer(o, "immutable") /\ UNCHANGED <<versions, ledger>>

Serving(head) == IF head = NoEntry THEN None ELSE head.version

Release(o, head) ==
    LET id == req[o].report
        promoted == VersionRow(reports[id].candidate, "ACTIVE", "promoted", id)
        retired == IF head = NoEntry THEN <<>>
                   ELSE VersionRow(head.version, "RETIRED", "retired", id)
    IN  Activate(o, Extended(promoted, retired),
                 [kind |-> "PROMOTE", version |-> DerivedId(reports[id].candidate, "promoted", id),
                  previous |-> Serving(head), target |-> reports[id].baseline, report |-> id])

\* Mutant of CommitPromotion: the head read before the lock was taken is retired.
CommitPromotionStale(o) ==
    /\ req[o].at = "promote_commit"
    /\ Release(o, req[o].read)
    /\ UNCHANGED <<shadowVars, reports, lost, bounds>>

\* The transaction of promote, under the workspace's lock: the head is read again, the replay
\* is not.
CommitPromotion(o) ==
    /\ req[o].at = "promote_commit"
    /\ Release(o, LedgerHead)
    /\ UNCHANGED <<shadowVars, reports, lost, bounds>>

Withdrawn(v) == LedgerHead # NoEntry /\ LedgerHead.kind = "ROLLBACK" /\ LedgerHead.previous = v

\* rollback before the transaction: only the version now serving is withdrawn.
Rollback(o) ==
    /\ Begin(o, "rollback")
    /\ \E v \in {ledger[i].version : i \in DOMAIN ledger}, cause \in Causes :
         \/ Withdrawn(v) /\ Answer(o, "replayed")
         \/ ~Withdrawn(v) /\ LedgerHead.version # v /\ Answer(o, "refused")
         \/ /\ ~Withdrawn(v) /\ LedgerHead.version = v
            /\ Step(o, [at |-> "rollback_drill", version |-> v, cause |-> cause,
                        target |-> LedgerHead.target])
    /\ UNCHANGED <<versions, shadowVars, now, reports, ledger, lost, crashes, rots>>

DrillRestored(o) ==
    /\ req[o].at = "rollback_drill"
    /\ \/ /\ Assembles(req[o].target)
          /\ Step(o, [at |-> "rollback_commit", version |-> req[o].version,
                      cause |-> req[o].cause, target |-> req[o].target])
       \/ ~Assembles(req[o].target) /\ Answer(o, "refused")
    /\ UNCHANGED <<versions, shadowVars, now, reports, ledger, lost, bounds>>

\* The transaction of rollback: the checks are repeated under the lock.
CommitRollback(o) ==
    /\ req[o].at = "rollback_commit"
    /\ LET r == req[o]
           current == LedgerHead.version = r.version /\ LedgerHead.target = r.target
           restored == VersionRow(r.target, "ACTIVE", "restored", r.cause)
           rolledBack == VersionRow(r.version, "ROLLED_BACK", "rolled-back", r.cause)
       IN  \/ /\ Withdrawn(r.version) /\ Answer(o, "replayed")
              /\ UNCHANGED <<versions, ledger, now>>
           \/ /\ ~Withdrawn(r.version) /\ ~current /\ Answer(o, "refused")
              /\ UNCHANGED <<versions, ledger, now>>
           \/ /\ ~Withdrawn(r.version) /\ current
              /\ Activate(o, Extended(restored, rolledBack),
                   [kind |-> "ROLLBACK", version |-> DerivedId(r.target, "restored", r.cause),
                    previous |-> r.version, target |-> r.target, report |-> None])
    /\ UNCHANGED <<shadowVars, reports, lost, bounds>>

--------------------------------------------------------------------------------
(* The environment. *)

\* The bytes of an artefact are damaged, or put back.
Rot ==
    /\ rots > 0 /\ rots' = rots - 1
    /\ \E c \in Candidates : lost' = IF c \in lost THEN lost \ {c} ELSE lost \cup {c}
    /\ UNCHANGED <<versions, shadowVars, now, reports, ledger, req, requests, crashes>>

\* The process ends: open transactions are rolled back, stored rows stay, and nothing resumes
\* a request, a hook or a rollout.
Crash ==
    /\ crashes > 0 /\ crashes' = crashes - 1
    /\ req' = [o \in Operators |-> Idle("none")]
    /\ stage' = [r \in Receipts |-> IF r \in Busy THEN "done" ELSE stage[r]]
    /\ UNCHANGED <<versions, day, decisions, results, picked, now, reports, ledger, lost,
                   requests, rots>>

--------------------------------------------------------------------------------
(* The specification. *)

Trained == [c \in Candidates |-> Row("CANDIDATE", None, c, 0)]

\* What a shadow stage leaves behind: rows of the trained candidates' shadow versions, one
\* trial of each finished receipt within the caps, and reports sealed on what was run.
Consistent(s) ==
    /\ \A v \in DOMAIN s.shadow : \E c \in Candidates, b \in Budgets, t \in {0, 1} :
         v = ShadowId(c, b) /\ v \notin Candidates /\ s.shadow[v] = Row("SHADOW", c, c, t)
    /\ IsFiniteSet(s.results)
    /\ \A x \in s.results : /\ x.receipt \in s.finished /\ x.version \in DOMAIN s.shadow
                             /\ x.trial = 0 /\ x.day = 0
    /\ \A v \in DOMAIN s.shadow :
         LET rows == Cardinality({x \in s.results : x.version = v})
         IN  rows < TrialCap[BudgetOf(v)] + 2 * Slots /\ rows < CostCap[BudgetOf(v)] + 2 * Slots
    /\ s.finished \subseteq Receipts
    /\ \A id \in DOMAIN s.reports : s.reports[id].decision = "PROMOTE" =>
         \E v \in DOMAIN s.shadow : /\ s.shadow[v].parent = s.reports[id].candidate
                                   /\ Cardinality(Tried(s.results, v)) >= MinPaired

ASSUME ReleaseAssumption == MinPaired \in Nat /\ \A s \in Scenarios : Consistent(s)

\* A scenario starts from the trained candidates, and may start after a shadow stage:
\* evidence is what it registered, heard and ran, and which reports were sealed from it.
Init ==
    /\ \E s \in Scenarios :
         /\ versions = Extended(Trained, s.shadow) /\ decisions = s.decisions /\ results = s.results
         /\ reports = s.reports
         /\ stage = [r \in Receipts |-> IF r \in s.finished THEN "done" ELSE "waiting"]
         /\ requests = s.requests /\ crashes = s.crashes /\ rots = s.rots
    /\ day = 0 /\ now = 2 /\ ledger = <<>> /\ lost = {}
    /\ picked = [r \in Receipts |-> None]
    /\ req = [o \in Operators |-> Idle("none")]

RequestStep(o) ==
    \/ RegisterShadow(o) \/ PutShadow(o)
    \/ Evaluate(o) \/ ReadDecisions(o) \/ ReadResults(o) \/ PutReport(o)
    \/ Promote(o) \/ DrillTarget(o) \/ CommitPromotion(o)
    \/ Rollback(o) \/ DrillRestored(o) \/ CommitRollback(o)

Next ==
    \/ ShadowStep /\ UNCHANGED <<releaseVars, bounds>>
    \/ \E o \in Operators : RequestStep(o)
    \/ Rot
    \/ Crash

Spec == Init /\ [][Next]_vars

--------------------------------------------------------------------------------
\* The activation ledger is one chain (activation.py, activate; promotion.py, rollback): every
\* entry names the version the entry before it served, serves an ACTIVE row, and leaves a
\* RETIRED or ROLLED_BACK row for the one it replaced; a rollback serves a row restored from
\* the very target the entry it withdraws had recorded. No version is put in service twice:
\* after it was withdrawn or replaced, a late or repeated promote of the same report never
\* brings it back (promotion.py, promote; store.py, _guard_v04_drift).
LedgerChain ==
    \A i \in DOMAIN ledger :
      LET e == ledger[i] IN
      /\ versions[e.version].status = "ACTIVE"
      /\ e.previous = IF i = 1 THEN None ELSE ledger[i-1].version
      /\ i > 1 => \E v \in DOMAIN versions :
                    /\ versions[v].parent = ledger[i-1].version
                    /\ versions[v].status =
                         IF e.kind = "PROMOTE" THEN "RETIRED" ELSE "ROLLED_BACK"
      /\ e.kind = "ROLLBACK" => i > 1 /\ versions[e.version].parent = ledger[i-1].target
      /\ \A j \in DOMAIN ledger \ {i} : ledger[j].version # e.version

\* A candidate is only released on shadow evidence: enough trials of one shadow version of it
\* in which the shadow and the control arm both ran (promotion.py, _shadow; shadow.py,
\* shadow_gate and paired_deltas).
EvidenceBehindRelease ==
    \A i \in DOMAIN ledger : ledger[i].kind = "PROMOTE" =>
      \E v \in ShadowVersions :
        /\ versions[v].parent = reports[ledger[i].report].candidate
        /\ Cardinality(Tried(results, v)) >= MinPaired

================================================================================
