---------------------------- MODULE FeedbackPipeline ----------------------------
(***************************************************************************)
(* What a router may learn from a run (feedback/, experience/service.py,     *)
(* routing/training_snapshot.py): independent verification results, the P7   *)
(* experience of a run, its projections onto experience records, the         *)
(* contradictions between them, their adjudication and retraction, retrieval *)
(* and training snapshots.                                                  *)
(*                                                                         *)
(* An operation is a caller: the run manager at a run's end, or an API       *)
(* request.  at[o] names the awaited store call of operation o in flight; an *)
(* action is that call's effect and the synchronous code up to the next one. *)
(* Rows are never edited, so a row is known by its position.  All nodes of   *)
(* the model share one contract signature and one workspace.                 *)
(***************************************************************************)
EXTENDS Naturals, FiniteSets, Sequences, FiniteSetsExt

CONSTANTS
    Claims, Required,    \* the claims of the verification spec; the ones that block
    Scenarios            \* [ops, receipts, source, verdicts, disturbances]: the operations
                         \* by name, each run's routing receipts in order, how each run
                         \* ended, the results already stored, and how often the world may
                         \* change under the operations

ASSUME RequiredAreClaims == Required \subseteq Claims

States == {"PASS", "PENDING", "INCONCLUSIVE", "FAIL", "QUARANTINED", "ERROR"}

IsList(s) == s \in Seq({s[i] : i \in DOMAIN s})

\* A result is recorded of at least one verification, receipts and results are listed in
\* order, and a run that is projected is a run of the store.
ASSUME ScenariosAssumption ==
    \A s \in Scenarios :
        /\ \A o \in DOMAIN s.ops : s.ops[o].kind = "local" =>
             s.ops[o].verdicts # {} /\ \A v \in s.ops[o].verdicts : v.status \in States
        /\ \A r \in DOMAIN s.receipts : IsList(s.receipts[r])
        /\ \A o \in DOMAIN s.ops : s.ops[o].kind = "final" => s.ops[o].run \in DOMAIN s.receipts
        /\ IsList(s.verdicts)

VARIABLES
    scenario,
    results,       \* independent verification results, oldest first
    experience,    \* each run's P7 experience, or NoExperience
    rows,          \* experience records, oldest first
    snapshots,     \* the training snapshots that were sealed
    at, local,     \* each operation: where it is and what it holds
    world          \* [manifest, enabled, left]: the tree's digest, the feature flag, and
                   \* how many disturbances remain

vars == <<scenario, results, experience, rows, snapshots, at, local, world>>

Ops == DOMAIN scenario.ops
Op(o) == scenario.ops[o]
NoExperience == [exists |-> FALSE]
Nothing == <<>>

---------------------------------------------------------------------------
(* Independent verification results (feedback/verification.py).            *)

Severity == [PASS |-> 0, PENDING |-> 1, INCONCLUSIVE |-> 2, FAIL |-> 3, QUARANTINED |-> 4,
             ERROR |-> 5]

Worst(states) == CHOOSE s \in states : \A t \in states : Severity[t] <= Severity[s]

\* A claim is settled by the verdicts whose evidence covers it.  A required one that
\* nothing covers stays inconclusive, an optional one is left out of the result.
ClaimStatus(claim, verdicts) ==
    LET covering == {v \in verdicts : claim \in v.covers}
    IN  IF covering # {} THEN Worst({v.status : v \in covering})
        ELSE IF claim \in Required THEN "INCONCLUSIVE" ELSE "unmapped"

\* A verifier that ran in the producer's own session cannot accept its work.
Independent(verdict, producer) == verdict.session = "none" \/ verdict.session # producer

\* Each verifier's verdicts are mapped onto the claims, then merged by severity.
ClaimResults(verdicts, producer) ==
    LET by(name) == {v \in verdicts : v.verifier = name}
        qualified(name, claim) ==
            LET status == ClaimStatus(claim, by(name))
            IN  IF status # "unmapped" /\ \E v \in by(name) : ~Independent(v, producer)
                THEN "ERROR" ELSE status
        said(claim) == {qualified(v.verifier, claim) : v \in verdicts} \ {"unmapped"}
    IN  [c \in Claims |-> IF said(c) = {} THEN "unmapped" ELSE Worst(said(c))]

\* Some required claim is passed by one result and failed by another.
Conflicted(claims, prior) ==
    \E c \in Required :
        {"PASS", "FAIL"} \subseteq {claims[c]} \cup {results[i].claims[c] : i \in prior}

ResultStatus(claims, conflicted) ==
    LET said == {claims[c] : c \in Claims} \ {"unmapped"}
        blocking == {claims[c] : c \in Required}
    IN  IF "ERROR" \in said THEN "ERROR"
        ELSE IF conflicted THEN "INCONCLUSIVE"
        ELSE IF "FAIL" \in blocking THEN "FAIL"
        ELSE IF said \subseteq {"PASS"} THEN "PASS" ELSE "INCONCLUSIVE"

\* The result a call seals, given the earlier results of the instance it has read.
IndependentResult(op, prior) ==
    LET claims == ClaimResults(op.verdicts, op.producer)
    IN  [instance |-> op.instance, source |-> op.source, claims |-> claims, read |-> prior,
         status |-> ResultStatus(claims, Conflicted(claims, prior))]

PriorResults(instance) == {i \in DOMAIN results : results[i].instance = instance}

Recorded(source) == \E i \in DOMAIN results : results[i].source = source

Move(o, place, holding) ==
    /\ at' = [at EXCEPT ![o] = place]
    /\ local' = [local EXCEPT ![o] = holding]

\* The request answers with the result it finds already recorded.
CheckRecorded(o) ==
    /\ Op(o).kind = "local" /\ at[o] = "idle"
    /\ Move(o, IF Recorded(Op(o).source) THEN "done" ELSE "prior", Nothing)
    /\ UNCHANGED <<scenario, results, experience, rows, snapshots, world>>

\* record_local reads the instance's earlier results before it seals its own.
ReadPriorResults(o) ==
    /\ at[o] = "prior"
    /\ Move(o, "result", PriorResults(Op(o).instance))
    /\ UNCHANGED <<scenario, results, experience, rows, snapshots, world>>

\* The id is derived from the verification: a second body under it is refused.
PutResult(o) ==
    /\ at[o] = "result"
    /\ LET stored == Recorded(Op(o).source)
       IN  /\ Move(o, IF stored THEN "refused" ELSE "done", Nothing)
           /\ results' = IF stored THEN results
                         ELSE Append(results, IndependentResult(Op(o), local[o]))
    /\ UNCHANGED <<scenario, experience, rows, snapshots, world>>

---------------------------------------------------------------------------
(* The P7 experience of a run (experience/service.py, materialize).         *)

\* Which ended runs may become experience at all.
Classifiable(source) ==
    /\ ~source.irreversible /\ ~source.ambiguous
    /\ source.state \in {"SUCCEEDED", "FAILED", "REQUIRES_HUMAN"}
    /\ source.state = "SUCCEEDED" => source.complete

\* The digests an experience is compared by; only the tree's can move after the end.
Identity(run) == <<world.manifest, scenario.source[run].state>>

MaterializeRead(o) ==
    /\ at[o] = "materialize"
    /\ LET run == Op(o).run
           there == experience[run].exists
           agrees == there /\ experience[run].identity = Identity(run)
           place == IF ~world.enabled \/ ~Classifiable(scenario.source[run]) THEN "refused"
                    ELSE IF ~there THEN "save"
                    ELSE IF agrees THEN "siblings" ELSE "refused"
       IN  Move(o, place, [local[o] EXCEPT !.identity = Identity(run)])
    /\ UNCHANGED <<scenario, results, experience, rows, snapshots, world>>

\* The source key is unique, and a fresh draft never equals the one that got there first.
SaveExperience(o) ==
    /\ at[o] = "save"
    /\ LET run == Op(o).run
           there == experience[run].exists
       IN  /\ Move(o, IF there THEN "refused" ELSE "siblings", local[o])
           /\ experience' = IF there THEN experience
                            ELSE [experience EXCEPT ![run] =
                                    [exists |-> TRUE, identity |-> local[o].identity,
                                     revision |-> 1, retracted |-> FALSE]]
    /\ UNCHANGED <<scenario, results, rows, snapshots, world>>

\* An operator retracts the revision they looked at.
Retract(o) ==
    /\ Op(o).kind = "retract" /\ at[o] = "idle"
    /\ LET run == Op(o).run
           allowed == /\ experience[run].exists /\ world.enabled
                      /\ experience[run].revision = Op(o).expected
       IN  /\ Move(o, IF allowed THEN "done" ELSE "refused", Nothing)
           /\ experience' = IF ~allowed THEN experience
                            ELSE [experience EXCEPT ![run] =
                                    [exists |-> TRUE, identity |-> experience[run].identity,
                                     revision |-> Op(o).expected + 1, retracted |-> TRUE]]
    /\ UNCHANGED <<scenario, results, rows, snapshots, world>>

---------------------------------------------------------------------------
(* Experience records and their contradictions (feedback/experience.py).    *)

Eligible(verdict, status) == verdict = "PASS" /\ status # "OPEN"

\* A row of the ledger: the first projection of an instance, or a revision of a row.
Row(key, parent, instance, run, config, verdict, status, seen, by) ==
    [key |-> key, parent |-> parent, instance |-> instance, run |-> run, config |-> config,
     verdict |-> verdict, status |-> status, eligible |-> Eligible(verdict, status),
     seen |-> seen, by |-> by]

RootKey(instance) == [parent |-> 0, why |-> "root", what |-> instance, against |-> 0]

\* _revise: everything but the status is the parent's, and the id is derived from it.
Revision(k, why, what, against, status, o) ==
    LET r == rows[k]
    IN  Row([parent |-> k, why |-> why, what |-> what, against |-> against], k, r.instance,
            r.run, r.config, r.verdict, status, Len(rows), o)

\* Mutant: only the row's own kind of id is looked for among the revisions.
StoredRevision(key) == \E k \in DOMAIN rows : rows[k].key = key /\ key.parent # 0

Stored(key) == \E k \in DOMAIN rows : rows[k].key = key

\* put_experience_record: an id that is taken is refused, for the body carries a fresh
\* creation time and never equals the stored one.
PutRow(o, row, place, holding) ==
    IF Stored(row.key)
    THEN Move(o, "refused", local[o]) /\ UNCHANGED rows
    ELSE Move(o, place, holding) /\ rows' = Append(rows, row)

Opposite(verdict) ==
    IF verdict = "PASS" THEN {"FAIL"} ELSE IF verdict = "FAIL" THEN {"PASS"} ELSE {}

\* Mutant: a sibling whose contradiction was adjudicated no longer counts.
ContradictingUnsettled(receipt, verdict) ==
    {k \in DOMAIN rows : /\ rows[k].instance # receipt.instance
                         /\ rows[k].config = receipt.config
                         /\ rows[k].verdict \in Opposite(verdict)
                         /\ rows[k].status # "RESOLVED"
                         /\ ~\E i \in DOMAIN rows : rows[i].parent = k}

\* Every stored row of another instance with the same configuration and the other verdict,
\* superseded rows included.
Contradicting(receipt, verdict) ==
    {k \in DOMAIN rows : /\ rows[k].instance # receipt.instance
                         /\ rows[k].config = receipt.config
                         /\ rows[k].verdict \in Opposite(verdict)}

\* The result record_final goes by: the last one listed for the instance, if any.
LocalVerdict(instance) ==
    LET mine == PriorResults(instance)
    IN  IF mine = {} THEN "PENDING" ELSE results[Max(mine)].status

Receipts(o) == scenario.receipts[Op(o).run]
Current(o) == Receipts(o)[local[o].next]

\* record_final reads the receipts and the verdicts once, for the whole run.
RecordFinal(o) ==
    /\ Op(o).kind = "final" /\ at[o] = "idle"
    /\ Move(o, IF Receipts(o) = <<>> THEN "done" ELSE "materialize",
            [next |-> 1, root |-> 0, open |-> {}, seen |-> 0, identity |-> Nothing,
             verdicts |-> [i \in DOMAIN Receipts(o) |-> LocalVerdict(Receipts(o)[i].instance)]])
    /\ UNCHANGED <<scenario, results, experience, rows, snapshots, world>>

\* project lists the siblings, then seals the record with what it saw of them.
ListSiblings(o) ==
    /\ at[o] = "siblings"
    /\ Move(o, "record",
            [local[o] EXCEPT !.open = Contradicting(Current(o), local[o].verdicts[local[o].next]),
                             !.seen = Len(rows), !.root = 0])
    /\ UNCHANGED <<scenario, results, experience, rows, snapshots, world>>

\* Where a projection goes once its siblings are open: the next receipt, or the end.
AfterReceipt(o) == IF local[o].next = Len(Receipts(o)) THEN "done" ELSE "materialize"

Advanced(o, holding) ==
    IF local[o].next = Len(Receipts(o)) THEN holding
    ELSE [holding EXCEPT !.next = local[o].next + 1]

\* The siblings that still need opening: an OPEN row is returned as it is.
ToOpen(open) == {k \in open : rows[k].status # "OPEN"}

PutRecord(o) ==
    /\ at[o] = "record"
    /\ LET verdict == local[o].verdicts[local[o].next]
           row == Row(RootKey(Current(o).instance), 0, Current(o).instance, Op(o).run,
                      Current(o).config, verdict,
                      IF local[o].open = {} THEN "NONE" ELSE "OPEN", local[o].seen, o)
           left == ToOpen(local[o].open)
           holding == [local[o] EXCEPT !.root = Len(rows) + 1, !.open = left]
       IN  PutRow(o, row, IF left = {} THEN AfterReceipt(o) ELSE "open",
                  IF left = {} THEN Advanced(o, holding) ELSE holding)
    /\ UNCHANGED <<scenario, results, experience, snapshots, world>>

\* _open_contradiction: one sibling, as it was when the siblings were listed.
OpenSibling(o, k) ==
    /\ at[o] = "open" /\ k \in local[o].open
    /\ LET left == local[o].open \ {k}
           holding == [local[o] EXCEPT !.open = left]
       IN  PutRow(o, Revision(k, "contradicted-by", "", local[o].root, "OPEN", o),
                  IF left = {} THEN AfterReceipt(o) ELSE "open",
                  IF left = {} THEN Advanced(o, holding) ELSE holding)
    /\ UNCHANGED <<scenario, results, experience, snapshots, world>>

\* _head_of: follow the latest successor of a row to the end of its line.
HeadOf(k) ==
    LET following(j) == {i \in DOMAIN rows : rows[i].parent = j}
        head[j \in DOMAIN rows] == IF following(j) = {} THEN j ELSE head[Max(following(j))]
    IN  head[k]

\* resolve_contradiction reads the line, and adjudicates its head.
ReadContradiction(o) ==
    /\ Op(o).kind = "resolve" /\ at[o] = "idle"
    /\ LET named == {k \in DOMAIN rows : rows[k].key = RootKey(Op(o).instance)}
           heads == {HeadOf(k) : k \in named}
           open == {k \in DOMAIN rows : k \in heads /\ rows[k].status = "OPEN"}
       IN  Move(o, IF open = {} THEN "refused" ELSE "resolve", open)
    /\ UNCHANGED <<scenario, results, experience, rows, snapshots, world>>

PutResolution(o) ==
    /\ at[o] = "resolve"
    /\ \E k \in local[o] :
           PutRow(o, Revision(k, "resolved", Op(o).text, 0, "RESOLVED", o), "done", Nothing)
    /\ UNCHANGED <<scenario, results, experience, snapshots, world>>

---------------------------------------------------------------------------
(* What readers see: retrieval (feedback/evidence.py) and training snapshots *)
(* (routing/training_snapshot.py).                                          *)

Retrieved ==
    {k \in DOMAIN rows : /\ ~\E i \in DOMAIN rows : rows[i].parent = k
                         /\ rows[k].eligible /\ rows[k].status = "NONE"
                         /\ ~experience[rows[k].run].retracted}

\* The builder lists the records, then looks their experiences up one at a time.
ListRecords(o) ==
    /\ Op(o).kind = "snapshot" /\ at[o] = "idle"
    /\ Move(o, "lookup",
            [listed |-> Len(rows), next |-> 1, considered |-> {},
             gone |-> {r \in DOMAIN experience : experience[r].exists /\ experience[r].retracted}])
    /\ UNCHANGED <<scenario, results, experience, rows, snapshots, world>>

\* Mutant: whether the experience was retracted is not asked.
ConsideredAlways(k) == experience[rows[k].run].exists

Considered(k) == experience[rows[k].run].exists /\ ~experience[rows[k].run].retracted

LookupExperience(o) ==
    /\ at[o] = "lookup" /\ local[o].next <= local[o].listed
    /\ Move(o, "lookup",
            [local[o] EXCEPT !.next = @ + 1,
                             !.considered = @ \cup {k \in {local[o].next} : Considered(k)}])
    /\ UNCHANGED <<scenario, results, experience, rows, snapshots, world>>

\* Eligible rows outside an open contradiction, one for each instance and configuration;
\* the tie between two rows of one experience falls to their digests.
Deduplications(pool) ==
    {keep \in SUBSET pool :
        \A k \in pool : \E j \in keep :
            {i \in keep : rows[i].instance = rows[k].instance /\ rows[i].config = rows[k].config}
            = {j}}

SealSnapshot(o) ==
    /\ at[o] = "lookup" /\ local[o].next > local[o].listed
    /\ LET pool == {k \in local[o].considered : rows[k].eligible /\ rows[k].status # "OPEN"}
       IN  IF pool = {} THEN Move(o, "refused", Nothing) /\ UNCHANGED snapshots
           ELSE \E keep \in Deduplications(pool) :
                    /\ Move(o, "done", Nothing)
                    /\ snapshots' = snapshots \cup
                           {[rows |-> keep, listed |-> local[o].listed, gone |-> local[o].gone]}
    /\ UNCHANGED <<scenario, results, experience, rows, world>>

---------------------------------------------------------------------------
(* The world around the operations.                                        *)

InFlight(o) == at[o] \notin {"idle", "done", "refused", "lost"}

Disturb(changed) ==
    /\ world.left > 0 /\ \E o \in Ops : InFlight(o) \/ at[o] = "idle"
    /\ world' = [changed EXCEPT !.left = world.left - 1]
    /\ UNCHANGED <<scenario, results, experience, rows, snapshots, local>>

\* Someone commits to the repository, or changes the project's feature flags.
RepositoryMoves == Disturb([world EXCEPT !.manifest = @ + 1]) /\ UNCHANGED at
FlagFlips == Disturb([world EXCEPT !.enabled = ~@]) /\ UNCHANGED at

\* The process dies: what was in flight is lost, and nothing takes it up again.
Crash ==
    /\ \E o \in Ops : InFlight(o)
    /\ Disturb(world)
    /\ at' = [o \in Ops |-> IF InFlight(o) THEN "lost" ELSE at[o]]

Finished ==
    /\ \A o \in Ops : ~InFlight(o) /\ at[o] # "idle"
    /\ UNCHANGED vars

InitResults(given) ==
    [i \in DOMAIN given |->
        [instance |-> given[i].instance, source |-> given[i].source, read |-> {},
         claims |-> [c \in Claims |-> given[i].status], status |-> given[i].status]]

Init ==
    /\ scenario \in Scenarios
    /\ results = InitResults(scenario.verdicts)
    /\ experience = [r \in DOMAIN scenario.receipts |-> NoExperience]
    /\ rows = <<>> /\ snapshots = {}
    /\ at = [o \in DOMAIN scenario.ops |-> "idle"]
    /\ local = [o \in DOMAIN scenario.ops |-> Nothing]
    /\ world = [manifest |-> 0, enabled |-> TRUE, left |-> scenario.disturbances]

Step(o) ==
    \/ CheckRecorded(o) \/ ReadPriorResults(o) \/ PutResult(o)
    \/ RecordFinal(o) \/ MaterializeRead(o) \/ SaveExperience(o)
    \/ ListSiblings(o) \/ PutRecord(o) \/ \E k \in DOMAIN rows : OpenSibling(o, k)
    \/ ReadContradiction(o) \/ PutResolution(o) \/ Retract(o)
    \/ ListRecords(o) \/ LookupExperience(o) \/ SealSnapshot(o)

Next == (\E o \in Ops : Step(o)) \/ RepositoryMoves \/ FlagFlips \/ Crash \/ Finished

Spec == Init /\ [][Next]_vars

---------------------------------------------------------------------------
(* Properties.                                                             *)

Ledger == INSTANCE AppendOnly WITH log <- rows

\* The experience records implement the append-only ledger: whatever races, retries and
\* crashes do, a revision is a new row, no row is edited, and no id is written twice
\* (feedback/experience.py, _revise; store.put_experience_record).
LedgerRefined == Ledger!Spec

\* What a retrieval serves, or a snapshot would, of the instance of a row.
Withheld(k) == \A i \in Retrieved : rows[i].instance # rows[k].instance

\* The row's projection is still opening its siblings, or died doing so.
Opening(k) == /\ at[rows[k].by] \in {"open", "lost"}
              /\ local[rows[k].by].root = k
              /\ local[rows[k].by].open # {}

\* A later projection that could see an opposite verdict settles both: once it has opened
\* its siblings, neither instance is retrieved again, adjudicated or not, however the two
\* lines were forked meanwhile (ExperienceProjector.project, StoreEvidenceRetriever).  And
\* within an instance a record is eligible only on a verdict that no result it was compared
\* with contests: the result it rests on passes every required claim and had read no failure
\* of one (IndependentVerificationRecorder.record, _eligible).
ContradictionWithheld ==
    /\ \A a, b \in DOMAIN rows :
         (/\ rows[a].parent = 0 /\ rows[b].parent = 0 /\ a <= rows[b].seen
          /\ rows[a].instance # rows[b].instance /\ rows[a].config = rows[b].config
          /\ {rows[a].verdict, rows[b].verdict} = {"PASS", "FAIL"})
         => /\ Withheld(b)
            /\ Opening(b) \/ Withheld(a)
    /\ \A k \in DOMAIN rows : rows[k].eligible =>
         \E i \in PriorResults(rows[k].instance) :
             /\ \A c \in Required : results[i].claims[c] = "PASS"
             /\ \A j \in results[i].read, c \in Required : results[j].claims[c] # "FAIL"

\* What was retracted when a snapshot was begun is not in it, though the experiences are
\* looked up one by one while retractions and projections go on; and no instance counts
\* twice in it (SnapshotBuilder.build, _deduplicate).
SnapshotHonoursRetraction ==
    \A s \in snapshots :
        /\ \A k \in s.rows : rows[k].run \notin s.gone
        /\ \A j, k \in s.rows : rows[j].instance = rows[k].instance => j = k

================================================================================
