--------------------------- MODULE RouterReleaseProofs ---------------------------
(***************************************************************************)
(* The three safety properties of a router's release, for every set of         *)
(* candidates, operators, keys, causes and budgets, with one inductive         *)
(* invariant over the versions, the reports, the ledger and the requests.      *)
(*                                                                         *)
(* The chain.  Every row was stamped before now, and an activation stamps its  *)
(* rows now: a row it writes under an id that is taken differs from the one    *)
(* stored, so the whole activation is refused.  The versions a ledger entry    *)
(* serves are therefore new, whatever the request read before the lock.        *)
(*                                                                         *)
(* The evidence.  What a request carries from one awaited call to the next      *)
(* (the version its decisions were read for, the gate's verdict, the report     *)
(* it promotes) was true when it was read; rows are only added and reports     *)
(* never rewritten, so it is still true when it is used.                      *)
(***************************************************************************)
EXTENDS RouterRelease, ShadowStageProofs

\* The entries the ledger holds.
LedgerEntries == {ledger[i] : i \in DOMAIN ledger}

\* The gate of a candidate: enough receipts for which both arms of one shadow version ran.
EvidenceFor(c) ==
    \E v \in ShadowVersions : versions[v].parent = c /\ Cardinality(Tried(results, v)) >= MinPaired

\* A stored report that recommends the promotion.
Approves(id) == id \in DOMAIN reports /\ reports[id].decision = "PROMOTE"

\* What a request in flight relies on.
RequestSound(r) ==
    /\ r.at = "register_put" => r.created \in Nat /\ r.created < now /\ r.budget \in Budgets
    /\ r.at = "evaluate_results" =>
         r.version \in ShadowVersions /\ versions[r.version].parent = r.candidate
    /\ r.at = "evaluate_put" => (r.shadow = TRUE => EvidenceFor(r.candidate))
    /\ r.at \in {"promote_drill", "promote_commit"} => Approves(r.report)
    /\ r.at \in {"rollback_drill", "rollback_commit"} => ledger # <<>>

\* Rows were stamped in the past, and shadow versions have a budget.
VersionsSound ==
    \A v \in DOMAIN versions : /\ versions[v].created \in Nat /\ versions[v].created < now
                               /\ versions[v].status = "SHADOW" => BudgetOf(v) \in Budgets

\* The ledger serves versions that are stored, and only these two kinds of entry are written.
Referenced ==
    \A i \in DOMAIN ledger :
      ledger[i].version \in DOMAIN versions /\ ledger[i].kind \in {"PROMOTE", "ROLLBACK"}

\* A report that recommends a promotion passed the shadow gate.
ReportsEvidenced == \A id \in DOMAIN reports : Approves(id) => EvidenceFor(reports[id].candidate)

\* Every promotion of the ledger names a report that recommends it.
LedgerApproved ==
    \A i \in DOMAIN ledger : ledger[i].kind = "PROMOTE" => Approves(ledger[i].report)

\* The tables of the release.
StoreInv ==
    /\ VersionsSound
    /\ ledger \in Seq(LedgerEntries) /\ Referenced /\ LedgerChain /\ LedgerApproved
    /\ ReportsEvidenced

\* The inductive invariant of the release; it holds together with StageInv.
ReleaseInv ==
    /\ now \in Nat /\ DOMAIN req = Operators
    /\ StoreInv
    /\ \A o \in Operators : RequestSound(req[o])

\* Nothing a request relies on is taken back by a step.
Grows ==
    /\ DOMAIN versions \subseteq DOMAIN versions'
    /\ \A v \in DOMAIN versions : versions'[v] = versions[v]
    /\ results \subseteq results'
    /\ now' \in Nat /\ now <= now'
    /\ ledger # <<>> => ledger' # <<>>
    /\ \A id : Approves(id) => Approves(id)'

--------------------------------------------------------------------------------
(* What is kept. *)

\* A ledger is a sequence of the entries it has.
LEMMA SeqOfItsRange ==
    ASSUME NEW S, NEW s \in Seq(S)
    PROVE  s \in Seq({s[i] : i \in DOMAIN s})
OBVIOUS

\* An empty ledger is sound.
LEMMA EmptyLedger ==
    ASSUME ledger = <<>>
    PROVE  ledger \in Seq(LedgerEntries) /\ Referenced /\ LedgerChain /\ LedgerApproved
BY DEF LedgerEntries, Referenced, LedgerChain, LedgerApproved

\* Evidence stays: shadow versions and rows are only added.
LEMMA EvidenceKept ==
    ASSUME Grows, NEW c, EvidenceFor(c)
    PROVE  EvidenceFor(c)'
<1>1. PICK v \in ShadowVersions :
             versions[v].parent = c /\ Cardinality(Tried(results, v)) >= MinPaired
  BY DEF EvidenceFor
<1>2. v \in ShadowVersions' /\ versions'[v].parent = c
  BY <1>1 DEF Grows, ShadowVersions
<1>3. /\ Cardinality(Tried(results, v)) \in Nat /\ Cardinality(Tried(results', v)) \in Nat
      /\ Cardinality(Tried(results, v)) <= Cardinality(Tried(results', v))
  BY TriedGrows DEF Grows
<1>4. Cardinality(Tried(results', v)) >= MinPaired
  BY <1>1, <1>3, ReleaseAssumption
<1> QED
  BY <1>2, <1>4 DEF EvidenceFor

\* What a request relies on stays, whoever takes the step.
LEMMA RequestKept ==
    ASSUME Grows, NEW r, RequestSound(r), now \in Nat
    PROVE  RequestSound(r)'
<1>1. r.at = "evaluate_put" => (r.shadow = TRUE => EvidenceFor(r.candidate)')
  BY EvidenceKept DEF RequestSound
<1>2. r.at = "evaluate_results" =>
        r.version \in ShadowVersions' /\ versions'[r.version].parent = r.candidate
  BY DEF RequestSound, Grows, ShadowVersions
<1>3. r.at = "register_put" => r.created \in Nat /\ r.created < now' /\ r.budget \in Budgets
  BY DEF RequestSound, Grows
<1>4. /\ r.at \in {"promote_drill", "promote_commit"} => Approves(r.report)'
      /\ r.at \in {"rollback_drill", "rollback_commit"} => ledger' # <<>>
  BY DEF RequestSound, Grows
<1> QED
  BY <1>1, <1>2, <1>3, <1>4 DEF RequestSound

\* A registration about to be written.
Opens(r) ==
    /\ r.at = "register_put" /\ r.created \in Nat /\ r.created < now' /\ r.budget \in Budgets

\* So a step that changes requests only to sound ones keeps them all sound.
LEMMA RequestsKept ==
    ASSUME ReleaseInv, Grows, DOMAIN req' = Operators,
           \A p \in Operators : req'[p] = req[p] \/ RequestSound(req'[p]) \/ Opens(req'[p])
    PROVE  \A p \in Operators : RequestSound(req[p])'
<1> SUFFICES ASSUME NEW p \in Operators
             PROVE  RequestSound(req[p])'
  OBVIOUS
<1>1. PICK q : q = req'[p]
  OBVIOUS
<1>2. RequestSound(q) \/ Opens(q)
  BY <1>1 DEF ReleaseInv
<1>3. RequestSound(q)'
  <2>1. CASE RequestSound(q)
    BY <2>1, RequestKept DEF ReleaseInv
  <2>2. CASE Opens(q)
    BY <2>2 DEF Opens, RequestSound
  <2> QED
    BY <1>2, <2>1, <2>2
<1> QED
  BY <1>1, <1>3, Zenon DEF RequestSound

\* Reports keep their evidence.
LEMMA ReportsKept ==
    ASSUME ReportsEvidenced, Grows, reports' = reports
    PROVE  ReportsEvidenced'
<1>1. ASSUME NEW id \in DOMAIN reports, Approves(id)
      PROVE  EvidenceFor(reports[id].candidate)'
  <2>1. PICK c : c = reports[id].candidate
    OBVIOUS
  <2>2. EvidenceFor(c)'
    BY <1>1, <2>1, EvidenceKept DEF ReportsEvidenced
  <2> QED
    BY <2>1, <2>2
<1> QED
  BY <1>1 DEF ReportsEvidenced, Approves

\* Without a new entry the ledger is the chain it was: the rows it names are still there.
LEMMA LedgerKept ==
    ASSUME StoreInv, Grows, ledger' = ledger
    PROVE  (ledger \in Seq(LedgerEntries))' /\ Referenced' /\ LedgerChain' /\ LedgerApproved'
<1>1. Referenced' /\ (ledger \in Seq(LedgerEntries))' /\ LedgerApproved'
  BY DEF StoreInv, Referenced, LedgerEntries, Grows, LedgerApproved
<1>2. ASSUME NEW i \in DOMAIN ledger, i > 1
      PROVE  \E v \in DOMAIN versions' :
                /\ versions'[v].parent = ledger[i-1].version
                /\ versions'[v].status =
                     IF ledger[i].kind = "PROMOTE" THEN "RETIRED" ELSE "ROLLED_BACK"
  <2>1. PICK v \in DOMAIN versions :
                /\ versions[v].parent = ledger[i-1].version
                /\ versions[v].status =
                     IF ledger[i].kind = "PROMOTE" THEN "RETIRED" ELSE "ROLLED_BACK"
    BY <1>2 DEF StoreInv, LedgerChain
  <2> QED
    BY <2>1 DEF Grows
<1> QED
  BY <1>1, <1>2 DEF StoreInv, LedgerChain, Referenced, Grows

\* A step that writes no version, report or entry.
LEMMA QuietStep ==
    ASSUME ReleaseInv, UNCHANGED <<versions, reports, ledger>>, results \subseteq results',
           now' \in Nat, now <= now', DOMAIN req' = Operators,
           \A p \in Operators : req'[p] = req[p] \/ RequestSound(req'[p]) \/ Opens(req'[p])
    PROVE  ReleaseInv'
<1>1. Grows
  BY DEF Grows, Approves
<1>2. \A p \in Operators : RequestSound(req[p])'
  BY <1>1, RequestsKept
<1>3. VersionsSound'
  BY DEF ReleaseInv, StoreInv, VersionsSound
<1>4. StoreInv'
  BY <1>1, <1>3, LedgerKept, ReportsKept DEF ReleaseInv, StoreInv
<1> QED
  BY <1>2, <1>4 DEF ReleaseInv

\* The same for the step of one operator's request, and for its answer.
LEMMA QuietRequest ==
    ASSUME ReleaseInv, UNCHANGED <<versions, reports, ledger, results>>, now' \in Nat, now <= now',
           NEW o \in Operators, NEW r, Step(o, r), RequestSound(r) \/ Opens(r)
    PROVE  ReleaseInv'
<1>1. /\ DOMAIN req' = Operators /\ req'[o] = r
      /\ \A p \in Operators : p # o => req'[p] = req[p]
  BY DEF Step, ReleaseInv
<1>2. \A p \in Operators : req'[p] = req[p] \/ RequestSound(req'[p]) \/ Opens(req'[p])
  BY <1>1
<1> QED
  BY <1>1, <1>2, QuietStep

\* An idle request relies on nothing.
LEMMA IdleSound == ASSUME NEW a PROVE RequestSound(Idle(a))
BY DEF RequestSound, Idle

\* An answer that writes nothing.
LEMMA QuietAnswer ==
    ASSUME ReleaseInv, UNCHANGED <<versions, reports, ledger, results>>, now' \in Nat, now <= now',
           NEW o \in Operators, NEW a, Answer(o, a)
    PROVE  ReleaseInv'
<1>1. Step(o, Idle(a))
  BY DEF Answer, Step
<1> QED
  BY <1>1, IdleSound, QuietRequest

\* The scenarios a behaviour starts from satisfy both.
LEMMA InvariantInit ==
    Init => ReleaseInv /\ StageInv
<1> SUFFICES ASSUME Init
             PROVE  ReleaseInv /\ StageInv
  OBVIOUS
<1>1. PICK s \in Scenarios :
        /\ versions = Extended(Trained, s.shadow) /\ results = s.results /\ reports = s.reports
        /\ stage = [r \in Receipts |-> IF r \in s.finished THEN "done" ELSE "waiting"]
  BY DEF Init
<1>2. Consistent(s)
  BY ReleaseAssumption
<1>3. /\ day = 0 /\ now = 2 /\ ledger = <<>> /\ picked = [r \in Receipts |-> None]
      /\ req = [o \in Operators |-> Idle("none")]
  BY DEF Init
<1>4. ASSUME NEW v \in DOMAIN s.shadow
      PROVE  /\ s.shadow[v].created \in {0, 1} /\ s.shadow[v].status = "SHADOW"
             /\ BudgetOf(v) \in Budgets /\ v \notin Candidates
  <2>1. PICK c \in Candidates, b \in Budgets, t \in {0, 1} :
             /\ v = ShadowId(c, b) /\ v \notin Candidates
             /\ s.shadow[v] = Row("SHADOW", c, c, t)
    BY <1>2, Zenon DEF Consistent
  <2> QED
    BY <2>1 DEF Row, BudgetOf, ShadowId, DerivedId
<1>5. /\ DOMAIN versions = Candidates \cup DOMAIN s.shadow
      /\ \A c \in Candidates : versions[c].created = 0 /\ versions[c].status = "CANDIDATE"
      /\ \A v \in DOMAIN s.shadow : versions[v] = s.shadow[v]
  <2>1. /\ DOMAIN Trained = Candidates
        /\ \A c \in Candidates : Trained[c].created = 0 /\ Trained[c].status = "CANDIDATE"
    BY DEF Trained, Row
  <2> QED
    BY <1>1, <1>4, <2>1 DEF Extended
<1>6. VersionsSound
  BY <1>3, <1>4, <1>5, SMTT(30) DEF VersionsSound
<1>7. ReportsEvidenced
  <2> SUFFICES ASSUME NEW id \in DOMAIN reports, Approves(id)
               PROVE  EvidenceFor(reports[id].candidate)
    BY Zenon DEF ReportsEvidenced
  <2>1. PICK v \in DOMAIN s.shadow : /\ s.shadow[v].parent = reports[id].candidate
                                     /\ Cardinality(Tried(results, v)) >= MinPaired
    BY <1>1, <1>2, Zenon DEF Consistent, Approves
  <2> QED
    BY <1>4, <1>5, <2>1 DEF EvidenceFor, ShadowVersions
<1>8. ReleaseInv
  <2>1. ledger \in Seq(LedgerEntries) /\ Referenced /\ LedgerChain /\ LedgerApproved
    BY <1>3, EmptyLedger, Zenon
  <2>2. \A o \in Operators : RequestSound(req[o])
    BY <1>3, IdleSound
  <2> QED
    BY <1>3, <1>6, <1>7, <2>1, <2>2, Zenon DEF ReleaseInv, StoreInv
<1>9. StageInv
  <2>1. /\ s.finished \subseteq Receipts /\ IsFiniteSet(results)
        /\ \A x \in results : /\ x.receipt \in s.finished /\ x.trial = 0 /\ x.day = 0
                              /\ x.version \in DOMAIN s.shadow
    BY <1>1, <1>2, ZenonT(30) DEF Consistent
  <2>2. ASSUME NEW v, RowsOn(v, 0) # {}
        PROVE  Bounded(v, Rows(v, 0))
    <3>1. RowsOn(v, 0) = {x \in s.results : x.version = v} /\ v \in DOMAIN s.shadow
      BY <1>1, <2>1, <2>2 DEF RowsOn
    <3> QED
      BY <1>2, <3>1 DEF Consistent, Bounded, Rows
  <2> QED
    BY <1>1, <1>3, <2>1, <2>2, StageStarts, Zenon
<1> QED
  BY <1>8, <1>9

--------------------------------------------------------------------------------
(* The writes. *)

\* Rows that the store accepts are there afterwards, beside every row there was.
LEMMA StoredRows ==
    ASSUME VersionsSound, now \in Nat, NEW rows, Stored(rows), Put(rows),
           now' = now \/ now' = now + 1,
           \A id \in DOMAIN rows : /\ rows[id].created \in Nat /\ rows[id].created < now'
                                   /\ rows[id].status = "SHADOW" => BudgetOf(id) \in Budgets
    PROVE  /\ VersionsSound'
           /\ DOMAIN versions \subseteq DOMAIN versions'
           /\ DOMAIN rows \subseteq DOMAIN versions'
           /\ \A v \in DOMAIN versions : versions'[v] = versions[v]
           /\ \A id \in DOMAIN rows : versions'[id] = rows[id]
<1>1. versions' = [id \in DOMAIN versions \cup DOMAIN rows |->
                     IF id \in DOMAIN versions THEN versions[id] ELSE rows[id]]
  BY DEF Put, Extended
<1>2. \A id \in DOMAIN rows \cap DOMAIN versions : rows[id] = versions[id]
  BY DEF Stored
<1> QED
  BY <1>1, <1>2 DEF VersionsSound

\* activate_router_version: an entry that follows the head, with its rows stamped now, extends
\* the chain, and serves a version that was not there before.
LEMMA ActivateSafe ==
    ASSUME ReleaseInv, NEW o \in Operators, NEW rows, NEW entry, Activate(o, rows, entry),
           UNCHANGED <<reports, results>>, entry.kind = "PROMOTE" => Approves(entry.report),
           \A id \in DOMAIN rows : rows[id].created = now /\ rows[id].status # "SHADOW",
           entry.version \in DOMAIN rows, rows[entry.version].status = "ACTIVE",
           entry.kind \in {"PROMOTE", "ROLLBACK"},
           entry.previous = IF ledger = <<>> THEN None ELSE ledger[Len(ledger)].version,
           ledger # <<>> => \E id \in DOMAIN rows :
             /\ rows[id].parent = ledger[Len(ledger)].version
             /\ rows[id].status = IF entry.kind = "PROMOTE" THEN "RETIRED" ELSE "ROLLED_BACK",
           entry.kind = "ROLLBACK" =>
             ledger # <<>> /\ rows[entry.version].parent = ledger[Len(ledger)].target
    PROVE  ReleaseInv'
<1>1. now \in Nat /\ now' = now + 1
  BY DEF Activate, ReleaseInv
<1>2. CASE ~Stored(rows)
  <2>1. Answer(o, "immutable") /\ versions' = versions /\ ledger' = ledger
    BY <1>2 DEF Activate
  <2> QED
    BY <1>1, <2>1, QuietAnswer
<1>3. CASE Stored(rows)
  <2>1. Put(rows) /\ ledger' = Append(ledger, entry) /\ req' = [req EXCEPT ![o] = Idle("done")]
    BY <1>3 DEF Activate, Answer
  <2>2. /\ VersionsSound'
        /\ DOMAIN versions \subseteq DOMAIN versions'
        /\ DOMAIN rows \subseteq DOMAIN versions'
        /\ \A v \in DOMAIN versions : versions'[v] = versions[v]
        /\ \A id \in DOMAIN rows : versions'[id] = rows[id]
    BY <1>1, <1>3, <2>1, StoredRows DEF ReleaseInv, StoreInv
  <2>3. entry.version \notin DOMAIN versions
    BY <1>1, <1>3 DEF Stored, ReleaseInv, StoreInv, VersionsSound
  <2>4. Grows
    <3>1. ledger' # <<>>
      BY <2>1 DEF ReleaseInv, StoreInv
    <3> QED
      BY <1>1, <2>2, <3>1 DEF Grows, Approves
  <2>5. /\ ledger \in Seq(LedgerEntries)
        /\ Len(ledger) \in Nat
        /\ DOMAIN ledger = 1..Len(ledger)
        /\ DOMAIN ledger' = 1..(Len(ledger) + 1)
        /\ \A i \in 1..Len(ledger) : ledger'[i] = ledger[i]
        /\ ledger'[Len(ledger) + 1] = entry
        /\ ledger = <<>> <=> Len(ledger) = 0
    BY <2>1 DEF ReleaseInv, StoreInv
  <2>6. (ledger \in Seq(LedgerEntries))'
    <3>1. ledger' \in Seq(LedgerEntries \cup {entry})
      BY <2>1, <2>5
    <3> QED
      BY <3>1, SeqOfItsRange DEF LedgerEntries
  <2>7. Referenced'
    BY <2>2, <2>5 DEF ReleaseInv, StoreInv, Referenced
  <2>8. LedgerChain'
    <3> SUFFICES ASSUME NEW i \in DOMAIN ledger'
                 PROVE  /\ versions'[ledger'[i].version].status = "ACTIVE"
                        /\ ledger'[i].previous = IF i = 1 THEN None ELSE ledger'[i-1].version
                        /\ i > 1 => \E v \in DOMAIN versions' :
                             /\ versions'[v].parent = ledger'[i-1].version
                             /\ versions'[v].status =
                                  IF ledger'[i].kind = "PROMOTE" THEN "RETIRED"
                                                                ELSE "ROLLED_BACK"
                        /\ ledger'[i].kind = "ROLLBACK" =>
                             /\ i > 1
                             /\ versions'[ledger'[i].version].parent = ledger'[i-1].target
                        /\ \A j \in DOMAIN ledger' \ {i} :
                             ledger'[j].version # ledger'[i].version
      BY DEF LedgerChain
    <3>1. CASE i = Len(ledger) + 1
      <4>1. \A j \in 1..Len(ledger) : ledger'[j].version \in DOMAIN versions
        BY <2>5 DEF ReleaseInv, StoreInv, Referenced
      <4>2. i > 1 => ledger # <<>> /\ i - 1 \in 1..Len(ledger) /\ i - 1 = Len(ledger)
        BY <2>5, <3>1
      <4>3. i = 1 => ledger = <<>>
        BY <2>5, <3>1
      <4>4. ledger # <<>> => i > 1
        BY <2>5, <3>1
      <4>5. i > 1 => \E v \in DOMAIN versions' :
                       /\ versions'[v].parent = ledger'[i-1].version
                       /\ versions'[v].status =
                            IF ledger'[i].kind = "PROMOTE" THEN "RETIRED" ELSE "ROLLED_BACK"
        BY <2>2, <2>5, <3>1, <4>2
      <4>6. \A j \in DOMAIN ledger' \ {i} : ledger'[j].version # ledger'[i].version
        BY <2>3, <2>5, <3>1, <4>1, SMTT(30)
      <4> QED
        BY <2>2, <2>5, <3>1, <4>2, <4>3, <4>4, <4>5, <4>6, SMTT(30)
    <3>2. CASE i \in 1..Len(ledger)
      <4>1. /\ versions[ledger[i].version].status = "ACTIVE"
            /\ ledger[i].previous = IF i = 1 THEN None ELSE ledger[i-1].version
            /\ i > 1 => \E v \in DOMAIN versions :
                 /\ versions[v].parent = ledger[i-1].version
                 /\ versions[v].status =
                      IF ledger[i].kind = "PROMOTE" THEN "RETIRED" ELSE "ROLLED_BACK"
            /\ ledger[i].kind = "ROLLBACK" =>
                 i > 1 /\ versions[ledger[i].version].parent = ledger[i-1].target
            /\ \A j \in DOMAIN ledger \ {i} : ledger[j].version # ledger[i].version
        BY <2>5, <3>2 DEF ReleaseInv, StoreInv, LedgerChain
      <4>2. ledger[i].version \in DOMAIN versions
        BY <2>5, <3>2 DEF ReleaseInv, StoreInv, Referenced
      <4>3. i > 1 => i - 1 \in 1..Len(ledger)
        BY <2>5, <3>2
      <4>4. versions'[ledger'[i].version] = versions[ledger[i].version] /\ ledger'[i] = ledger[i]
        BY <2>2, <2>5, <3>2, <4>2
      <4>5. i > 1 => ledger'[i-1] = ledger[i-1]
        BY <2>5, <4>3
      <4>6. i > 1 => \E v \in DOMAIN versions' :
                       /\ versions'[v].parent = ledger'[i-1].version
                       /\ versions'[v].status =
                            IF ledger'[i].kind = "PROMOTE" THEN "RETIRED" ELSE "ROLLED_BACK"
        <5> SUFFICES ASSUME i > 1
                     PROVE  \E v \in DOMAIN versions' :
                              /\ versions'[v].parent = ledger'[i-1].version
                              /\ versions'[v].status = IF ledger'[i].kind = "PROMOTE"
                                                       THEN "RETIRED" ELSE "ROLLED_BACK"
          BY Zenon
        <5>1. PICK v \in DOMAIN versions :
                     /\ versions[v].parent = ledger[i-1].version
                     /\ versions[v].status =
                          IF ledger[i].kind = "PROMOTE" THEN "RETIRED" ELSE "ROLLED_BACK"
          BY <4>1, Zenon
        <5>2. v \in DOMAIN versions' /\ versions'[v] = versions[v] /\ ledger'[i-1] = ledger[i-1]
          BY <2>2, <4>5, Zenon
        <5> QED
          BY <4>4, <5>1, <5>2, Zenon
      <4>7. \A j \in DOMAIN ledger' \ {i} : ledger'[j].version # ledger'[i].version
        BY <2>3, <2>5, <3>2, <4>1, <4>2
      <4>8. ledger'[i].previous = IF i = 1 THEN None ELSE ledger'[i-1].version
        BY <2>5, <4>1, <4>4, <4>5
      <4> QED
        BY <4>1, <4>4, <4>5, <4>6, <4>7, <4>8, Zenon
    <3> QED
      BY <2>5, <3>1, <3>2
  <2>9. LedgerApproved'
    <3>1. ASSUME NEW i \in DOMAIN ledger', ledger'[i].kind = "PROMOTE"
          PROVE  \E k : k = ledger'[i].report /\ Approves(k)
      <4>1. CASE i = Len(ledger) + 1
        BY <2>5, <3>1, <4>1
      <4>2. CASE i \in 1..Len(ledger)
        BY <2>5, <3>1, <4>2 DEF ReleaseInv, StoreInv, LedgerApproved
      <4> QED
        BY <2>5, <4>1, <4>2
    <3> QED
      BY <2>4, <3>1 DEF LedgerApproved, Grows
  <2>10. StoreInv'
    BY <2>2, <2>4, <2>6, <2>7, <2>8, <2>9, ReportsKept, Zenon DEF ReleaseInv, StoreInv
  <2>11. DOMAIN req' = Operators /\ \A p \in Operators : RequestSound(req[p])'
    <3>1. /\ DOMAIN req' = Operators
          /\ \A p \in Operators : req'[p] = req[p] \/ RequestSound(req'[p]) \/ Opens(req'[p])
      BY <2>1, IdleSound, Zenon DEF ReleaseInv
    <3> QED
      BY <2>4, <3>1, RequestsKept
  <2> QED
    BY <1>1, <2>10, <2>11 DEF ReleaseInv
<1> QED
  BY <1>2, <1>3

\* register: the row of a shadow version is written beside what is there, stamped before now.
LEMMA PutShadowSafe ==
    ASSUME ReleaseInv, NEW o \in Operators, PutShadow(o)
    PROVE  ReleaseInv'
<1> DEFINE r == req[o]
           id == ShadowId(r.candidate, r.budget)
           row == Row("SHADOW", r.candidate, versions[r.candidate].root, r.created)
           rows == Single(id, row)
<1>1. UNCHANGED <<now, ledger, reports, results>> /\ r.at = "register_put" /\ now \in Nat
  BY DEF PutShadow, shadowVars, ReleaseInv
<1>2. CASE Stored(rows) /\ Put(rows) /\ Answer(o, "done")
  <2>1. DOMAIN rows = {id} /\ rows[id] = row /\ row.created = r.created
    BY Zenon DEF Single, Row
  <2>2. r.created \in Nat /\ r.created < now /\ BudgetOf(id) \in Budgets
    BY <1>1 DEF ReleaseInv, RequestSound, BudgetOf, ShadowId, DerivedId
  <2> HIDE DEF rows, row, r, id
  <2>3. \A x \in DOMAIN rows : /\ rows[x].created \in Nat /\ rows[x].created < now'
                               /\ rows[x].status = "SHADOW" => BudgetOf(x) \in Budgets
    BY <1>1, <2>1, <2>2
  <2>4. /\ VersionsSound'
        /\ DOMAIN versions \subseteq DOMAIN versions'
        /\ \A v \in DOMAIN versions : versions'[v] = versions[v]
    BY <1>1, <1>2, <2>3, StoredRows DEF ReleaseInv, StoreInv
  <2>5. Grows
    BY <1>1, <2>4 DEF Grows, Approves
  <2>6. StoreInv'
    BY <1>1, <2>4, <2>5, LedgerKept, ReportsKept DEF ReleaseInv, StoreInv
  <2>7. /\ DOMAIN req' = Operators
        /\ \A p \in Operators : req'[p] = req[p] \/ RequestSound(req'[p]) \/ Opens(req'[p])
    BY <1>2, IdleSound DEF ReleaseInv, Answer
  <2> QED
    BY <1>1, <2>5, <2>6, <2>7, RequestsKept, Zenon DEF ReleaseInv
<1>3. CASE Answer(o, "immutable") /\ versions' = versions
  BY <1>1, <1>3, QuietAnswer
<1> QED
  BY <1>2, <1>3 DEF PutShadow

\* put_router_promotion_report: a report that approves carries the gate's verdict.
LEMMA PutReportSafe ==
    ASSUME ReleaseInv, NEW o \in Operators, PutReport(o)
    PROVE  ReleaseInv'
<1> DEFINE r == req[o]
           id == ReportId(r.candidate, r.baseline, r.key)
           sealed == [candidate |-> r.candidate, baseline |-> r.baseline,
                      decision |-> Decision(r.score, r.shadow)]
<1>1. UNCHANGED <<versions, results, ledger, now>> /\ r.at = "evaluate_put" /\ now \in Nat
  BY DEF PutReport, shadowVars, ReleaseInv
<1>2. CASE Answer(o, "immutable") /\ reports' = reports
  BY <1>1, <1>2, QuietAnswer
<1>3. CASE /\ id \notin DOMAIN reports /\ Answer(o, "done")
           /\ reports' = Extended(reports, Single(id, sealed))
  <2>1. /\ DOMAIN reports' = DOMAIN reports \cup {id}
        /\ reports'[id] = sealed
        /\ \A k \in DOMAIN reports : reports'[k] = reports[k]
    <3>1. DOMAIN Single(id, sealed) = {id} /\ Single(id, sealed)[id] = sealed
      BY DEF Single
    <3> HIDE DEF sealed, id
    <3> QED
      BY <1>3, <3>1 DEF Extended
  <2>2. sealed.decision = "PROMOTE" => EvidenceFor(r.candidate)
    <3>1. sealed.decision = Decision(r.score, r.shadow)
      OBVIOUS
    <3>2. r.shadow = TRUE => EvidenceFor(r.candidate)
      BY <1>1 DEF ReleaseInv, RequestSound
    <3>3. Decision(r.score, r.shadow) = "PROMOTE" => r.shadow = TRUE
      BY DEF Decision
    <3> HIDE DEF sealed
    <3> QED
      BY <3>1, <3>2, <3>3
  <2>3. sealed.candidate = r.candidate
    OBVIOUS
  <2> HIDE DEF sealed, id, r
  <2>4. Grows
    BY <1>1, <2>1 DEF Grows, Approves
  <2>5. ReportsEvidenced'
    <3> SUFFICES ASSUME NEW k \in DOMAIN reports', Approves(k)'
                 PROVE  EvidenceFor(reports[k].candidate)'
      BY DEF ReportsEvidenced
    <3>1. PICK c : c = reports'[k].candidate
      OBVIOUS
    <3>2. EvidenceFor(c)
      BY <2>1, <2>2, <2>3, <3>1 DEF ReleaseInv, StoreInv, ReportsEvidenced, Approves
    <3>3. EvidenceFor(c)'
      BY <2>4, <3>2, EvidenceKept
    <3> QED
      BY <3>1, <3>3
  <2>6. VersionsSound'
    BY <1>1 DEF ReleaseInv, StoreInv, VersionsSound
  <2>7. StoreInv'
    BY <1>1, <2>4, <2>5, <2>6, LedgerKept DEF ReleaseInv, StoreInv
  <2>8. /\ DOMAIN req' = Operators
        /\ \A p \in Operators : req'[p] = req[p] \/ RequestSound(req'[p]) \/ Opens(req'[p])
    BY <1>3, IdleSound DEF ReleaseInv, Answer
  <2> QED
    BY <1>1, <2>4, <2>7, <2>8, RequestsKept DEF ReleaseInv
<1> QED
  BY <1>2, <1>3 DEF PutReport

\* promote under the lock: the head is read again, and its version is the one retired.
LEMMA CommitPromotionSafe ==
    ASSUME ReleaseInv, NEW o \in Operators, CommitPromotion(o)
    PROVE  ReleaseInv'
<1> DEFINE id == req[o].report
           c == reports[id].candidate
           head == LedgerHead
           promoted == VersionRow(c, "ACTIVE", "promoted", id)
           retired == IF head = NoEntry THEN <<>>
                      ELSE VersionRow(head.version, "RETIRED", "retired", id)
           rows == Extended(promoted, retired)
           new == DerivedId(c, "promoted", id)
           old == DerivedId(head.version, "retired", id)
           entry == [kind |-> "PROMOTE", version |-> new, previous |-> Serving(head),
                     target |-> reports[id].baseline, report |-> id]
<1>1. Activate(o, rows, entry)
  BY DEF CommitPromotion, Release
<1>2. /\ DOMAIN promoted = {new}
      /\ promoted[new] = Row("ACTIVE", c, versions[c].root, now)
  BY DEF VersionRow, Single
<1>3. ledger \in Seq(LedgerEntries) /\ Referenced
  BY DEF ReleaseInv, StoreInv
<1>4. head = NoEntry <=> ledger = <<>>
  <2>1. ledger # <<>> => ledger[Len(ledger)].kind # "NONE"
    BY <1>3 DEF Referenced
  <2> QED
    BY <2>1 DEF LedgerHead, NoEntry
<1>5. ledger # <<>> => head = ledger[Len(ledger)]
  BY DEF LedgerHead
<1>6. head # NoEntry => /\ DOMAIN retired = {old}
                        /\ retired[old] = Row("RETIRED", head.version, versions[head.version].root, now)
  BY DEF VersionRow, Single
<1>7. head = NoEntry => DOMAIN retired = {}
  OBVIOUS
<1>8. new # old
  BY Zenon DEF DerivedId
<1>9. /\ DOMAIN rows = DOMAIN promoted \cup DOMAIN retired
      /\ rows[new] = Row("ACTIVE", c, versions[c].root, now)
      /\ head # NoEntry =>
           rows[old] = Row("RETIRED", head.version, versions[head.version].root, now)
  <2> HIDE DEF promoted, retired, new, old, head
  <2> QED
    BY <1>2, <1>6, <1>7, <1>8, Zenon DEF Extended
<1>10. DOMAIN rows = {new} \cup (IF head = NoEntry THEN {} ELSE {old})
  <2> HIDE DEF promoted, retired, new, old, head, rows
  <2> QED
    BY <1>2, <1>6, <1>7, <1>9, Zenon
<1>11. \A x \in DOMAIN rows : rows[x].created = now /\ rows[x].status # "SHADOW"
  <2> HIDE DEF promoted, retired, new, old, head, rows
  <2>1. ASSUME NEW x \in DOMAIN rows
        PROVE  x = new \/ (head # NoEntry /\ x = old)
    BY <1>10, <2>1, Zenon
  <2> QED
    BY <1>9, <2>1 DEF Row
<1>12. /\ entry.version \in DOMAIN rows
       /\ rows[entry.version].status = "ACTIVE"
       /\ entry.kind = "PROMOTE"
       /\ entry.previous = Serving(head)
  <2>1. entry.version = new /\ entry.kind = "PROMOTE" /\ entry.previous = Serving(head)
    OBVIOUS
  <2> HIDE DEF promoted, retired, new, old, head, rows, entry
  <2> QED
    BY <2>1, <1>9, <1>10 DEF Row
<1>13. entry.previous = IF ledger = <<>> THEN None ELSE ledger[Len(ledger)].version
  <2> HIDE DEF promoted, retired, new, old, head, rows, entry
  <2> QED
    BY <1>4, <1>5, <1>12, Zenon DEF Serving
<1>14. ledger # <<>> => \E x \in DOMAIN rows :
             /\ rows[x].parent = ledger[Len(ledger)].version
             /\ rows[x].status = IF entry.kind = "PROMOTE" THEN "RETIRED" ELSE "ROLLED_BACK"
  <2> HIDE DEF promoted, retired, new, old, head, rows, entry
  <2> SUFFICES ASSUME ledger # <<>>
               PROVE  rows[old].parent = ledger[Len(ledger)].version
                      /\ rows[old].status = "RETIRED" /\ old \in DOMAIN rows
    BY <1>12
  <2> QED
    BY <1>4, <1>5, <1>9, <1>10 DEF Row
<1>15. UNCHANGED <<reports, results>> /\ Approves(entry.report)
  <2>1. entry.report = req[o].report
    BY Zenon
  <2> HIDE DEF entry
  <2> QED
    BY <2>1 DEF CommitPromotion, shadowVars, ReleaseInv, RequestSound
<1> HIDE DEF promoted, retired, new, old, head, rows, entry
<1> QED
  BY <1>1, <1>11, <1>12, <1>13, <1>14, <1>15, ActivateSafe, Zenon

\* rollback under the lock: the target served again is the one the withdrawn entry recorded.
LEMMA CommitRollbackSafe ==
    ASSUME ReleaseInv, NEW o \in Operators, CommitRollback(o)
    PROVE  ReleaseInv'
<1> DEFINE r == req[o]
           restored == VersionRow(r.target, "ACTIVE", "restored", r.cause)
           rolledBack == VersionRow(r.version, "ROLLED_BACK", "rolled-back", r.cause)
           rows == Extended(restored, rolledBack)
           new == DerivedId(r.target, "restored", r.cause)
           old == DerivedId(r.version, "rolled-back", r.cause)
           entry == [kind |-> "ROLLBACK", version |-> new, previous |-> r.version,
                     target |-> r.target, report |-> None]
           current == LedgerHead.version = r.version /\ LedgerHead.target = r.target
<1>1. UNCHANGED <<reports, results>> /\ now \in Nat
  BY DEF CommitRollback, shadowVars, ReleaseInv
<1>2. CASE current /\ Activate(o, rows, entry)
  <2>1. ledger # <<>>
    BY DEF CommitRollback, ReleaseInv, RequestSound
  <2>2. ledger[Len(ledger)].version = r.version /\ ledger[Len(ledger)].target = r.target
    BY <1>2, <2>1, Zenon DEF LedgerHead
  <2>3. /\ DOMAIN restored = {new}
        /\ restored[new] = Row("ACTIVE", r.target, versions[r.target].root, now)
        /\ DOMAIN rolledBack = {old}
        /\ rolledBack[old] = Row("ROLLED_BACK", r.version, versions[r.version].root, now)
    BY DEF VersionRow, Single
  <2>4. new # old
    BY DEF DerivedId
  <2>5. /\ entry.version = new /\ entry.kind = "ROLLBACK" /\ entry.previous = r.version
    BY Zenon
  <2>6. /\ DOMAIN rows = {new, old}
        /\ rows[new] = Row("ACTIVE", r.target, versions[r.target].root, now)
        /\ rows[old] = Row("ROLLED_BACK", r.version, versions[r.version].root, now)
    <3> HIDE DEF restored, rolledBack, new, old, r
    <3> QED
      BY <2>3, <2>4 DEF Extended
  <2> HIDE DEF restored, rolledBack, rows, new, old, entry, r
  <2>7. \A x \in DOMAIN rows : rows[x].created = now /\ rows[x].status # "SHADOW"
    BY <2>6 DEF Row
  <2>8. /\ rows[new].status = "ACTIVE" /\ rows[new].parent = r.target
        /\ rows[old].status = "ROLLED_BACK" /\ rows[old].parent = r.version
    BY <2>6 DEF Row
  <2>9. /\ entry.version \in DOMAIN rows
        /\ rows[entry.version].status = "ACTIVE"
        /\ entry.kind \in {"PROMOTE", "ROLLBACK"}
        /\ entry.previous = IF ledger = <<>> THEN None ELSE ledger[Len(ledger)].version
        /\ rows[entry.version].parent = ledger[Len(ledger)].target
    BY <2>1, <2>2, <2>5, <2>6, <2>8, Zenon
  <2>10. \E x \in DOMAIN rows :
             /\ rows[x].parent = ledger[Len(ledger)].version
             /\ rows[x].status = IF entry.kind = "PROMOTE" THEN "RETIRED" ELSE "ROLLED_BACK"
    BY <2>2, <2>5, <2>6, <2>8
  <2> QED
    BY <1>1, <1>2, <2>1, <2>5, <2>7, <2>9, <2>10, ActivateSafe, ZenonT(30)
<1>3. CASE /\ \E a \in {"replayed", "refused"} : Answer(o, a)
           /\ versions' = versions /\ ledger' = ledger /\ now' = now
  BY <1>1, <1>3, QuietAnswer
<1> QED
  BY <1>2, <1>3, Zenon DEF CommitRollback

--------------------------------------------------------------------------------
(* The requests that write nothing. *)

\* Calls that only read leave the tables alone.
LEMMA ReadsOnly ==
    ASSUME NEW o, \/ Evaluate(o) \/ ReadDecisions(o) \/ ReadResults(o) \/ Promote(o)
                  \/ DrillTarget(o) \/ Rollback(o) \/ DrillRestored(o)
    PROVE  UNCHANGED <<versions, reports, ledger, results, now>>
<1>1. CASE Evaluate(o)
  BY <1>1, Zenon DEF Evaluate, shadowVars
<1>2. CASE ReadDecisions(o)
  BY <1>2, Zenon DEF ReadDecisions, shadowVars
<1>3. CASE ReadResults(o)
  BY <1>3, Zenon DEF ReadResults, shadowVars
<1>4. CASE Promote(o)
  BY <1>4, Zenon DEF Promote, shadowVars
<1>5. CASE DrillTarget(o)
  BY <1>5, Zenon DEF DrillTarget, shadowVars
<1>6. CASE Rollback(o)
  BY <1>6, Zenon DEF Rollback, shadowVars
<1>7. CASE DrillRestored(o)
  BY <1>7, Zenon DEF DrillRestored, shadowVars
<1> QED
  BY <1>1, <1>2, <1>3, <1>4, <1>5, <1>6, <1>7, Zenon

\* A registration reads the clock for its row, and an evaluation starts with nothing to rely on.
LEMMA StartsSafe ==
    ASSUME ReleaseInv, NEW o \in Operators, RegisterShadow(o) \/ Evaluate(o)
    PROVE  ReleaseInv'
<1>1. now \in Nat
  BY DEF ReleaseInv
<1>2. CASE RegisterShadow(o)
  <2>1. UNCHANGED <<versions, reports, ledger, results>>
    BY <1>2, Zenon DEF RegisterShadow, shadowVars
  <2>2. CASE \E a : Answer(o, a) /\ now' = now
    BY <1>1, <2>1, <2>2, QuietAnswer
  <2>3. CASE \E c \in DOMAIN versions, b \in Budgets :
               /\ now' = now + 1
               /\ Step(o, [at |-> "register_put", candidate |-> c, budget |-> b,
                           created |-> now])
    <3>1. PICK c, b : /\ b \in Budgets /\ now' = now + 1
                      /\ Step(o, [at |-> "register_put", candidate |-> c, budget |-> b,
                                  created |-> now])
      BY <2>3, Zenon
    <3>2. PICK r : r = [at |-> "register_put", candidate |-> c, budget |-> b, created |-> now]
      BY Zenon
    <3>3. Step(o, r) /\ Opens(r)
      BY <1>1, <3>1, <3>2 DEF Opens
    <3> QED
      BY <1>1, <2>1, <3>1, <3>3, QuietRequest
  <2> QED
    BY <1>2, <2>2, <2>3, ZenonT(30) DEF RegisterShadow
<1>3. CASE Evaluate(o)
  <2>1. PICK c \in Candidates, b \in DOMAIN versions, k \in Keys :
          \/ Answer(o, "replayed") \/ Answer(o, "refused")
          \/ \E s \in Scores(c, b) :
               Step(o, [at |-> "evaluate_shadow", candidate |-> c, baseline |-> b,
                        key |-> k, score |-> s])
    BY <1>3, Zenon DEF Evaluate
  <2>2. ASSUME NEW s, Step(o, [at |-> "evaluate_shadow", candidate |-> c, baseline |-> b,
                               key |-> k, score |-> s])
        PROVE  ReleaseInv'
    <3>1. PICK r : Step(o, r) /\ r.at = "evaluate_shadow"
      BY <2>2
    <3>2. RequestSound(r)
      BY <3>1 DEF RequestSound
    <3> QED
      BY <1>1, <1>3, <3>1, <3>2, ReadsOnly, QuietRequest
  <2>3. ASSUME NEW a, Answer(o, a)
        PROVE  ReleaseInv'
    BY <1>1, <1>3, <2>3, ReadsOnly, QuietAnswer
  <2> QED
    BY <2>1, <2>2, <2>3, Zenon
<1> QED
  BY <1>2, <1>3

\* _shadow: the version kept is one of the candidate's own shadow versions.
LEMMA ReadDecisionsSafe ==
    ASSUME ReleaseInv, NEW o \in Operators, ReadDecisions(o)
    PROVE  ReleaseInv'
<1> DEFINE mine == {v \in ShadowVersions : versions[v].parent = req[o].candidate}
           heard == {d \in decisions : d.version \in mine}
           g == Greatest(mine)
           h == {d.receipt : d \in {e \in heard : e.version = g}}
<1>1. UNCHANGED <<versions, reports, ledger, results, now>> /\ now \in Nat
  BY ReadsOnly DEF ReleaseInv
<1>2. ASSUME \E d \in heard : d.version = g
      PROVE  g \in ShadowVersions /\ versions[g].parent = req[o].candidate
  <2> HIDE DEF g
  <2> QED
    BY <1>2, Zenon
<1>3. CASE /\ \E d \in heard : d.version = g
           /\ Step(o, [at |-> "evaluate_results", candidate |-> req[o].candidate,
                       baseline |-> req[o].baseline, key |-> req[o].key,
                       score |-> req[o].score, version |-> g, heard |-> h])
  <2> HIDE DEF mine, heard, g, h
  <2>1. PICK r : /\ Step(o, r) /\ r.at = "evaluate_results" /\ r.version = g
                 /\ r.candidate = req[o].candidate
    BY <1>3, SMTT(30)
  <2>2. RequestSound(r)
    BY <1>2, <1>3, <2>1 DEF RequestSound
  <2> QED
    BY <1>1, <2>1, <2>2, QuietRequest
<1>4. CASE Step(o, [at |-> "evaluate_put", candidate |-> req[o].candidate,
                    baseline |-> req[o].baseline, key |-> req[o].key,
                    score |-> req[o].score, shadow |-> FALSE])
  <2>1. PICK r : Step(o, r) /\ r.at = "evaluate_put" /\ r.shadow = FALSE
    BY <1>4
  <2>2. RequestSound(r)
    BY <2>1 DEF RequestSound
  <2> QED
    BY <1>1, <2>1, <2>2, QuietRequest
<1>5. CASE Answer(o, "invalid")
  BY <1>1, <1>5, QuietAnswer
<1> QED
  BY <1>3, <1>4, <1>5, Zenon DEF ReadDecisions

\* shadow_gate: it only passes on enough receipts with both arms.
LEMMA ReadResultsSafe ==
    ASSUME ReleaseInv, StageInv, NEW o \in Operators, ReadResults(o)
    PROVE  ReleaseInv'
<1>1. UNCHANGED <<versions, reports, ledger, results, now>> /\ now \in Nat
  BY ReadsOnly, Zenon DEF ReleaseInv
<1>2. PICK inferior \in BOOLEAN :
        Step(o, [at |-> "evaluate_put", candidate |-> req[o].candidate,
                 baseline |-> req[o].baseline, key |-> req[o].key, score |-> req[o].score,
                 shadow |-> ShadowGate(req[o].version, req[o].heard, inferior)])
  BY DEF ReadResults
<1>3. PICK v, heard, c : v = req[o].version /\ heard = req[o].heard /\ c = req[o].candidate
  BY Zenon
<1>4. v \in ShadowVersions /\ versions[v].parent = c
  BY <1>3, Zenon DEF ReadResults, ReleaseInv, RequestSound
<1>5. PICK g : g = ShadowGate(v, heard, inferior)
  OBVIOUS
<1>6. g = TRUE => EvidenceFor(c)
  <2> SUFFICES ASSUME g = TRUE
               PROVE  Cardinality(Tried(results, v)) >= MinPaired
    BY <1>4 DEF EvidenceFor
  <2>1. Cardinality(Complete(v, heard)) >= MinPaired
    BY <1>5, Zenon DEF ShadowGate
  <2> QED
    BY <2>1, PairsAreReceipts, ReleaseAssumption
<1>7. Step(o, [at |-> "evaluate_put", candidate |-> c,
               baseline |-> req[o].baseline, key |-> req[o].key, score |-> req[o].score,
               shadow |-> g])
  BY <1>2, <1>3, <1>5, Zenon
<1>8. PICK r : Step(o, r) /\ r.at = "evaluate_put" /\ r.candidate = c /\ r.shadow = g
  BY <1>7
<1>9. RequestSound(r)
  BY <1>6, <1>8 DEF RequestSound
<1> QED
  BY <1>1, <1>8, <1>9, QuietRequest

\* promote and rollback up to the lock: an approved report, or an entry to withdraw.
LEMMA DrillsSafe ==
    ASSUME ReleaseInv, NEW o \in Operators,
           Promote(o) \/ DrillTarget(o) \/ Rollback(o) \/ DrillRestored(o)
    PROVE  ReleaseInv'
<1>1. UNCHANGED <<versions, reports, ledger, results, now>> /\ now \in Nat
  BY ReadsOnly DEF ReleaseInv
<1>2. ASSUME NEW r, Step(o, r), r.at \in {"promote_drill", "promote_commit"}, Approves(r.report)
      PROVE  ReleaseInv'
  <2>1. RequestSound(r)
    BY <1>2 DEF RequestSound
  <2> QED
    BY <1>1, <1>2, <2>1, QuietRequest, SMTT(30)
<1>3. ASSUME NEW r, Step(o, r), r.at \in {"rollback_drill", "rollback_commit"}, ledger # <<>>
      PROVE  ReleaseInv'
  <2>1. RequestSound(r)
    BY <1>3 DEF RequestSound
  <2> QED
    BY <1>1, <1>3, <2>1, QuietRequest
<1>4. ASSUME NEW a, Answer(o, a)
      PROVE  ReleaseInv'
  BY <1>1, <1>4, QuietAnswer, SMTT(30)
<1>5. CASE Promote(o)
  BY <1>2, <1>4, <1>5, Zenon DEF Promote, Approves
<1>6. CASE DrillTarget(o)
  <2>1. Approves(req[o].report)
    BY <1>6, Zenon DEF DrillTarget, ReleaseInv, RequestSound
  <2> QED
    BY <1>2, <1>4, <1>6, <2>1, ZenonT(30) DEF DrillTarget
<1>7. CASE Rollback(o)
  <2>1. ledger # <<>>
    <3>1. DOMAIN ledger # {}
      BY <1>7, Zenon DEF Rollback
    <3> QED
      BY <3>1
  <2>2. \/ \E a : Answer(o, a)
        \/ \E v, c : Step(o, [at |-> "rollback_drill", version |-> v, cause |-> c,
                              target |-> LedgerHead.target])
    BY <1>7, Zenon DEF Rollback
  <2>3. ASSUME NEW v, NEW c, Step(o, [at |-> "rollback_drill", version |-> v, cause |-> c,
                                      target |-> LedgerHead.target])
        PROVE  ReleaseInv'
    <3>1. PICK r : Step(o, r) /\ r.at = "rollback_drill"
      BY <2>3, SMTT(30)
    <3> QED
      BY <1>3, <2>1, <3>1
  <2> QED
    BY <1>4, <2>2, <2>3, ZenonT(30)
<1>8. CASE DrillRestored(o)
  <2>1. ledger # <<>>
    BY <1>8, Zenon DEF DrillRestored, ReleaseInv, RequestSound
  <2> QED
    BY <1>3, <1>4, <1>8, <2>1, Zenon DEF DrillRestored
<1> QED
  BY <1>5, <1>6, <1>7, <1>8

--------------------------------------------------------------------------------
(* The theorems. *)

\* Requests leave the shadow stage alone, but for its versions.
LEMMA RequestLeavesStage ==
    ASSUME NEW o, RequestStep(o)
    PROVE  UNCHANGED shadowVars
<1>1. CASE RegisterShadow(o) \/ PutShadow(o) \/ Evaluate(o) \/ ReadDecisions(o)
  BY <1>1, Zenon DEF RegisterShadow, PutShadow, Evaluate, ReadDecisions
<1>2. CASE ReadResults(o) \/ PutReport(o) \/ Promote(o) \/ DrillTarget(o)
  BY <1>2, Zenon DEF ReadResults, PutReport, Promote, DrillTarget
<1>3. CASE CommitPromotion(o) \/ Rollback(o) \/ DrillRestored(o) \/ CommitRollback(o)
  BY <1>3, Zenon DEF CommitPromotion, Rollback, DrillRestored, CommitRollback
<1> QED
  BY <1>1, <1>2, <1>3 DEF RequestStep

\* Every step keeps both invariants: a request its own, the stage what requests read of it.
LEMMA InvariantStep ==
    ReleaseInv /\ StageInv /\ [Next]_vars => ReleaseInv' /\ StageInv'
<1> SUFFICES ASSUME ReleaseInv, StageInv, [Next]_vars
             PROVE  ReleaseInv' /\ StageInv'
  OBVIOUS
<1>1. now \in Nat /\ DOMAIN req = Operators
  BY DEF ReleaseInv
<1>2. CASE ShadowStep /\ UNCHANGED <<releaseVars, bounds>>
  <2>1. StageInv' /\ versions' = versions /\ results \subseteq results'
    BY <1>2, StageSteps
  <2>2. UNCHANGED <<reports, ledger, now, req>>
    BY <1>2 DEF releaseVars
  <2> QED
    BY <1>1, <2>1, <2>2, QuietStep
<1>3. ASSUME NEW o \in Operators, RequestStep(o)
      PROVE  ReleaseInv' /\ StageInv'
  <2>1. StageInv'
    BY <1>3, RequestLeavesStage, StageLeft, Zenon DEF shadowVars
  <2>2. ReleaseInv'
    BY <1>3, StartsSafe, PutShadowSafe, ReadDecisionsSafe, ReadResultsSafe, PutReportSafe,
       DrillsSafe, CommitPromotionSafe, CommitRollbackSafe, Zenon DEF RequestStep
  <2> QED
    BY <2>1, <2>2
<1>4. CASE Rot \/ UNCHANGED vars
  <2>1. UNCHANGED <<versions, day, results, stage, picked, reports, ledger, now, req>>
    BY <1>4 DEF Rot, vars, shadowVars, releaseVars
  <2> QED
    BY <1>1, <2>1, StageLeft, QuietStep
<1>5. CASE Crash
  <2>1. /\ UNCHANGED <<versions, day, results, picked, reports, ledger, now>>
        /\ req' = [o \in Operators |-> Idle("none")]
        /\ stage' = [r \in Receipts |-> IF r \in Busy THEN "done" ELSE stage[r]]
    BY <1>5 DEF Crash
  <2>2. \A p \in Operators : RequestSound(req'[p])
    BY <2>1, IdleSound
  <2> QED
    BY <1>1, <2>1, <2>2, StageCrashes, QuietStep
<1> QED
  BY <1>2, <1>3, <1>4, <1>5 DEF Next

\* The activation ledger is one chain in which no version is put in service twice, however many
\* promotions and rollbacks race, are repeated or are cut off (activation.py, activate;
\* promotion.py, promote and rollback).
THEOREM ReleaseLedgerChain == Spec => []LedgerChain
<1>1. ReleaseInv => LedgerChain
  BY Zenon DEF ReleaseInv, StoreInv
<1> QED
  BY <1>1, InvariantInit, InvariantStep, PTL DEF Spec

\* A candidate is only released on enough receipts for which both arms of one of its shadow
\* versions ran, whatever was registered, evaluated or crashed between the evaluation and the
\* release (promotion.py, _shadow; shadow.py, shadow_gate).
THEOREM ReleaseEvidenced == Spec => []EvidenceBehindRelease
<1>1. ReleaseInv => EvidenceBehindRelease
  BY DEF ReleaseInv, StoreInv, ReportsEvidenced, LedgerApproved, Approves, EvidenceFor,
         EvidenceBehindRelease
<1> QED
  BY <1>1, InvariantInit, InvariantStep, PTL DEF Spec

\* No day's arms of a shadow version exceed a cap of its budget by more than the rollouts in
\* flight can add (rollout.py, _within_budget and _rollout).
THEOREM ShadowOvershootBounded == Spec => []OvershootBounded
<1>1. ReleaseInv /\ StageInv => OvershootBounded
  BY StageWithinCaps DEF ReleaseInv, StoreInv, VersionsSound, ShadowVersions
<1> QED
  BY <1>1, InvariantInit, InvariantStep, PTL DEF Spec

================================================================================
