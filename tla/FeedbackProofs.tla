----------------------------- MODULE FeedbackProofs -----------------------------
(***************************************************************************)
(* The experience records of FeedbackPipeline implement the append-only      *)
(* ledger AppendOnly, contradicted verdicts are withheld from retrieval, and  *)
(* snapshots honour retractions, for every set of scenarios, operations and   *)
(* claims.                                                                 *)
(*                                                                         *)
(* FeedbackInv carries the two invariants.  A passing verdict is backed by a   *)
(* stored result that read no failure of a required claim, and results are    *)
(* only added.  A first projection that could see an opposite verdict is      *)
(* filed OPEN, and the row it contradicts is out of service or still in the    *)
(* hands of the operation that filed it: no other operation can file the      *)
(* revision it is about to, so opening a sibling is never refused.  What a     *)
(* lookup has considered stays free of the runs it saw retracted.             *)
(***************************************************************************)
EXTENDS FeedbackPipeline, TLAPS

\* What the rows hold, so that they can be said to be a sequence without a type for the
\* instances, runs and texts of a scenario.
Contents == {rows[k] : k \in DOMAIN rows}
RowsAreASequence == rows \in Seq(Contents)

\* The two things a step may do to the records: leave them, or file one new row.
Filed(row) == rows' = Append(rows, row) /\ ~Stored(row.key)
LeftOrFiled == UNCHANGED rows \/ \E row : Filed(row)

\* put_experience_record does one of the two, whatever it is handed.
LEMMA PutRowFiles ==
    ASSUME NEW o, NEW row, NEW place, NEW holding, PutRow(o, row, place, holding)
    PROVE  LeftOrFiled
BY DEF PutRow, LeftOrFiled, Filed

\* Every step of every operation, and of the world around them, does one of the two.
LEMMA StepFiles == ASSUME [Next]_vars PROVE LeftOrFiled
<1>1. ASSUME NEW o \in Ops, PutRecord(o) PROVE LeftOrFiled
  BY <1>1, PutRowFiles DEF PutRecord
<1>2. ASSUME NEW o \in Ops, NEW k \in DOMAIN rows, OpenSibling(o, k) PROVE LeftOrFiled
  BY <1>2, PutRowFiles DEF OpenSibling
<1>3. ASSUME NEW o \in Ops, PutResolution(o) PROVE LeftOrFiled
  BY <1>3, PutRowFiles DEF PutResolution
<1>4. ASSUME NEW o \in Ops,
             CheckRecorded(o) \/ ReadPriorResults(o) \/ PutResult(o) \/ RecordFinal(o)
             \/ MaterializeRead(o) \/ SaveExperience(o) \/ ListSiblings(o)
             \/ ReadContradiction(o) \/ Retract(o) \/ ListRecords(o) \/ LookupExperience(o)
             \/ SealSnapshot(o)
      PROVE LeftOrFiled
  <2>1. UNCHANGED rows
    BY <1>4, Zenon DEF CheckRecorded, ReadPriorResults, PutResult, RecordFinal, MaterializeRead,
       SaveExperience, ListSiblings, ReadContradiction, Retract, ListRecords,
       LookupExperience, SealSnapshot
  <2> QED  BY <2>1 DEF LeftOrFiled
<1>5. ASSUME RepositoryMoves \/ FlagFlips \/ Crash \/ Finished \/ UNCHANGED vars
      PROVE LeftOrFiled
  <2>1. UNCHANGED rows
    BY <1>5, Zenon DEF RepositoryMoves, FlagFlips, Crash, Finished, Disturb, vars
  <2> QED  BY <2>1 DEF LeftOrFiled
<1> QED
  BY <1>1, <1>2, <1>3, <1>4, <1>5, Zenon DEF Next, Step

\* A sequence with one more row is a sequence of the rows it then holds.
LEMMA SequenceKept == ASSUME RowsAreASequence, LeftOrFiled PROVE RowsAreASequence'
<1>1. CASE UNCHANGED rows
  BY <1>1 DEF RowsAreASequence, Contents
<1>2. ASSUME NEW row, Filed(row) PROVE RowsAreASequence'
  <2> DEFINE S == Contents \cup {row}
  <2>1. rows \in Seq(S) /\ row \in S
    BY DEF RowsAreASequence, Contents
  <2>2. rows' \in Seq(S)
    BY <1>2, <2>1 DEF Filed
  <2>3. /\ DOMAIN rows' = 1..(Len(rows) + 1)
        /\ \A k \in DOMAIN rows : rows'[k] = rows[k]
        /\ rows'[Len(rows) + 1] = row /\ Len(rows) \in Nat
        /\ DOMAIN rows = 1..Len(rows)
    BY <1>2, <2>1 DEF Filed
  <2>4. S = Contents'
    BY <2>3 DEF Contents
  <2> QED  BY <2>2, <2>4 DEF RowsAreASequence
<1> QED  BY <1>1, <1>2 DEF LeftOrFiled

\* A filed row is a write of the abstract ledger.
LEMMA FiledIsWrite == ASSUME RowsAreASequence, NEW row, Filed(row) PROVE Ledger!Write
<1>1. rows \in Seq(Contents \cup {row}) /\ row \in Contents \cup {row}
  BY DEF RowsAreASequence, Contents
<1>2. Len(rows') = Len(rows) + 1 /\ rows'[Len(rows) + 1] = row
  BY <1>1 DEF Filed
<1> QED  BY <1>1, <1>2 DEF Ledger!Write, Filed, Stored

\* LedgerRefined holds of every behaviour: the experience records are append-only and each
\* id is written once, whatever the projections, adjudications and crashes do.
THEOREM RecordsRefineLedger == Spec => LedgerRefined
<1>1. Init => RowsAreASequence /\ Ledger!Init
  BY DEF Init, RowsAreASequence, Contents, Ledger!Init
<1>2. RowsAreASequence /\ [Next]_vars => RowsAreASequence' /\ [Ledger!Write]_rows
  <2> SUFFICES ASSUME RowsAreASequence, [Next]_vars
      PROVE  RowsAreASequence' /\ [Ledger!Write]_rows
    OBVIOUS
  <2>1. LeftOrFiled  BY StepFiles
  <2>2. RowsAreASequence'  BY <2>1, SequenceKept
  <2>3. [Ledger!Write]_rows  BY <2>1, FiledIsWrite DEF LeftOrFiled
  <2> QED  BY <2>2, <2>3
<1> QED  BY <1>1, <1>2, PTL DEF Spec, LedgerRefined, Ledger!Spec

--------------------------------------------------------------------------------
(* Contradictions and snapshots. *)

\* An instance with a result that passes every required claim and had read no failure of one.
Backed(n) ==
    \E i \in PriorResults(n) :
        /\ \A c \in Required : results[i].claims[c] = "PASS"
        /\ \A j \in results[i].read, c \in Required : results[j].claims[c] # "FAIL"

ResultsSound ==
    /\ IsList(results)
    /\ \A i \in DOMAIN results :
         /\ results[i].read \subseteq DOMAIN results
         /\ results[i].status = "PASS" =>
              /\ \A c \in Required : results[i].claims[c] = "PASS"
              /\ \A j \in results[i].read, c \in Required : results[j].claims[c] # "FAIL"

\* Two first projections that disagree, the second of which could see the first.
Clash(a, b) ==
    /\ rows[a].parent = 0 /\ rows[b].parent = 0 /\ a <= rows[b].seen
    /\ rows[a].instance # rows[b].instance /\ rows[a].config = rows[b].config
    /\ {rows[a].verdict, rows[b].verdict} = {"PASS", "FAIL"}

\* The first is out of service, or still to be opened by the projection of the second.
Answered(a, b) ==
    \/ rows[a].status # "NONE"
    \/ \E i \in DOMAIN rows : rows[i].parent = a
    \/ /\ at[rows[b].by] \in {"open", "lost"} /\ local[rows[b].by].root = b
       /\ a \in local[rows[b].by].open

RowSound(k) ==
    /\ rows[k].eligible => rows[k].verdict = "PASS"
    /\ rows[k].verdict = "PASS" => Backed(rows[k].instance)
    /\ rows[k].by \in Ops
    /\ rows[k].seen \in Nat /\ rows[k].seen < k
    /\ rows[k].key.against \in Nat /\ rows[k].key.against < k
    /\ rows[k].parent = 0 => rows[k].key = RootKey(rows[k].instance)
    /\ rows[k].parent # 0 => rows[k].status # "NONE"
    /\ \E j \in DOMAIN rows : rows[j].key = RootKey(rows[k].instance)

RowsSound ==
    /\ IsList(rows)
    /\ \A k \in DOMAIN rows : RowSound(k)
    /\ \A j, k \in DOMAIN rows : rows[j].key = rows[k].key => j = k
    /\ \A j, k \in DOMAIN rows :
         rows[j].instance = rows[k].instance => rows[j].config = rows[k].config
    /\ \A a, b \in DOMAIN rows : Clash(a, b) => rows[b].status = "OPEN" /\ Answered(a, b)

\* What a projection holds of its run, of the siblings it has listed, and of those it opens.
ProjectionSound(o, l) ==
    /\ Op(o).kind = "final"
    /\ DOMAIN l = {"next", "root", "open", "seen", "identity", "verdicts"}
    /\ l.next \in DOMAIN Receipts(o)
    /\ \A i \in DOMAIN Receipts(o) : l.verdicts[i] = "PASS" => Backed(Receipts(o)[i].instance)

ListedSound(o, l) ==
    /\ l.seen \in Nat /\ l.seen <= Len(rows)
    /\ \A a \in DOMAIN rows :
         /\ a <= l.seen /\ rows[a].instance # Receipts(o)[l.next].instance
         /\ rows[a].config = Receipts(o)[l.next].config
         /\ rows[a].verdict \in Opposite(l.verdicts[l.next])
         => a \in l.open

OpeningSound(o, l) ==
    /\ l.root \in DOMAIN rows /\ rows[l.root].by = o
    /\ \A i \in DOMAIN rows : rows[i].key.against = l.root => rows[i].key.parent \notin l.open

\* A retracted experience.
Gone(r) == r \in DOMAIN experience /\ experience[r].exists /\ experience[r].retracted

LookupSound(l) ==
    /\ DOMAIN l = {"listed", "next", "considered", "gone"}
    /\ l.listed \in Nat /\ l.listed <= Len(rows) /\ l.next \in Nat /\ l.next > 0
    /\ \A r \in l.gone : Gone(r)
    /\ \A k \in l.considered : k \in DOMAIN rows /\ rows[k].run \notin l.gone

LocalSound(o) ==
    /\ at[o] = "result" => Op(o).kind = "local" /\ local[o] \subseteq DOMAIN results
    /\ at[o] = "prior" => Op(o).kind = "local"
    /\ at[o] \in {"materialize", "save", "siblings", "record", "open"} =>
         ProjectionSound(o, local[o])
    /\ at[o] = "record" => ListedSound(o, local[o])
    /\ at[o] = "open" => OpeningSound(o, local[o])
    /\ at[o] = "resolve" => local[o] \subseteq DOMAIN rows
    /\ at[o] = "lookup" => LookupSound(local[o])

SnapshotsSound ==
    \A s \in snapshots :
        /\ s.rows \subseteq DOMAIN rows
        /\ \A k \in s.rows : rows[k].run \notin s.gone
        /\ \A j, k \in s.rows : rows[j].instance = rows[k].instance => j = k

FeedbackInv ==
    /\ scenario \in Scenarios /\ DOMAIN at = Ops /\ DOMAIN local = Ops
    /\ ResultsSound /\ RowsSound /\ SnapshotsSound
    /\ \A o \in Ops : LocalSound(o)

--------------------------------------------------------------------------------
(* What a step leaves as it was. *)

\* A list is indexed from one to its length.
LEMMA ListDomain ==
    ASSUME NEW s, IsList(s)
    PROVE  Len(s) \in Nat /\ DOMAIN s = 1..Len(s)
BY DEF IsList

\* So are the rows.
LEMMA RowsListed ==
    ASSUME FeedbackInv
    PROVE  RowsSound /\ Len(rows) \in Nat /\ DOMAIN rows = 1..Len(rows)
<1>1. RowsSound /\ IsList(rows)
  BY Zenon DEF FeedbackInv, RowsSound
<1> QED
  BY <1>1, ListDomain, Zenon

\* A list with one more entry is a list, and its earlier entries stay where they were.
Lengthened(s, t, e) ==
    /\ IsList(t) /\ Len(t) = Len(s) + 1 /\ DOMAIN t = DOMAIN s \cup {Len(s) + 1}
    /\ \A k \in DOMAIN s : t[k] = s[k]
    /\ t[Len(s) + 1] = e
    /\ Len(s) + 1 \notin DOMAIN s

\* Appending to a list lengthens it.
LEMMA ListAppend ==
    ASSUME NEW s, IsList(s), NEW e
    PROVE  Lengthened(s, Append(s, e), e)
<1> DEFINE t == Append(s, e)
<1> DEFINE S == {s[i] : i \in DOMAIN s} \cup {e}
<1>1. s \in Seq(S) /\ e \in S
  BY DEF IsList
<1>2. t \in Seq(S)
  BY <1>1
<1>3. /\ Len(t) = Len(s) + 1 /\ DOMAIN t = DOMAIN s \cup {Len(s) + 1}
      /\ \A k \in DOMAIN s : t[k] = s[k]
      /\ t[Len(s) + 1] = e
      /\ Len(s) + 1 \notin DOMAIN s
  BY <1>1
<1>4. S = {t[i] : i \in DOMAIN t}
  BY <1>3
<1> QED
  BY <1>2, <1>3, <1>4 DEF IsList, Lengthened

\* Rows and results are only added, and what is retracted stays retracted.
Grown ==
    /\ scenario' = scenario
    /\ IsList(rows') /\ Len(rows) <= Len(rows') /\ DOMAIN rows \subseteq DOMAIN rows'
    /\ \A k \in DOMAIN rows : rows'[k] = rows[k]
    /\ IsList(results') /\ DOMAIN results \subseteq DOMAIN results'
    /\ \A k \in DOMAIN results : results'[k] = results[k]
    /\ \A r : Gone(r) => Gone(r)'

\* A result that backs an instance goes on backing it.
LEMMA BackedKept ==
    ASSUME FeedbackInv, Grown, NEW n, Backed(n)
    PROVE  Backed(n)'
<1>1. PICK i \in PriorResults(n) :
        /\ \A c \in Required : results[i].claims[c] = "PASS"
        /\ \A j \in results[i].read, c \in Required : results[j].claims[c] # "FAIL"
  BY Zenon DEF Backed
<1>2. i \in DOMAIN results /\ results[i].instance = n /\ results[i].read \subseteq DOMAIN results
  BY <1>1 DEF PriorResults, FeedbackInv, ResultsSound
<1>3. i \in DOMAIN results' /\ results'[i] = results[i]
      /\ \A j \in results[i].read : results'[j] = results[j]
  BY <1>2 DEF Grown
<1>4. i \in PriorResults(n)'
  BY <1>2, <1>3 DEF PriorResults
<1>5. \A j \in results'[i].read, c \in Required : results'[j].claims[c] # "FAIL"
  BY <1>1, <1>3
<1>6. \A c \in Required : results'[i].claims[c] = "PASS"
  BY <1>1, <1>3
<1> QED
  BY <1>4, <1>5, <1>6 DEF Backed

\* What a projection holds of its run goes on being so.
LEMMA ProjectionKept ==
    ASSUME FeedbackInv, Grown, NEW o, ProjectionSound(o, local'[o])
    PROVE  ProjectionSound(o, local[o])'
<1>1. Op(o)' = Op(o) /\ Receipts(o)' = Receipts(o)
  BY DEF Grown, Op, Receipts
<1> QED
  BY <1>1, BackedKept DEF ProjectionSound

\* What an operation holds stays sound while others move, unless a row was filed against
\* the projection it is opening siblings for.
LEMMA LocalKept ==
    ASSUME FeedbackInv, Grown, NEW p \in Ops, at'[p] = at[p], local'[p] = local[p],
           \A i \in DOMAIN rows' \ DOMAIN rows :
               at[p] = "open" => rows'[i].key.against # local[p].root
    PROVE  LocalSound(p)'
<1>1. LocalSound(p) /\ Op(p)' = Op(p) /\ Receipts(p)' = Receipts(p)
  BY DEF FeedbackInv, Grown, Op, Receipts
<1>2. /\ Len(rows) \in Nat /\ DOMAIN rows = 1..Len(rows)
      /\ Len(rows') \in Nat /\ DOMAIN rows' = 1..Len(rows')
  BY ListDomain DEF FeedbackInv, RowsSound, Grown
<1>3. ASSUME ProjectionSound(p, local[p]) PROVE ProjectionSound(p, local[p])'
  BY <1>1, <1>3, BackedKept DEF ProjectionSound
<1>4. ASSUME ListedSound(p, local[p]) PROVE ListedSound(p, local[p])'
  <2>1. local[p].seen \in Nat /\ local[p].seen <= Len(rows')
    BY <1>2, <1>4 DEF ListedSound, Grown
  <2>2. ASSUME NEW a \in DOMAIN rows', a <= local[p].seen
        PROVE  a \in DOMAIN rows /\ rows'[a] = rows[a]
    BY <1>2, <1>4, <2>2 DEF ListedSound, Grown
  <2> QED
    BY <1>1, <1>4, <2>1, <2>2 DEF ListedSound
<1>5. ASSUME at[p] = "open", OpeningSound(p, local[p]) PROVE OpeningSound(p, local[p])'
  <2>1. local[p].root \in DOMAIN rows' /\ rows'[local[p].root].by = p
    BY <1>5 DEF OpeningSound, Grown
  <2>2. ASSUME NEW i \in DOMAIN rows', rows'[i].key.against = local[p].root
        PROVE  rows'[i].key.parent \notin local[p].open
    <3>1. i \in DOMAIN rows /\ rows'[i] = rows[i]
      BY <1>5, <2>2 DEF Grown
    <3> QED
      BY <1>5, <2>2, <3>1 DEF OpeningSound
  <2> QED
    BY <2>1, <2>2 DEF OpeningSound
<1>6. ASSUME LookupSound(local[p]) PROVE LookupSound(local[p])'
  <2>1. \A k \in local[p].considered : k \in DOMAIN rows' /\ rows'[k].run \notin local[p].gone
    BY <1>6 DEF LookupSound, Grown
  <2>2. \A r \in local[p].gone : Gone(r)'
    BY <1>6 DEF LookupSound, Grown
  <2>3. local[p].listed <= Len(rows')
    BY <1>2, <1>6 DEF LookupSound, Grown
  <2> QED
    BY <1>6, <2>1, <2>2, <2>3 DEF LookupSound
<1>7. /\ at[p] = "result" => local[p] \subseteq DOMAIN results'
      /\ at[p] = "resolve" => local[p] \subseteq DOMAIN rows'
  BY <1>1 DEF LocalSound, Grown
<1> QED
  BY <1>1, <1>3, <1>4, <1>5, <1>6, <1>7 DEF LocalSound

\* No projection stops opening siblings, but by a crash.
StillOpening ==
    \A p \in Ops : at[p] \in {"open", "lost"} =>
        at'[p] \in {"open", "lost"} /\ local'[p] = local[p]

\* The rows stay sound when none is filed and no projection stops opening its siblings.
LEMMA RowsKept ==
    ASSUME FeedbackInv, Grown, rows' = rows, StillOpening
    PROVE  RowsSound'
<1>1. RowsSound /\ Ops' = Ops
  BY DEF FeedbackInv, Grown, Ops
<1>2. ASSUME NEW k \in DOMAIN rows PROVE RowSound(k)'
  BY <1>1, BackedKept DEF RowSound, RowsSound, RootKey
<1>3. ASSUME NEW a \in DOMAIN rows, NEW b \in DOMAIN rows, Clash(a, b)
      PROVE  rows[b].status = "OPEN" /\ Answered(a, b)'
  <2>1. rows[b].status = "OPEN" /\ Answered(a, b) /\ rows[b].by \in Ops
    BY <1>1, <1>3 DEF RowsSound, RowSound
  <2> QED
    BY <2>1 DEF Answered, StillOpening
<1>4. \A a, b \in DOMAIN rows : Clash(a, b)' => Clash(a, b)
  BY DEF Clash
<1>5. \A a, b \in DOMAIN rows : Clash(a, b)' => rows[b].status = "OPEN" /\ Answered(a, b)'
  BY <1>3, <1>4
<1> QED
  BY <1>1, <1>2, <1>5 DEF RowsSound

\* Snapshots name rows, and rows stay what they are.
LEMMA SnapshotsKept ==
    ASSUME FeedbackInv, Grown, snapshots' = snapshots
    PROVE  SnapshotsSound'
<1>1. ASSUME NEW s \in snapshots
      PROVE  /\ s.rows \subseteq DOMAIN rows'
             /\ \A k \in s.rows : rows'[k] = rows[k]
  BY <1>1 DEF FeedbackInv, SnapshotsSound, Grown
<1>2. ASSUME NEW s \in snapshots
      PROVE  /\ s.rows \subseteq DOMAIN rows'
             /\ \A k \in s.rows : rows'[k].run \notin s.gone
             /\ \A j, k \in s.rows : rows'[j].instance = rows'[k].instance => j = k
  BY <1>1 DEF FeedbackInv, SnapshotsSound
<1> QED
  BY <1>2 DEF SnapshotsSound

\* Results stay sound when none is added.
LEMMA ResultsKept ==
    ASSUME FeedbackInv, UNCHANGED results
    PROVE  ResultsSound'
BY DEF FeedbackInv, ResultsSound

\* A step that leaves rows, results and retractions alone only adds nothing.
LEMMA QuietGrown ==
    ASSUME FeedbackInv, UNCHANGED <<scenario, results, experience, rows>>
    PROVE  Grown
BY DEF FeedbackInv, RowsSound, ResultsSound, Grown, Gone

\* One operation moves on, of those that are not opening siblings; it files no row.
LEMMA MoveKeeps ==
    ASSUME FeedbackInv, Grown, rows' = rows, ResultsSound', SnapshotsSound',
           NEW o \in Ops, NEW place, NEW holding, Move(o, place, holding),
           at[o] \notin {"open", "lost"}, LocalSound(o)'
    PROVE  FeedbackInv'
<1>1. DOMAIN at = Ops /\ DOMAIN local = Ops /\ Ops' = Ops /\ scenario' \in Scenarios
  BY DEF FeedbackInv, Grown, Ops
<1>2. /\ DOMAIN at' = Ops' /\ DOMAIN local' = Ops'
      /\ \A p \in Ops : p # o => at'[p] = at[p] /\ local'[p] = local[p]
  BY <1>1 DEF Move
<1>3. StillOpening
  BY <1>2 DEF StillOpening
<1>4. RowsSound'
  BY <1>3, RowsKept
<1>5. ASSUME NEW p \in Ops PROVE LocalSound(p)'
  <2>1. CASE p = o
    BY <2>1
  <2>2. CASE p # o
    BY <1>2, <2>2, LocalKept
  <2> QED
    BY <2>1, <2>2, Zenon
<1> QED
  BY <1>1, <1>2, <1>4, <1>5 DEF FeedbackInv

\* The usual case: only the operation itself has changed.
LEMMA QuietMove ==
    ASSUME FeedbackInv, UNCHANGED <<scenario, results, experience, rows, snapshots>>,
           NEW o \in Ops, NEW place, NEW holding, Move(o, place, holding),
           at[o] \notin {"open", "lost"}, LocalSound(o)'
    PROVE  FeedbackInv'
<1>1. Grown
  BY QuietGrown
<1> QED
  BY <1>1, MoveKeeps, ResultsKept, SnapshotsKept

\* What a Move leaves an operation with.
LEMMA Moved ==
    ASSUME FeedbackInv, NEW o \in Ops, NEW place, NEW holding, Move(o, place, holding)
    PROVE  at'[o] = place /\ local'[o] = holding
BY DEF FeedbackInv, Move

\* An operation that has ended holds nothing that matters.
LEMMA EndedSound ==
    ASSUME NEW o, at'[o] \in {"idle", "done", "refused", "lost"}
    PROVE  LocalSound(o)'
BY DEF LocalSound

--------------------------------------------------------------------------------
(* The steps that file a row. *)

\* Filing a row adds to the ledger.
LEMMA FiledGrown ==
    ASSUME FeedbackInv, UNCHANGED <<scenario, results, experience>>, NEW row,
           rows' = Append(rows, row)
    PROVE  Grown /\ Lengthened(rows, rows', row)
<1>1. IsList(rows) /\ Len(rows) \in Nat
  BY RowsListed, Zenon DEF RowsSound
<1>2. Lengthened(rows, rows', row)
  BY <1>1, ListAppend, Zenon
<1> QED
  BY <1>1, <1>2 DEF Grown, Gone, Lengthened, FeedbackInv, ResultsSound

\* A row is filed well when it is sound itself, agrees with its instance's rows, answers the
\* clashes it brings, leaves answered what its own projection had answered, and is not filed
\* against another projection.
FiledWell(o, row, n) ==
    /\ RowSound(n)'
    /\ \A j \in DOMAIN rows : rows[j].instance = row.instance => rows[j].config = row.config
    /\ \A a \in DOMAIN rows : Clash(a, n)' => row.status = "OPEN" /\ Answered(a, n)'
    /\ \A a, b \in DOMAIN rows :
         Clash(a, b) /\ rows[b].by = o /\ at[o] \in {"open", "lost"} => Answered(a, b)'
    /\ \A p \in Ops : p # o /\ at[p] = "open" => row.key.against # local[p].root

\* Where a filed row stands.
StandsAt(row, n) ==
    /\ DOMAIN rows' = DOMAIN rows \cup {n} /\ n \notin DOMAIN rows /\ rows'[n] = row
    /\ \A k \in DOMAIN rows : rows'[k] = rows[k]

\* What was answered stays answered when a row is filed by another operation, or by one that
\* is opening no sibling.
LEMMA AnsweredKept ==
    ASSUME NEW row, NEW n, StandsAt(row, n), NEW a \in DOMAIN rows, NEW b \in DOMAIN rows,
           Answered(a, b),
           \/ at[rows[b].by] \notin {"open", "lost"}
           \/ at'[rows[b].by] = at[rows[b].by] /\ local'[rows[b].by] = local[rows[b].by]
    PROVE  Answered(a, b)'
<1>1. rows'[a] = rows[a] /\ rows'[b] = rows[b]
  BY DEF StandsAt
<1>2. ASSUME NEW i \in DOMAIN rows, rows[i].parent = a
      PROVE  \E j \in DOMAIN rows' : rows'[j].parent = a
  BY <1>2 DEF StandsAt
<1> QED
  BY <1>1, <1>2 DEF Answered

\* A clash between two rows that were there is the clash it was, and a new row clashes with
\* earlier ones only.
LEMMA ClashKept ==
    ASSUME FeedbackInv, NEW row, NEW n, StandsAt(row, n), n = Len(rows) + 1, RowSound(n)',
           NEW a \in DOMAIN rows', NEW b \in DOMAIN rows', Clash(a, b)'
    PROVE  a \in DOMAIN rows /\ (b = n \/ (b \in DOMAIN rows /\ Clash(a, b)))
<1>1. Len(rows) \in Nat /\ DOMAIN rows = 1..Len(rows)
  BY RowsListed, Zenon DEF RowsSound
<1>2. rows'[b].seen \in Nat /\ rows'[b].seen < b
  <2>1. CASE b = n
    BY <2>1, Zenon DEF RowSound
  <2>2. CASE b # n
    <3>1. b \in DOMAIN rows /\ rows'[b] = rows[b]
      BY <2>2 DEF StandsAt
    <3> QED
      BY <3>1 DEF FeedbackInv, RowsSound, RowSound
  <2> QED
    BY <2>1, <2>2
<1>3. a <= rows'[b].seen
  BY Zenon DEF Clash
<1>4. a \in DOMAIN rows /\ a # n
  BY <1>1, <1>2, <1>3 DEF StandsAt
<1>5. b = n \/ (b \in DOMAIN rows /\ rows'[b] = rows[b] /\ rows'[a] = rows[a])
  BY <1>4 DEF StandsAt
<1> QED
  BY <1>4, <1>5 DEF Clash

\* The rows are sound with a row that is filed well.
LEMMA FiledRows ==
    ASSUME FeedbackInv, Grown, NEW row, NEW n, StandsAt(row, n), n = Len(rows) + 1,
           ~Stored(row.key), NEW o \in Ops, FiledWell(o, row, n),
           \A p \in Ops : p # o => at'[p] = at[p] /\ local'[p] = local[p]
    PROVE  RowsSound'
<1>1. RowsSound /\ Ops' = Ops
  BY DEF FeedbackInv, Grown, Ops
<1>2. ASSUME NEW k \in DOMAIN rows' PROVE RowSound(k)'
  <2>1. CASE k = n
    BY <2>1 DEF FiledWell
  <2>2. CASE k # n
    <3>1. k \in DOMAIN rows /\ rows'[k] = rows[k] /\ RowSound(k)
      BY <1>1, <2>2 DEF StandsAt, RowsSound
    <3>2. rows[k].verdict = "PASS" => Backed(rows[k].instance)'
      BY <3>1, BackedKept DEF RowSound
    <3>3. \E j \in DOMAIN rows' : rows'[j].key = RootKey(rows[k].instance)
      BY <3>1 DEF RowSound, StandsAt
    <3> QED
      BY <1>1, <3>1, <3>2, <3>3 DEF RowSound, RootKey
  <2> QED
    BY <2>1, <2>2
<1>3. \A j, k \in DOMAIN rows' : rows'[j].key = rows'[k].key => j = k
  BY <1>1 DEF RowsSound, Stored, StandsAt
<1>4. \A j, k \in DOMAIN rows' :
        rows'[j].instance = rows'[k].instance => rows'[j].config = rows'[k].config
  BY <1>1 DEF RowsSound, StandsAt, FiledWell
<1>5. ASSUME NEW a \in DOMAIN rows', NEW b \in DOMAIN rows', Clash(a, b)'
      PROVE  rows'[b].status = "OPEN" /\ Answered(a, b)'
  <2>1. RowSound(n)'
    BY DEF FiledWell
  <2>2. a \in DOMAIN rows /\ (b = n \/ (b \in DOMAIN rows /\ Clash(a, b)))
    BY <1>5, <2>1, ClashKept
  <2>3. CASE b = n
    BY <1>5, <2>2, <2>3 DEF FiledWell, StandsAt
  <2>4. CASE b \in DOMAIN rows /\ Clash(a, b)
    <3>1. rows[b].status = "OPEN" /\ Answered(a, b) /\ rows[b].by \in Ops
      BY <1>1, <2>2, <2>4 DEF RowsSound, RowSound
    <3>2. rows'[b] = rows[b]
      BY <2>4 DEF StandsAt
    <3>3. CASE rows[b].by = o /\ at[o] \in {"open", "lost"}
      BY <2>2, <2>4, <3>1, <3>2, <3>3, Zenon DEF FiledWell
    <3>4. CASE ~(rows[b].by = o /\ at[o] \in {"open", "lost"})
      BY <2>2, <2>4, <3>1, <3>2, <3>4, AnsweredKept, Zenon
    <3> QED
      BY <3>3, <3>4, Zenon
  <2> QED
    BY <2>2, <2>3, <2>4
<1> QED
  BY <1>2, <1>3, <1>4, <1>5 DEF RowsSound, Grown

\* Filing a row well keeps the invariant.
LEMMA FiledKeeps ==
    ASSUME FeedbackInv, UNCHANGED <<scenario, results, experience, snapshots>>,
           NEW row, Filed(row), NEW n, n = Len(rows) + 1,
           NEW o \in Ops, NEW place, NEW holding, Move(o, place, holding), LocalSound(o)',
           FiledWell(o, row, n)
    PROVE  FeedbackInv'
<1>1. Grown /\ Lengthened(rows, rows', row)
  BY FiledGrown DEF Filed
<1>2. StandsAt(row, n)
  BY <1>1 DEF Lengthened, StandsAt
<1>3. DOMAIN at = Ops /\ DOMAIN local = Ops /\ Ops' = Ops /\ scenario' \in Scenarios
  BY DEF FeedbackInv, Ops
<1>4. /\ DOMAIN at' = Ops' /\ DOMAIN local' = Ops'
      /\ \A p \in Ops : p # o => at'[p] = at[p] /\ local'[p] = local[p]
  BY <1>3 DEF Move
<1>5. RowsSound'
  BY <1>1, <1>2, <1>4, FiledRows DEF Filed
<1>6. ASSUME NEW p \in Ops PROVE LocalSound(p)'
  <2>1. CASE p = o
    BY <2>1
  <2>2. CASE p # o
    <3>1. \A i \in DOMAIN rows' \ DOMAIN rows :
            at[p] = "open" => rows'[i].key.against # local[p].root
      BY <1>2, <2>2 DEF StandsAt, FiledWell
    <3> QED
      BY <1>1, <1>4, <2>2, <3>1, LocalKept
  <2> QED
    BY <2>1, <2>2, Zenon
<1> QED
  BY <1>1, <1>3, <1>4, <1>5, <1>6, ResultsKept, SnapshotsKept DEF FeedbackInv

\* _revise: everything but the status is the parent's.
Revises(row, k, against, status, o) ==
    /\ row.key.against = against /\ row.key.parent = k /\ row.parent = k
    /\ row.instance = rows[k].instance /\ row.config = rows[k].config
    /\ row.verdict = rows[k].verdict /\ row.status = status
    /\ row.seen = Len(rows) /\ row.by = o
    /\ row.eligible => row.verdict = "PASS"

\* So says Revision.
LEMMA RevisionRevises ==
    ASSUME NEW k, NEW why, NEW what, NEW against, NEW status, NEW o, NEW row,
           row = Revision(k, why, what, against, status, o)
    PROVE  Revises(row, k, against, status, o)
<1>1. /\ row.key.against = against /\ row.key.parent = k /\ row.parent = k
      /\ row.instance = rows[k].instance /\ row.config = rows[k].config
      /\ row.verdict = rows[k].verdict /\ row.status = status
      /\ row.seen = Len(rows) /\ row.by = o
      /\ row.eligible = Eligible(row.verdict, status)
  BY DEF Revision, Row
<1>2. row.eligible => row.verdict = "PASS"
  BY <1>1, Zenon DEF Eligible
<1> QED
  BY <1>1, <1>2, Zenon DEF Revises

\* A revision is sound, agrees with the rows of its instance, and clashes with none.
LEMMA RevisionSound ==
    ASSUME FeedbackInv, Grown, NEW k \in DOMAIN rows, NEW against \in 0..Len(rows),
           NEW status \in {"OPEN", "RESOLVED"}, NEW o \in Ops, NEW row,
           Revises(row, k, against, status, o), NEW n, n = Len(rows) + 1, StandsAt(row, n)
    PROVE  /\ RowSound(n)'
           /\ \A j \in DOMAIN rows : rows[j].instance = row.instance => rows[j].config = row.config
           /\ \A a \in DOMAIN rows : ~Clash(a, n)'
<1>1. RowsSound /\ RowSound(k) /\ Len(rows) \in Nat /\ DOMAIN rows = 1..Len(rows)
  BY RowsListed, Zenon DEF RowsSound
<1>2. row.instance = rows[k].instance /\ row.verdict = rows[k].verdict /\ rows'[n] = row
  BY Zenon DEF Revises, StandsAt
<1>3. row.verdict = "PASS" => Backed(row.instance)'
  BY <1>1, <1>2, BackedKept DEF RowSound
<1>4. \E j \in DOMAIN rows' : rows'[j].key = RootKey(row.instance)
  BY <1>1, <1>2, Zenon DEF RowSound, StandsAt
<1>5. Ops' = Ops /\ k # 0 /\ row.parent = k
  BY <1>1 DEF Grown, Ops, Revises
<1>6. RowSound(n)'
  BY <1>1, <1>2, <1>3, <1>4, <1>5 DEF RowSound, RootKey, Revises
<1>7. \A a \in DOMAIN rows : ~Clash(a, n)'
  BY <1>2, <1>5, Zenon DEF Clash
<1>8. \A j \in DOMAIN rows : rows[j].instance = row.instance => rows[j].config = row.config
  <2>1. row.instance = rows[k].instance /\ row.config = rows[k].config
    BY Zenon DEF Revises
  <2> QED
    BY <1>1, <2>1 DEF RowsSound
<1> QED
  BY <1>6, <1>7, <1>8, Zenon

\* resolve_contradiction files the adjudication, or is refused.
LEMMA PutResolutionKeeps ==
    ASSUME FeedbackInv, NEW o \in Ops, PutResolution(o)
    PROVE  FeedbackInv'
<1>1. PICK k \in local[o] :
        PutRow(o, Revision(k, "resolved", Op(o).text, 0, "RESOLVED", o), "done", Nothing)
  BY Zenon DEF PutResolution
<1>2. PICK row : /\ row = Revision(k, "resolved", Op(o).text, 0, "RESOLVED", o)
                 /\ PutRow(o, row, "done", Nothing)
  BY <1>1, Zenon
<1>3. at[o] = "resolve" /\ UNCHANGED <<scenario, results, experience, snapshots>>
  BY Zenon DEF PutResolution
<1>4. CASE Stored(row.key)
  <2>1. Move(o, "refused", local[o]) /\ rows' = rows
    BY <1>2, <1>4, Zenon DEF PutRow
  <2>2. LocalSound(o)'
    BY <2>1, Moved, EndedSound
  <2> QED
    BY <1>3, <2>1, <2>2, QuietMove
<1>5. CASE ~Stored(row.key)
  <2>1. Move(o, "done", Nothing) /\ rows' = Append(rows, row) /\ Filed(row)
    BY <1>2, <1>5, Zenon DEF PutRow, Filed
  <2>2. LocalSound(o)'
    BY <2>1, Moved, EndedSound
  <2>3. PICK n : n = Len(rows) + 1
    OBVIOUS
  <2>4. Len(rows) \in Nat /\ DOMAIN rows = 1..Len(rows)
    BY RowsListed, Zenon DEF RowsSound
  <2>5. Grown /\ StandsAt(row, n)
    BY <1>3, <2>1, <2>3, FiledGrown DEF Lengthened, StandsAt
  <2>6. k \in DOMAIN rows
    BY <1>3, Zenon DEF FeedbackInv, LocalSound
  <2>7. Revises(row, k, 0, "RESOLVED", o)
    BY <1>2, RevisionRevises
  <2>8. /\ RowSound(n)'
        /\ \A j \in DOMAIN rows : rows[j].instance = row.instance => rows[j].config = row.config
        /\ \A a \in DOMAIN rows : ~Clash(a, n)'
    BY <2>3, <2>4, <2>5, <2>6, <2>7, RevisionSound
  <2>9. \A p \in Ops : at[p] = "open" => row.key.against # local[p].root
    BY <2>4, <2>7 DEF FeedbackInv, LocalSound, OpeningSound, Revises
  <2>10. FiledWell(o, row, n)
    BY <1>3, <2>8, <2>9 DEF FiledWell
  <2> QED
    BY <1>3, <2>1, <2>2, <2>3, <2>10, FiledKeeps
<1> QED
  BY <1>4, <1>5

\* Once its siblings are open a projection goes on to the next receipt, if there is one.
LEMMA OnwardSound ==
    ASSUME FeedbackInv, NEW o \in Ops, ProjectionSound(o, local[o]), NEW h,
           DOMAIN h = DOMAIN local[o], h.next = local[o].next, h.verdicts = local[o].verdicts
    PROVE  /\ ProjectionSound(o, h)
           /\ AfterReceipt(o) \in {"done", "materialize"}
           /\ AfterReceipt(o) = "materialize" => ProjectionSound(o, Advanced(o, h))
<1>1. ProjectionSound(o, h)
  BY DEF ProjectionSound
<1>2. ASSUME local[o].next # Len(Receipts(o))
      PROVE  ProjectionSound(o, Advanced(o, h))
  <2>1. PICK g : g = Advanced(o, h) /\ g = [h EXCEPT !.next = local[o].next + 1]
    BY <1>2, Zenon DEF Advanced
  <2>2. IsList(Receipts(o))
    BY ScenariosAssumption DEF FeedbackInv, ProjectionSound, Ops, Op, Receipts
  <2>3. local[o].next + 1 \in DOMAIN Receipts(o)
    BY <1>2, <2>2, ListDomain DEF ProjectionSound
  <2>4. DOMAIN g = DOMAIN h /\ g.next = local[o].next + 1 /\ g.verdicts = h.verdicts
    BY <1>1, <2>1 DEF ProjectionSound
  <2>5. ProjectionSound(o, g)
    BY <1>1, <2>3, <2>4 DEF ProjectionSound
  <2> QED
    BY <2>1, <2>5
<1> QED
  BY <1>1, <1>2 DEF AfterReceipt

\* Where a projection that has filed a row goes: it opens what is left, or goes on.
Onward(o, left, h) == Move(o, IF left = {} THEN AfterReceipt(o) ELSE "open",
                           IF left = {} THEN Advanced(o, h) ELSE h)

\* What it holds then differs from what it held in the siblings left and the row they answer.
Holding(o, h, left) ==
    /\ DOMAIN h = DOMAIN local[o] /\ h.next = local[o].next /\ h.verdicts = local[o].verdicts
    /\ h.open = left

\* It opens what is left.
LEMMA OpensLeft ==
    ASSUME FeedbackInv, NEW o \in Ops, NEW left, NEW h, Onward(o, left, h), left # {}
    PROVE  at'[o] = "open" /\ local'[o] = h
<1>1. Move(o, "open", h)
  BY DEF Onward
<1> QED
  BY <1>1, Moved

\* So what it holds is sound again.
LEMMA OnwardKeeps ==
    ASSUME FeedbackInv, Grown, NEW o \in Ops, NEW left, NEW h, ProjectionSound(o, local[o]),
           Holding(o, h, left), Onward(o, left, h), left # {} => OpeningSound(o, h)'
    PROVE  LocalSound(o)'
<1>1. /\ ProjectionSound(o, h)
      /\ AfterReceipt(o) \in {"done", "materialize"}
      /\ AfterReceipt(o) = "materialize" => ProjectionSound(o, Advanced(o, h))
  BY OnwardSound DEF Holding
<1>2. CASE left = {}
  <2>1. Move(o, AfterReceipt(o), Advanced(o, h))
    BY <1>2 DEF Onward
  <2>2. at'[o] = AfterReceipt(o) /\ local'[o] = Advanced(o, h)
    BY <2>1, Moved
  <2>3. CASE at'[o] = "done"
    BY <2>3, EndedSound
  <2>4. CASE at'[o] = "materialize"
    <3>1. ProjectionSound(o, local'[o])
      BY <1>1, <2>2, <2>4, Zenon
    <3>2. ProjectionSound(o, local[o])'
      BY <3>1, ProjectionKept, Zenon
    <3> QED
      BY <2>4, <3>2 DEF LocalSound
  <2> QED
    BY <1>1, <2>2, <2>3, <2>4
<1>3. CASE left # {}
  <2>1. at'[o] = "open" /\ local'[o] = h
    BY <1>3, OpensLeft
  <2>2. ProjectionSound(o, local'[o])
    BY <1>1, <2>1
  <2>3. ProjectionSound(o, local[o])'
    BY <2>2, ProjectionKept
  <2>4. OpeningSound(o, local[o])'
    BY <1>3, <2>1, Zenon DEF OpeningSound
  <2> QED
    BY <2>1, <2>3, <2>4 DEF LocalSound
<1> QED
  BY <1>2, <1>3

\* The rows the operation had still to answer are answered, or still held.
LEMMA OpeningAnswers ==
    ASSUME FeedbackInv, NEW o \in Ops, NEW k, NEW row, NEW n, StandsAt(row, n), row.parent = k,
           NEW left, NEW h, left = local[o].open \ {k}, h.root = local[o].root, h.open = left,
           left # {} => at'[o] = "open" /\ local'[o] = h,
           NEW a \in DOMAIN rows, NEW b \in DOMAIN rows, Clash(a, b), rows[b].by = o
    PROVE  Answered(a, b)'
<1>1. Answered(a, b)
  BY Zenon DEF FeedbackInv, RowsSound
<1>2. rows'[a] = rows[a] /\ rows'[b] = rows[b] /\ n \in DOMAIN rows' /\ rows'[n].parent = k
  BY DEF StandsAt
<1>3. CASE a = k
  BY <1>2, <1>3, Zenon DEF Answered
<1>4. CASE rows[a].status # "NONE"
  BY <1>2, <1>4, Zenon DEF Answered
<1>5. CASE \E i \in DOMAIN rows : rows[i].parent = a
  <2>1. \E i \in DOMAIN rows' : rows'[i].parent = a
    BY <1>5 DEF StandsAt
  <2> QED
    BY <2>1, Zenon DEF Answered
<1>6. CASE local[o].root = b /\ a \in local[o].open /\ a # k
  <2>1. a \in left
    BY <1>6
  <2> QED
    BY <1>2, <1>6, <2>1 DEF Answered
<1> QED
  BY <1>1, <1>3, <1>4, <1>5, <1>6, Zenon DEF Answered

\* What _open_contradiction files, and what it holds then.
Opens(o, k, row, left, h) ==
    /\ row = Revision(k, "contradicted-by", "", local[o].root, "OPEN", o)
    /\ left = local[o].open \ {k} /\ h = [local[o] EXCEPT !.open = left]

\* The revision answers the row it opens, and the siblings still to open stay unanswered.
LEMMA OpensSound ==
    ASSUME NEW o \in Ops, NEW k, NEW row, NEW left, NEW h, Opens(o, k, row, left, h),
           k \in local[o].open, ProjectionSound(o, local[o]), OpeningSound(o, local[o])
    PROVE  /\ Revises(row, k, local[o].root, "OPEN", o) /\ ~Stored(row.key)
           /\ Holding(o, h, left) /\ h.root = local[o].root
           /\ \A n : StandsAt(row, n) => OpeningSound(o, h)'
<1>1. PICK root : root = local[o].root
  OBVIOUS
<1>2. PICK text : text = ""
  OBVIOUS
<1>3. row = Revision(k, "contradicted-by", text, root, "OPEN", o)
  BY <1>1, <1>2, Zenon DEF Opens
<1>4. Revises(row, k, root, "OPEN", o)
  BY <1>3, RevisionRevises
<1>5. row.key.against = root /\ row.key.parent = k
  BY <1>4, Zenon DEF Revises
<1>6. ~Stored(row.key)
  BY <1>1, <1>5 DEF Stored, OpeningSound
<1>7. left = local[o].open \ {k} /\ h = [local[o] EXCEPT !.open = left]
  BY Zenon DEF Opens
<1>8. Holding(o, h, left) /\ h.root = root
  BY <1>1, <1>7 DEF Holding, ProjectionSound
<1>9. ASSUME NEW n, StandsAt(row, n) PROVE OpeningSound(o, h)'
  <2>1. \A i \in DOMAIN rows' : rows'[i].key.against = h.root => rows'[i].key.parent \notin left
    BY <1>1, <1>5, <1>7, <1>8, <1>9, Zenon DEF OpeningSound, StandsAt
  <2>2. h.root \in DOMAIN rows' /\ rows'[h.root].by = o
    BY <1>1, <1>8, <1>9, Zenon DEF OpeningSound, StandsAt
  <2> QED
    BY <1>8, <2>1, <2>2, Zenon DEF OpeningSound, Holding
<1> QED
  BY <1>1, <1>4, <1>6, <1>8, <1>9, Zenon

\* _open_contradiction: no other call can have filed this revision, so it is never refused.
LEMMA OpenSiblingKeeps ==
    ASSUME FeedbackInv, NEW o \in Ops, NEW k \in DOMAIN rows, OpenSibling(o, k)
    PROVE  FeedbackInv'
<1>1. PICK row, left, h :
        /\ Opens(o, k, row, left, h)
        /\ PutRow(o, row, IF left = {} THEN AfterReceipt(o) ELSE "open",
                  IF left = {} THEN Advanced(o, h) ELSE h)
  BY Zenon DEF OpenSibling, Opens
<1>2. /\ at[o] = "open" /\ k \in local[o].open
      /\ UNCHANGED <<scenario, results, experience, snapshots>>
  BY Zenon DEF OpenSibling
<1>3. ProjectionSound(o, local[o]) /\ OpeningSound(o, local[o])
  BY <1>2, Zenon DEF FeedbackInv, LocalSound
<1>4. /\ Revises(row, k, local[o].root, "OPEN", o) /\ ~Stored(row.key)
      /\ Holding(o, h, left) /\ h.root = local[o].root
      /\ \A n : StandsAt(row, n) => OpeningSound(o, h)'
  BY <1>1, <1>2, <1>3, OpensSound
<1>5. Onward(o, left, h) /\ rows' = Append(rows, row) /\ Filed(row)
  BY <1>1, <1>4, Zenon DEF PutRow, Onward, Filed
<1>6. PICK n : n = Len(rows) + 1
  OBVIOUS
<1>7. Grown /\ StandsAt(row, n)
  BY <1>2, <1>5, <1>6, FiledGrown DEF Lengthened, StandsAt
<1>8. LocalSound(o)'
  BY <1>3, <1>4, <1>5, <1>7, OnwardKeeps, Zenon
<1>9. local[o].root \in 0..Len(rows)
  <2>1. local[o].root \in DOMAIN rows
    BY <1>3, Zenon DEF OpeningSound
  <2> QED
    BY <2>1, RowsListed
<1>10. /\ RowSound(n)'
       /\ \A j \in DOMAIN rows : rows[j].instance = row.instance => rows[j].config = row.config
       /\ \A a \in DOMAIN rows : ~Clash(a, n)'
  <2>1. PICK against \in 0..Len(rows) : against = local[o].root
    BY <1>9, Zenon
  <2> QED
    BY <1>4, <1>6, <1>7, <2>1, RevisionSound
<1>11. ASSUME NEW a \in DOMAIN rows, NEW b \in DOMAIN rows, Clash(a, b), rows[b].by = o
       PROVE  Answered(a, b)'
  <2>1. row.parent = k
    BY <1>4, Zenon DEF Revises
  <2>2. left = local[o].open \ {k} /\ h.open = left
    BY <1>1, <1>4, Zenon DEF Opens, Holding
  <2>3. left # {} => at'[o] = "open" /\ local'[o] = h
    BY <1>5, OpensLeft, Zenon
  <2> QED
    BY <1>4, <1>7, <1>11, <2>1, <2>2, <2>3, OpeningAnswers
<1>12. \A p \in Ops : p # o /\ at[p] = "open" => row.key.against # local[p].root
  BY <1>3, <1>4 DEF FeedbackInv, LocalSound, OpeningSound, Revises
<1>13. FiledWell(o, row, n)
  BY <1>10, <1>11, <1>12, Zenon DEF FiledWell
<1> QED
  BY <1>2, <1>5, <1>6, <1>8, <1>13, FiledKeeps DEF Onward

\* What project files: the first record of the receipt in hand.
Roots(o, row, verdict, receipt) ==
    /\ row.key = RootKey(receipt.instance) /\ row.key.against = 0 /\ row.parent = 0
    /\ row.instance = receipt.instance /\ row.config = receipt.config /\ row.verdict = verdict
    /\ row.status = (IF local[o].open = {} THEN "NONE" ELSE "OPEN")
    /\ row.seen = local[o].seen /\ row.by = o
    /\ row.eligible => row.verdict = "PASS"

\* The receipt in hand and the verdict the projection drew of it.
InHand(o, verdict, receipt) ==
    verdict = local[o].verdicts[local[o].next] /\ receipt = Receipts(o)[local[o].next]

\* So says the record project builds.
LEMMA RecordRoots ==
    ASSUME NEW o, NEW verdict, NEW receipt, NEW run, NEW status, NEW row,
           status = IF local[o].open = {} THEN "NONE" ELSE "OPEN",
           row = Row(RootKey(receipt.instance), 0, receipt.instance, run, receipt.config,
                     verdict, status, local[o].seen, o)
    PROVE  Roots(o, row, verdict, receipt)
<1>1. /\ row.key = RootKey(receipt.instance) /\ row.key.against = 0 /\ row.parent = 0
      /\ row.instance = receipt.instance /\ row.config = receipt.config /\ row.verdict = verdict
      /\ row.status = status /\ row.seen = local[o].seen /\ row.by = o
      /\ row.eligible = Eligible(verdict, status)
  BY DEF Row, RootKey
<1>2. row.eligible => row.verdict = "PASS"
  BY <1>1, Zenon DEF Eligible
<1> QED
  BY <1>1, <1>2, Zenon DEF Roots

\* The record is sound, and the first of its instance.
LEMMA RootSound ==
    ASSUME FeedbackInv, Grown, NEW o \in Ops, NEW verdict, NEW receipt, InHand(o, verdict, receipt),
           NEW row, Roots(o, row, verdict, receipt), ~Stored(row.key),
           ProjectionSound(o, local[o]), ListedSound(o, local[o]),
           NEW n, n = Len(rows) + 1, StandsAt(row, n)
    PROVE  RowSound(n)' /\ \A j \in DOMAIN rows : rows[j].instance # row.instance
<1>1. RowsSound /\ Len(rows) \in Nat /\ DOMAIN rows = 1..Len(rows) /\ Ops' = Ops
  <2>1. RowsSound /\ Len(rows) \in Nat /\ DOMAIN rows = 1..Len(rows)
    BY RowsListed, Zenon
  <2> QED
    BY <2>1, Zenon DEF Grown, Ops
<1>2. row.verdict = "PASS" => Backed(row.instance)
  <2>1. verdict = "PASS" => Backed(receipt.instance)
    BY Zenon DEF ProjectionSound, InHand
  <2> QED
    BY <2>1, Zenon DEF Roots
<1>3. row.verdict = "PASS" => Backed(row.instance)'
  BY <1>2, BackedKept, Zenon
<1>4. row.seen \in Nat /\ row.seen < n
  <2>1. row.seen = local[o].seen
    BY Zenon DEF Roots
  <2>2. local[o].seen \in Nat /\ local[o].seen <= Len(rows)
    BY Zenon DEF ListedSound
  <2> QED
    BY <1>1, <2>1, <2>2
<1>5. rows'[n] = row /\ n \in DOMAIN rows'
  BY Zenon DEF StandsAt
<1>6. RowSound(n)'
  <2>1. /\ row.eligible => row.verdict = "PASS"
        /\ row.by = o /\ row.parent = 0 /\ row.key.against = 0
        /\ row.key = RootKey(row.instance)
    BY Zenon DEF Roots
  <2>2. row.key.against \in Nat /\ row.key.against < n
    BY <1>1, <2>1
  <2>3. RootKey(row.instance)' = RootKey(row.instance)
    BY Zenon DEF RootKey
  <2> QED
    BY <1>1, <1>3, <1>4, <1>5, <2>1, <2>2, <2>3, Zenon DEF RowSound
<1>7. ASSUME NEW j \in DOMAIN rows PROVE rows[j].instance # row.instance
  BY <1>1 DEF RowsSound, RowSound, Stored, Roots
<1> QED
  BY <1>6, <1>7, Zenon

\* What it contradicts it has listed, and opens unless an earlier call did.
LEMMA RootAnswers ==
    ASSUME NEW o \in Ops, NEW verdict, NEW receipt, InHand(o, verdict, receipt),
           NEW row, Roots(o, row, verdict, receipt), ListedSound(o, local[o]),
           NEW n, StandsAt(row, n), NEW left, left = ToOpen(local[o].open),
           NEW h, h.root = n, h.open = left, left # {} => at'[o] = "open" /\ local'[o] = h,
           NEW a \in DOMAIN rows, Clash(a, n)'
    PROVE  row.status = "OPEN" /\ Answered(a, n)'
<1>1. rows'[a] = rows[a] /\ rows'[n] = row
  BY Zenon DEF StandsAt
<1>2. /\ a <= local[o].seen /\ rows[a].instance # receipt.instance
      /\ rows[a].config = receipt.config
      /\ {rows[a].verdict, verdict} = {"PASS", "FAIL"}
  BY <1>1, Zenon DEF Clash, Roots
<1>3. rows[a].verdict \in Opposite(verdict)
  BY <1>2, Zenon DEF Opposite
<1>4. a \in local[o].open
  BY <1>2, <1>3, Zenon DEF ListedSound, InHand
<1>5. row.status = "OPEN" /\ row.by = o
  BY <1>4 DEF Roots
<1>6. CASE rows[a].status # "NONE"
  BY <1>1, <1>5, <1>6, Zenon DEF Answered
<1>7. CASE rows[a].status = "NONE"
  <2>1. a \in left
    BY <1>4, <1>7 DEF ToOpen
  <2> QED
    BY <1>1, <1>5, <2>1, Zenon DEF Answered
<1> QED
  BY <1>6, <1>7, Zenon

\* project files the record: what it listed is what a later reader must find answered.
LEMMA PutRecordKeeps ==
    ASSUME FeedbackInv, NEW o \in Ops, PutRecord(o)
    PROVE  FeedbackInv'
<1>1. PICK row, left, h, verdict, receipt, status :
        /\ InHand(o, verdict, receipt) /\ status = IF local[o].open = {} THEN "NONE" ELSE "OPEN"
        /\ row = Row(RootKey(receipt.instance), 0, receipt.instance, Op(o).run, receipt.config,
                     verdict, status, local[o].seen, o)
        /\ left = ToOpen(local[o].open)
        /\ h = [local[o] EXCEPT !.root = Len(rows) + 1, !.open = left]
        /\ PutRow(o, row, IF left = {} THEN AfterReceipt(o) ELSE "open",
                  IF left = {} THEN Advanced(o, h) ELSE h)
  BY Zenon DEF PutRecord, Current, InHand
<1>2. at[o] = "record" /\ UNCHANGED <<scenario, results, experience, snapshots>>
  BY Zenon DEF PutRecord
<1>3. ProjectionSound(o, local[o]) /\ ListedSound(o, local[o])
  BY <1>2, Zenon DEF FeedbackInv, LocalSound
<1>4. Roots(o, row, verdict, receipt) /\ InHand(o, verdict, receipt)
  BY <1>1, RecordRoots, Zenon
<1>5. CASE Stored(row.key)
  <2>1. Move(o, "refused", local[o]) /\ rows' = rows
    BY <1>1, <1>5, Zenon DEF PutRow
  <2>2. LocalSound(o)'
    BY <2>1, Moved, EndedSound
  <2> QED
    BY <1>2, <2>1, <2>2, QuietMove
<1>6. CASE ~Stored(row.key)
  <2>1. Onward(o, left, h) /\ rows' = Append(rows, row) /\ Filed(row)
    BY <1>1, <1>6, Zenon DEF PutRow, Onward, Filed
  <2>2. PICK n : n = Len(rows) + 1
    OBVIOUS
  <2>3. Grown /\ StandsAt(row, n)
    BY <1>2, <2>1, <2>2, FiledGrown, Zenon DEF Lengthened, StandsAt
  <2>4. RowSound(n)' /\ \A j \in DOMAIN rows : rows[j].instance # row.instance
    BY <1>3, <1>4, <1>6, <2>2, <2>3, RootSound
  <2>5. Holding(o, h, left) /\ h.root = n
    BY <1>1, <1>3, <2>2, Zenon DEF ProjectionSound, Holding
  <2>6. ASSUME NEW a \in DOMAIN rows, Clash(a, n)'
        PROVE  row.status = "OPEN" /\ Answered(a, n)'
    <3>1. left # {} => at'[o] = "open" /\ local'[o] = h
      BY <2>1, OpensLeft
    <3>2. h.open = left /\ left = ToOpen(local[o].open)
      BY <1>1, <2>5, Zenon DEF Holding
    <3> QED
      BY <1>3, <1>4, <2>3, <2>5, <2>6, <3>1, <3>2, RootAnswers, Zenon
  <2>7. \A j \in DOMAIN rows : rows[j].key.against # n
    <3>1. \A j \in DOMAIN rows : rows[j].key.against \in Nat /\ rows[j].key.against < j
      BY RowsListed, Zenon DEF RowsSound, RowSound
    <3> QED
      BY <2>2, <3>1, RowsListed
  <2>8. OpeningSound(o, h)'
    <3>1. row.key.against = 0 /\ row.by = o
      BY <1>4, Zenon DEF Roots
    <3>2. n # 0
      BY <2>2, RowsListed
    <3> QED
      BY <2>3, <2>5, <2>7, <3>1, <3>2 DEF OpeningSound, StandsAt
  <2>9. LocalSound(o)'
    BY <1>3, <2>1, <2>3, <2>5, <2>8, OnwardKeeps, Zenon
  <2>10. \A p \in Ops : at[p] = "open" => row.key.against # local[p].root
    <3>1. \A p \in Ops : at[p] = "open" => local[p].root \in DOMAIN rows
      BY Zenon DEF FeedbackInv, LocalSound, OpeningSound
    <3>2. 0 \notin DOMAIN rows
      BY RowsListed
    <3> QED
      BY <1>4, <3>1, <3>2, Zenon DEF Roots
  <2>11. FiledWell(o, row, n)
    BY <1>2, <2>4, <2>6, <2>10 DEF FiledWell
  <2> QED
    BY <1>2, <2>1, <2>2, <2>9, <2>11, FiledKeeps DEF Onward
<1> QED
  BY <1>5, <1>6

--------------------------------------------------------------------------------
(* The steps that file no row. *)

\* materialize compares digests; the projection it is for holds what it held.
LEMMA MaterializeKeeps ==
    ASSUME FeedbackInv, NEW o \in Ops, MaterializeRead(o)
    PROVE  FeedbackInv'
<1>1. PICK place, id :
        /\ Move(o, place, [local[o] EXCEPT !.identity = id])
        /\ place \in {"refused", "save", "siblings"}
  BY Zenon DEF MaterializeRead
<1>2. at[o] = "materialize" /\ UNCHANGED <<scenario, results, experience, rows, snapshots>>
  BY DEF MaterializeRead
<1>3. at'[o] = place /\ local'[o] = [local[o] EXCEPT !.identity = id]
  BY <1>1, Moved, Zenon
<1>4. ProjectionSound(o, local[o])
  BY <1>2, Zenon DEF FeedbackInv, LocalSound
<1>5. ProjectionSound(o, local'[o])
  BY <1>3, <1>4 DEF ProjectionSound
<1>6. ProjectionSound(o, local[o])'
  BY <1>2, <1>5, QuietGrown, ProjectionKept
<1>7. LocalSound(o)'
  BY <1>1, <1>3, <1>6, Zenon DEF LocalSound
<1> QED
  BY <1>1, <1>2, <1>7, QuietMove

\* Saving a new experience, or retracting one, un-retracts nothing.
LEMMA ExperienceGrown ==
    ASSUME FeedbackInv, UNCHANGED <<scenario, results, rows>>, NEW run, NEW e,
           experience' = [experience EXCEPT ![run] = e],
           ~experience[run].exists \/ (e.exists /\ e.retracted)
    PROVE  Grown
<1>1. ASSUME NEW r, Gone(r) PROVE Gone(r)'
  <2>1. CASE r = run
    <3>1. r \in DOMAIN experience /\ experience[r].exists
      BY <1>1 DEF Gone
    <3>2. e.exists /\ e.retracted
      BY <2>1, <3>1
    <3>3. r \in DOMAIN experience' /\ experience'[r] = e
      BY <2>1, <3>1
    <3> QED
      BY <3>2, <3>3 DEF Gone
  <2>2. CASE r # run
    <3>1. r \in DOMAIN experience' /\ experience'[r] = experience[r]
      BY <1>1, <2>2, Zenon DEF Gone
    <3> QED
      BY <1>1, <3>1, Zenon DEF Gone
  <2> QED
    BY <2>1, <2>2, Zenon
<1> QED
  BY <1>1 DEF FeedbackInv, RowsSound, ResultsSound, Grown

\* materialize, its write.
LEMMA SaveExperienceKeeps ==
    ASSUME FeedbackInv, NEW o \in Ops, SaveExperience(o)
    PROVE  FeedbackInv'
<1> DEFINE run == Op(o).run
<1>1. /\ at[o] = "save" /\ UNCHANGED <<scenario, results, rows, snapshots>>
      /\ \E place \in {"refused", "siblings"} : Move(o, place, local[o])
  BY DEF SaveExperience
<1>2. PICK place \in {"refused", "siblings"} : Move(o, place, local[o])
  BY <1>1
<1>3. Grown
  <2>1. CASE experience' = experience
    BY <1>1, <2>1, QuietGrown
  <2>2. CASE experience' # experience
    <3>1. /\ ~experience[run].exists
          /\ \E e : experience' = [experience EXCEPT ![run] = e]
      BY <2>2, Zenon DEF SaveExperience
    <3> HIDE DEF run
    <3> QED
      BY <1>1, <3>1, ExperienceGrown, Zenon
  <2> QED
    BY <2>1, <2>2
<1>4. at'[o] = place /\ local'[o] = local[o]
  BY <1>2, Moved, Zenon
<1>5. ProjectionSound(o, local'[o])
  BY <1>1, <1>4, Zenon DEF FeedbackInv, LocalSound
<1>6. LocalSound(o)'
  BY <1>3, <1>4, <1>5, ProjectionKept, Zenon DEF LocalSound
<1> QED
  BY <1>1, <1>2, <1>3, <1>6, MoveKeeps, ResultsKept, SnapshotsKept, Zenon

\* An operator's retraction.
LEMMA RetractKeeps ==
    ASSUME FeedbackInv, NEW o \in Ops, Retract(o)
    PROVE  FeedbackInv'
<1> DEFINE run == Op(o).run
<1>1. /\ at[o] = "idle" /\ UNCHANGED <<scenario, results, rows, snapshots>>
      /\ \E place \in {"done", "refused"} : Move(o, place, Nothing)
  BY DEF Retract
<1>2. Grown
  <2>1. CASE experience' = experience
    BY <1>1, <2>1, QuietGrown
  <2>2. CASE experience' # experience
    <3>1. \E e : experience' = [experience EXCEPT ![run] = e] /\ e.exists /\ e.retracted
      <4> DEFINE e == [exists |-> TRUE, identity |-> experience[run].identity,
                       revision |-> Op(o).expected + 1, retracted |-> TRUE]
      <4>1. experience' = [experience EXCEPT ![run] = e]
        BY <2>2, Zenon DEF Retract
      <4>2. e.exists /\ e.retracted
        OBVIOUS
      <4> HIDE DEF e, run
      <4> QED
        BY <4>1, <4>2, Zenon
    <3> HIDE DEF run
    <3> QED
      BY <1>1, <3>1, ExperienceGrown, Zenon
  <2> QED
    BY <2>1, <2>2
<1>3. at'[o] \in {"done", "refused"}
  BY <1>1, Moved
<1> QED
  BY <1>1, <1>2, <1>3, EndedSound, MoveKeeps, ResultsKept, SnapshotsKept

\* project lists every opposite row there is.
LEMMA ListSiblingsKeeps ==
    ASSUME FeedbackInv, NEW o \in Ops, ListSiblings(o)
    PROVE  FeedbackInv'
<1> DEFINE verdict == local[o].verdicts[local[o].next]
<1>1. PICK l : /\ l = [local[o] EXCEPT !.open = Contradicting(Current(o), verdict),
                                       !.seen = Len(rows), !.root = 0]
               /\ Move(o, "record", l)
  BY DEF ListSiblings
<1>2. at[o] = "siblings" /\ UNCHANGED <<scenario, results, experience, rows, snapshots>>
  BY DEF ListSiblings
<1>3. at'[o] = "record" /\ local'[o] = l
  BY <1>1, Moved, Zenon
<1>4. ProjectionSound(o, local[o])
  BY <1>2, Zenon DEF FeedbackInv, LocalSound
<1>5. /\ DOMAIN l = {"next", "root", "open", "seen", "identity", "verdicts"}
      /\ l.next = local[o].next /\ l.verdicts = local[o].verdicts /\ l.seen = Len(rows)
      /\ l.open = Contradicting(Current(o), verdict)
  BY <1>1, <1>4 DEF ProjectionSound
<1>6. ProjectionSound(o, local[o])'
  <2>1. ProjectionSound(o, local'[o])
    BY <1>3, <1>4, <1>5, Zenon DEF ProjectionSound
  <2> QED
    BY <1>2, <2>1, QuietGrown, ProjectionKept, Zenon
<1>7. Len(rows) \in Nat
  BY RowsListed, Zenon
<1>8. ListedSound(o, local[o])'
  <2>1. Receipts(o)' = Receipts(o) /\ Current(o) = Receipts(o)[l.next]
    BY <1>2, <1>5 DEF Receipts, Op, Current
  <2>2. ASSUME NEW a \in DOMAIN rows, rows[a].instance # Receipts(o)[l.next].instance,
               rows[a].config = Receipts(o)[l.next].config,
               rows[a].verdict \in Opposite(l.verdicts[l.next])
        PROVE  a \in l.open
    BY <1>5, <2>1, <2>2 DEF Contradicting
  <2> QED
    <3>1. l.seen \in Nat /\ l.seen <= Len(rows)
      BY <1>5, <1>7
    <3>2. ListedSound(o, l)
      BY <2>2, <3>1, Zenon DEF ListedSound
    <3> QED
      BY <1>2, <1>3, <2>1, <3>2, Zenon DEF ListedSound
<1>9. LocalSound(o)'
  BY <1>3, <1>6, <1>8 DEF LocalSound
<1> QED
  BY <1>1, <1>2, <1>9, QuietMove

\* resolve_contradiction reads a row of the ledger.
LEMMA ReadContradictionKeeps ==
    ASSUME FeedbackInv, NEW o \in Ops, ReadContradiction(o)
    PROVE  FeedbackInv'
<1>1. PICK place, open : /\ Move(o, place, open) /\ place \in {"refused", "resolve"}
                         /\ open \subseteq DOMAIN rows
  BY DEF ReadContradiction
<1>2. at[o] = "idle" /\ UNCHANGED <<scenario, results, experience, rows, snapshots>>
  BY Zenon DEF ReadContradiction
<1>3. LocalSound(o)'
  BY <1>1, <1>2, Moved, Zenon DEF LocalSound
<1> QED
  BY <1>1, <1>2, <1>3, QuietMove, Zenon

\* The snapshot builder lists the records.
LEMMA ListRecordsKeeps ==
    ASSUME FeedbackInv, NEW o \in Ops, ListRecords(o)
    PROVE  FeedbackInv'
<1>1. PICK l : /\ l = [listed |-> Len(rows), next |-> 1, considered |-> {},
                       gone |-> {r \in DOMAIN experience :
                                   experience[r].exists /\ experience[r].retracted}]
               /\ Move(o, "lookup", l)
  BY DEF ListRecords
<1>2. at[o] = "idle" /\ UNCHANGED <<scenario, results, experience, rows, snapshots>>
  BY Zenon DEF ListRecords
<1>3. at'[o] = "lookup" /\ local'[o] = l
  BY <1>1, Moved
<1>4. Len(rows) \in Nat
  BY RowsListed, Zenon DEF RowsSound
<1>5. \A r \in l.gone : Gone(r)
  BY <1>1, Zenon DEF Gone
<1>6. LookupSound(l)
  BY <1>1, <1>4, <1>5 DEF LookupSound
<1>7. LookupSound(local[o])'
  BY <1>2, <1>3, <1>6, Zenon DEF LookupSound, Gone
<1>8. LocalSound(o)'
  BY <1>3, <1>7 DEF LocalSound
<1> QED
  BY <1>1, <1>2, <1>8, QuietMove, Zenon

\* It looks one experience up: a record whose experience was retracted when it began is left out.
LEMMA LookupKeeps ==
    ASSUME FeedbackInv, NEW o \in Ops, LookupExperience(o)
    PROVE  FeedbackInv'
<1>1. PICK l : /\ l = [local[o] EXCEPT !.next = @ + 1,
                         !.considered = @ \cup {k \in {local[o].next} : Considered(k)}]
               /\ Move(o, "lookup", l)
  BY Zenon DEF LookupExperience
<1>2. /\ at[o] = "lookup" /\ local[o].next <= local[o].listed
      /\ UNCHANGED <<scenario, results, experience, rows, snapshots>>
  BY DEF LookupExperience
<1>3. at'[o] = "lookup" /\ local'[o] = l
  BY <1>1, Moved, Zenon
<1>4. LookupSound(local[o])
  BY <1>2, Zenon DEF FeedbackInv, LocalSound
<1>5. /\ DOMAIN l = {"listed", "next", "considered", "gone"}
      /\ l.listed = local[o].listed /\ l.gone = local[o].gone /\ l.next = local[o].next + 1
      /\ l.considered = local[o].considered \cup {k \in {local[o].next} : Considered(k)}
  BY <1>1, <1>4, Zenon DEF LookupSound
<1>6. Len(rows) \in Nat /\ DOMAIN rows = 1..Len(rows)
  BY RowsListed, Zenon
<1>7. local[o].next \in DOMAIN rows
  BY <1>2, <1>4, <1>6 DEF LookupSound
<1>8. ASSUME NEW k, Considered(k)
      PROVE  rows[k].run \notin local[o].gone
  <2>1. ~Gone(rows[k].run)
    BY <1>8, Zenon DEF Considered, Gone
  <2> QED
    BY <1>4, <2>1 DEF LookupSound
<1>9. \A k \in l.considered : k \in DOMAIN rows /\ rows[k].run \notin l.gone
  BY <1>4, <1>5, <1>7, <1>8, Zenon DEF LookupSound
<1>10. LookupSound(l)
  BY <1>4, <1>5, <1>9 DEF LookupSound
<1>11. LookupSound(local[o])'
  BY <1>2, <1>3, <1>10 DEF LookupSound, Gone
<1>12. LocalSound(o)'
  BY <1>3, <1>11 DEF LocalSound
<1> QED
  BY <1>1, <1>2, <1>12, QuietMove

\* One row for each instance and configuration, and an instance has one configuration.
LEMMA KeepsOne ==
    ASSUME FeedbackInv, NEW pool, pool \subseteq DOMAIN rows, NEW keep \in Deduplications(pool),
           NEW j \in keep, NEW k \in keep, rows[j].instance = rows[k].instance
    PROVE  j = k
<1>1. keep \subseteq pool /\ k \in pool
  BY Zenon DEF Deduplications
<1>2. rows[j].config = rows[k].config
  BY <1>1 DEF FeedbackInv, RowsSound
<1>3. PICK x \in keep :
        {i \in keep : rows[i].instance = rows[k].instance /\ rows[i].config = rows[k].config} = {x}
  BY <1>1 DEF Deduplications
<1> QED
  BY <1>2, <1>3

\* It seals the snapshot of what it kept.
LEMMA SealSnapshotKeeps ==
    ASSUME FeedbackInv, NEW o \in Ops, SealSnapshot(o)
    PROVE  FeedbackInv'
<1> DEFINE pool == {k \in local[o].considered : rows[k].eligible /\ rows[k].status # "OPEN"}
<1>1. /\ at[o] = "lookup" /\ UNCHANGED <<scenario, results, experience, rows>>
      /\ \E place \in {"refused", "done"} : Move(o, place, Nothing)
  BY Zenon DEF SealSnapshot
<1>2. at'[o] \in {"refused", "done"}
  BY <1>1, Moved, Zenon
<1>3. LookupSound(local[o])
  BY <1>1, Zenon DEF FeedbackInv, LocalSound
<1>4. pool \subseteq local[o].considered /\ pool \subseteq DOMAIN rows
  BY <1>3 DEF LookupSound
<1>5. SnapshotsSound'
  <2>1. CASE snapshots' = snapshots
    BY <1>1, <2>1, QuietGrown, SnapshotsKept, Zenon
  <2>2. CASE snapshots' # snapshots
    <3>1. PICK keep \in Deduplications(pool) :
            snapshots' = snapshots \cup
              {[rows |-> keep, listed |-> local[o].listed, gone |-> local[o].gone]}
      BY <2>2, Zenon DEF SealSnapshot
    <3> HIDE DEF pool
    <3>2. PICK s : /\ s.rows = keep /\ s.gone = local[o].gone
                   /\ snapshots' = snapshots \cup {s}
      BY <3>1, Zenon
    <3>3. keep \subseteq pool
      BY <3>1, Zenon DEF Deduplications
    <3>4. /\ s.rows \subseteq DOMAIN rows
          /\ \A k \in s.rows : rows[k].run \notin s.gone
      BY <1>3, <1>4, <3>2, <3>3, Zenon DEF LookupSound
    <3>5. \A j, k \in s.rows : rows[j].instance = rows[k].instance => j = k
      BY <1>4, <3>1, <3>2, KeepsOne, Zenon
    <3> QED
      BY <1>1, <3>2, <3>4, <3>5 DEF SnapshotsSound, FeedbackInv
  <2> QED
    BY <2>1, <2>2, Zenon
<1> QED
  BY <1>1, <1>2, <1>5, QuietGrown, EndedSound, MoveKeeps, ResultsKept

\* Commits, flag changes and crashes, and steps that change nothing.
LEMMA WorldKeeps ==
    ASSUME FeedbackInv, RepositoryMoves \/ FlagFlips \/ Crash \/ Finished \/ UNCHANGED vars
    PROVE  FeedbackInv'
<1>1. UNCHANGED <<scenario, results, experience, rows, snapshots, local>>
  BY Zenon DEF RepositoryMoves, FlagFlips, Crash, Finished, Disturb, vars
<1>2. at' = at \/ at' = [o \in Ops |-> IF InFlight(o) THEN "lost" ELSE at[o]]
  BY Zenon DEF RepositoryMoves, FlagFlips, Crash, Finished, vars
<1>3. DOMAIN at = Ops /\ DOMAIN local = Ops /\ Ops' = Ops /\ scenario' \in Scenarios
  BY <1>1 DEF FeedbackInv, Ops
<1>4. DOMAIN at' = Ops /\ \A p \in Ops : at'[p] \in {at[p], "lost"}
  BY <1>2, <1>3
<1>5. Grown
  BY <1>1, QuietGrown
<1>6. RowsSound'
  <2>1. StillOpening
    BY <1>1, <1>4 DEF StillOpening
  <2> QED
    BY <1>1, <1>5, <2>1, RowsKept, Zenon
<1>7. ASSUME NEW p \in Ops PROVE LocalSound(p)'
  <2>1. CASE at'[p] = "lost"
    BY <2>1, EndedSound
  <2>2. CASE at'[p] = at[p]
    BY <1>1, <1>5, <2>2, LocalKept
  <2> QED
    BY <1>4, <2>1, <2>2
<1> QED
  BY <1>1, <1>3, <1>4, <1>5, <1>6, <1>7, ResultsKept, SnapshotsKept, Zenon DEF FeedbackInv

--------------------------------------------------------------------------------
(* The status of a claim and of a result. *)

\* The most severe of some states is one of them.
LEMMA WorstIn ==
    ASSUME NEW S \in SUBSET States, S # {}
    PROVE  Worst(S) \in S
<1>1. \E s \in S : \A t \in S : Severity[t] <= Severity[s]
  <2>1. /\ Severity["PASS"] = 0 /\ Severity["PENDING"] = 1 /\ Severity["INCONCLUSIVE"] = 2
        /\ Severity["FAIL"] = 3 /\ Severity["QUARANTINED"] = 4 /\ Severity["ERROR"] = 5
    BY DEF Severity
  <2>2. CASE "ERROR" \in S
    BY <2>1, <2>2 DEF States
  <2>3. CASE "ERROR" \notin S /\ "QUARANTINED" \in S
    BY <2>1, <2>3 DEF States
  <2>4. CASE "ERROR" \notin S /\ "QUARANTINED" \notin S /\ "FAIL" \in S
    BY <2>1, <2>4 DEF States
  <2>5. CASE S \subseteq {"PASS", "PENDING", "INCONCLUSIVE"} /\ "INCONCLUSIVE" \in S
    BY <2>1, <2>5
  <2>6. CASE S \subseteq {"PASS", "PENDING"} /\ "PENDING" \in S
    BY <2>1, <2>6
  <2>7. CASE S = {"PASS"}
    BY <2>1, <2>7
  <2> QED
    BY <2>2, <2>3, <2>4, <2>5, <2>6, <2>7, Zenon DEF States
<1> QED
  BY <1>1, Zenon DEF Worst

\* A required claim is not left out of a result of at least one verification.
LEMMA RequiredMapped ==
    ASSUME NEW V, V # {}, \A v \in V : v.status \in States, NEW producer, NEW c \in Required
    PROVE  ClaimResults(V, producer)[c] # "unmapped"
<1> DEFINE by(name) == {v \in V : v.verifier = name}
           qualified(name, claim) ==
             LET status == ClaimStatus(claim, by(name))
             IN  IF status # "unmapped" /\ \E v \in by(name) : ~Independent(v, producer)
                 THEN "ERROR" ELSE status
           said(claim) == {qualified(v.verifier, claim) : v \in V} \ {"unmapped"}
<1>1. ASSUME NEW name
      PROVE  ClaimStatus(c, by(name)) \in States
  <2> DEFINE covering == {v \in by(name) : c \in v.covers}
  <2>1. CASE covering = {}
    BY <2>1 DEF ClaimStatus, States
  <2>2. CASE covering # {}
    <3>1. {v.status : v \in covering} \in SUBSET States /\ {v.status : v \in covering} # {}
      BY <2>2, Zenon
    <3>2. Worst({v.status : v \in covering}) \in States
      BY <3>1, WorstIn
    <3> QED
      BY <2>2, <3>2, Zenon DEF ClaimStatus
  <2> QED
    BY <2>1, <2>2
<1>2. \A name : qualified(name, c) \in States
  BY <1>1, Zenon DEF States
<1>3. said(c) \in SUBSET States /\ said(c) # {}
  <2>1. PICK v : v \in V
    OBVIOUS
  <2>2. qualified(v.verifier, c) \in said(c)
    BY <1>2, <2>1, Zenon DEF States
  <2> HIDE DEF qualified
  <2> QED
    BY <1>2, <2>2
<1>4. Worst(said(c)) \in States
  BY <1>3, WorstIn, Zenon
<1>5. c \in Claims
  BY RequiredAreClaims
<1>6. ClaimResults(V, producer)[c] = IF said(c) = {} THEN "unmapped" ELSE Worst(said(c))
  BY <1>5, Zenon DEF ClaimResults
<1> HIDE DEF said
<1> QED
  BY <1>3, <1>4, <1>6, Zenon DEF States

\* A result that passes passes every required claim, and contests none it has read.
LEMMA PassMeans ==
    ASSUME NEW claims, NEW prior, \A c \in Required : claims[c] # "unmapped",
           ResultStatus(claims, Conflicted(claims, prior)) = "PASS"
    PROVE  /\ \A c \in Required : claims[c] = "PASS"
           /\ \A j \in prior, c \in Required : results[j].claims[c] # "FAIL"
<1> DEFINE said == {claims[c] : c \in Claims} \ {"unmapped"}
<1>1. ~Conflicted(claims, prior) /\ said \subseteq {"PASS"}
  BY DEF ResultStatus
<1>2. \A c \in Required : claims[c] = "PASS"
  BY <1>1, RequiredAreClaims
<1> QED
  BY <1>1, <1>2, Zenon DEF Conflicted

--------------------------------------------------------------------------------
(* Recording a result. *)

\* record_local, first half: what is already recorded, and the results it compares with.
LEMMA LocalReadsKeep ==
    ASSUME FeedbackInv, NEW o \in Ops, CheckRecorded(o) \/ ReadPriorResults(o)
    PROVE  FeedbackInv'
<1>1. CASE CheckRecorded(o)
  <2>1. at[o] = "idle" /\ Op(o)'.kind = "local" /\ at'[o] \in {"done", "prior"}
    BY <1>1, Moved, Zenon DEF CheckRecorded, Op
  <2>2. LocalSound(o)'
    BY <2>1, Zenon DEF LocalSound
  <2> QED
    BY <1>1, <2>1, <2>2, QuietMove, Zenon DEF CheckRecorded
<1>2. CASE ReadPriorResults(o)
  <2>1. at[o] = "prior" /\ at'[o] = "result" /\ local'[o] = PriorResults(Op(o).instance)
        /\ results' = results
    BY <1>2, Moved, Zenon DEF ReadPriorResults
  <2>2. Op(o)'.kind = "local"
    BY <1>2, <2>1 DEF FeedbackInv, LocalSound, ReadPriorResults, Op
  <2>3. LocalSound(o)'
    BY <2>1, <2>2, Zenon DEF LocalSound, PriorResults
  <2> QED
    BY <1>2, <2>1, <2>3, QuietMove, Zenon DEF ReadPriorResults
<1> QED
  BY <1>1, <1>2, Zenon

\* A result that passes has settled every required claim, and none of the results it read
\* contests one.
LEMMA ResultSettles ==
    ASSUME FeedbackInv, NEW o \in Ops, Op(o).kind = "local", local[o] \subseteq DOMAIN results,
           NEW new, new = IndependentResult(Op(o), local[o])
    PROVE  /\ new.read = local[o]
           /\ new.status = "PASS" =>
                /\ \A c \in Required : new.claims[c] = "PASS"
                /\ \A j \in new.read, c \in Required : results[j].claims[c] # "FAIL"
<1>1. PICK claims : claims = ClaimResults(Op(o).verdicts, Op(o).producer)
  OBVIOUS
<1>2. /\ new.read = local[o] /\ new.claims = claims
      /\ new.status = ResultStatus(claims, Conflicted(claims, local[o]))
  BY <1>1, Zenon DEF IndependentResult
<1>3. Op(o).verdicts # {} /\ \A v \in Op(o).verdicts : v.status \in States
  BY ScenariosAssumption DEF FeedbackInv, Ops, Op
<1>4. \A c \in Required : claims[c] # "unmapped"
  BY <1>1, <1>3, RequiredMapped, Zenon
<1>5. ASSUME new.status = "PASS"
      PROVE  /\ \A c \in Required : claims[c] = "PASS"
             /\ \A j \in local[o], c \in Required : results[j].claims[c] # "FAIL"
  <2>1. ResultStatus(claims, Conflicted(claims, local[o])) = "PASS"
    BY <1>2, <1>5, Zenon
  <2> QED
    BY <1>4, <2>1, PassMeans
<1> QED
  BY <1>2, <1>5, Zenon

\* Recording it keeps the results sound.
LEMMA ResultAdded ==
    ASSUME FeedbackInv, NEW o \in Ops, Op(o).kind = "local", local[o] \subseteq DOMAIN results,
           NEW new, new = IndependentResult(Op(o), local[o]), results' = Append(results, new),
           UNCHANGED <<scenario, experience, rows>>
    PROVE  ResultsSound' /\ Grown
<1>1. ResultsSound /\ IsList(results)
  BY Zenon DEF FeedbackInv, ResultsSound
<1>2. Lengthened(results, results', new)
  BY <1>1, ListAppend, Zenon
<1>3. PICK n : /\ IsList(results') /\ DOMAIN results' = DOMAIN results \cup {n}
               /\ results'[n] = new
               /\ \A k \in DOMAIN results : results'[k] = results[k]
  BY <1>2, Zenon DEF Lengthened
<1>4. /\ new.read = local[o]
      /\ new.status = "PASS" =>
           /\ \A c \in Required : new.claims[c] = "PASS"
           /\ \A j \in new.read, c \in Required : results[j].claims[c] # "FAIL"
  BY ResultSettles
<1>5. ResultsSound'
  BY <1>1, <1>3, <1>4 DEF ResultsSound
<1>6. \A r : Gone(r) => Gone(r)'
  BY Zenon DEF Gone
<1>7. IsList(rows') /\ Len(rows) <= Len(rows')
  BY RowsListed DEF RowsSound
<1> QED
  BY <1>3, <1>5, <1>6, <1>7 DEF Grown

\* record_local, second half: the result is recorded, or found recorded.
LEMMA PutResultKeeps ==
    ASSUME FeedbackInv, NEW o \in Ops, PutResult(o)
    PROVE  FeedbackInv'
<1>1. at[o] = "result" /\ UNCHANGED <<scenario, experience, rows, snapshots>>
  BY Zenon DEF PutResult
<1>2. PICK place \in {"done", "refused"} : Move(o, place, Nothing)
  BY Zenon DEF PutResult
<1>3. LocalSound(o)'
  BY <1>2, Moved, EndedSound
<1>4. CASE results' = results
  BY <1>1, <1>2, <1>3, <1>4, QuietMove, Zenon
<1>5. CASE results' # results
  <2>1. results' = Append(results, IndependentResult(Op(o), local[o]))
    BY <1>5, Zenon DEF PutResult
  <2>2. Op(o).kind = "local" /\ local[o] \subseteq DOMAIN results
    BY <1>1, Zenon DEF FeedbackInv, LocalSound
  <2>3. ResultsSound' /\ Grown
    BY <1>1, <2>1, <2>2, ResultAdded
  <2> QED
    BY <1>1, <1>2, <1>3, <2>3, MoveKeeps, SnapshotsKept
<1> QED
  BY <1>4, <1>5

--------------------------------------------------------------------------------
(* The invariant, and what it gives a reader of the ledger. *)

\* The store starts with the results a scenario gives it, and no records.
LEMMA FeedbackInit == ASSUME Init PROVE FeedbackInv
<1>1. scenario \in Scenarios /\ DOMAIN at = Ops /\ DOMAIN local = Ops
  BY DEF Init, Ops
<1>2. rows = <<>> /\ snapshots = {} /\ \A o \in Ops : at[o] = "idle"
  BY DEF Init, Ops
<1>3. PICK given : given = scenario.verdicts /\ results = InitResults(given)
  BY Zenon DEF Init
<1>4. IsList(given)
  BY <1>1, <1>3, ScenariosAssumption, Zenon
<1>5. /\ DOMAIN results = DOMAIN given
      /\ \A i \in DOMAIN results :
           /\ results[i].read = {}
           /\ \A c \in Claims : results[i].claims[c] = results[i].status
  BY <1>3 DEF InitResults
<1>6. IsList(results)
  <2> DEFINE T == {results[i] : i \in DOMAIN results}
  <2>1. Len(given) \in Nat /\ DOMAIN results = 1..Len(given)
    BY <1>4, <1>5, ListDomain, Zenon
  <2>2. results = [i \in 1..Len(given) |-> results[i]]
    BY <1>3, <2>1 DEF InitResults
  <2>3. results \in [1..Len(given) -> T]
    BY <2>1, <2>2
  <2> HIDE DEF T
  <2>4. results \in Seq(T)
    BY <2>1, <2>3
  <2> QED
    BY <2>4 DEF IsList, T
<1>7. ResultsSound
  BY <1>5, <1>6, RequiredAreClaims, Zenon DEF ResultsSound
<1>8. RowsSound
  BY <1>2 DEF RowsSound, IsList
<1> QED
  BY <1>1, <1>2, <1>7, <1>8, Zenon DEF FeedbackInv, SnapshotsSound, LocalSound

\* An instance whose first projection is in no line's head is not retrieved: revisions are
\* never free of a contradiction.
LEMMA RootWithheld ==
    ASSUME FeedbackInv, NEW k \in DOMAIN rows, rows[k].parent = 0,
           rows[k].status # "NONE" \/ \E i \in DOMAIN rows : rows[i].parent = k
    PROVE  Withheld(k)
<1>1. SUFFICES ASSUME NEW i \in Retrieved, rows[i].instance = rows[k].instance
               PROVE  FALSE
  BY DEF Withheld
<1>2. i \in DOMAIN rows /\ rows[i].status = "NONE" /\ ~\E j \in DOMAIN rows : rows[j].parent = i
  BY <1>1, Zenon DEF Retrieved
<1>3. rows[i].parent = 0
  BY <1>2, Zenon DEF FeedbackInv, RowsSound, RowSound
<1>4. rows[i].key = RootKey(rows[k].instance) /\ rows[k].key = RootKey(rows[k].instance)
  <2>1. RowSound(i) /\ RowSound(k)
    BY <1>2, Zenon DEF FeedbackInv, RowsSound
  <2> QED
    BY <1>1, <1>3, <2>1 DEF RowSound
<1>5. i = k
  BY <1>2, <1>4 DEF FeedbackInv, RowsSound
<1> QED
  BY <1>2, <1>5

\* The invariant withholds what is contradicted.
LEMMA InvWithholds == ASSUME FeedbackInv PROVE ContradictionWithheld
<1>1. ASSUME NEW a \in DOMAIN rows, NEW b \in DOMAIN rows, Clash(a, b)
      PROVE  Withheld(b) /\ (Opening(b) \/ Withheld(a))
  <2>1. rows[b].status = "OPEN" /\ Answered(a, b) /\ rows[a].parent = 0 /\ rows[b].parent = 0
    BY <1>1, Zenon DEF FeedbackInv, RowsSound, Clash
  <2>2. Withheld(b)
    BY <2>1, RootWithheld, Zenon
  <2>3. CASE rows[a].status # "NONE" \/ \E i \in DOMAIN rows : rows[i].parent = a
    BY <2>1, <2>2, <2>3, RootWithheld, Zenon
  <2>4. CASE /\ at[rows[b].by] \in {"open", "lost"} /\ local[rows[b].by].root = b
             /\ a \in local[rows[b].by].open
    BY <2>2, <2>4, Zenon DEF Opening
  <2> QED
    BY <2>1, <2>3, <2>4, Zenon DEF Answered
<1>2. ASSUME NEW k \in DOMAIN rows, rows[k].eligible PROVE Backed(rows[k].instance)
  BY <1>2 DEF FeedbackInv, RowsSound, RowSound
<1> QED
  BY <1>1, <1>2, Zenon DEF ContradictionWithheld, Clash, Backed

--------------------------------------------------------------------------------
(* The verdict a projection reads is the last one, which takes a maximum. *)

LOCAL INSTANCE WellFoundedInduction

\* The last of some listed positions is one of them.
LEMMA MaxIn ==
    ASSUME NEW n \in Nat, NEW S \in SUBSET (1..n), S # {}
    PROVE  Max(S) \in S
<1> DEFINE T == {k \in 0..n : n - k \in S}
<1>1. T \subseteq Nat /\ T # {}
  <2>1. PICK x : x \in S
    OBVIOUS
  <2>2. n - x \in 0..n /\ n - (n - x) = x
    BY <2>1
  <2>3. n - x \in T
    BY <2>1, <2>2
  <2> QED
    BY <2>3
<1>2. PICK t \in T : \A u \in T : ~(<<u, t>> \in OpToRel(<, Nat))
  BY <1>1, NatLessThanWellFounded, WFMin
<1>3. ASSUME NEW u \in Nat, NEW v \in Nat, u < v
      PROVE  <<u, v>> \in OpToRel(<, Nat)
  BY <1>3 DEF OpToRel
<1>4. \A u \in T : ~(u < t)
  BY <1>1, <1>2, <1>3
<1>5. \A y \in S : n - t >= y
  <2>1. SUFFICES ASSUME NEW y \in S
                 PROVE  n - t >= y
    OBVIOUS
  <2>2. n - y \in T /\ t \in 0..n /\ y \in 1..n
    <3>1. n - y \in 0..n /\ n - (n - y) = y
      OBVIOUS
    <3> QED
      BY <3>1
  <2>3. ~(n - y < t)
    BY <1>4, <2>2
  <2> QED
    BY <2>2, <2>3
<1>6. \E x \in S : \A y \in S : x >= y
  BY <1>5, Zenon
<1> QED
  BY <1>6, Zenon DEF Max

\* The verdict a projection goes by is backed by the result it was read from.
LEMMA VerdictBacked ==
    ASSUME FeedbackInv, NEW n, LocalVerdict(n) = "PASS"
    PROVE  Backed(n)
<1> DEFINE mine == PriorResults(n)
<1>1. mine # {} /\ results[Max(mine)].status = "PASS"
  BY Zenon DEF LocalVerdict
<1>2. mine \in SUBSET (1..Len(results)) /\ Len(results) \in Nat
  BY ListDomain DEF PriorResults, FeedbackInv, ResultsSound
<1>3. Max(mine) \in mine
  BY <1>1, <1>2, MaxIn, Zenon
<1>4. Max(mine) \in DOMAIN results
  BY <1>3, Zenon DEF PriorResults
<1> QED
  BY <1>1, <1>3, <1>4, Zenon DEF Backed, FeedbackInv, ResultsSound

\* record_final takes the verdicts of the whole run at once.
LEMMA RecordFinalKeeps ==
    ASSUME FeedbackInv, NEW o \in Ops, RecordFinal(o)
    PROVE  FeedbackInv'
<1>1. PICK held, place, verdicts :
        /\ verdicts = [i \in DOMAIN Receipts(o) |-> LocalVerdict(Receipts(o)[i].instance)]
        /\ held = [next |-> 1, root |-> 0, open |-> {}, seen |-> 0, identity |-> Nothing,
                   verdicts |-> verdicts]
        /\ place = IF Receipts(o) = <<>> THEN "done" ELSE "materialize"
        /\ Move(o, place, held)
  BY Zenon DEF RecordFinal
<1>2. /\ Op(o).kind = "final" /\ at[o] = "idle"
      /\ UNCHANGED <<scenario, results, experience, rows, snapshots>>
  BY Zenon DEF RecordFinal
<1>3. at'[o] = place /\ local'[o] = held /\ Move(o, place, held)
  BY <1>1, Moved
<1>4. LocalSound(o)'
  <2>1. CASE Receipts(o) = <<>>
    BY <1>1, <1>3, <2>1, EndedSound
  <2>2. CASE Receipts(o) # <<>>
    <3>1. IsList(Receipts(o))
      BY <1>2, ScenariosAssumption, Zenon DEF FeedbackInv, Ops, Op, Receipts
    <3>2. 1 \in DOMAIN Receipts(o)
      BY <2>2, <3>1 DEF IsList
    <3>3. \A i \in DOMAIN Receipts(o) : verdicts[i] = "PASS" => Backed(Receipts(o)[i].instance)
      <4>1. ASSUME NEW i \in DOMAIN Receipts(o)
            PROVE  verdicts[i] = LocalVerdict(Receipts(o)[i].instance)
        BY <1>1, Zenon
      <4> QED
        BY <4>1, VerdictBacked, Zenon
    <3>4. held.next = 1 /\ held.verdicts = verdicts
          /\ DOMAIN held = {"next", "root", "open", "seen", "identity", "verdicts"}
      BY <1>1, Zenon
    <3>5. ProjectionSound(o, local'[o])
      BY <1>2, <1>3, <3>2, <3>3, <3>4, Zenon DEF ProjectionSound
    <3>6. ProjectionSound(o, local[o])'
      BY <1>2, <3>5, QuietGrown, ProjectionKept, Zenon
    <3>7. at'[o] = "materialize"
      BY <1>1, <1>3, <2>2, Zenon
    <3> QED
      BY <3>6, <3>7, Zenon DEF LocalSound
  <2> QED
    BY <2>1, <2>2, Zenon
<1> QED
  BY <1>2, <1>3, <1>4, QuietMove, Zenon

--------------------------------------------------------------------------------
(* The theorems. *)

\* Every step keeps the invariant.
LEMMA FeedbackStep == ASSUME FeedbackInv, [Next]_vars PROVE FeedbackInv'
<1>1. ASSUME NEW o \in Ops, Step(o) PROVE FeedbackInv'
  BY <1>1, LocalReadsKeep, PutResultKeeps, RecordFinalKeeps, MaterializeKeeps,
     SaveExperienceKeeps, RetractKeeps, ListSiblingsKeeps, PutRecordKeeps, OpenSiblingKeeps,
     ReadContradictionKeeps, PutResolutionKeeps, ListRecordsKeeps, LookupKeeps,
     SealSnapshotKeeps, Zenon DEF Step
<1> QED
  BY <1>1, WorldKeeps, Zenon DEF Next

\* The invariant holds throughout.
LEMMA FeedbackInvariant == Spec => []FeedbackInv
<1>1. Init => FeedbackInv
  BY FeedbackInit
<1>2. FeedbackInv /\ [Next]_vars => FeedbackInv'
  BY FeedbackStep
<1> QED
  BY <1>1, <1>2, PTL DEF Spec

\* Whatever projections, adjudications and crashes interleave, a projection that could see an
\* opposite verdict leaves neither instance in retrieval once it has opened its siblings, and
\* only a pass that no result it was compared with contests makes a record eligible
\* (ExperienceProjector.project, IndependentVerificationRecorder.record).
THEOREM FeedbackContradictionWithheld == Spec => []ContradictionWithheld
<1>1. FeedbackInv => ContradictionWithheld
  BY InvWithholds, Zenon
<1> QED
  BY <1>1, FeedbackInvariant, PTL

\* No snapshot holds what was retracted when it was begun, nor an instance twice
\* (SnapshotBuilder.build, _deduplicate).
THEOREM FeedbackSnapshotHonours == Spec => []SnapshotHonoursRetraction
<1>1. FeedbackInv => SnapshotHonoursRetraction
  BY Zenon DEF FeedbackInv, SnapshotsSound, SnapshotHonoursRetraction
<1> QED
  BY <1>1, FeedbackInvariant, PTL

================================================================================
