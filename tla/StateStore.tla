----------------------------- MODULE StateStore -----------------------------
(***************************************************************************)
(* The StateStore protocol with its two implementations side by side.      *)
(*                                                                         *)
(* Clients call the methods of PostgresStore on one table, which the       *)
(* initial state picks.  A call is two steps: Begin runs the method's      *)
(* SELECT and decides (StoreMethods' Plan) from the rows committed at that *)
(* moment; Commit flushes what it decided against the rows committed by    *)
(* then.  Between the two another client may commit, unless the method     *)
(* holds a row lock.  MemoryStore, whose methods are single steps, is the  *)
(* reference the calls are compared with.                                  *)
(*                                                                         *)
(* From the libraries, modelled as the code uses them: SQLAlchemy writes   *)
(* only the columns whose value differs from the one it loaded and raises  *)
(* StaleDataError when the row to update is gone; the database refuses a   *)
(* duplicate key and a dangling reference with IntegrityError and rolls    *)
(* the transaction back.                                                   *)
(***************************************************************************)
EXTENDS StoreMethods, TLC

CONSTANTS
  Clients,    \* concurrent callers, interchangeable
  MaxCalls,   \* bound: calls per behaviour
  Pinned,     \* bound: key columns with one value only
  Sampled     \* bound: promoted columns with two values (the others have one)

VARIABLES
  table,      \* the table the behaviour works on
  methods,    \* the methods of the protocol that write it
  queries,    \* and those that read it
  args,       \* the records its calls carry
  db,         \* its committed rows
  ses,        \* per client, the call between its SELECT and its commit
  calls,      \* calls begun
  reply,      \* what the last step answered, if it ended a call
  raced       \* history: a call committed over another one's commit

scenario == <<table, methods, queries, args>>
vars == <<scenario, db, ses, calls, reply, raced>>

Symmetry == Permutations(Clients)

PG == INSTANCE PostgresStore
Mem == INSTANCE MemoryStore

\* The methods of the protocol in both implementations, and which of them write
\* and read a table.
Pair(pg, mem) == [pg |-> pg, mem |-> mem]
Protocol == {
  Pair(PG!ProjectMethods, Mem!ProjectMethods),
  Pair(PG!TaskMethods, Mem!TaskMethods),
  Pair(PG!RunMethods, Mem!RunMethods),
  Pair(PG!VerificationMethods, Mem!VerificationMethods),
  Pair(PG!WorkspaceMethods, Mem!WorkspaceMethods),
  Pair(PG!ArtifactMethods, Mem!ArtifactMethods),
  Pair(PG!TemplateMethods, Mem!TemplateMethods),
  Pair(PG!GraphMethods, Mem!GraphMethods),
  Pair(PG!ApprovalMethods, Mem!ApprovalMethods),
  Pair(PG!CatalogMethods, Mem!CatalogMethods),
  Pair(PG!PrincipalMethods, Mem!PrincipalMethods),
  Pair(PG!MembershipMethods, Mem!MembershipMethods),
  Pair(PG!SessionMethods, Mem!SessionMethods),
  Pair(PG!SecretMethods, Mem!SecretMethods),
  Pair(PG!AssertionMethods, Mem!AssertionMethods),
  Pair(PG!ConnectionMethods, Mem!ConnectionMethods),
  Pair(PG!BindingMethods, Mem!BindingMethods),
  Pair(PG!McpMethods, Mem!McpMethods),
  Pair(PG!PluginMethods, Mem!PluginMethods),
  Pair(PG!PolicyMethods, Mem!PolicyMethods),
  Pair(PG!ResearchMethods, Mem!ResearchMethods),
  Pair(PG!BenchmarkMethods, Mem!BenchmarkMethods),
  Pair(PG!FeatureMethods, Mem!FeatureMethods),
  Pair(PG!ProposalMethods, Mem!ProposalMethods),
  Pair(PG!RevisionMethods, Mem!RevisionMethods),
  Pair(PG!SearchMethods, Mem!SearchMethods),
  Pair(PG!ScoreMethods, Mem!ScoreMethods),
  Pair(PG!ExperienceMethods, Mem!ExperienceMethods),
  Pair(PG!ReuseMethods, Mem!ReuseMethods),
  Pair(PG!SeedMethods, Mem!SeedMethods),
  Pair(PG!ContractMethods, Mem!ContractMethods),
  Pair(PG!RoutingMethods, Mem!RoutingMethods),
  Pair(PG!ReceiptMethods, Mem!ReceiptMethods),
  Pair(PG!OutcomeMethods, Mem!OutcomeMethods),
  Pair(PG!RouterMethods, Mem!RouterMethods),
  Pair(PG!ShadowMethods, Mem!ShadowMethods)}

Names == UNION {DOMAIN group.pg : group \in Protocol}
Named(n) ==
  LET group == CHOOSE g \in Protocol : n \in DOMAIN g.pg
  IN Pair(group.pg[n], group.mem[n])
Reading == {n \in Names : "by" \in DOMAIN Named(n).pg}

-----------------------------------------------------------------------------
(* The arguments of the calls.                                             *)

Tables == {Named(n).pg.table : n \in Names \ Reading}
MethodsOf(t) == {n \in Names \ Reading : Named(n).pg.table = t}
ReadsOf(t) == {n \in Reading : Named(n).pg.table = t}

\* A reference varies only where a method of the table resolves it, and not
\* when MemoryStore files the record under it: an id is never used under two
\* parents.
Varied(t) ==
  LET ms == {methods[n] : n \in DOMAIN methods}
      checked == UNION {m.pg.requires \union m.pg.needs \union m.mem.needs : m \in ms}
      decisive == {m.pg.on : m \in ms} \ {"none"}
      nested == UNION {m.mem.key \ m.pg.key : m \in ms}
  IN ((UNION t.unique \ Pinned) \union checked \union decisive \union (t.columns \intersect Sampled)
        \union {"body"})
       \ (nested \union {"content_hash", "schema_version"})

\* A contract carries the digest of everything else in it.
Records(t) ==
  LET varied == Varied(t)
  IN {[c \in Fields(t) |->
         IF c = "content_hash" THEN f ELSE IF c \in varied THEN f[c] ELSE 1] :
        f \in [varied -> 1..2]}

\* A method that only takes the key of a row has one argument per key.
Arguments(m) ==
  IF m.found \in {"switch", "delete", "drop"}
  THEN {r \in args : \A c \in DOMAIN r \ (m.key \union {"content_hash"}) : r[c] = 1}
  ELSE args

-----------------------------------------------------------------------------
(* The database.                                                           *)

Resolves(t, r) == \A c \in t.refs : r[c] # Absent

UniqueHolds(t, rows) ==
  \A u \in t.unique : \A s1, s2 \in rows : Agree(s1.col, s2.col, u) => s1 = s2

Row(pk, r) == [pk |-> pk, col |-> r, def |-> r]

\* The columns an UPDATE names: those that differ from the loaded row.
Changed(loaded, p) == {c \in DOMAIN p.col : p.col[c] # loaded.col[c]}

Updated(s, loaded, p) ==
  [s EXCEPT !.col = [c \in DOMAIN s.col |->
                       IF c \in Changed(loaded, p) THEN p.col[c] ELSE s.col[c]],
            !.def = IF p.def = loaded.def THEN s.def ELSE p.def]

Idle == [call |-> "none"]
Silent == [call |-> "none"]

\* The row locks a method's SELECT takes.
Locks(m, rows, r) ==
  IF m.lock = "none" THEN {}
  ELSE IF m.lock = "row" THEN {<<"row", s.pk>> : s \in Stored(m, rows, r)}
  ELSE {<<m.lock, r[m.lock]>>}

LockedByOthers(c) ==
  UNION {ses[d].locks : d \in {e \in Clients \ {c} : ses[e] # Idle}}

Reply(n, r, error, value) == [call |-> n, arg |-> r, error |-> error, value |-> value]

-----------------------------------------------------------------------------

Init ==
  /\ table \in Tables
  /\ methods = [n \in MethodsOf(table) |-> Named(n)]
  /\ queries = [n \in ReadsOf(table) |-> Named(n)]
  /\ args = Records(table)
  /\ \E rows \in {{}} \union
        {{Row(0, r)} : r \in {a \in args :
           /\ a.body = 1 /\ Resolves(table, a)
           /\ \E n \in DOMAIN methods : Plan(methods[n].pg, {}, a).do = "insert"}} :
       db = rows
  /\ ses = [c \in Clients |-> Idle]
  /\ calls = 0
  /\ reply = Silent
  /\ raced = FALSE

\* The method's SELECT and the decision it takes; a call with nothing to
\* write is over.
Begin(c, n, r) ==
  LET m == methods[n].pg
      p == Plan(m, db, r)
      loaded == {s \in db : s.pk = p.pk /\ p.do \in {"update", "delete"}}
      writes == \/ p.do \in {"insert", "delete"}
                \/ p.do = "update" /\ \E s \in loaded : s.col # p.col \/ s.def # p.def
  IN /\ ses[c] = Idle
     /\ calls < MaxCalls
     /\ Locks(m, db, r) \intersect LockedByOthers(c) = {}
     /\ calls' = calls + 1
     /\ IF writes
        THEN /\ ses' = [ses EXCEPT ![c] =
                  [call |-> n, pk |-> calls + 1, arg |-> r, plan |-> p, loaded |-> loaded,
                   locks |-> Locks(m, db, r), alone |-> TRUE]]
             /\ reply' = Silent
        ELSE /\ reply' = Reply(n, r, p.error, p.value)
             /\ UNCHANGED ses
     /\ UNCHANGED <<scenario, db, raced>>

\* The rows after the flush, if the database accepts it.
Flushed(call) ==
  LET p == call.plan
  IN CASE p.do = "insert" -> db \union {Row(call.pk, p.def)}
       [] p.do = "delete" -> {s \in db : s.pk # p.pk}
       [] p.do = "update" ->
            {IF s.pk = p.pk THEN Updated(s, CHOOSE l \in call.loaded : TRUE, p) ELSE s :
               s \in db}

Refusal(call) ==
  IF call.plan.do = "update" /\ ~\E s \in db : s.pk = call.plan.pk THEN "StaleDataError"
  ELSE IF \/ call.plan.do = "insert" /\ ~Resolves(table, call.plan.def)
          \/ ~UniqueHolds(table, Flushed(call))
       THEN "IntegrityError"
       ELSE "none"

\* The flush and the commit: the other calls in flight are no longer alone.
Commit(c) ==
  /\ ses[c] # Idle
  /\ <<"row", ses[c].plan.pk>> \notin LockedByOthers(c) \/ ses[c].plan.do = "insert"
  /\ LET call == ses[c]
         error == Refusal(call)
         others == [d \in Clients |-> IF ses[d] = Idle THEN Idle
                                       ELSE [ses[d] EXCEPT !.alone = FALSE]]
     IN IF error = "none"
        THEN /\ db' = Flushed(call)
             /\ ses' = [others EXCEPT ![c] = Idle]
             /\ raced' = (raced \/ ~call.alone)
             /\ reply' = Reply(call.call, call.arg, "none", call.plan.value)
        ELSE /\ reply' = Reply(call.call, call.arg, error, {})
             /\ ses' = [ses EXCEPT ![c] = Idle]
             /\ UNCHANGED <<db, raced>>
  /\ UNCHANGED <<scenario, calls>>

\* The caller is cancelled or its connection is lost: the transaction rolls
\* back and its locks go.
Rollback(c) ==
  /\ ses[c] # Idle
  /\ ses' = [ses EXCEPT ![c] = Idle]
  /\ reply' = Silent
  /\ UNCHANGED <<scenario, db, calls, raced>>

Next ==
  \E c \in Clients :
    \/ \E n \in DOMAIN methods : \E r \in Arguments(methods[n].pg) : Begin(c, n, r)
    \/ Commit(c)
    \/ Rollback(c)

Spec == Init /\ [][Next]_vars

-----------------------------------------------------------------------------
(* Properties.                                                             *)

Definitions(rows) == {s.def : s \in rows}

\* What MemoryStore answers to the same call, and the records it then holds.
MemRows(defs) == {Row(0, d) : d \in defs}
MemReply(n, defs, r) == Plan(methods[n].mem, MemRows(defs), r)
MemAfter(n, defs, r) ==
  LET m == methods[n].mem
      p == MemReply(n, defs, r)
      rest == {d \in defs : ~Agree(d, r, m.key)}
  IN CASE p.do \in {"return", "raise"} -> defs
       [] p.do = "insert" -> defs \union {p.def}
       [] p.do = "update" -> rest \union {p.def}
       [] p.do = "delete" -> rest

\* The methods the two implementations disagree on:
\*   save_capability_result   only PostgresStore wants the run to exist
\*   save_benchmark_run,      PostgresStore compares a part of the record when
\*   save_experience_query    it is put again, MemoryStore all of it
\*   save_graph_revision      only PostgresStore wants the first to be number 1
Divergent ==
  {"save_capability_result", "save_benchmark_run", "save_experience_query",
   "save_graph_revision"}

\* Every call of PostgresStore that the database does not abort answers what
\* MemoryStore would answer in one step at the moment it ends, and leaves the
\* records MemoryStore would leave, however the calls interleave.  (The put,
\* upsert, compare-and-set, hand-out and delete methods of PostgresStore
\* against those of MemoryStore; the locks they take are what makes it true.)
Linearizes ==
  [][(/\ reply' # Silent
      /\ reply'.call \notin Divergent
      /\ reply'.error \notin {"IntegrityError", "StaleDataError"}) =>
       LET n == reply'.call
           p == MemReply(n, Definitions(db), reply'.arg)
       IN /\ reply'.error = p.error
          /\ reply'.value = p.value
          /\ Definitions(db') = MemAfter(n, Definitions(db), reply'.arg)]_vars

V04Contract(t) == "content_hash" \in Fields(t)

\* The guards of the v0.4 contract tables mirror their constraints: a put that
\* no other call overtook is never refused by a uniqueness constraint, and one
\* the database refuses for a dangling reference MemoryStore refuses too.
GuardsMirrorConstraints ==
  [][\A c \in Clients :
       (/\ V04Contract(table)
        /\ ses[c] # Idle /\ ses'[c] = Idle
        /\ ses[c].alone
        /\ reply' # Silent /\ reply'.error = "IntegrityError") =>
         /\ ~Resolves(table, reply'.arg)
         /\ MemReply(reply'.call, Definitions(db), reply'.arg).error = "ValueError"]_vars

\* As long as no two calls have overtaken each other, a query of PostgresStore,
\* which filters on columns, returns what the same query of MemoryStore, which
\* filters on the records, returns: every upsert assigns every column that a
\* query can depend on.
QueriesAgree ==
  ~raced =>
    \A n \in DOMAIN queries : \A v \in args :
      Selected(queries[n].pg, db, v) = Selected(queries[n].mem, MemRows(Definitions(db)), v)
=============================================================================
