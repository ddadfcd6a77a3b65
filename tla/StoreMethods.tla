----------------------------- MODULE StoreMethods -----------------------------
(***************************************************************************)
(* What the methods of the two stores have in common.                      *)
(*                                                                         *)
(* A writing method of either store reads at most one row, decides, and    *)
(* then returns, raises, or writes one row.  The differences between two   *)
(* methods are data: a method is a record that names                       *)
(*   table     the table it works on                                       *)
(*   key       the columns it looks the stored row up by                   *)
(*   requires  the references it resolves first (KeyError when absent)     *)
(*   found     what it does when the row is there                          *)
(*   missing   what it does when it is not                                 *)
(*   compare   the fields that must be equal for a repeated put to be one  *)
(*   fixed     the fields a replacement may not change (ValueError)        *)
(*   keeps     the fields a replacement takes over from the stored record  *)
(*   writes    the columns a replacement assigns                           *)
(*   on, from  the field a count, a revision or a switch works on, the     *)
(*             values a switch may leave; for a hand-out, the field that   *)
(*             says the row has expired                                    *)
(*   bump      the field whose change increments the record's revision     *)
(*   parents   references resolved before an insert (KeyError)             *)
(*   needs     references resolved before an insert (ValueError)           *)
(*   distinct  column sets checked for a clash before an insert            *)
(*             (ValueError)                                                *)
(*   chain     a sequence number an insert must continue (ValueError)      *)
(*   lock      "row" for SELECT ... FOR UPDATE, or the reference whose row *)
(*             it locks, or "none"                                         *)
(* and Plan is the one interpreter of such records.                        *)
(*                                                                         *)
(* A row is [pk, col, def]: the primary key, the promoted columns and the  *)
(* stored record.  The rows of MemoryStore have col = def.                 *)
(***************************************************************************)
EXTENDS StoreSchema, Naturals, FiniteSets

\* An identifier nobody has stored a row under (or no identifier at all), the
\* value a switch leaves behind (decided, revoked), and a time in the past.
Absent == 2
Switched == 2
Expired == 2

Method(table, key, found, missing) ==
  [table |-> table, key |-> key, found |-> found, missing |-> missing,
   requires |-> {}, parents |-> {}, needs |-> {}, compare |-> Fields(table),
   fixed |-> {}, keeps |-> {}, writes |-> Fields(table), on |-> "none",
   from |-> {}, bump |-> "none", distinct |-> {}, chain |-> {}, lock |-> "none"]

\* session.add, or list.append, with no lookup at all.
Insert(table) == Method(table, {}, "none", "insert")

\* The immutable put: the same record again is a no-op, another is refused.
PutOnce(table, key) == Method(table, key, "same", "insert")

\* Insert or overwrite.
Upsert(table, key, writes) ==
  [Method(table, key, "replace", "insert") EXCEPT !.writes = writes]

\* Delete the row under the key and hand it out unless it has expired.
Consume(table, key) ==
  [Method(table, key, "delete", "None") EXCEPT !.on = "expires_at", !.lock = "row"]

\* A reading method: the rows whose columns "by" have the values asked for.
Select(table, by) == [table |-> table, by |-> by]

-----------------------------------------------------------------------------
(* What a method decides from the rows it sees.                            *)

Agree(a, b, cols) == \A c \in cols : a[c] = b[c]

Return(value) == [do |-> "return", error |-> "none", value |-> value, pk |-> 0,
                  col |-> <<>>, def |-> <<>>]
Raise(error) == [Return({}) EXCEPT !.do = "raise", !.error = error]
WriteRow(do, pk, col, def, value) ==
  [do |-> do, error |-> "none", value |-> value, pk |-> pk, col |-> col, def |-> def]

Stored(m, rows, r) == {s \in rows : m.found # "none" /\ Agree(s.col, r, m.key)}

\* The record a replacement stores: the argument, with the identity it keeps
\* and, for a method that counts revisions, the revision.
Replacement(m, s, r) ==
  [c \in DOMAIN r |->
     IF m.bump # "none" /\ c = "body"
     THEN s.def.body + (IF r[m.bump] = s.def[m.bump] THEN 0 ELSE 1)
     ELSE IF c \in m.keeps THEN s.def[c] ELSE r[c]]

\* The row after the columns "writes" and the definition were assigned.
Rewrite(m, s, def) ==
  WriteRow("update", s.pk,
           [c \in DOMAIN s.col |-> IF c \in m.writes THEN def[c] ELSE s.col[c]],
           def, {def})

WhenFound(m, s, r) ==
  CASE m.found = "same" ->
         IF Agree(s.def, r, m.compare) THEN Return({s.def}) ELSE Raise("ValueError")
    [] m.found = "stored" -> Return({s.def})
    [] m.found = "refuse" -> Raise("ValueError")
    [] m.found = "replace" ->
         IF Agree(s.def, r, m.fixed) THEN Rewrite(m, s, Replacement(m, s, r))
                                     ELSE Raise("ValueError")
    [] m.found = "revise" ->
         IF s.def[m.on] = r[m.on] /\ Agree(s.def, r, m.fixed)
         THEN Rewrite(m, s, [Replacement(m, s, r) EXCEPT ![m.on] = @ + 1])
         ELSE Raise("ValueError")
    [] m.found = "count" ->
         Rewrite(m, s, [Replacement(m, s, r) EXCEPT ![m.on] = s.def[m.on] + 1])
    [] m.found = "switch" ->
         IF s.def[m.on] \in m.from
         THEN Rewrite(m, s, [s.def EXCEPT ![m.on] = Switched])
         ELSE Raise("ValueError")
    [] m.found = "delete" ->
         WriteRow("delete", s.pk, s.col, s.def,
                  IF s.def[m.on] = Expired THEN {} ELSE {s.def})
    [] m.found = "drop" -> WriteRow("delete", s.pk, s.col, s.def, {})

\* The next number of the sequence an insert belongs to, and the predecessor
\* every entry but the first must name.
Continues(k, rows, r) ==
  LET peers == {s.col[k.on] : s \in {t \in rows : Agree(t.col, r, k.by)}}
      head == IF peers = {} THEN 0 ELSE CHOOSE n \in peers : \A p \in peers : p <= n
  IN (k.first \/ peers # {}) =>
       /\ r[k.on] = head + 1
       /\ r[k.on] > 1 /\ k.prior \in DOMAIN r => r[k.prior] # Absent

WhenMissing(m, rows, r) ==
  CASE m.missing = "KeyError" -> Raise("KeyError")
    [] m.missing = "None" -> Return({})
    [] m.missing = "first" ->
         IF r[m.on] # 1 THEN Raise("ValueError")
         ELSE LET first == [r EXCEPT ![m.on] = 2]
              IN WriteRow("insert", 0, first, first, {first})
    [] m.missing = "insert" ->
         IF \E c \in m.parents : r[c] = Absent THEN Raise("KeyError")
         ELSE IF \/ \E u \in m.distinct : \E s \in rows : Agree(s.col, r, u)
                 \/ \E k \in m.chain : ~Continues(k, rows, r)
                 \/ \E c \in m.needs : r[c] = Absent
              THEN Raise("ValueError")
              ELSE WriteRow("insert", 0, r, r, {r})

Plan(m, rows, r) ==
  IF \E c \in m.requires : r[c] = Absent THEN Raise("KeyError")
  ELSE LET found == Stored(m, rows, r)
       IN IF found # {} THEN WhenFound(m, CHOOSE s \in found : TRUE, r)
                        ELSE WhenMissing(m, rows, r)

\* The rows a reading method returns the records of.
Selected(q, rows, v) == {s.def : s \in {t \in rows : Agree(t.col, v, q.by)}}
=============================================================================
