------------------------------- MODULE AppendOnly -------------------------------
(***************************************************************************)
(* What a ledger of sealed rows promises its readers, whatever writes it: a  *)
(* row, once written, is there for good and never reads differently, and no  *)
(* two rows carry one identity (persistence/store.py, the v0.4 tables).      *)
(***************************************************************************)
EXTENDS Naturals, Sequences

VARIABLE log          \* the rows in the order they were written; row.key is its identity

Init == log = <<>>

\* One row joins the end, under an identity the ledger does not hold yet.
Write ==
    /\ Len(log') = Len(log) + 1
    /\ \E row \in {log'[Len(log) + 1]} :
           log' = Append(log, row) /\ \A i \in DOMAIN log : log[i].key # row.key

Spec == Init /\ [][Write]_log

================================================================================
