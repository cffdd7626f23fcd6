--------------------------- MODULE MCSqliteLedger ---------------------------
(***************************************************************************)
(* An instance of the SQLite ledger for TLC: two ledgers of one process    *)
(* and one of another on one file.  The second call of a ledger is made    *)
(* while the first is queued; b1 repeats a1 without its time, c1 uses its  *)
(* id for another subject.                                                 *)
(***************************************************************************)
EXTENDS SqliteLedger, TLC

CONSTANTS a1, a2, b1, c1, c2, la, lb, lc, p, q, s1, s2

Event(id, subject, time, expected) ==
  [id |-> id, subject |-> subject, data |-> "data", time |-> time, expected |-> expected]

Inputs ==
  a1 :> Event("e1", s1, "t1", 0) @@ a2 :> Event("e2", s1, NoTime, 2) @@
  b1 :> Event("e1", s1, NoTime, 1) @@
  c1 :> Event("e1", s2, "t2", 0) @@ c2 :> Event("e3", s1, NoTime, 0)

LedgerOfCall == a1 :> la @@ a2 :> la @@ b1 :> lb @@ c1 :> lc @@ c2 :> lc
ProcessOfLedger == la :> p @@ lb :> p @@ lc :> q
Order == a1 :> {} @@ a2 :> {a1} @@ b1 :> {} @@ c1 :> {} @@ c2 :> {c1}
=============================================================================
