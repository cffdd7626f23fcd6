-------------------------- MODULE MCPostgresLedger --------------------------
(***************************************************************************)
(* An instance of the PostgreSQL ledger for TLC: two writers with two      *)
(* calls each.  a1 and a2 are events of one subject, b1 repeats the id of  *)
(* a1 for another subject, b2 expects to be the first event of the subject *)
(* of a1.  The names hash such that b1 and a2 can wait for each other.     *)
(***************************************************************************)
EXTENDS PostgresLedgerProperties, TLC

CONSTANTS a1, a2, b1, b2, s1, s2, i1, i2, i3, k1, k2, r1

Event(id, subject, time, expected) ==
  [id |-> id, subject |-> subject, data |-> "data", time |-> time, expected |-> expected]

Inputs ==
  a1 :> Event(i1, s1, "t1", 0) @@ a2 :> Event(i2, s1, NoTime, 0) @@
  b1 :> Event(i1, s2, NoTime, 0) @@ b2 :> Event(i3, s1, "t1", 1)

WriterOrder == a1 :> {} @@ a2 :> {a1} @@ b1 :> {} @@ b2 :> {b1}
EventKeys   == i1 :> k2 @@ i2 :> k1 @@ i3 :> k1
SubjectKeys == s1 :> k2 @@ s2 :> k1
=============================================================================
