------------------------ MODULE MCTransactionEngine ------------------------
(***************************************************************************)
(* Instances of the transaction engine for TLC: one per kind of ledger,    *)
(* and what the recovery of an effect definition may throw.                *)
(***************************************************************************)
EXTENDS TransactionEngineProperties

\* InMemoryEventLedger: no append of the engine's fails.
InMemoryFaults == {}

\* SQLiteEventLedger: an error of the database, rolled back.
SQLiteFaults == {[error |-> "unclassified", durable |-> FALSE]}

\* PostgresEventLedger: every error is a LEDGER_CONFLICT, and the
\* acknowledgement of a commit can be lost.
PostgresFaults == [error : {"LEDGER_CONFLICT"}, durable : BOOLEAN]

\* Every ledger a caller may pass, EventLedger being a public interface.
AnyFaults == LedgerFault

\* A defined effect that classifies a failed precondition, or does not.
Conditional   == AnyRecoveryError
Unconditional == AnyRecoveryError \ {"COMPENSATION_BLOCKED"}
=============================================================================
