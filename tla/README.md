# ZeroGate, specified

TLA+ modules, TLC configurations and machine-checked proofs about ZeroGate, a library that runs one
side effect against a provider as a transaction: preview, approval, dispatch, reconciliation,
verification, compensation, signed receipt. Paths below are relative to the repository.

To check a run: `tlc -config <Run>.cfg <Module>.tla`. To check the proofs: `tlapm <Module>Proofs.tla`.
`PROJECT.json` lists runs, mutants, findings, hazards, theorems, and the source lines each definition
stands for.

## 1. Inventory

| Component | Code | State | Operations | Made correct by |
|---|---|---|---|---|
| Transaction engine | `src/core/transaction-engine.ts` | locals of one `run()` call: two state machines, observations, finality, refusal, manual recovery, dispatch count | `run`, `finishResult`, `appendEvent` | at most one dispatch, journaled first; no verdict without evidence; every ending explained; a ledger that replays to the receipt |
| State machine | `src/core/state-machine.ts` | none (two tables) | `assertTransactionTransition`, `assertActionTransition` | admits every path the engine takes and no other |
| Effect definition | `src/core/define-effect.ts` | none between calls; the preview it returns | `evaluatePreflight`, `assertFresh`, `dispatch`, `reconcile`, `verify`, `planRecovery`, `executeRecovery`, `reconcileRecovery`, `verifyRecovery` | compares what the effect owns and nothing else; attributes by evidence, never by state |
| Approval authority | `src/core/approval.ts` | keys, used nonces (in memory) | `issue`, `consume` | consumed once per process life, before expiry, by the exact action set; authorities with one key know each other's approvals |
| In-memory ledger | `src/core/event-ledger.ts` | events, fingerprints | `append`, `list`, `chainRoot`, `verify` | an event id is stored once; a retry is recognised |
| SQLite ledger | `src/core/sqlite-ledger.ts` | one table; a queue of appends per ledger | constructor, `append`, `close`, reads | the file always opens again; the queue never stops |
| PostgreSQL ledger | `src/postgres/event-ledger.ts`, `migrations/` | `ledger_events`, `ledger_chain_heads`, advisory locks | `append` with its retry, `chainRoot`, `verify` | contiguous chain per subject under concurrent processes and lost connections; readers see one moment |
| Replay | `src/core/event-ledger.ts` (`replayProjection`) | none | `replayProjection` | accepts exactly the histories whose moves follow one another |
| Receipts | `src/core/receipt.ts`, `src/core/canonical-json.ts` | signing key | `sign`, `verify` | covers the events of the transaction |
| Key store | `src/core/key-store.ts` | two files per key | `getOrCreateKeyPair` | one key per name, whoever asks first or dies in between |
| Secret guard | `src/core/secret-guard.ts` | none | `findCredentialShape` | pure |
| Effect test harness | `src/testing/index.ts` | the results of one suite, the provider the author supplies | `verifyEffect` | certifies sound definitions and no others; always reports |
| Command line | `src/cli/main.ts` | none of its own | `keys new` writes the key files; `verify`, `inspect`, `contract digest` read and print | `keys new` does not disturb who has the key |
| Worked example | `examples/rest-resource/` | one document, the record of applied idempotency keys, a fault mode | HTTP `PATCH`, `GET`, out-of-band `edit` | a key applies once; `if-match` is atomic |

How they interact: the engine awaits the adapter (built by `defineEffect` from an effect), the ledger and
the caller's `finalize`; the effect awaits HTTP answers of the provider. Several runs share a provider and
a ledger and nothing else; a person edits the provider at any time. There is no background work: nothing
resumes an interrupted run. Processes meet in three places besides the provider: the tables of PostgreSQL,
the SQLite file, and the directory of the key store.

Hard behaviours: the answer to a request that is lost, late, or never comes; state that moves between
preview, approval, freshness check, write, verification, recovery plan and compensation; an append that
fails anywhere, and one that is durable although it failed; an adapter call that throws where nobody
catches; a request that is handled after its run has returned; a connection to the database that is lost
while its backend goes on to commit; a thread that blocks itself on a lock of its own process; a process that
dies between two system calls; nonces that only one memory knows. `PROJECT.json` lists them as hazards, each
at its line.

## 2. Modules

| Module | Models | |
|---|---|---|
| `StateMachine` | both transition tables, the terminal set | constants only |
| `TransactionEngine` | `run()` and `finishResult()` | 13 variables, one action per answer of the outside world |
| `EventReplay` | `replayProjection` | a recursive function over events |
| `TransactionEngineProperties` | what the engine promises | type invariant, safety, liveness |
| `MCTransactionEngine` | instances of it: which ledger, which errors of a recovery | |
| `DocumentService` | the example's provider and the HTTP connections to it | |
| `DefineEffect` | the decisions of `defineEffect` as operators on provider states | |
| `VerifiedEffect` | what ZeroGate promises, without its protocol | the abstract specification |
| `PublishTransaction` | engine + effect + provider + people who edit | composes the modules above |
| `LedgerEvents` | events, hashes and the chain, common to all ledgers | operators only |
| `AppendOnlyLedger` | what the engine takes a ledger for | the abstract specification of both databases |
| `PostgresLedger`, `PostgresLedgerProperties` | append statement by statement, readers, locks, lost backends | refines `AppendOnlyLedger` |
| `SqliteLedger` | queue and transaction, several ledgers and processes on one file | refines `AppendOnlyLedger` |
| `KeyStore` | the key files, one system call at a time, and `keys new` | |
| `ApprovalAuthority` | issue and consume in the processes of `KeyStore` | extends it |
| `VerifyEffect` | the fault suite over a family of definitions | uses `DefineEffect` |
| `MC...` | an instance of each for TLC: inputs, orders, symmetry sets | |
| `TransactionEngineProofs`, `TransitionProofs` | theorems about the engine, the second on the first | |
| `DocumentServiceProofs`, `ApprovalAuthorityProofs`, `PostgresLedgerProofs`, `SqliteLedgerProofs`, `VerifyEffectProofs` | theorems about one component each | |
| `PublishTransactionProofs` | theorems about engine, effect and service together, from those of the parts | |

### TransactionEngine

`run()` is sequential code between awaits. `at[t]` is the await a run has reached, or reaches once the
journal writes queued in `todo[t]` are made. A write is one `appendEvent`; for a state change it is
`transitionTransaction` or `transitionAction`: assert the move, append, assign. An action handles one
answer of the adapter and queues what the code writes before its next await of the adapter, so every
point at which an append can fail is a state of the model. `Raise` sends an error of the journal where
JavaScript sends it: the `try` block around the dispatch covers the journaling of its answer
(`transaction-engine.ts:695-717`), likewise for the recovery, and everywhere else `run()` rejects.

Local variables that the code assigns between two appends are assigned by the action that queues them.
The difference would be visible only if an append throws in between, and then the locals are lost with
the run; the one catch clause that reads them afterwards finds them as the model has them.

A dispatch is two steps, the call and its answer, because the request is on its way between them.
A crash of the process is a behaviour that stops taking steps of that run: nothing resumes a run, so
every safety property holds of what a crash leaves behind.

Left out: payloads, hashes, timestamps, notes, wording. An instruction to a person is modelled by what it
claims ("never reached the provider", "forward effect still in place", ...), because properties are about
the claims.

### DocumentService and the connections

`replies[k]` is what the client of the latest connection for key `k` sees; `requests` are those on their
way. A request may be handled after its client gave up. The handler reads the body before it looks at any
state (`service.ts:219`), so it is one step. The fault mode, which a test sets through an endpoint at any
moment and which a handler consumes, is a nondeterministic choice at each request: for every sequence of
modes there is a behaviour.

### DefineEffect and PublishTransaction

A provider state is `[version, fields]`. A hash stands for the value it is a hash of. The engine leaves
each answer of the adapter open; `PublishTransaction` conjoins every engine action with the decision the
definition takes on the state of the provider at that moment: `Verify` is `Engine!Verified` where
`verifyForward` holds of the document and `Engine!VerificationFailed` where it does not. Reads may fail
(`Engine!AdapterThrows`), a look-up may bring no usable answer (`Engine!Unresolved`).

Journal writes are taken before any other step (`Quiet`). A write touches its own run and the events of
its own transaction and nothing a step of another run or of the service reads, so it commutes with all of
them, and the order chosen loses no behaviour of the properties, which do not relate journals of
different runs. Ledger faults are left to the engine's own runs (`LedgerFaults <- {}`).

### VerifiedEffect

One effect, one verdict. `Apply` and `Undo` happen while the verdict is open or "unresolved"; a verdict
"nothing", "committed" or "compensated" must be true when given and nothing may happen after it.
`PublishTransaction` refines it: the effect of `t` is what the provider has recorded under the keys of
`t`, its verdict is the receipt's final status (and `effectMayHaveCommitted` for a manual recovery).

### The ledgers

`LedgerEvents` takes a hash for the value it is a hash of: the hash of an event is the list of the events up
to it, which is what the code's hash commits to. `AppendOnlyLedger` is the promise: one growing list per
subject, an id stored once, answers that agree with what is stored, and an answer "failed" that leaves
open whether the event is stored, or will be. An event that lands late must not land behind a later event
of the same writer and subject. Both databases refine it, with their tables as the list.

`PostgresLedger` has one action per statement of `append()` (`event-ledger.ts:107-214`), because other
processes run between two of them. A backend is named by call, round of `appendEvent` and attempt of
`append`, one transaction each. READ COMMITTED is modelled by letting each statement read what is committed
when it runs; a row that a transaction has written is its `draft` until it commits, and the unique indexes
are checked against committed rows: where two drafts could clash, the second statement would wait for the
first transaction, and the advisory locks already made it wait. `ConnectionLost` puts the backend into
`abandoned`: it keeps its locks, and if it was told to commit it commits (`BackendCommits`) or aborts
(`BackendAborts`) at any later moment, or never. An error has a code or none, which decides between the
retry of `append` and that of `appendEvent`; both are in `Raise`. A reader of one subject runs under its
lock, a reader of all in one REPEATABLE READ snapshot.

`SqliteLedger` keeps what JavaScript and SQLite make of `append()`: a queue per ledger behind one promise,
`BEGIN IMMEDIATE` that blocks the thread (no other ledger of that process runs, `Blocked`), the decision of
the in-memory rules on a snapshot of the whole file, `INSERT OR IGNORE` and `COMMIT` after an await, a
rollback on any error, and a crash that forgets queue and transaction.

### KeyStore and ApprovalAuthority

A file is absent, empty or holds a key; creation with `wx` and the write are two steps, so are the truncation
and the write of the other writes. `ApprovalAuthority` extends `KeyStore`: a process has an authority when
its store has returned, and loses it, with the nonces it remembers, when it restarts. The clock is the
parameter `now` of each call: nothing says that it does not go back, or that two processes agree. What a
caller presents is the approval or one with changed claims. Replay protection is per process by
documentation (`docs/README.md:309`), so the property is `ConsumedOncePerLife` and not more.

### VerifyEffect

The definition under test is any member of a family: how it finds evidence, whether it sends the id, what
it leaves behind, how it compensates, whether it canonicalises and observes stably. `Run` is one run of the
engine at a provider nobody else uses, so it is a function; its decisions are the operators of
`DefineEffect`. Every run makes an operation id of its own (`Anew`), so one that starts where another ended
finds the other's write under an id that is not its. `setup()`, a scenario or `cleanup()` may throw.

## 3. Runs

| Run | Bounds | Shows | States |
|---|---|---|---|
| `EngineAnyLedger` | 1 run; 4 ways an append may fail; all errors | the eight safety properties of the engine over any ledger, and that a run settles | 5,148 |
| `EngineSQLite` | 1 run; unclassified, rolled back; no `COMPENSATION_BLOCKED` | the properties that need a ledger which keeps failures apart from answers | 2,645 |
| `DocumentService` | 2 keys, 1 field of 2 values and the empty patch, 3 versions, 2 requests on their way | idempotency, true answers | 217,608 |
| `PublishOne` | 1 transaction, 2 fields of 2 values, edits up to version 4 | instructions are true; a compensation writes its diff only; settles | 142,704 |
| `PublishTwo` | 2 transactions, 1 field of 2 values, edits up to version 2 | refinement of `VerifiedEffect`; writes land on the approved state | 1,252,906 |
| `PostgresLedger` | 2 writers of 2 calls, 1 reader; 2 attempts of 2 rounds; 1 fault; lock names that collide | chains, ids, readers; refinement of `AppendOnlyLedger`; every append is answered | 262,121 |
| `SqliteLedger` | 3 ledgers in 2 processes, 5 calls, 1 fault, 1 crash | the file opens; refinement of `AppendOnlyLedger`; every append is answered | 152,119 |
| `SharedKey` | 2 applications and `keys new`, 3 keys, 1 restart each; 2 nonces, 2 bindings, 2 times, lifetimes 0 and 1, 3 consumed | one key per name; approvals are shared, used once per life, as issued | 1,459,452 |
| `VerifyEffect` | 384 definitions x 24 ways to call the suite, at most 1 throw | certified is sound, sound is certified, everything is reported | 2,381,808 |

Three further runs each show one disagreement (section 5).

Bounds. Runs of the engine share no variable, so one run shows what any number would; the theorems say it
for any set. `MaxVersion` bounds edits, not the transactions' writes: in `PublishOne` a person can edit
three times, which is once more than the windows between preview, dispatch, plan and compensation need for
an edit to be made and reverted. Two values per field suffice to tell "as before", "as published" and, by
the version, "changed and changed back". Two fields tell the fields of the diff from the others. Two
transactions with one edit reach every order of two previews, writes and compensations.
`MaxInFlight` bounds only the free clients of `DocumentService`; `PublishTransaction` sends at most two
requests per transaction.
In `PostgresLedger` the four calls are chosen for what two appends can do to one another: same subject,
same id with another subject, an expected sequence, no time of their own, and hashes of names such that
b1 and a2 wait for each other. One reader suffices because readers do not write; two attempts in two rounds
pass through every branch of `Raise`. In `SqliteLedger` two ledgers of one process can block each other and
one of another process can take the lock in between; the second call of a queue meets the failure of the
first. In `SharedKey` three processes generate at most one key each before they restart, a second one after;
times 0 and 1 with lifetimes 0 and 1 give expiry before, at and after the instant it is consumed, under a
clock that goes either way; three consumptions are one more than the nonces. The theorems
say the same for any bounds. In `VerifyEffect` the family is spelled out whole; the nine scenarios are
independent but for the provider, so one throw shows what several would. Deadlock is not checked where every run of the instance may have returned.
`PublishOne` uses no symmetry because it checks liveness.

Fairness. `RunsSettle` assumes that a started run goes on: an adapter promise settles, a ledger call
returns or throws (`WF` on the steps of a run). In `PublishTransaction` the adapter is spelled out, and
fairness is assumed only of the run itself and of the HTTP client giving up on a silent connection
(`fetch` has a timeout); the provider may never handle a request and people may edit forever. In the ledgers
`AppendsSettle` assumes weak fairness of all steps of calls together: while some call can go on, one does.
That is what `statement_timeout`, `lock_timeout` and `busy_timeout` give (the timeout is itself a step);
an abandoned backend is assumed nothing of, and may hold its locks for ever.

Mutants. Each property of each passing run is paired with a mutated definition, written beside the
original with the comment "Mutant:", under which the run must fail.

## 4. Proofs

For every set of runs, every `LedgerFaults \subseteq LedgerFault` and every
`RecoveryErrors \subseteq AnyRecoveryError`:

- `TransactionEngineProofs!TypeCorrect`: `Spec => []TypeOK`. `TypeOK` is inductive; the lemmas follow the
  groups of `Next` (admission, forward, recovery, journal) with one step per action.
- `TransactionEngineProofs!DispatchBoundary`: `Spec => []DispatchIsJournaled`, at most one dispatch, and
  only after the approval, the state DISPATCHING and the announcement are in the ledger.
  The property says nothing of the writes still queued, so it is not inductive. `BoundaryInv` adds, for
  each run: the writes queued at "fresh" and "dispatch", the only two points on the last stretch, are a
  suffix of the ones the code makes, and what is missing of them is logged; nowhere else is a write of
  the boundary queued (`Approaching`); nothing left before the boundary and one request after it (`Sent`);
  the order of the logged events (`Ordered`). All but five kinds of steps are `Ordinary`: they queue
  harmless writes and do not lead to the boundary; the five are treated one by one. A failed append leads
  away from the boundary, whether it was durable or not.
- In the same module `RefusedNeverSent`, `CommittedOnEvidence`, `CompensatedOnEvidence`, `UnknownStaysUnknown`,
  `PersonIsAsked`, the five properties of what a receipt says. A verdict is decided some writes before it is
  reached, and on evidence of steps long past. `OutcomeInv` follows the terminal states a run has reached or
  has queued (`Ends`): there are none at a point where nothing is decided (`Undecided`); where there is one,
  it says what had happened when it was queued (`Refusing`, `Unknowing`, `Committing`, `Compensating`,
  `Asking`); at every point before, what has happened by then (`Progress`); and after the terminal event only
  events are queued, so the receipt copies what no longer changes (`Closing`). A step either goes on to an
  undecided point and owes only its progress (`GoesOn`), or decides a refusal (`Refuses`), a call for a
  person (`AsksAPerson`), a commit or a compensation; a write only takes from the queue (`AppendEventTakes`);
  a throw drops it (`ThrowKeeps`).
- In the same module `TrueLedger`: the ledger names no ending that is not true. The five properties above are
  about receipts; a run that throws has none, and an append that fails durably leaves a state in the ledger
  the run never assigned. `TestimonyInv` adds to `OutcomeInv` that as long as a run goes on, a terminal state
  in its ledger is the one the transaction is in; only the write that made `run()` throw may be stored and not
  assigned, and it was queued (`StoringReaches`), so `OutcomeInv` speaks of it as well (`EndingsHold`).
- `TransitionProofs!LawfulRuns`: if `"COMPENSATION_BLOCKED" \notin RecoveryErrors`, no run is stopped by its
  own transition tables. The hypothesis is the one the code needs: with it dropped the property is false, and
  `EngineBlockedCompensation` shows how. A handler queues writes long before they are made, so the invariant
  `LegalInv` is about lists: the states of both machines are known at every point (`Stations`), each write of
  the queue is allowed in the state it will find (`Lawful`), and the queue leads to the states of the point
  the run is on its way to (`Reaches`, `Arrives`). A write that fails drops the rest of its queue; the two
  points whose `catch` clause goes on from there (`Reporting`) are treated apart.
- `TransitionProofs!HonestNothingCommitted` and `HonestStillInPlace`, for ledgers whose errors have no code
  (`UnclassifiedFaults`), as those of SQLite; `EngineLostLedgerAck` shows the first false over PostgreSQL.
  `HonestInv` says where a run can be once the provider has acknowledged a write, and that no rejection is
  queued there; that no illegal transition is raised inside the `try` blocks comes from `LegalInv`.
- `TransitionProofs!ReceiptsMatch`: `RolledBack => (Spec => []ReceiptMatchesLedger)`, where `RolledBack` says that
  an append that throws has stored nothing, which the rollback of SQLite and the in-memory ledger give; a
  durable failure breaks the property, as section 5 describes. `MatchInv` says that the events replay
  to the two states the run is in (`Replays`), that the action has moved once the preview is done
  (`Undertaken`), and that the terminal event is the last one when the receipt is signed and `receipt.issued`
  the only one after it (`Sealed`). Each event stores the state it leaves, so it goes on from the one the replay has come to
  (`ReplayGoesOn`); that a list replays to the state of its last events whatever its length needs induction
  over the list, by `Smallest` and `Induction` (below). `MatchInv` was model-checked over the faults of a ledger that
  rolls back before it was proved.

For any processes, keys, nonces, bindings, clocks and lifetimes:

- `ApprovalAuthorityProofs`: `OneKey`, `SharedAuthority`, `OncePerLife`, `AsIssued`, `AuthorityTypeCorrect`.
  The invariant `AuthorityInv` says who holds a key in memory (from the creation or the read of the file
  until a restart) and that the file is empty or holds that very key, because `wx` let exactly one process
  create it and every other writer writes what it has read or created; that approvals were signed with it;
  and that a nonce consumed in the present life of a process is remembered by it.

For any subjects, ids, calls, orders, readers, hashes of the lock names, attempts, rounds and faults:

- `PostgresLedgerProofs`: `ContiguousChains`, `StoredOnce`, `WholeChains`. The properties speak of committed
  rows, and none is inductive. `LedgerInv` adds ownership: no two backends have one name, a lost one
  included (`NamesInv`: a call never goes back to a name it has had); from the lookup on a call owns the
  locks of its event and its subject, and so does a lost backend that may still commit, and a reader of one
  subject (`OwnersInv`); what an owner has read is therefore still so, and the row it has drafted is the
  next of its subject and of an id that is not stored (`IsNext`). A step either takes free locks and
  writes nothing (`CallStep`, `ReaderKeeps`), or leaves its transaction (`LeaveStep`), or writes the next
  row as the owner (`StoreStep`), which disturbs no other owner because owners of one event or subject are
  one (`OwnersAreAlone`). That hashes collide costs waiting, never safety.
- `PostgresLedgerProofs!LedgerTypes`: `Spec => []TypeOK`, with the time a call has once it is past its lookup.
- `PostgresLedgerProofs!AppendOnly`: `Spec => ImplementsAppendOnlyLedger`. The invariant `Refines` adds to
  `LedgerInv` and the types: the rows of a subject are numbered from 1 to its head (`Numbered`), so that they
  are a list and the next row is appended to it (`StoreAppends`); what a call knows (`CallKnows`): the time it
  keeps is its own or that of the event it has found, the row it has drafted is the one it was asked for, a
  commit without a row has found its event, and no event of its subject is there that is asked for only after
  it (`Ahead`); and what a lost backend still knows of it (`BackendKnows`): the call has been told nothing, or
  that it failed, because whoever answers otherwise owns the event, and then no lost backend may still commit
  for it (`BackendsKnow`). That the second answer to an id is never a duplicate of an index, and that head and
  tail never differ, follows from the hashes: two lists that are equal have equal last events (`HashesTell`).
  The proof showed `AppendOnlyLedger` too strong as it first was: it forbade to record an event behind *any*
  event a later call of the writer asks for, also one that somebody else had appended before. It now speaks of
  events that are asked for only after it (`Follows`). `Refines` was model-checked on the instance of
  `PostgresLedger` before it was proved.

For any ledgers and processes on one file, any subjects, calls, failing statements and crashes:

- `SqliteLedgerProofs`: `SqliteTypes`, `AlwaysOpens`, `SqliteAppendOnly` (`Spec => ImplementsAppendOnlyLedger`).
  What the rules of `append` read under the lock of the file is still so at the COMMIT, because one ledger at
  most holds the lock and nobody else writes (`HoldsLock`, `OneHolder`): the accepted event is the next of
  the chain and its id is new (`AcceptedFollows`), so the chain only grows and stays one that
  `VerifyEventChain` accepts (`ChainGrows`), which is why the constructor never refuses it. That an event is
  not recorded behind one the same writer asks for later is the queue of the ledger (`QueueInv`): the calls
  wait in the order they were made, and the first to be served is the next (`FirstIsNext`). What a call has
  been told is true of the file (`Knows`). The list of one subject is counted and picked from the chain of the
  whole file (`CountOf`, `FirstOf`); that appending an event to the chain appends it to
  the list of its subject and to no other needs induction over the length of the chain. The induction theorems
  of the library take an operator as a parameter, which the provers cannot instantiate; `Smallest` and
  `Induction` state induction for a set of numbers instead, from the well-foundedness of `<`.

For any definitions of the family, any choice of scenarios left out, any kind of concurrent edit, any `setup()`
and any number of throws:

- `VerifyEffectProofs!EveryScenario`: `Spec => []EveryScenarioIsReported`. `Reported` says that the results so far
  bear the first names and that what threw has failed or has ended the suite.
- `VerifyEffectProofs`: `CertifiedAreSound` and `SoundAreCertified`. The runs of the engine are worked out first
  (`RunIs`, `SettleIs`, `RecoverIs`, `RunsEnd`): whether one commits depends on the field the effect writes,
  on the answer and on the evidence. Each scenario is then read backwards, what a definition that does not
  fail it must be like (`Shows`, `NotFailed`), and forwards for a sound one (`SoundPasses`). `Judging` keeps what
  the results so far have shown. With everything run and a `setup()` that does not start afresh nothing is
  certified: an effect that leaves what it expected finds no material change at the fourth scenario, and one
  that leaves more each time fails the repeat. `Judging` was model-checked on the instance of
  `VerifyEffect` before it was proved.

For any keys, payloads, versions and clients of the example's service:

- `DocumentServiceProofs`: `ServiceTypes`, `DistinctVersions`, `KeysApplyOnce`, `TrueAnswers`.
  `ServiceInv` is the type invariant and `VersionsAreDistinct`; the other two are action properties, shown
  for each way of handling a request (`Replay`, `Refuse`, `Reject`, `FailPrecondition`, `Commit`).

For any number of transactions of the example on one document, under any edits and broken connections:

- `PublishTransactionProofs`: `TrueInstructions`, `ForwardOnApprovedState`, `CompensationOfItsDiff`, and
  `PromiseKept`, that engine, effect and service together refine `VerifiedEffect`. The proofs of the parts are
  used as they are: every step of the composed system is one of the engine or leaves it alone
  (`StepsOfTheEngine`), so `OutcomeInv` and `LegalInv` hold of it (`EngineInvInvariant`; its ledger does not
  fail). What neither part can say is `LinkInv`, what a run knows and what the provider has: an answer that
  denies a write means that nothing landed and nothing is on its way (`Conn`); a run that has observed its
  dispatch or found evidence of it has landed it, and one that dismisses it never will (`ForwardLink`); a
  compensation is sent only of an effect that landed, and never of an accepted one (`CompensationLink`); the
  preview is a document of the past or the one that is there (`Snapshot`); a request on its way is the one
  the preview calls for (`Asked`). Each of these is needed for the next: an approved preview makes the
  `if-match` of a late request meaningful, and the engine's `Progress` says which answers can still come. Steps that
  have nothing to do with a write are `ForwardAside` and `CompensationAside`; the others are treated one by
  one. For the refinement a receipt is followed from its signature on: the verdict was true then
  (`VerdictsAreTrue`), the receipt is signed in one place (`SignedInOnePlace`), and what could make it false
  afterwards is a request that by `AskedOfAPreview` does not exist. No run expires (`ExpiryInvariant`), so the
  verdict is always defined. `LinkInv` was model-checked on the instances of `PublishOne` and `PublishTwo`
  before it was proved.

Assumed: the constants' types (`InputAssumption`, `KeyAssumption`, `ProcessAssumption`, `TimeAssumption`, `ServiceAssumption`,
`PublishAssumption`, `DefinitionsAssumption`, `OptionsAssumption`), and
that readers, calls, keys and the names used for "nobody" and "all subjects" are different values
(`ReaderAssumption`; `NoOperation` is no operation, `NoIfMatch` no version); of the number of attempts
only that there is one (`BoundsAssumption`).

Only model-checked: liveness (`RunsSettle` of the engine and of `PublishTransaction`, `AppendsSettle` of both
ledgers), because fairness and ENABLED are outside the prover. Every invariant and every safety property of
the passing runs is also a theorem.

## 5. Disagreements between code and documents

Three are runs whose one property states what a document, comment or test says, and which TLC violates:

- `EngineBlockedCompensation`. A compensation refused with `COMPENSATION_BLOCKED` asks for COMPENSATING to
  COMPENSATION_BLOCKED, which the table lacks; `run()` throws in its own catch clause
  (`transaction-engine.ts:1014`, `state-machine.ts:45`). With the example's effect, 412 and 409 map to it,
  but its compensation is not conditional, so `PublishTransaction` does not reach it.
- `EngineLostLedgerAck`. Over PostgreSQL a ledger error while the provider's acknowledgement is journaled is
  read as a definitive rejection: "nothing committed" is said of a committed effect
  (`transaction-engine.ts:711`). Over SQLite the same error is unclassified, the outcome is reconciled, and
  `EngineSQLite` shows the claim true.
- `PublishLostEdit`. The example's compensation is not conditional and overwrites an edit made after the plan.

The others have no run of their own; `PROJECT.json` quotes the lines.

In the engine:
- A durable append that is reported as failed leaves a history `replayProjection` refuses
  (`transaction-engine.ts:717`).
- A failed read of the provider after the dispatch makes `run()` throw; the documents reserve throwing for
  faults of the engine and its ledger (`transaction-engine.ts:816`). `LedgerVerdictsAreTrue` says what the
  ledger of such a run may claim: no ending but the one that calls for a person.
- `finalize()` throwing `undefined` is taken for success (`transaction-engine.ts:849`).
- `docs/README.md:116` gives MANUAL_RECOVERY_REQUIRED the finality UNKNOWN or DISPUTED, the code also
  VERIFIED (`transaction-engine.ts:795`).
- The plan compares only the fields of the diff, not every material field (`define-effect.ts:523`).
- `RunInput.approval` promises a pre-issued approval, but an approval is bound to a transaction id `run()`
  makes up afterwards, so none can match (`transaction-engine.ts:135`, `554-567`); the EXPIRED state is never
  reached; the residual risk the example declares (`effect.ts:128`, no compare-and-set primitive) is not that
  of its service, which honours `if-match`.

In the harness, seen in the family of `VerifyEffect`:
- a `cleanup()` that throws discards the report (`testing/index.ts:162`);
- `compensation-refuses-concurrent-edit` passes without a compensation, and where `finalize()` never ran (`404`);
- `undispatched-request-is-not-claimed` passes for a `findEvidence` that always says yes (`266`);
- a concurrent edit of a field outside the diff fails a sound definition (`393`), which is why
  `SoundEffectsAreCertified` excludes it.

In the key store: `keys new` truncates and rewrites a key that others may be reading (`cli/main.ts:163`).
A crash between creation and write leaves an empty file for good (`key-store.ts:50`); the
properties allow "empty" and say that nobody is given such a key.

Between the three ledgers, which one interface describes: in PostgreSQL a repeated id must also match the
expected sequence, in memory and in SQLite `expectedSequence` is not looked at for an id that exists (so
`Reused` of `AppendOnlyLedger` allows either); `chainRoot()` of the in-memory ledger over all subjects hashes
a map, of one subject returns the hash of the last event. A connection that ends with an error without a
code (as node-postgres reports "Connection terminated unexpectedly") is not repeated by `append`.

## 6. Not modelled, and the plan

Not modelled:
- hashing, signatures, canonical JSON and the secret guard: pure functions; a hash or a signature is
  the value it commits to, and `run()` meets the secret guard as a rejected preview;
- receipts beyond what they say and cover; `verifyReceipt` computes on a file;
- of the effect definition: one's own `restore()` or `normalizeState`, redaction, rendering of evidence, and
  an effect that attributes by anything other than evidence;
- of PostgreSQL: tenants and row-level security (one tenant per ledger), the pool and its limits, `close()`,
  validation of times; of the key store: keys from the environment;
- the commands that only read, the site, scripts and schemas: they change no state.

Next, in this order:

1. The engine over `PostgresLedger` in place of `LedgerFaults`: the steps of a journal write in the place of
   `Journal`, two runs on one ledger.
2. Receipt verification as an operator on the events of `LedgerEvents`.
