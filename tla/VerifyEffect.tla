---------------------------- MODULE VerifyEffect ----------------------------
(***************************************************************************)
(* verifyEffect() (src/src/testing/index.ts), the fault suite an author    *)
(* points at an effect of his own: nine scenarios, each on a provider that *)
(* setup() returns, several with a dispatch whose answer is lost on        *)
(* purpose, and a report that certifies the definition or does not.        *)
(*                                                                         *)
(* The definition under test is any of a family; its provider has one      *)
(* resource with two fields.  A run of the engine is taken in one step:    *)
(* nobody else is at the provider but the scenario.                        *)
(***************************************************************************)
EXTENDS Naturals, Sequences, FiniteSets

CONSTANTS
  Definitions,   \* the effects under test: a subset of Definition
  Options,       \* [skip, edit, fresh]: how verifyEffect is called
  MaxThrows      \* bound: how often setup, a scenario or cleanup throws

VARIABLES
  definition, options,
  provider,      \* [fields, version, operations]
  at,            \* "run", "body", "cleanup", "reported", "threw"
  scenarios,     \* the results so far
  thrown         \* what threw, at which scenario

vars == <<definition, options, provider, at, scenarios, thrown>>

ScenarioNames ==
  <<"commits-once", "canonical-input-is-stable", "observation-is-stable",
    "lost-acknowledgement-is-recoverable", "undispatched-request-is-not-claimed",
    "foreign-change-is-not-claimed", "repeat-is-refused-as-no-op",
    "downstream-failure-is-compensated", "compensation-refuses-concurrent-edit">>

\* What an author may get right or wrong: findEvidence, the identifier dispatch
\* sends, what it leaves behind, compensate, canonicalizeInput, observe.
Definition ==
  [findEvidence : {"by-operation", "by-state", "always", "never"},
   sendsId      : BOOLEAN,
   leaves       : {"expected", "something-else", "one-more"},
   compensate   : {"none", "restores", "does-nothing", "refuses"},
   idempotent   : BOOLEAN,
   stable       : BOOLEAN]

ASSUME DefinitionsAssumption == Definitions \subseteq Definition
ASSUME OptionsAssumption ==
  Options \subseteq [skip  : SUBSET {ScenarioNames[i] : i \in DOMAIN ScenarioNames},
                     edit  : {"none", "same-field", "other-field"},
                     fresh : BOOLEAN]

Seeded == [fields |-> [status |-> 0, title |-> 0], version |-> 0, operations |-> {}]

Init ==
  /\ definition \in Definitions
  /\ options \in Options
  /\ provider = Seeded
  /\ at = "run"
  /\ scenarios = <<>>
  /\ thrown = {}

-----------------------------------------------------------------------------
(***************************************************************************)
(* The definition and its provider.                                        *)
(***************************************************************************)
Unset == 99   \* a value no field has: both fields exist

Effect == INSTANCE DefineEffect
            WITH MaterialFields <- {"status", "title"}, Absent <- Unset,
                 Compensable <- definition.compensate # "none"

Mine    == "logicalOperationId"
Foreign == "zerogate-testing:a-different-writer"

\* observe(), for the nth time: something that varies may reach the state.
observe(p, n) ==
  [version |-> p.version, fields |-> p.fields, noise |-> IF definition.stable THEN 0 ELSE n]

ExpectedFields(before) ==
  [before.fields EXCEPT !.status = IF definition.leaves = "one-more" THEN @ + 1 ELSE 1]

Write(p, status, id) ==
  [fields     |-> [p.fields EXCEPT !.status = status],
   version    |-> p.version + 1,
   operations |-> p.operations \union (IF definition.sendsId THEN {id} ELSE {})]

dispatch(p, id) ==
  Write(p, CASE definition.leaves = "expected"       -> 1
             [] definition.leaves = "something-else" -> 2
             [] definition.leaves = "one-more"       -> p.fields.status + 1, id)

findEvidence(p, preflight) ==
  CASE definition.findEvidence = "by-operation" -> Mine \in p.operations
    [] definition.findEvidence = "by-state"     -> Effect!verifyForward(preflight, observe(p, 3))
    [] definition.findEvidence = "always"       -> TRUE
    [] definition.findEvidence = "never"        -> FALSE

compensate(p, restore) ==
  IF definition.compensate = "restores" THEN Write(p, restore.status, "recovery") ELSE p

\* concurrentEdit(): someone else's write.
Edit(p) ==
  [p EXCEPT !.version = @ + 1,
            !.fields = IF options.edit = "same-field" THEN [@ EXCEPT !.status = 9]
                                                      ELSE [@ EXCEPT !.title = 9]]

-----------------------------------------------------------------------------
(***************************************************************************)
(* One run of the engine: its terminal state, the forward dispatches, what *)
(* it says of the recovery, and the provider it leaves.                    *)
(***************************************************************************)
Ended(state, count, recovery, p) ==
  [state |-> state, forwardDispatchCount |-> count, recovery |-> recovery, provider |-> p]

\* run() makes up a logicalOperationId: what earlier runs left at the provider bears
\* other ids, of which nobody asks any more.
Anew(p) == [p EXCEPT !.operations = @ \ {Mine}]

\* Mutant: the foreign writer is announced and not played.
NobodyElseWrites(p, transport) ==
  IF transport \in {"answered", "lost"} THEN dispatch(Anew(p), Mine) ELSE Anew(p)

\* Mutant: the other writer has the same operation id.
SameOperation(p, transport) ==
  IF transport = "unsent" THEN Anew(p) ELSE dispatch(Anew(p), Mine)

\* What the dispatch of the adapter, or that of the scenario in its place, does;
\* it throws a timeout unless the transport is "answered".
Deliver(p, transport) ==
  CASE transport \in {"answered", "lost"} -> dispatch(Anew(p), Mine)
    [] transport = "unsent"               -> Anew(p)
    [] transport = "foreign"              -> dispatch(Anew(p), Foreign)

Recover(preflight, p) ==
  LET current == observe(p, 4)
      restore == Effect!restoreValues(preflight)
      undone  == compensate(p, restore)
  IN IF ~Effect!planRecovery(preflight, current)
     THEN Ended("MANUAL_RECOVERY_REQUIRED", 1,
                IF definition.compensate = "none" THEN "none-declared" ELSE "blocked", p)
     ELSE IF definition.compensate = "refuses"
     THEN Ended("threw", 1, "none", p)
     ELSE IF Effect!verifyRecovery(restore, observe(undone, 5))
     THEN Ended("VERIFIED_COMPENSATED", 1, "none", undone)
     ELSE Ended("MANUAL_RECOVERY_REQUIRED", 1, "disputed", undone)

Settle(preflight, p, transport, finalize) ==
  IF transport # "answered" /\ ~findEvidence(p, preflight)
  THEN Ended("MANUAL_RECOVERY_REQUIRED", 1, "unresolved", p)
  ELSE IF ~Effect!verifyForward(preflight, observe(p, 3))
  THEN Recover(preflight, p)
  ELSE IF finalize = "none"
  THEN Ended("VERIFIED_COMMITTED", 1, "none", p)
  ELSE Recover(preflight, IF finalize = "edits-and-throws" THEN Edit(p) ELSE p)

Run(p, transport, finalize) ==
  LET before    == observe(p, 1)
      preflight == Effect!buildPreflight(before, ExpectedFields(before))
  IN IF ~Effect!HasMaterialEffect(preflight)
     THEN Ended("PREFLIGHT_FAILED", 0, "none", p)
     ELSE IF ~Effect!assertFresh(preflight, observe(p, 2))
     THEN Ended("ABORTED", 0, "none", p)
     ELSE Settle(preflight, Deliver(p, transport), transport, finalize)

Committed(result) == result.state = "VERIFIED_COMMITTED"

-----------------------------------------------------------------------------
(***************************************************************************)
(* The scenarios: the status each has, and the provider it leaves.         *)
(***************************************************************************)
Judged(passed, p)  == [status |-> IF passed THEN "passed" ELSE "failed", provider |-> p]
NotJudged(p)       == [status |-> "skipped", provider |-> p]

CommitsOnce ==
  LET result == Run(provider, "answered", "none")
  IN Judged(Committed(result) /\ result.forwardDispatchCount = 1, result.provider)

ObservationIsStable ==
  Judged(observe(provider, 1) = observe(provider, 2), provider)

LostAcknowledgement ==
  LET result == Run(provider, "lost", "none")
  IN Judged(result.forwardDispatchCount = 1 /\ Committed(result), result.provider)

NotClaimed(transport) ==
  LET result == Run(provider, transport, "none")
  IN Judged(result.state # "threw" /\ ~Committed(result), result.provider)

RepeatIsRefused ==
  LET first  == Run(provider, "answered", "none")
      second == Run(first.provider, "answered", "none")
  IN IF first.state = "threw" THEN Judged(FALSE, first.provider)
     ELSE IF ~Committed(first) THEN NotJudged(first.provider)
     ELSE Judged(second.state = "PREFLIGHT_FAILED", second.provider)

DownstreamFailure ==
  LET result == Run(provider, "answered", "throws")
  IN IF result.recovery = "none-declared" THEN NotJudged(result.provider)
     ELSE Judged(result.state = "VERIFIED_COMPENSATED", result.provider)

RefusesConcurrentEdit ==
  LET result == Run(provider, "answered", "edits-and-throws")
  IN IF options.edit = "none" THEN NotJudged(provider)
     ELSE Judged(result.state = "MANUAL_RECOVERY_REQUIRED", result.provider)

Outcome(name) ==
  CASE name = "commits-once"                         -> CommitsOnce
    [] name = "canonical-input-is-stable"            -> Judged(definition.idempotent, provider)
    [] name = "observation-is-stable"                -> ObservationIsStable
    [] name = "lost-acknowledgement-is-recoverable"  -> LostAcknowledgement
    [] name = "undispatched-request-is-not-claimed"  -> NotClaimed("unsent")
    [] name = "foreign-change-is-not-claimed"        -> NotClaimed("foreign")
    [] name = "repeat-is-refused-as-no-op"           -> RepeatIsRefused
    [] name = "downstream-failure-is-compensated"    -> DownstreamFailure
    [] name = "compensation-refuses-concurrent-edit" -> RefusesConcurrentEdit

-----------------------------------------------------------------------------
(***************************************************************************)
(* run(name, body), nine times.                                            *)
(***************************************************************************)
Position == Len(scenarios) + 1
Pending  == at = "run" /\ Position <= Len(ScenarioNames)
Name     == ScenarioNames[Position]

Push(status) == scenarios' = Append(scenarios, [name |-> Name, status |-> status])

Throws(what, n) ==
  /\ Cardinality(thrown) < MaxThrows
  /\ thrown' = thrown \union {<<what, n>>}

Skip ==
  /\ Pending
  /\ Name \in options.skip
  /\ Push("skipped")
  /\ UNCHANGED <<definition, options, provider, at, thrown>>

Setup ==
  /\ Pending
  /\ Name \notin options.skip
  /\ provider' = IF options.fresh THEN Seeded ELSE provider
  /\ at' = "body"
  /\ UNCHANGED <<definition, options, scenarios, thrown>>

\* There is no subject, so nothing to clean up.
SetupThrows ==
  /\ Pending
  /\ Name \notin options.skip
  /\ Throws("setup", Position)
  /\ Push("failed")
  /\ UNCHANGED <<definition, options, provider, at>>

Body ==
  /\ at = "body"
  /\ Push(Outcome(Name).status)
  /\ provider' = Outcome(Name).provider
  /\ at' = "cleanup"
  /\ UNCHANGED <<definition, options, thrown>>

\* Mutant: a scenario that throws ends the suite.
BodyEscapes ==
  /\ at = "body"
  /\ Throws("scenario", Position)
  /\ at' = "threw"
  /\ UNCHANGED <<definition, options, provider, scenarios>>

\* The provider or the definition throws, before or after it has done its work.
BodyThrows ==
  /\ at = "body"
  /\ Throws("scenario", Position)
  /\ Push("failed")
  /\ provider' \in {provider, Outcome(Name).provider}
  /\ at' = "cleanup"
  /\ UNCHANGED <<definition, options>>

Cleanup ==
  /\ at = "cleanup"
  /\ at' = "run"
  /\ UNCHANGED <<definition, options, provider, scenarios, thrown>>

\* cleanup() is awaited in a finally clause: what it throws leaves verifyEffect.
CleanupThrows ==
  /\ at = "cleanup"
  /\ Throws("cleanup", Len(scenarios))
  /\ at' = "threw"
  /\ UNCHANGED <<definition, options, provider, scenarios>>

Report ==
  /\ at = "run"
  /\ Position > Len(ScenarioNames)
  /\ at' = "reported"
  /\ UNCHANGED <<definition, options, provider, scenarios, thrown>>

Next ==
  \/ Skip \/ Setup \/ SetupThrows
  \/ Body \/ BodyThrows
  \/ Cleanup \/ CleanupThrows
  \/ Report

Spec == Init /\ [][Next]_vars

\* assertEffectVerified returns.
Certified == at = "reported" /\ \A i \in DOMAIN scenarios : scenarios[i].status # "failed"

-----------------------------------------------------------------------------
(***************************************************************************)
(* Properties.                                                             *)
(***************************************************************************)
\* findEvidence proves the operation of its own transaction, and nothing else.
Attributes == definition.findEvidence = "by-operation" /\ definition.sendsId

Sound ==
  /\ Attributes
  /\ definition.leaves = "expected"
  /\ definition.compensate \in {"none", "restores"}
  /\ definition.idempotent
  /\ definition.stable

\* A definition that passes everything has none of the faults the table in
\* docs/README.md:178-188 names, even if setup() returns a provider that earlier
\* scenarios have changed; and one that passes the two scenarios of a lost
\* dispatch on fresh providers attributes effects by its own operation, whatever
\* else was left out (scenarios of testing/index.ts:225-315).
CertifiedEffectsAreSound ==
  Certified =>
    /\ options.skip = {} => Sound
    /\ /\ options.fresh
       /\ options.skip \intersect {"lost-acknowledgement-is-recoverable",
                                   "foreign-change-is-not-claimed"} = {}
       => Attributes

\* A sound definition is not accused of anything: on fresh providers, where
\* nothing throws and the other writer edits the field the effect wrote, no
\* scenario fails.
SoundEffectsAreCertified ==
  at = "reported" /\ Sound /\ options.fresh /\ thrown = {} /\ options.edit # "other-field"
    => Certified

\* The caller is given a report with nine results, in which whatever threw has
\* failed (comment at testing/index.ts:145-148), unless a cleanup() threw.
EveryScenarioIsReported ==
  /\ at = "reported" =>
       /\ [i \in DOMAIN scenarios |-> scenarios[i].name] = ScenarioNames
       /\ \A i \in DOMAIN scenarios :
            thrown \intersect {<<"setup", i>>, <<"scenario", i>>} # {}
              => scenarios[i].status = "failed"
  /\ at = "threw" => \E i \in DOMAIN scenarios : <<"cleanup", i>> \in thrown
=============================================================================
