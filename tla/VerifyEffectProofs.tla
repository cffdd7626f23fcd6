------------------------- MODULE VerifyEffectProofs -------------------------
(***************************************************************************)
(* The fault suite, proved: for any definitions of the family, any choice  *)
(* of scenarios left out, any setup() and any number of throws.            *)
(*                                                                         *)
(* The report is well formed whatever throws (Reported).  For what it says *)
(* of the definition the runs of the engine are worked out first (RunsEnd):*)
(* what a run ends in depends on the field the effect writes, the answer   *)
(* and the evidence.  Then each scenario is read backwards: what a         *)
(* definition that does not fail it must be like (Shows).                  *)
(***************************************************************************)
EXTENDS VerifyEffect, TLAPS

Statuses == {"passed", "failed", "skipped"}
Results  == [name : {ScenarioNames[i] : i \in 1 .. 9}, status : Statuses]

Providers == [fields     : [status : Nat, title : Nat],
              version    : Nat,
              operations : SUBSET {Mine, Foreign, "recovery"}]

\* What run() has pushed: one result for each name so far, and what threw is among
\* the scenarios that are over.
Reported ==
  /\ at \in {"run", "body", "cleanup", "reported", "threw"}
  /\ scenarios \in Seq(Results) /\ Len(scenarios) <= 9
  /\ \A i \in DOMAIN scenarios : scenarios[i].name = ScenarioNames[i]
  /\ \A what, i : <<what, i>> \in thrown => i \in DOMAIN scenarios
  /\ \A i \in DOMAIN scenarios :
       <<"setup", i>> \in thrown \/ <<"scenario", i>> \in thrown => scenarios[i].status = "failed"
  /\ at = "body" => Len(scenarios) < 9 /\ Name \notin options.skip
  /\ at = "cleanup" => Len(scenarios) > 0
  /\ at = "reported" => Len(scenarios) = 9
  /\ at = "threw" => \E i \in DOMAIN scenarios : <<"cleanup", i>> \in thrown

-----------------------------------------------------------------------------
\* There are nine names.
LEMMA NineNames ==
  /\ Len(ScenarioNames) = 9 /\ DOMAIN ScenarioNames = 1 .. 9
  /\ \A i \in 1 .. 9 : ScenarioNames[i] \in {ScenarioNames[j] : j \in 1 .. 9}
<1>1. Len(ScenarioNames) = 9 /\ DOMAIN ScenarioNames = 1 .. 9
  BY DEF ScenarioNames
<1> QED
  BY <1>1

\* A result is one more, under the next name.
LEMMA Pushing ==
  ASSUME Reported, Len(scenarios) < 9, NEW status \in Statuses, Push(status)
  PROVE  /\ scenarios' \in Seq(Results) /\ Len(scenarios') = Len(scenarios) + 1
         /\ DOMAIN scenarios' = 1 .. (Len(scenarios) + 1)
         /\ \A i \in DOMAIN scenarios : scenarios'[i] = scenarios[i]
         /\ scenarios'[Position] = [name |-> Name, status |-> status]
         /\ Name = ScenarioNames[Position] /\ Position \in 1 .. 9
<1>1. Position \in 1 .. 9 /\ scenarios \in Seq(Results) /\ Len(scenarios) \in Nat
  BY DEF Reported, Position
<1>2. [name |-> Name, status |-> status] \in Results
  BY <1>1 DEF Results, Name
<1>3. scenarios' = Append(scenarios, [name |-> Name, status |-> status])
  BY DEF Push
<1> QED
  BY <1>1, <1>2, <1>3 DEF Position, Name

\* Every scenario has one of the three statuses.
LEMMA OutcomeHasStatus ==
  \A name \in {ScenarioNames[j] : j \in 1 .. 9} : Outcome(name).status \in Statuses
<1> SUFFICES ASSUME NEW j \in 1 .. 9
             PROVE  Outcome(ScenarioNames[j]).status \in Statuses
  OBVIOUS
<1>1. \A b, p : Judged(b, p).status \in Statuses /\ NotJudged(p).status \in Statuses
  BY DEF Judged, NotJudged, Statuses
<1>2. /\ CommitsOnce.status \in Statuses /\ ObservationIsStable.status \in Statuses
      /\ LostAcknowledgement.status \in Statuses
      /\ \A transport : NotClaimed(transport).status \in Statuses
      /\ RepeatIsRefused.status \in Statuses /\ DownstreamFailure.status \in Statuses
      /\ RefusesConcurrentEdit.status \in Statuses
  BY <1>1 DEF CommitsOnce, ObservationIsStable, LostAcknowledgement, NotClaimed, RepeatIsRefused,
     DownstreamFailure, RefusesConcurrentEdit
<1>3. ScenarioNames[j] \in {"commits-once", "canonical-input-is-stable", "observation-is-stable",
    "lost-acknowledgement-is-recoverable", "undispatched-request-is-not-claimed",
    "foreign-change-is-not-claimed", "repeat-is-refused-as-no-op",
    "downstream-failure-is-compensated", "compensation-refuses-concurrent-edit"}
  BY DEF ScenarioNames
<1> QED
  BY <1>1, <1>2, <1>3 DEF Outcome

\* What a scenario adds to the report.
LEMMA ResultIsReported ==
  ASSUME Reported, Len(scenarios) < 9, NEW status \in Statuses, Push(status),
         at' \in {"run", "cleanup"},
         \/ thrown' = thrown
         \/ \E what : thrown' = thrown \union {<<what, Position>>} /\ status = "failed"
  PROVE  Reported'
<1> DEFINE n == Len(scenarios)
<1>1. /\ scenarios' \in Seq(Results) /\ Len(scenarios') = n + 1
      /\ DOMAIN scenarios' = 1 .. (n + 1)
      /\ \A i \in DOMAIN scenarios : scenarios'[i] = scenarios[i]
      /\ scenarios'[Position] = [name |-> Name, status |-> status]
      /\ Name = ScenarioNames[Position]
  BY Pushing
<1>2. Position = n + 1 /\ n \in Nat /\ DOMAIN scenarios = 1 .. n
  BY DEF Position, Reported
<1>3. \A i \in 1 .. (n + 1) : i \in DOMAIN scenarios \/ i = n + 1
  BY <1>2
<1> HIDE DEF n
<1>4. \A i \in DOMAIN scenarios' : scenarios'[i].name = ScenarioNames[i]
  BY <1>1, <1>2, <1>3 DEF Reported
<1>5. \A what, i : <<what, i>> \in thrown' =>
        <<what, i>> \in thrown \/ (i = n + 1 /\ status = "failed")
  BY <1>2
<1>6. \A what, i : <<what, i>> \in thrown' => i \in DOMAIN scenarios'
  <2>1. \A i \in DOMAIN scenarios : i \in DOMAIN scenarios'
    BY <1>1, <1>2
  <2>2. n + 1 \in DOMAIN scenarios'
    BY <1>1, <1>2
  <2> QED
    BY <1>5, <2>1, <2>2 DEF Reported
<1>7. \A i \in DOMAIN scenarios' :
        <<"setup", i>> \in thrown' \/ <<"scenario", i>> \in thrown' => scenarios'[i].status = "failed"
  <2> SUFFICES ASSUME NEW i \in DOMAIN scenarios',
                      <<"setup", i>> \in thrown' \/ <<"scenario", i>> \in thrown'
               PROVE  scenarios'[i].status = "failed"
    OBVIOUS
  <2>1. CASE i \in DOMAIN scenarios
    <3>1. i # n + 1
      BY <1>2, <2>1
    <3> QED
      BY <1>1, <1>5, <2>1, <3>1 DEF Reported
  <2>2. CASE i = n + 1
    <3>1. i \notin DOMAIN scenarios
      BY <1>2, <2>2
    <3>2. status = "failed"
      BY <1>5, <3>1 DEF Reported
    <3> QED
      BY <1>1, <1>2, <2>2, <3>2
  <2> QED
    BY <1>1, <1>3, <2>1, <2>2
<1>8. Len(scenarios') <= 9 /\ Len(scenarios') > 0
  BY <1>1, <1>2 DEF n
<1> QED
  BY <1>1, <1>4, <1>6, <1>7, <1>8 DEF Reported

\* Every step reports truly.
LEMMA StepReports == Reported /\ [Next]_vars => Reported'
<1> SUFFICES ASSUME Reported, [Next]_vars
             PROVE  Reported'
  OBVIOUS
<1>1. Len(scenarios) \in Nat /\ Len(scenarios) <= 9 /\ DOMAIN scenarios = 1 .. Len(scenarios)
  BY DEF Reported
<1>2. Pending => at = "run" /\ Len(scenarios) < 9
  BY <1>1, NineNames DEF Pending, Position
<1>3. at = "body" => Outcome(Name).status \in Statuses
  BY <1>1, OutcomeHasStatus DEF Reported, Name, Position
<1>4. {"passed", "failed", "skipped"} = Statuses
  BY DEF Statuses
<1>5. CASE UNCHANGED vars
  BY <1>5 DEF vars, Reported, Name, Position
<1>6. CASE Skip
  BY <1>2, <1>4, <1>6, ResultIsReported DEF Skip, Pending
<1>7. CASE Setup
  BY <1>2, <1>7 DEF Setup, Reported, Name, Position
<1>8. CASE SetupThrows
  BY <1>2, <1>4, <1>8, ResultIsReported DEF SetupThrows, Throws, Pending
<1>9. CASE Body
  <2>1. Len(scenarios) < 9
    BY <1>9 DEF Body, Reported
  <2> QED
    BY <1>3, <1>9, <2>1, ResultIsReported DEF Body
<1>10. CASE BodyThrows
  <2>1. Len(scenarios) < 9
    BY <1>10 DEF BodyThrows, Reported
  <2> QED
    BY <1>4, <1>10, <2>1, ResultIsReported DEF BodyThrows, Throws
<1>11. CASE Cleanup
  BY <1>11 DEF Cleanup, Reported
<1>12. CASE CleanupThrows
  <2>1. Len(scenarios) \in DOMAIN scenarios
    BY <1>1, <1>12 DEF CleanupThrows, Reported
  <2>2. /\ thrown' = thrown \union {<<"cleanup", Len(scenarios)>>} /\ at' = "threw"
        /\ scenarios' = scenarios
    BY <1>12 DEF CleanupThrows, Throws
  <2>3. \A what, i : <<what, i>> \in thrown' =>
          <<what, i>> \in thrown \/ (what = "cleanup" /\ i \in DOMAIN scenarios)
    BY <2>1, <2>2
  <2> QED
    BY <2>1, <2>2, <2>3 DEF Reported
<1>13. CASE Report
  <2>1. Len(scenarios) = 9
    BY <1>1, <1>13, NineNames DEF Report, Position
  <2> QED
    BY <1>13, <2>1 DEF Report, Reported
<1> QED
  BY <1>5, <1>6, <1>7, <1>8, <1>9, <1>10, <1>11, <1>12, <1>13 DEF Next

\* Nothing is reported at first.
LEMMA InitReports == Init => Reported
BY DEF Init, Reported

\* So the report is well formed in every state.
LEMMA ReportedInvariant == Spec => []Reported
BY InitReports, StepReports, PTL DEF Spec

\* verifyEffect() reports nine results in their order, and whatever threw has
\* failed, however often setup(), scenarios and cleanup() throw; unless it was a
\* cleanup(), whose error is what the caller gets.
THEOREM EveryScenario == Spec => []EveryScenarioIsReported
<1>1. Reported => EveryScenarioIsReported
  <2> SUFFICES ASSUME Reported
               PROVE  EveryScenarioIsReported
    OBVIOUS
  <2>1. DOMAIN scenarios = 1 .. Len(scenarios)
    BY DEF Reported
  <2>2. ASSUME at = "reported"
        PROVE  [i \in DOMAIN scenarios |-> scenarios[i].name] = ScenarioNames
    <3>1. DOMAIN scenarios = DOMAIN ScenarioNames
      BY <2>1, <2>2, NineNames DEF Reported
    <3>2. \A i \in DOMAIN scenarios : scenarios[i].name = ScenarioNames[i]
      BY DEF Reported
    <3>3. ScenarioNames = [i \in DOMAIN ScenarioNames |-> ScenarioNames[i]]
      BY DEF ScenarioNames
    <3> QED
      BY <3>1, <3>2, <3>3
  <2>3. \A i \in DOMAIN scenarios :
          thrown \intersect {<<"setup", i>>, <<"scenario", i>>} # {}
            => scenarios[i].status = "failed"
    BY DEF Reported
  <2>4. at = "threw" => \E i \in DOMAIN scenarios : <<"cleanup", i>> \in thrown
    BY DEF Reported
  <2> QED
    BY <2>2, <2>3, <2>4 DEF EveryScenarioIsReported
<1> QED
  BY <1>1, ReportedInvariant, PTL

-----------------------------------------------------------------------------
(***************************************************************************)
(* What the engine makes of the definition.                                *)
(***************************************************************************)
\* What the preview promises, and whether it holds of another provider.
Target(p)   == IF definition.leaves = "one-more" THEN p.fields.status + 1 ELSE 1
Preview(p)  == Effect!buildPreflight(observe(p, 1), ExpectedFields(observe(p, 1)))
Holds(p, q) == q.fields.status = Target(p)

\* The providers of the suite: what setup() returns and what writes leave.
LEMMA Provided ==
  ASSUME NEW p \in Providers, definition \in Definition
  PROVE  /\ Seeded \in Providers
         /\ \A id \in {Mine, Foreign, "recovery"}, status \in Nat :
              /\ Write(p, status, id) \in Providers
              /\ Write(p, status, id).fields.status = status
              /\ Write(p, status, id).operations =
                   p.operations \union (IF definition.sendsId THEN {id} ELSE {})
         /\ \A id \in {Mine, Foreign} :
              /\ dispatch(p, id) \in Providers
              /\ dispatch(p, id).operations =
                   p.operations \union (IF definition.sendsId THEN {id} ELSE {})
              /\ Holds(p, dispatch(p, id)) <=> definition.leaves # "something-else"
              /\ definition.leaves = "expected" => dispatch(p, id).fields.status = 1
         /\ Edit(p) \in Providers
         /\ options.edit = "same-field" => Edit(p).fields.status = 9
         /\ Target(p) \in Nat
<1>1. Seeded \in Providers
  BY DEF Seeded, Providers
<1>2. p.fields \in [status : Nat, title : Nat] /\ p.version \in Nat
        /\ p.operations \in SUBSET {Mine, Foreign, "recovery"}
  BY DEF Providers
<1>n. PICK was \in Nat : was = p.fields.status
  BY <1>2
<1>3. ASSUME NEW id \in {Mine, Foreign, "recovery"}, NEW status \in Nat
      PROVE  /\ Write(p, status, id) \in Providers
             /\ Write(p, status, id).fields.status = status
             /\ Write(p, status, id).operations =
                  p.operations \union (IF definition.sendsId THEN {id} ELSE {})
  <2>1. [p.fields EXCEPT !.status = status] \in [status : Nat, title : Nat]
    BY <1>2
  <2>2. [p.fields EXCEPT !.status = status].status = status
    BY <1>2
  <2> QED
    BY <1>2, <2>1, <2>2 DEF Write, Providers
<1>4. definition.leaves \in {"expected", "something-else", "one-more"}
  BY DEF Definition
<1>5. ASSUME NEW id \in {Mine, Foreign}
      PROVE  /\ dispatch(p, id) \in Providers
             /\ dispatch(p, id).operations =
                  p.operations \union (IF definition.sendsId THEN {id} ELSE {})
             /\ Holds(p, dispatch(p, id)) <=> definition.leaves # "something-else"
             /\ definition.leaves = "expected" => dispatch(p, id).fields.status = 1
  <2> DEFINE status == IF definition.leaves = "expected" THEN 1
                       ELSE IF definition.leaves = "something-else" THEN 2
                       ELSE was + 1
  <2>1. dispatch(p, id) = Write(p, status, id)
    BY <1>4, <1>n DEF dispatch
  <2>2. status \in Nat
    OBVIOUS
  <2>3. Target(p) = status <=> definition.leaves # "something-else"
    BY <1>4, <1>n DEF Target
  <2>4. definition.leaves = "expected" => status = 1
    OBVIOUS
  <2> HIDE DEF status
  <2>5. /\ Write(p, status, id) \in Providers
        /\ Write(p, status, id).fields.status = status
        /\ Write(p, status, id).operations =
             p.operations \union (IF definition.sendsId THEN {id} ELSE {})
    BY <1>3, <2>2
  <2> QED
    BY <2>1, <2>3, <2>4, <2>5 DEF Holds
<1>6. Edit(p) \in Providers /\ (options.edit = "same-field" => Edit(p).fields.status = 9)
  <2>1. /\ [p.fields EXCEPT !.status = 9] \in [status : Nat, title : Nat]
        /\ [p.fields EXCEPT !.title = 9] \in [status : Nat, title : Nat]
        /\ [p.fields EXCEPT !.status = 9].status = 9
    BY <1>2
  <2> DEFINE edited == IF options.edit = "same-field" THEN [p.fields EXCEPT !.status = 9]
                                                     ELSE [p.fields EXCEPT !.title = 9]
  <2>2. Edit(p) = [p EXCEPT !.version = @ + 1, !.fields = edited]
    BY DEF Edit
  <2>3. edited \in [status : Nat, title : Nat] /\ (options.edit = "same-field" => edited.status = 9)
    BY <2>1
  <2> HIDE DEF edited
  <2>4. Edit(p) \in Providers /\ Edit(p).fields = edited
    <3>1. [p EXCEPT !.version = @ + 1] \in Providers
      BY <1>2 DEF Providers
    <3>2. Edit(p) = [[p EXCEPT !.version = @ + 1] EXCEPT !.fields = edited]
      BY <2>2 DEF Providers
    <3> QED
      BY <2>3, <3>1, <3>2 DEF Providers
  <2> QED
    BY <2>3, <2>4
<1>7. Target(p) \in Nat
  BY <1>n DEF Target
<1> QED
  BY <1>1, <1>3, <1>5, <1>6, <1>7

\* What the preview compares.
LEMMA PreviewCompares ==
  ASSUME NEW p \in Providers, definition \in Definition
  PROVE  /\ Effect!HasMaterialEffect(Preview(p)) <=> Target(p) # p.fields.status
         /\ Target(p) # p.fields.status => Preview(p).diff = {"status"}
         /\ Preview(p).before = observe(p, 1)
         /\ Effect!assertFresh(Preview(p), observe(p, 2)) <=> definition.stable
         /\ Target(p) # p.fields.status =>
              \A q \in Providers, n \in Nat :
                Effect!verifyForward(Preview(p), observe(q, n)) <=> Holds(p, q)
<1>1. p.fields \in [status : Nat, title : Nat]
  BY DEF Providers
<1>2. /\ observe(p, 1).fields = p.fields
      /\ Preview(p).before = observe(p, 1)
      /\ Preview(p).expected = ExpectedFields(observe(p, 1))
      /\ Preview(p).diff = {f \in {"status", "title"} :
                             p.fields[f] # ExpectedFields(observe(p, 1))[f]}
  BY DEF Preview, Effect!buildPreflight, observe
<1>3. ExpectedFields(observe(p, 1)) = [p.fields EXCEPT !.status = Target(p)]
  BY <1>1, <1>2 DEF ExpectedFields, Target
<1>4. /\ ExpectedFields(observe(p, 1))["status"] = Target(p)
      /\ ExpectedFields(observe(p, 1))["title"] = p.fields["title"]
  BY <1>1, <1>3
<1>5. Preview(p).diff = IF Target(p) # p.fields.status THEN {"status"} ELSE {}
  BY <1>2, <1>4
<1>6. Effect!assertFresh(Preview(p), observe(p, 2)) <=> definition.stable
  <2>1. definition.stable \in BOOLEAN
    BY DEF Definition
  <2>2. observe(p, 2) = observe(p, 1) <=> definition.stable
    BY <2>1 DEF observe
  <2> QED
    BY <1>2, <2>2 DEF Effect!assertFresh
<1>7. ASSUME Target(p) # p.fields.status, NEW q \in Providers, NEW n \in Nat
      PROVE  Effect!verifyForward(Preview(p), observe(q, n)) <=> Holds(p, q)
  BY <1>2, <1>4, <1>5, <1>7 DEF Effect!verifyForward, Effect!compareFields, observe, Holds
<1> QED
  BY <1>2, <1>5, <1>6, <1>7 DEF Effect!HasMaterialEffect

\* A run, in terms of the values the effect owns.
LEMMA RunIs ==
  ASSUME NEW p \in Providers, definition \in Definition, NEW transport, NEW finalize
  PROVE  Run(p, transport, finalize) =
           IF Target(p) = p.fields.status THEN Ended("PREFLIGHT_FAILED", 0, "none", p)
           ELSE IF ~definition.stable     THEN Ended("ABORTED", 0, "none", p)
           ELSE Settle(Preview(p), Deliver(p, transport), transport, finalize)
BY PreviewCompares DEF Run, Preview

\* How it settles once it has dispatched.
LEMMA SettleIs ==
  ASSUME NEW p \in Providers, definition \in Definition, Target(p) # p.fields.status,
         NEW q \in Providers, NEW transport, NEW finalize
  PROVE  Settle(Preview(p), q, transport, finalize) =
           IF transport # "answered" /\ ~findEvidence(q, Preview(p))
           THEN Ended("MANUAL_RECOVERY_REQUIRED", 1, "unresolved", q)
           ELSE IF ~Holds(p, q) THEN Recover(Preview(p), q)
           ELSE IF finalize = "none" THEN Ended("VERIFIED_COMMITTED", 1, "none", q)
           ELSE Recover(Preview(p), IF finalize = "edits-and-throws" THEN Edit(q) ELSE q)
<1>1. Effect!verifyForward(Preview(p), observe(q, 3)) <=> Holds(p, q)
  BY PreviewCompares
<1> QED
  BY <1>1 DEF Settle

\* How it recovers: only what compensate() really restored is compensated.
LEMMA RecoverIs ==
  ASSUME NEW p \in Providers, definition \in Definition, Target(p) # p.fields.status,
         NEW q \in Providers
  PROVE  /\ Recover(Preview(p), q).provider \in Providers
         /\ ~Committed(Recover(Preview(p), q))
         /\ p.fields.status # Unset =>
              Recover(Preview(p), q) =
                IF definition.compensate = "none" \/ ~Holds(p, q)
                THEN Ended("MANUAL_RECOVERY_REQUIRED", 1,
                           IF definition.compensate = "none" THEN "none-declared" ELSE "blocked", q)
                ELSE IF definition.compensate = "refuses"  THEN Ended("threw", 1, "none", q)
                ELSE IF definition.compensate = "restores"
                THEN Ended("VERIFIED_COMPENSATED", 1, "none", Write(q, p.fields.status, "recovery"))
                ELSE Ended("MANUAL_RECOVERY_REQUIRED", 1, "disputed", q)
<1> DEFINE restore == Effect!restoreValues(Preview(p))
           undone  == compensate(q, restore)
           was     == p.fields.status
<1>1. was \in Nat
  BY DEF Providers
<1>2. /\ Preview(p).diff = {"status"} /\ Preview(p).before.fields = p.fields
      /\ Effect!verifyForward(Preview(p), observe(q, 4)) <=> Holds(p, q)
  <2>1. Preview(p).diff = {"status"} /\ Preview(p).before = observe(p, 1)
    BY PreviewCompares
  <2>2. Effect!verifyForward(Preview(p), observe(q, 4)) <=> Holds(p, q)
    BY PreviewCompares
  <2> QED
    BY <2>1, <2>2 DEF observe
<1>3. restore = [f \in {"status"} |-> p.fields[f]]
  BY <1>2 DEF Effect!restoreValues
<1>4. DOMAIN restore = {"status"} /\ restore["status"] = was /\ restore.status = was
  BY <1>3
<1>5. Effect!planRecovery(Preview(p), observe(q, 4)) <=>
        definition.compensate # "none" /\ Holds(p, q) /\ was # Unset
  BY <1>2, <1>4 DEF Effect!planRecovery
<1>6. Effect!verifyRecovery(restore, observe(undone, 5)) <=> undone.fields.status = was
  BY <1>4 DEF Effect!verifyRecovery, Effect!compareFields, observe
<1>7. undone = IF definition.compensate = "restores" THEN Write(q, was, "recovery") ELSE q
  BY <1>4 DEF compensate
<1>8. undone \in Providers /\ (definition.compensate = "restores" => undone.fields.status = was)
  <2>1. Write(q, was, "recovery") \in Providers /\ Write(q, was, "recovery").fields.status = was
    BY <1>1, Provided
  <2> QED
    BY <1>7, <2>1
<1>9. Recover(Preview(p), q) =
        IF definition.compensate = "none" \/ ~Holds(p, q) \/ was = Unset
        THEN Ended("MANUAL_RECOVERY_REQUIRED", 1,
                   IF definition.compensate = "none" THEN "none-declared" ELSE "blocked", q)
        ELSE IF definition.compensate = "refuses" THEN Ended("threw", 1, "none", q)
        ELSE IF undone.fields.status = was THEN Ended("VERIFIED_COMPENSATED", 1, "none", undone)
        ELSE Ended("MANUAL_RECOVERY_REQUIRED", 1, "disputed", undone)
  BY <1>5, <1>6 DEF Recover
<1>10. Holds(p, q) => q.fields.status # was
  BY DEF Holds
<1> HIDE DEF restore, undone, was
<1>11. Recover(Preview(p), q).provider \in Providers /\ ~Committed(Recover(Preview(p), q))
  BY <1>8, <1>9 DEF Ended, Committed
<1>12. ASSUME was # Unset
       PROVE  Recover(Preview(p), q) =
                IF definition.compensate = "none" \/ ~Holds(p, q)
                THEN Ended("MANUAL_RECOVERY_REQUIRED", 1,
                           IF definition.compensate = "none" THEN "none-declared" ELSE "blocked", q)
                ELSE IF definition.compensate = "refuses"  THEN Ended("threw", 1, "none", q)
                ELSE IF definition.compensate = "restores"
                THEN Ended("VERIFIED_COMPENSATED", 1, "none", Write(q, was, "recovery"))
                ELSE Ended("MANUAL_RECOVERY_REQUIRED", 1, "disputed", q)
  BY <1>7, <1>8, <1>9, <1>10, <1>12
<1> QED
  BY <1>11, <1>12 DEF was

\* What a dispatch delivers to a provider that has forgotten the ids of earlier runs.
LEMMA Delivers ==
  ASSUME NEW p \in Providers, definition \in Definition
  PROVE  /\ \A transport \in {"answered", "lost", "unsent", "foreign"} :
              Deliver(p, transport) \in Providers
         /\ Holds(p, Deliver(p, "answered")) <=> definition.leaves # "something-else"
         /\ definition.leaves = "expected" => Deliver(p, "answered").fields.status = 1
         /\ /\ Deliver(Seeded, "answered") = dispatch(Seeded, Mine)
            /\ Deliver(Seeded, "lost") = dispatch(Seeded, Mine)
            /\ Deliver(Seeded, "unsent") = Seeded
            /\ Deliver(Seeded, "foreign") = dispatch(Seeded, Foreign)
<1>1. Anew(p) \in Providers /\ Anew(p).fields = p.fields
  BY DEF Anew, Providers
<1>2. Anew(Seeded) = Seeded
  BY DEF Anew, Seeded
<1>3. \A id \in {Mine, Foreign} :
        /\ dispatch(Anew(p), id) \in Providers
        /\ Holds(Anew(p), dispatch(Anew(p), id)) <=> definition.leaves # "something-else"
        /\ definition.leaves = "expected" => dispatch(Anew(p), id).fields.status = 1
  BY <1>1, Provided
<1>4. \A q : Holds(Anew(p), q) <=> Holds(p, q)
  BY <1>1 DEF Holds, Target
<1> QED
  BY <1>1, <1>2, <1>3, <1>4 DEF Deliver

\* So a run commits if and only if the effect is new, can be observed, is there as
\* promised, was answered for or is evidenced, and nothing after it threw.
LEMMA RunsEnd ==
  ASSUME NEW p \in Providers, definition \in Definition,
         NEW transport \in {"answered", "lost", "unsent", "foreign"},
         NEW finalize \in {"none", "throws", "edits-and-throws"}
  PROVE  /\ Deliver(p, transport) \in Providers
         /\ Run(p, transport, finalize).provider \in Providers
         /\ Committed(Run(p, transport, finalize)) <=>
              /\ Target(p) # p.fields.status /\ definition.stable /\ finalize = "none"
              /\ transport = "answered" \/ findEvidence(Deliver(p, transport), Preview(p))
              /\ Holds(p, Deliver(p, transport))
         /\ Committed(Run(p, transport, finalize)) =>
              /\ Run(p, transport, finalize).provider = Deliver(p, transport)
              /\ Run(p, transport, finalize).forwardDispatchCount = 1
<1> DEFINE q == Deliver(p, transport)
           r == Run(p, transport, finalize)
<1>1. q \in Providers
  BY Delivers
<1>2. definition.stable \in BOOLEAN
  BY DEF Definition
<1>3. CASE Target(p) = p.fields.status
  BY <1>1, <1>3, RunIs DEF Ended, Committed
<1>4. CASE Target(p) # p.fields.status /\ ~definition.stable
  BY <1>1, <1>4, RunIs DEF Ended, Committed
<1>5. CASE Target(p) # p.fields.status /\ definition.stable
  <2>1. r = IF transport # "answered" /\ ~findEvidence(q, Preview(p))
            THEN Ended("MANUAL_RECOVERY_REQUIRED", 1, "unresolved", q)
            ELSE IF ~Holds(p, q) THEN Recover(Preview(p), q)
            ELSE IF finalize = "none" THEN Ended("VERIFIED_COMMITTED", 1, "none", q)
            ELSE Recover(Preview(p), IF finalize = "edits-and-throws" THEN Edit(q) ELSE q)
    BY <1>1, <1>5, RunIs, SettleIs
  <2>2. Edit(q) \in Providers
    BY <1>1, Provided
  <2>3. \A other \in Providers : /\ Recover(Preview(p), other).provider \in Providers
                                 /\ ~Committed(Recover(Preview(p), other))
    BY <1>5, RecoverIs
  <2>4. \A status, recovery, count :
          /\ Ended(status, count, recovery, q).provider = q
          /\ Ended(status, count, recovery, q).forwardDispatchCount = count
          /\ Committed(Ended(status, count, recovery, q)) <=> status = "VERIFIED_COMMITTED"
    BY DEF Ended, Committed
  <2> HIDE DEF q, r
  <2>5. /\ r.provider \in Providers
        /\ Committed(r) <=>
             /\ finalize = "none"
             /\ transport = "answered" \/ findEvidence(q, Preview(p))
             /\ Holds(p, q)
        /\ Committed(r) => r.provider = q /\ r.forwardDispatchCount = 1
    BY <1>1, <2>1, <2>2, <2>3, <2>4 DEF q
  <2> QED
    BY <1>1, <1>5, <2>5 DEF q, r
<1> QED
  BY <1>2, <1>3, <1>4, <1>5

-----------------------------------------------------------------------------
(***************************************************************************)
(* What each scenario shows.                                               *)
(***************************************************************************)
AnyCall == [skip  : SUBSET {ScenarioNames[i] : i \in DOMAIN ScenarioNames},
            edit  : {"none", "same-field", "other-field"},
            fresh : BOOLEAN]

\* What a definition that does not fail the scenario is like.
Shows(name) ==
  CASE name = "commits-once" -> definition.stable /\ definition.leaves # "something-else"
    [] name = "canonical-input-is-stable" -> definition.idempotent
    [] name = "observation-is-stable" -> definition.stable
    [] name = "lost-acknowledgement-is-recoverable" ->
         options.fresh =>
           /\ definition.stable /\ definition.leaves # "something-else"
           /\ definition.findEvidence # "never"
           /\ definition.findEvidence = "by-operation" => definition.sendsId
    [] name = "foreign-change-is-not-claimed" ->
         options.fresh /\ definition.stable /\ definition.leaves # "something-else"
           => definition.findEvidence \notin {"always", "by-state"}
    [] name = "repeat-is-refused-as-no-op" ->
         definition.stable => definition.leaves # "one-more"
    [] name = "downstream-failure-is-compensated" ->
         options.fresh /\ definition.stable /\ definition.leaves # "something-else"
           => definition.compensate \in {"none", "restores"}
    [] OTHER -> TRUE

\* What findEvidence makes of a provider.
LEMMA EvidenceIs ==
  ASSUME NEW p \in Providers, NEW q \in Providers, definition \in Definition,
         Target(p) # p.fields.status
  PROVE  /\ definition.findEvidence \in {"by-operation", "by-state", "always", "never"}
         /\ definition.findEvidence = "by-operation" =>
              (findEvidence(q, Preview(p)) <=> Mine \in q.operations)
         /\ definition.findEvidence = "by-state" => (findEvidence(q, Preview(p)) <=> Holds(p, q))
         /\ definition.findEvidence = "always" => findEvidence(q, Preview(p))
         /\ definition.findEvidence = "never"  => ~findEvidence(q, Preview(p))
<1>1. Effect!verifyForward(Preview(p), observe(q, 3)) <=> Holds(p, q)
  BY PreviewCompares
<1>2. definition.findEvidence \in {"by-operation", "by-state", "always", "never"}
  BY DEF Definition
<1> QED
  BY <1>1, <1>2 DEF findEvidence

\* A fresh provider, and what an answered or lost dispatch, or another writer,
\* leaves there.
LEMMA AtSeeded ==
  ASSUME definition \in Definition
  PROVE  /\ Seeded \in Providers /\ Seeded.fields.status = 0 /\ Unset # 0
         /\ Target(Seeded) = 1
         /\ \A id \in {Mine, Foreign} :
              /\ dispatch(Seeded, id) \in Providers
              /\ Holds(Seeded, dispatch(Seeded, id)) <=> definition.leaves # "something-else"
              /\ Mine \in dispatch(Seeded, id).operations <=> definition.sendsId /\ id = Mine
         /\ Mine \notin Seeded.operations
         /\ Mine # Foreign
<1>1. Seeded \in Providers /\ Seeded.fields.status = 0 /\ Seeded.operations = {} /\ Unset # 0
  BY DEF Seeded, Providers, Unset
<1>2. Target(Seeded) = 1
  BY <1>1 DEF Target
<1>3. ASSUME NEW id \in {Mine, Foreign}
      PROVE  /\ dispatch(Seeded, id) \in Providers
             /\ Holds(Seeded, dispatch(Seeded, id)) <=> definition.leaves # "something-else"
             /\ dispatch(Seeded, id).operations =
                  Seeded.operations \union (IF definition.sendsId THEN {id} ELSE {})
  BY <1>1, Provided
<1>4. definition.sendsId \in BOOLEAN
  BY DEF Definition
<1>5. Mine # Foreign
  BY DEF Mine, Foreign
<1> QED
  BY <1>1, <1>2, <1>3, <1>4, <1>5

\* A scenario leaves a provider.
LEMMA ProviderRemains ==
  ASSUME provider \in Providers, definition \in Definition, NEW j \in 1 .. 9
  PROVE  Outcome(ScenarioNames[j]).provider \in Providers
<1>2. \A b, p : Judged(b, p).provider = p /\ NotJudged(p).provider = p
  BY DEF Judged, NotJudged
<1>3. \A p \in Providers, transport \in {"answered", "lost", "unsent", "foreign"},
         finalize \in {"none", "throws", "edits-and-throws"} :
        Run(p, transport, finalize).provider \in Providers
  BY RunsEnd
<1>4. /\ CommitsOnce.provider \in Providers /\ LostAcknowledgement.provider \in Providers
      /\ NotClaimed("unsent").provider \in Providers /\ NotClaimed("foreign").provider \in Providers
      /\ DownstreamFailure.provider \in Providers /\ RefusesConcurrentEdit.provider \in Providers
  BY <1>2, <1>3 DEF CommitsOnce, LostAcknowledgement, NotClaimed, DownstreamFailure,
     RefusesConcurrentEdit
<1>5. RepeatIsRefused.provider \in Providers
  <2> DEFINE first == Run(provider, "answered", "none")
  <2>1. RepeatIsRefused =
          IF first.state = "threw" THEN Judged(FALSE, first.provider)
          ELSE IF ~Committed(first) THEN NotJudged(first.provider)
          ELSE Judged(Run(first.provider, "answered", "none").state = "PREFLIGHT_FAILED",
                      Run(first.provider, "answered", "none").provider)
    BY DEF RepeatIsRefused
  <2> HIDE DEF first
  <2>2. first.provider \in Providers /\ Run(first.provider, "answered", "none").provider \in Providers
    BY <1>3 DEF first
  <2> QED
    BY <1>2, <2>1, <2>2
<1>6. ObservationIsStable.provider = provider
  BY <1>2 DEF ObservationIsStable
<1>7. ScenarioNames[j] \in {"commits-once", "canonical-input-is-stable", "observation-is-stable",
    "lost-acknowledgement-is-recoverable", "undispatched-request-is-not-claimed",
    "foreign-change-is-not-claimed", "repeat-is-refused-as-no-op",
    "downstream-failure-is-compensated", "compensation-refuses-concurrent-edit"}
  BY DEF ScenarioNames
<1> QED
  BY <1>2, <1>4, <1>5, <1>6, <1>7 DEF Outcome

\* A scenario that does not fail shows what Shows says.
LEMMA NotFailed ==
  ASSUME definition \in Definition, options \in AnyCall, provider \in Providers,
         options.fresh => provider = Seeded, NEW j \in 1 .. 9,
         Outcome(ScenarioNames[j]).status # "failed"
  PROVE  Shows(ScenarioNames[j])
<1> DEFINE name == ScenarioNames[j]
<1>1. /\ definition.stable \in BOOLEAN /\ definition.idempotent \in BOOLEAN
      /\ definition.sendsId \in BOOLEAN
      /\ definition.compensate \in {"none", "restores", "does-nothing", "refuses"}
      /\ options.fresh \in BOOLEAN
  BY DEF Definition, AnyCall
<1>2. \A b, p : Judged(b, p).status # "failed" <=> b
  BY DEF Judged
<1>3. ASSUME name = "commits-once"
      PROVE  definition.stable /\ definition.leaves # "something-else"
  <2>1. Committed(Run(provider, "answered", "none"))
    BY <1>2, <1>3 DEF Outcome, CommitsOnce
  <2>2. Holds(provider, Deliver(provider, "answered")) /\ definition.stable
    BY <2>1, RunsEnd
  <2> QED
    BY <2>2, Delivers
<1>4. ASSUME name = "canonical-input-is-stable"
      PROVE  definition.idempotent
  BY <1>2, <1>4 DEF Outcome
<1>5. ASSUME name = "observation-is-stable"
      PROVE  definition.stable
  <2>1. observe(provider, 1) = observe(provider, 2)
    BY <1>2, <1>5 DEF Outcome, ObservationIsStable
  <2> QED
    BY <1>1, <2>1 DEF observe
<1>6. ASSUME name = "lost-acknowledgement-is-recoverable", options.fresh
      PROVE  /\ definition.stable /\ definition.leaves # "something-else"
             /\ definition.findEvidence # "never"
             /\ definition.findEvidence = "by-operation" => definition.sendsId
  <2> DEFINE q == dispatch(Seeded, Mine)
  <2>1. Committed(Run(Seeded, "lost", "none"))
    BY <1>2, <1>6 DEF Outcome, LostAcknowledgement
  <2>2. /\ definition.stable /\ findEvidence(q, Preview(Seeded)) /\ Holds(Seeded, q)
        /\ q \in Providers /\ Target(Seeded) # Seeded.fields.status
    BY <2>1, RunsEnd, AtSeeded, Delivers
  <2>3. definition.leaves # "something-else" /\ (Mine \in q.operations => definition.sendsId)
    BY <2>2, AtSeeded
  <2>4. /\ definition.findEvidence = "by-operation" => Mine \in q.operations
        /\ definition.findEvidence # "never"
    BY <2>2, AtSeeded, EvidenceIs
  <2> QED
    BY <2>2, <2>3, <2>4
<1>7. ASSUME name = "foreign-change-is-not-claimed", options.fresh, definition.stable,
             definition.leaves # "something-else"
      PROVE  definition.findEvidence \notin {"always", "by-state"}
  <2> DEFINE q == dispatch(Seeded, Foreign)
  <2>1. ~Committed(Run(Seeded, "foreign", "none"))
    BY <1>2, <1>7 DEF Outcome, NotClaimed
  <2>2. Holds(Seeded, q) /\ q \in Providers /\ Target(Seeded) # Seeded.fields.status
    BY <1>7, AtSeeded
  <2>3. ~findEvidence(q, Preview(Seeded))
    BY <1>7, <2>1, <2>2, RunsEnd, AtSeeded, Delivers
  <2> QED
    BY <2>2, <2>3, EvidenceIs, AtSeeded
<1>8. ASSUME name = "repeat-is-refused-as-no-op", definition.stable
      PROVE  definition.leaves # "one-more"
  <2> SUFFICES ASSUME definition.leaves = "one-more"
               PROVE  FALSE
    OBVIOUS
  <2> DEFINE first  == Run(provider, "answered", "none")
             second == Run(first.provider, "answered", "none")
  <2>1. \A p \in Providers : Committed(Run(p, "answered", "none"))
    <3> SUFFICES ASSUME NEW p \in Providers
                 PROVE  Committed(Run(p, "answered", "none"))
      OBVIOUS
    <3>1. p.fields.status \in Nat
      BY DEF Providers
    <3>2. Target(p) # p.fields.status
      BY <3>1 DEF Target
    <3>3. Holds(p, Deliver(p, "answered"))
      BY Delivers
    <3> QED
      BY <1>8, <3>2, <3>3, RunsEnd
  <2>2. first.provider \in Providers
    BY RunsEnd
  <2>3. Committed(first) /\ Committed(second)
    BY <2>1, <2>2
  <2>4. Outcome(name) =
          IF first.state = "threw" THEN Judged(FALSE, first.provider)
          ELSE IF ~Committed(first) THEN NotJudged(first.provider)
          ELSE Judged(second.state = "PREFLIGHT_FAILED", second.provider)
    BY <1>8 DEF Outcome, RepeatIsRefused
  <2>5. first.state = "VERIFIED_COMMITTED" /\ second.state = "VERIFIED_COMMITTED"
    BY <2>3 DEF Committed
  <2> QED
    BY <1>2, <2>3, <2>4, <2>5
<1>9. ASSUME name = "downstream-failure-is-compensated", options.fresh, definition.stable,
             definition.leaves # "something-else"
      PROVE  definition.compensate \in {"none", "restores"}
  <2> DEFINE q == dispatch(Seeded, Mine)
             r == Run(Seeded, "answered", "throws")
  <2>1. Holds(Seeded, q) /\ q \in Providers /\ Target(Seeded) # Seeded.fields.status
    BY <1>9, AtSeeded
  <2>2. r = Recover(Preview(Seeded), q)
    BY <1>9, <2>1, AtSeeded, RunIs, SettleIs, Delivers
  <2>3. Outcome(name) = IF r.recovery = "none-declared" THEN NotJudged(r.provider)
                        ELSE Judged(r.state = "VERIFIED_COMPENSATED", r.provider)
    BY <1>9 DEF Outcome, DownstreamFailure
  <2>4. ASSUME definition.compensate \in {"does-nothing", "refuses"}
        PROVE  r.recovery # "none-declared" /\ r.state # "VERIFIED_COMPENSATED"
    BY <2>1, <2>2, <2>4, AtSeeded, RecoverIs DEF Ended
  <2> QED
    BY <1>1, <1>2, <2>3, <2>4
<1> QED
  BY <1>1, <1>3, <1>4, <1>5, <1>6, <1>7, <1>8, <1>9 DEF Shows

\* On a fresh provider, none of the scenarios fails a sound definition.
LEMMA SoundPasses ==
  ASSUME definition \in Definition, Sound, provider = Seeded,
         options.edit \in {"none", "same-field"}, NEW j \in 1 .. 9
  PROVE  Outcome(ScenarioNames[j]).status # "failed"
<1> DEFINE name == ScenarioNames[j]
           mine == dispatch(Seeded, Mine)
           yours == dispatch(Seeded, Foreign)
<1>1. /\ definition.findEvidence = "by-operation" /\ definition.sendsId
      /\ definition.leaves = "expected" /\ definition.idempotent /\ definition.stable
      /\ definition.compensate \in {"none", "restores"}
  BY DEF Sound, Attributes
<1>2. /\ \A b, p : (Judged(b, p).status = "failed" <=> ~b) /\ Judged(b, p).provider = p
      /\ \A p : NotJudged(p).status # "failed"
  BY DEF Judged, NotJudged
<1>3. /\ Seeded \in Providers /\ Target(Seeded) # Seeded.fields.status
      /\ Seeded.fields.status # Unset
      /\ mine \in Providers /\ Holds(Seeded, mine) /\ Mine \in mine.operations
      /\ yours \in Providers /\ Mine \notin yours.operations /\ Mine \notin Seeded.operations
  BY <1>1, AtSeeded
<1>4. findEvidence(mine, Preview(Seeded)) /\ ~findEvidence(yours, Preview(Seeded))
        /\ ~findEvidence(Seeded, Preview(Seeded))
  BY <1>1, <1>3, EvidenceIs
<1>5. /\ Deliver(Seeded, "answered") = mine /\ Deliver(Seeded, "lost") = mine
      /\ Deliver(Seeded, "unsent") = Seeded /\ Deliver(Seeded, "foreign") = yours
  BY <1>3, Delivers
<1>6. /\ Committed(Run(Seeded, "answered", "none")) /\ Committed(Run(Seeded, "lost", "none"))
      /\ Run(Seeded, "answered", "none").forwardDispatchCount = 1
      /\ Run(Seeded, "lost", "none").forwardDispatchCount = 1
      /\ Run(Seeded, "answered", "none").provider = mine
  BY <1>1, <1>3, <1>4, <1>5, RunsEnd
<1>7. ASSUME NEW transport \in {"unsent", "foreign"}
      PROVE  NotClaimed(transport).status # "failed"
  <2>1. Run(Seeded, transport, "none") =
          Ended("MANUAL_RECOVERY_REQUIRED", 1, "unresolved", Deliver(Seeded, transport))
    BY <1>1, <1>3, <1>4, <1>5, <1>7, RunIs, SettleIs
  <2>2. Run(Seeded, transport, "none").state = "MANUAL_RECOVERY_REQUIRED"
    BY <2>1 DEF Ended
  <2> QED
    BY <1>2, <2>2 DEF NotClaimed, Committed
<1>8. RepeatIsRefused.status # "failed"
  <2>1. mine.fields.status = 1 /\ Target(mine) = 1
    BY <1>1, <1>3, Provided DEF Target
  <2>2. Run(mine, "answered", "none") = Ended("PREFLIGHT_FAILED", 0, "none", mine)
    BY <1>3, <2>1, RunIs
  <2>3. Run(mine, "answered", "none").state = "PREFLIGHT_FAILED"
    BY <2>2 DEF Ended
  <2>4. Run(Seeded, "answered", "none").state # "threw"
    BY <1>6 DEF Committed
  <2> HIDE DEF mine
  <2> QED
    BY <1>2, <1>6, <2>3, <2>4 DEF RepeatIsRefused
<1>9. DownstreamFailure.status # "failed"
  <2> DEFINE r == Run(Seeded, "answered", "throws")
  <2>1. r = Recover(Preview(Seeded), mine)
    BY <1>1, <1>3, <1>5, RunIs, SettleIs
  <2>2. r.recovery = "none-declared" \/ r.state = "VERIFIED_COMPENSATED"
    BY <1>1, <1>3, <2>1, RecoverIs DEF Ended
  <2> HIDE DEF r
  <2>3. DownstreamFailure = IF r.recovery = "none-declared" THEN NotJudged(r.provider)
                            ELSE Judged(r.state = "VERIFIED_COMPENSATED", r.provider)
    BY DEF DownstreamFailure, r
  <2> QED
    BY <1>2, <2>2, <2>3
<1>10. RefusesConcurrentEdit.status # "failed"
  <2> DEFINE r == Run(Seeded, "answered", "edits-and-throws")
             edited == Edit(mine)
  <2>1. CASE options.edit = "none"
    BY <1>2, <2>1 DEF RefusesConcurrentEdit
  <2>2. CASE options.edit = "same-field"
    <3>1. edited \in Providers /\ edited.fields.status = 9
      BY <1>3, <2>2, Provided
    <3>2. ~Holds(Seeded, edited)
      BY <3>1, AtSeeded DEF Holds
    <3>3. r = Recover(Preview(Seeded), edited)
      BY <1>1, <1>3, <1>5, RunIs, SettleIs
    <3>4. r.state = "MANUAL_RECOVERY_REQUIRED"
      BY <1>3, <3>1, <3>2, <3>3, RecoverIs DEF Ended
    <3> HIDE DEF r
    <3>5. RefusesConcurrentEdit = Judged(r.state = "MANUAL_RECOVERY_REQUIRED", r.provider)
      BY <2>2 DEF RefusesConcurrentEdit, r
    <3> QED
      BY <1>2, <3>4, <3>5
  <2> QED
    BY <2>1, <2>2
<1>11. /\ CommitsOnce.status # "failed" /\ LostAcknowledgement.status # "failed"
       /\ ObservationIsStable.status # "failed"
       /\ Judged(definition.idempotent, provider).status # "failed"
  BY <1>1, <1>2, <1>6 DEF CommitsOnce, LostAcknowledgement, ObservationIsStable, observe
<1>12. name \in {"commits-once", "canonical-input-is-stable", "observation-is-stable",
    "lost-acknowledgement-is-recoverable", "undispatched-request-is-not-claimed",
    "foreign-change-is-not-claimed", "repeat-is-refused-as-no-op",
    "downstream-failure-is-compensated", "compensation-refuses-concurrent-edit"}
  BY DEF ScenarioNames
<1> QED
  BY <1>7, <1>8, <1>9, <1>10, <1>11, <1>12 DEF Outcome

-----------------------------------------------------------------------------
(***************************************************************************)
(* What a report shows.                                                    *)
(***************************************************************************)
NotFailedSoFar == \A i \in DOMAIN scenarios : scenarios[i].status # "failed"

\* Where the author is fair to the suite: fresh providers, nothing that throws,
\* and a writer who edits what the effect wrote.
FairPlay == options.fresh /\ thrown = {} /\ options.edit # "other-field"

\* What the results so far say of the definition.  Where nothing is left out and
\* setup() does not start afresh, an effect that leaves what it expected has no
\* second change to make: it is found out at the fourth scenario, by then without
\* a material effect.
Judging ==
  /\ Reported
  /\ definition \in Definition /\ options \in AnyCall /\ provider \in Providers
  /\ at = "body" /\ options.fresh => provider = Seeded
  /\ \A i \in DOMAIN scenarios :
       ScenarioNames[i] \notin options.skip /\ scenarios[i].status # "failed"
         => Shows(ScenarioNames[i])
  /\ /\ options.skip = {} /\ ~options.fresh /\ definition.leaves = "expected"
     /\ NotFailedSoFar /\ Len(scenarios) > 0
     => Len(scenarios) <= 3 /\ provider.fields.status = 1
  /\ Sound /\ FairPlay => NotFailedSoFar

\* Nothing that is judged changes.
LEMMA SameCall ==
  ASSUME UNCHANGED <<definition, options>>
  PROVE  /\ \A name : Shows(name)' <=> Shows(name)
         /\ Sound' <=> Sound
         /\ thrown \subseteq thrown' => (FairPlay' => FairPlay)
<1>1. definition' = definition /\ options' = options
  OBVIOUS
<1>2. \A name : Shows(name)' <=> Shows(name)
  BY <1>1 DEF Shows
<1>3. Sound' <=> Sound
  BY <1>1 DEF Sound, Attributes
<1>4. thrown \subseteq thrown' => (FairPlay' => FairPlay)
  BY <1>1 DEF FairPlay
<1> QED
  BY <1>2, <1>3, <1>4

\* One more result is judged as the others were, if it shows what it should.
LEMMA OneMoreResult ==
  ASSUME Judging, Reported', UNCHANGED <<definition, options>>, thrown \subseteq thrown',
         Len(scenarios) < 9, NEW status \in Statuses, Push(status),
         at' # "body", provider' \in Providers,
         Name \notin options.skip /\ status # "failed" => Shows(Name),
         /\ options.skip = {} /\ ~options.fresh /\ definition.leaves = "expected"
         /\ NotFailedSoFar /\ status # "failed"
         => Len(scenarios) <= 2 /\ provider'.fields.status = 1,
         Sound /\ FairPlay' => status # "failed"
  PROVE  Judging'
<1> DEFINE n == Len(scenarios)
<1>1. /\ Len(scenarios') = n + 1 /\ DOMAIN scenarios' = 1 .. (n + 1)
      /\ \A i \in DOMAIN scenarios : scenarios'[i] = scenarios[i]
      /\ scenarios'[Position] = [name |-> Name, status |-> status]
      /\ Name = ScenarioNames[Position]
  BY Pushing DEF Judging
<1>2. Position = n + 1 /\ n \in Nat /\ DOMAIN scenarios = 1 .. n
  BY DEF Position, Judging, Reported
<1>3. \A i \in 1 .. (n + 1) : i \in DOMAIN scenarios \/ i = n + 1
  BY <1>2
<1>4. \A i \in DOMAIN scenarios : i \in 1 .. (n + 1)
  BY <1>2
<1>5. n + 1 \in 1 .. (n + 1) /\ scenarios'[n + 1].status = status /\ Name = ScenarioNames[n + 1]
  BY <1>1, <1>2
<1>6. n < 3 <=> n <= 2
  BY <1>2
<1>7. n + 1 <= 3 <=> n <= 2
  BY <1>2
<1> HIDE DEF n
<1>8. NotFailedSoFar' <=> NotFailedSoFar /\ status # "failed"
  BY <1>1, <1>3, <1>4, <1>5 DEF NotFailedSoFar
<1>9. \A i \in DOMAIN scenarios' :
        ScenarioNames[i] \notin options'.skip /\ scenarios'[i].status # "failed"
          => Shows(ScenarioNames[i])'
  <2> SUFFICES ASSUME NEW i \in DOMAIN scenarios', ScenarioNames[i] \notin options.skip,
                      scenarios'[i].status # "failed"
               PROVE  Shows(ScenarioNames[i])
    BY SameCall
  <2>1. CASE i \in DOMAIN scenarios
    BY <1>1, <2>1 DEF Judging
  <2>2. CASE i = n + 1
    BY <1>5, <2>2
  <2> QED
    BY <1>1, <1>3, <2>1, <2>2
<1>10. /\ options'.skip = {} /\ ~options'.fresh /\ definition'.leaves = "expected"
       /\ NotFailedSoFar' /\ Len(scenarios') > 0
       => Len(scenarios') <= 3 /\ provider'.fields.status = 1
  BY <1>1, <1>7, <1>8 DEF n
<1>11. Sound' /\ FairPlay' => NotFailedSoFar'
  BY <1>8, SameCall DEF Judging
<1> QED
  BY <1>9, <1>10, <1>11 DEF Judging

\* A step that adds no result judges nothing.
LEMMA SameResults ==
  ASSUME Judging, Reported', UNCHANGED <<definition, options, scenarios>>,
         thrown \subseteq thrown', provider' \in Providers,
         at' = "body" /\ options.fresh => provider' = Seeded,
         ~options.fresh => provider' = provider
  PROVE  Judging'
<1>1. /\ scenarios' = scenarios /\ options' = options /\ definition' = definition
      /\ NotFailedSoFar' <=> NotFailedSoFar
  BY DEF NotFailedSoFar
<1>2. \A i \in DOMAIN scenarios' :
        ScenarioNames[i] \notin options'.skip /\ scenarios'[i].status # "failed"
          => Shows(ScenarioNames[i])'
  BY <1>1, SameCall DEF Judging
<1>3. Sound' /\ FairPlay' => NotFailedSoFar'
  BY <1>1, SameCall DEF Judging
<1>4. /\ options'.skip = {} /\ ~options'.fresh /\ definition'.leaves = "expected"
      /\ NotFailedSoFar' /\ Len(scenarios') > 0
      => Len(scenarios') <= 3 /\ provider'.fields.status = 1
  BY <1>1 DEF Judging
<1> QED
  BY <1>1, <1>2, <1>3, <1>4 DEF Judging

\* What a scenario that has been judged shows of the definition, and of the provider
\* where setup() does not start afresh.
LEMMA BodyJudges ==
  ASSUME Judging, at = "body"
  PROVE  /\ Outcome(Name).status \in Statuses /\ Outcome(Name).provider \in Providers
         /\ Outcome(Name).status # "failed" => Shows(Name)
         /\ /\ options.skip = {} /\ ~options.fresh /\ definition.leaves = "expected"
            /\ NotFailedSoFar /\ Outcome(Name).status # "failed"
            => Len(scenarios) <= 2 /\ Outcome(Name).provider.fields.status = 1
         /\ Sound /\ FairPlay => Outcome(Name).status # "failed"
<1> DEFINE n == Len(scenarios)
<1>1. n \in Nat /\ n < 9 /\ Position \in 1 .. 9 /\ Position = n + 1 /\ Name = ScenarioNames[Position]
  BY DEF Judging, Reported, Position, Name
<1>2. /\ definition \in Definition /\ options \in AnyCall /\ provider \in Providers
      /\ options.fresh => provider = Seeded
  BY DEF Judging
<1>3. Outcome(Name).status \in Statuses /\ Outcome(Name).provider \in Providers
  BY <1>1, <1>2, OutcomeHasStatus, ProviderRemains
<1>4. Outcome(Name).status # "failed" => Shows(Name)
  BY <1>1, <1>2, NotFailed
<1>5. ASSUME options.skip = {}, ~options.fresh, definition.leaves = "expected",
             NotFailedSoFar, Outcome(Name).status # "failed"
      PROVE  n <= 2 /\ Outcome(Name).provider.fields.status = 1
  <2>1. \A b, p : /\ Judged(b, p).status # "failed" <=> b
                  /\ Judged(b, p).provider = p
    BY DEF Judged
  <2>2. n > 0 => n <= 3 /\ provider.fields.status = 1
    BY <1>5 DEF Judging
  <2>3. CASE n = 0
    <3>1. Name = "commits-once"
      BY <1>1, <2>3 DEF ScenarioNames
    <3>2. /\ Committed(Run(provider, "answered", "none"))
          /\ Outcome(Name).provider = Run(provider, "answered", "none").provider
      BY <1>5, <2>1, <3>1 DEF Outcome, CommitsOnce
    <3>3. Outcome(Name).provider = Deliver(provider, "answered")
      BY <1>2, <3>2, RunsEnd
    <3> QED
      BY <1>2, <1>5, <2>3, <3>3, Delivers
  <2>4. CASE n = 1 \/ n = 2
    <3>1. CASE n = 1
      <4>1. Name = "canonical-input-is-stable"
        BY <1>1, <3>1 DEF ScenarioNames
      <4> QED
        BY <2>1, <2>2, <3>1, <4>1 DEF Outcome
    <3>2. CASE n = 2
      <4>1. Name = "observation-is-stable"
        BY <1>1, <3>2 DEF ScenarioNames
      <4> QED
        BY <2>1, <2>2, <3>2, <4>1 DEF Outcome, ObservationIsStable
    <3> QED
      BY <2>4, <3>1, <3>2
  <2>5. n # 3
    <3> SUFFICES ASSUME n = 3
                 PROVE  FALSE
      OBVIOUS
    <3>1. Name = "lost-acknowledgement-is-recoverable"
      BY <1>1 DEF ScenarioNames
    <3>2. Committed(Run(provider, "lost", "none"))
      BY <1>5, <2>1, <3>1 DEF Outcome, LostAcknowledgement
    <3>3. Target(provider) # provider.fields.status
      BY <1>2, <3>2, RunsEnd
    <3> QED
      BY <1>5, <2>2, <3>3 DEF Target
  <2>6. n = 0 \/ n = 1 \/ n = 2
    <3>1. n <= 3
      BY <1>1, <2>2
    <3>2. \A m \in Nat : m <= 3 /\ m # 3 => m = 0 \/ m = 1 \/ m = 2
      OBVIOUS
    <3>3. n \in Nat
      BY <1>1
    <3> HIDE DEF n
    <3> QED
      BY <2>5, <3>1, <3>2, <3>3
  <2> QED
    BY <2>3, <2>4, <2>6
<1>6. Sound /\ FairPlay => Outcome(Name).status # "failed"
  <2>1. options.edit \in {"none", "same-field", "other-field"}
    BY <1>2 DEF AnyCall
  <2> QED
    BY <1>1, <1>2, <2>1, SoundPasses DEF FairPlay
<1> QED
  BY <1>3, <1>4, <1>5, <1>6

\* Every step judges rightly.
LEMMA StepJudges == Judging /\ [Next]_vars => Judging'
<1> SUFFICES ASSUME Judging, [Next]_vars
             PROVE  Judging'
  OBVIOUS
<1>1. Reported /\ Reported'
  BY StepReports DEF Judging
<1>2. Seeded \in Providers /\ provider \in Providers
  BY Provided DEF Judging
<1>3. CASE UNCHANGED vars
  BY <1>1, <1>2, <1>3, SameResults DEF vars, Judging
<1>4. Len(scenarios) \in Nat /\ (Pending => Len(scenarios) < 9)
  BY <1>1, NineNames DEF Pending, Position, Reported
<1>5. {"passed", "failed", "skipped"} = Statuses
  BY DEF Statuses
<1>6. CASE Skip
  <2>1. /\ Push("skipped") /\ Name \in options.skip /\ at' # "body" /\ provider' = provider
        /\ UNCHANGED <<definition, options>> /\ thrown' = thrown /\ Len(scenarios) < 9
    BY <1>4, <1>6 DEF Skip, Pending
  <2>2. "skipped" \in Statuses /\ "skipped" # "failed" /\ options.skip # {}
    BY <1>5, <2>1
  <2> QED
    BY <1>1, <1>2, <2>1, <2>2, OneMoreResult
<1>7. CASE Setup
  <2>1. /\ UNCHANGED <<definition, options, scenarios>> /\ thrown' = thrown
        /\ provider' = IF options.fresh THEN Seeded ELSE provider
    BY <1>7 DEF Setup
  <2> QED
    BY <1>1, <1>2, <2>1, SameResults
<1>8. CASE SetupThrows
  <2>1. /\ Push("failed") /\ at' # "body" /\ provider' = provider /\ Len(scenarios) < 9
        /\ UNCHANGED <<definition, options>> /\ thrown' = thrown \union {<<"setup", Position>>}
    BY <1>4, <1>8 DEF SetupThrows, Throws, Pending
  <2>2. ~(Sound /\ FairPlay')
    BY <2>1 DEF FairPlay
  <2> QED
    BY <1>1, <1>2, <1>5, <2>1, <2>2, OneMoreResult
<1>9. CASE Body
  <2>1. /\ Push(Outcome(Name).status) /\ at = "body" /\ at' # "body"
        /\ provider' = Outcome(Name).provider
        /\ UNCHANGED <<definition, options>> /\ thrown' = thrown /\ Len(scenarios) < 9
    BY <1>1, <1>9 DEF Body, Reported
  <2>2. FairPlay' <=> FairPlay
    BY <2>1 DEF FairPlay
  <2>3. /\ Outcome(Name).status \in Statuses /\ Outcome(Name).provider \in Providers
        /\ Outcome(Name).status # "failed" => Shows(Name)
        /\ /\ options.skip = {} /\ ~options.fresh /\ definition.leaves = "expected"
           /\ NotFailedSoFar /\ Outcome(Name).status # "failed"
           => Len(scenarios) <= 2 /\ provider'.fields.status = 1
        /\ Sound /\ FairPlay' => Outcome(Name).status # "failed"
    BY <2>1, <2>2, BodyJudges
  <2> QED
    BY <1>1, <2>1, <2>3, OneMoreResult
<1>10. CASE BodyThrows
  <2>1. /\ Push("failed") /\ at = "body" /\ at' # "body"
        /\ provider' \in {provider, Outcome(Name).provider} /\ Len(scenarios) < 9
        /\ UNCHANGED <<definition, options>> /\ thrown' = thrown \union {<<"scenario", Position>>}
    BY <1>1, <1>10 DEF BodyThrows, Throws, Reported
  <2>2. ~(Sound /\ FairPlay')
    BY <2>1 DEF FairPlay
  <2>3. provider' \in Providers
    BY <1>2, <2>1, BodyJudges
  <2> QED
    BY <1>1, <1>5, <2>1, <2>2, <2>3, OneMoreResult
<1>11. CASE Cleanup
  BY <1>1, <1>2, <1>11, SameResults DEF Cleanup
<1>12. CASE CleanupThrows
  <2>1. /\ UNCHANGED <<definition, options, scenarios, provider>> /\ at' # "body"
        /\ thrown \subseteq thrown'
    BY <1>12 DEF CleanupThrows, Throws
  <2> QED
    BY <1>1, <1>2, <2>1, SameResults
<1>13. CASE Report
  BY <1>1, <1>2, <1>13, SameResults DEF Report
<1> QED
  BY <1>3, <1>6, <1>7, <1>8, <1>9, <1>10, <1>11, <1>12, <1>13 DEF Next

\* Nothing is judged at first.
LEMMA InitJudges == Init => Judging
<1> SUFFICES ASSUME Init
             PROVE  Judging
  OBVIOUS
<1>1. definition \in Definition /\ options \in AnyCall
  BY DefinitionsAssumption, OptionsAssumption DEF Init, AnyCall
<1>2. provider \in Providers
  BY DEF Init, Seeded, Providers
<1> QED
  BY <1>1, <1>2, InitReports DEF Init, Judging, NotFailedSoFar

\* So what the results say of the definition is right in every state.
LEMMA JudgingInvariant == Spec => []Judging
BY InitJudges, StepJudges, PTL DEF Spec

\* A definition that passes everything has none of the faults the suite is for,
\* and one that passes both scenarios of a lost dispatch on fresh providers
\* attributes effects by its own operation, for any definitions and however often
\* something throws.
THEOREM CertifiedAreSound == Spec => []CertifiedEffectsAreSound
<1>1. Judging => CertifiedEffectsAreSound
  <2> SUFFICES ASSUME Judging, Certified
               PROVE  /\ options.skip = {} => Sound
                      /\ /\ options.fresh
                         /\ options.skip \intersect {"lost-acknowledgement-is-recoverable",
                                                     "foreign-change-is-not-claimed"} = {}
                         => Attributes
    BY DEF CertifiedEffectsAreSound
  <2>1. /\ Len(scenarios) = 9 /\ DOMAIN scenarios = 1 .. 9
        /\ \A i \in 1 .. 9 : scenarios[i].status # "failed"
    BY DEF Judging, Certified, Reported
  <2>2. \A i \in 1 .. 9 : ScenarioNames[i] \notin options.skip => Shows(ScenarioNames[i])
    BY <2>1 DEF Judging
  <2>3. NotFailedSoFar
    BY <2>1 DEF NotFailedSoFar
  <2>4. /\ definition.findEvidence \in {"by-operation", "by-state", "always", "never"}
        /\ definition.leaves \in {"expected", "something-else", "one-more"}
        /\ options.fresh \in BOOLEAN
    BY DEF Judging, Definition, AnyCall
  <2>5. /\ ScenarioNames[1] = "commits-once" /\ ScenarioNames[2] = "canonical-input-is-stable"
        /\ ScenarioNames[3] = "observation-is-stable"
        /\ ScenarioNames[4] = "lost-acknowledgement-is-recoverable"
        /\ ScenarioNames[6] = "foreign-change-is-not-claimed"
        /\ ScenarioNames[7] = "repeat-is-refused-as-no-op"
        /\ ScenarioNames[8] = "downstream-failure-is-compensated"
    BY DEF ScenarioNames
  <2>6. ASSUME options.fresh, "lost-acknowledgement-is-recoverable" \notin options.skip,
               "foreign-change-is-not-claimed" \notin options.skip
        PROVE  Attributes
    <3>1. /\ Shows("lost-acknowledgement-is-recoverable")
          /\ Shows("foreign-change-is-not-claimed")
      BY <2>2, <2>5, <2>6
    <3> QED
      BY <2>4, <2>6, <3>1 DEF Shows, Attributes
  <2>7. ASSUME options.skip = {}
        PROVE  Sound
    <3>1. /\ Shows("commits-once") /\ Shows("canonical-input-is-stable")
          /\ Shows("repeat-is-refused-as-no-op") /\ Shows("downstream-failure-is-compensated")
      BY <2>2, <2>5, <2>7
    <3>2. definition.leaves = "expected" /\ definition.idempotent /\ definition.stable
      BY <2>4, <3>1 DEF Shows
    <3>3. options.fresh
      <4>1. ~(9 <= 3)
        OBVIOUS
      <4> QED
        BY <2>1, <2>3, <2>4, <2>7, <3>2, <4>1 DEF Judging
    <3>4. definition.compensate \in {"none", "restores"}
      BY <3>1, <3>2, <3>3 DEF Shows
    <3>5. Attributes
      BY <2>6, <2>7, <3>3
    <3> QED
      BY <3>2, <3>4, <3>5 DEF Sound
  <2> QED
    BY <2>6, <2>7
<1> QED
  BY <1>1, JudgingInvariant, PTL

\* A sound definition is accused of nothing, where the suite is played fairly.
THEOREM SoundAreCertified == Spec => []SoundEffectsAreCertified
<1>1. Judging => SoundEffectsAreCertified
  BY DEF Judging, SoundEffectsAreCertified, FairPlay, NotFailedSoFar, Certified
<1> QED
  BY <1>1, JudgingInvariant, PTL
=============================================================================
