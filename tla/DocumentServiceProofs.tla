----------------------- MODULE DocumentServiceProofs -----------------------
(***************************************************************************)
(* Proofs about the provider of the worked example, for any keys, fields,  *)
(* values and requests on their way.                                       *)
(*                                                                         *)
(* #patch answers from the record of the key before it looks at anything   *)
(* else, so every step of the service is one of two: it leaves the         *)
(* document and the records alone, or it makes the next version of the     *)
(* document and records it under a key that had no record (Handled).       *)
(***************************************************************************)
EXTENDS DocumentService, TLAPS

\* A record is of a version the document has been through, and of no other
\* record's.
ServiceInv == TypeOK /\ VersionsAreDistinct

\* What handling one request does to the document, the records and the answer.
Applied(r) ==
  /\ ~Recorded(r.key)
  /\ PreconditionHolds(r)
  /\ document'.version = document.version + 1
  /\ operations' = [operations EXCEPT ![r.key] =
                      [payload |-> r.patch, version |-> document'.version]]
  /\ replies'[r.key] \in {"200", "closed"} \/ replies[r.key] # "open"

LeftAlone(r) ==
  /\ UNCHANGED <<document, operations>>
  /\ replies[r.key] = "open" /\ replies'[r.key] = "200" =>
       Recorded(r.key) /\ operations[r.key].payload = r.patch

Handled(r) == Applied(r) \/ LeftAlone(r)

-----------------------------------------------------------------------------
(***************************************************************************)
(* Types.                                                                  *)
(***************************************************************************)
\* The values of patchFields are the patched ones and else the old ones: the
\* document stays a document, one version on.
LEMMA ApplyMakesADocument ==
  ASSUME document \in Documents, NEW patch \in Patches, Apply(patch)
  PROVE  document' \in Documents /\ document'.version = document.version + 1
<1>1. PICK F \in SUBSET Fields : patch \in [F -> Values]
  BY DEF Patches
<1>2. DOMAIN patch = F /\ \A f \in F : patch[f] \in Values
  BY <1>1
<1>3. \A f \in Fields : document.fields[f] \in Values
  BY DEF Documents
<1> DEFINE fields == [f \in Fields |-> IF f \in DOMAIN patch THEN patch[f]
                                                             ELSE document.fields[f]]
<1>4. fields \in [Fields -> Values]
  BY <1>2, <1>3
<1>5. document' = [version |-> document.version + 1, fields |-> fields]
  BY DEF Apply
<1>6. document.version + 1 \in Nat \ {0}
  BY DEF Documents
<1> QED
  BY <1>4, <1>5, <1>6 DEF Documents

\* Whatever is answered, and over whichever connection, is an answer.
LEMMA RespondAnswers ==
  ASSUME replies \in [Keys -> Replies], NEW key \in Keys, NEW status \in Replies,
         Respond(key, status)
  PROVE  replies' \in [Keys -> Replies]
BY DEF Respond

\* #patch: the handler of one request keeps the types of everything.
LEMMA PatchKeepsTypes ==
  ASSUME TypeOK, NEW r \in requests, NEW fault \in FaultModes, Patch(r, fault)
  PROVE  TypeOK'
<1>1. r.key \in Keys /\ r.patch \in Patches /\ requests' \subseteq Requests
  BY DEF TypeOK, Requests, Patch
<1>2. {"200", "409", "412", "422", "503", "closed"} \subseteq Replies
  BY DEF Replies
<1>3. replies' \in [Keys -> Replies]
  BY <1>1, <1>2, RespondAnswers
     DEF TypeOK, Patch, Replay, Refuse, Reject, FailPrecondition, Commit
<1>4. /\ document' \in Documents
      /\ operations' \in [Keys -> Operations \union {NoOperation}]
  <2>1. CASE Commit(r, fault)
    <3>1. document' \in Documents
      BY <1>1, <2>1, ApplyMakesADocument DEF TypeOK, Commit
    <3>2. [payload |-> r.patch, version |-> document.version + 1] \in Operations
      BY <1>1 DEF TypeOK, Operations, Documents
    <3> QED
      BY <1>1, <2>1, <3>1, <3>2 DEF TypeOK, Commit
  <2>2. CASE Replay(r) \/ Refuse(r, fault) \/ Reject(r, fault) \/ FailPrecondition(r, fault)
    BY <2>2 DEF TypeOK, Replay, Refuse, Reject, FailPrecondition
  <2> QED
    BY <2>1, <2>2 DEF Patch
<1> QED
  BY <1>1, <1>3, <1>4 DEF TypeOK

\* So do the people who edit and the clients with their connections.
LEMMA NextKeepsTypes ==
  ASSUME TypeOK, [Next]_vars
  PROVE  TypeOK'
<1>1. ASSUME NEW key \in Keys, NEW patch \in Patches,
             NEW ifMatch \in 1 .. MaxVersion \union {NoIfMatch},
             Send([key |-> key, patch |-> patch, ifMatch |-> ifMatch])
      PROVE  TypeOK'
  <2>1. ifMatch \in Nat \union {NoIfMatch}
    BY ServiceAssumption
  <2>2. [key |-> key, patch |-> patch, ifMatch |-> ifMatch] \in Requests
    BY <2>1 DEF Requests
  <2>3. replies' \in [Keys -> Replies]
    BY <1>1 DEF Send, TypeOK, Replies
  <2> QED
    BY <1>1, <2>2, <2>3 DEF Send, TypeOK
<1>2. ASSUME NEW r \in requests, NEW fault \in FaultModes, Patch(r, fault)
      PROVE  TypeOK'
  BY <1>2, PatchKeepsTypes
<1>3. ASSUME NEW patch \in Patches, Edit(patch)
      PROVE  TypeOK'
  BY <1>3, ApplyMakesADocument DEF Edit, TypeOK
<1>4. ASSUME NEW key \in Keys, FailToSend(key) \/ Drop(key)
      PROVE  TypeOK'
  BY <1>4 DEF FailToSend, Drop, TypeOK, Replies
<1>5. CASE UNCHANGED vars
  BY <1>5 DEF vars, TypeOK
<1> QED
  BY <1>1, <1>2, <1>3, <1>4, <1>5 DEF Next

-----------------------------------------------------------------------------
(***************************************************************************)
(* One request, and every other step.                                      *)
(***************************************************************************)
\* #patch applies its request, or it leaves the document and the records alone.
LEMMA PatchHandles ==
  ASSUME TypeOK, NEW r \in requests, NEW fault \in FaultModes, Patch(r, fault)
  PROVE  Handled(r)
<1>1. r.key \in Keys /\ r.patch \in Patches
  BY DEF TypeOK, Requests
<1>2. replies \in [Keys -> Replies]
  BY DEF TypeOK
<1>3. CASE Replay(r)
  BY <1>1, <1>2, <1>3 DEF Replay, Respond, Handled, LeftAlone
<1>4. CASE Refuse(r, fault) \/ Reject(r, fault) \/ FailPrecondition(r, fault)
  BY <1>1, <1>2, <1>4
     DEF Refuse, Reject, FailPrecondition, Respond, Handled, LeftAlone
<1>5. CASE Commit(r, fault)
  <2>1. document'.version = document.version + 1
    BY <1>1, <1>5, ApplyMakesADocument DEF Commit, TypeOK
  <2>2. replies'[r.key] \in {"200", "closed"} \/ replies[r.key] # "open"
    BY <1>1, <1>2, <1>5 DEF Commit, Respond
  <2> QED
    BY <1>5, <2>1, <2>2 DEF Commit, Handled, Applied
<1> QED
  BY <1>3, <1>4, <1>5 DEF Patch

\* A step takes one request from its way and handles it, or takes none and
\* leaves the records alone; then the document is as it was or a version on.
LEMMA EveryStepHandles ==
  ASSUME TypeOK, [Next]_vars
  PROVE  \/ \E r \in requests : requests' = requests \ {r} /\ Handled(r)
         \/ /\ requests \subseteq requests'
            /\ UNCHANGED operations
            /\ document' = document \/ document'.version = document.version + 1
<1>1. ASSUME NEW r \in requests, NEW fault \in FaultModes, Patch(r, fault)
      PROVE  requests' = requests \ {r} /\ Handled(r)
  BY <1>1, PatchHandles DEF Patch
<1>2. ASSUME NEW patch \in Patches, Edit(patch)
      PROVE  /\ UNCHANGED <<operations, requests>>
             /\ document'.version = document.version + 1
  BY <1>2, ApplyMakesADocument DEF Edit, TypeOK
<1>3. ASSUME NEW r, Send(r)
      PROVE  requests \subseteq requests' /\ UNCHANGED <<document, operations>>
  BY <1>3 DEF Send
<1>4. ASSUME NEW key \in Keys, FailToSend(key) \/ Drop(key)
      PROVE  UNCHANGED <<document, operations, requests>>
  BY <1>4 DEF FailToSend, Drop
<1> QED
  BY <1>1, <1>2, <1>3, <1>4 DEF Next, vars

\* The record of a key is told from none.
LEMMA AppliedIsRecorded ==
  ASSUME TypeOK, TypeOK', NEW r \in requests, Applied(r)
  PROVE  /\ operations'[r.key] = [payload |-> r.patch, version |-> document'.version]
         /\ operations'[r.key].payload = r.patch
         /\ operations'[r.key].version = document'.version
         /\ Recorded(r.key)'
         /\ \A k \in Keys : k # r.key => operations'[k] = operations[k]
<1>1. r.key \in Keys /\ r.patch \in Patches
  BY DEF TypeOK, Requests
<1>2. operations'[r.key] = [payload |-> r.patch, version |-> document'.version]
  BY <1>1 DEF Applied, TypeOK
<1>3. operations'[r.key] \in Operations
  BY <1>1, <1>2 DEF TypeOK, Operations, Documents
<1>4. /\ operations'[r.key].payload = r.patch
      /\ operations'[r.key].version = document'.version
  BY <1>2
<1> QED
  BY <1>1, <1>2, <1>3, <1>4, ServiceAssumption DEF Applied, TypeOK, Recorded

-----------------------------------------------------------------------------
\* What holds of the versions in the records stays so: a new record has the
\* version the document has only now.
LEMMA VersionsStayDistinct ==
  ASSUME ServiceInv, [Next]_vars
  PROVE  VersionsAreDistinct'
<1>1. TypeOK /\ TypeOK'
  BY NextKeepsTypes DEF ServiceInv
<1>2. /\ document.version \in Nat /\ document'.version \in Nat
      /\ \A k \in Keys : Recorded(k) => operations[k].version \in Nat
  BY <1>1 DEF TypeOK, Documents, Operations, Recorded
<1>3. \A j, k \in Keys : Recorded(j) /\ Recorded(k) =>
        /\ operations[j].version <= document.version
        /\ j # k => operations[j].version # operations[k].version
  BY DEF ServiceInv, VersionsAreDistinct
<1>4. ASSUME NEW r \in requests, Applied(r)
      PROVE  VersionsAreDistinct'
  <2>1. document'.version = document.version + 1
    BY <1>4 DEF Applied
  <2>2. operations'[r.key].version = document'.version
    BY <1>1, <1>4, AppliedIsRecorded
  <2>3. \A k \in Keys : k # r.key /\ Recorded(k)' =>
          Recorded(k) /\ operations'[k] = operations[k]
    BY <1>1, <1>4, AppliedIsRecorded DEF Recorded
  <2> SUFFICES ASSUME NEW j \in Keys, NEW k \in Keys, Recorded(j)', Recorded(k)'
               PROVE  /\ operations'[j].version <= document'.version
                      /\ j # k => operations'[j].version # operations'[k].version
    BY DEF VersionsAreDistinct
  <2>4. CASE j = r.key
    BY <1>2, <1>3, <2>1, <2>2, <2>3, <2>4
  <2>5. CASE j # r.key
    BY <1>2, <1>3, <2>1, <2>2, <2>3, <2>5
  <2> QED
    BY <2>4, <2>5
<1>5. ASSUME UNCHANGED operations,
             document' = document \/ document'.version = document.version + 1
      PROVE  VersionsAreDistinct'
  BY <1>2, <1>3, <1>5 DEF VersionsAreDistinct, Recorded
<1> QED
  BY <1>1, <1>4, <1>5, EveryStepHandles DEF Handled, LeftAlone

LEMMA ServiceInvInvariant == Spec => []ServiceInv
<1>1. Init => ServiceInv
  <2> SUFFICES ASSUME Init PROVE ServiceInv
    OBVIOUS
  <2>1. TypeOK
    BY DEF Init, TypeOK, Documents, Replies
  <2>2. VersionsAreDistinct
    BY DEF Init, VersionsAreDistinct, Recorded
  <2> QED
    BY <2>1, <2>2 DEF ServiceInv
<1>2. ServiceInv /\ [Next]_vars => ServiceInv'
  BY NextKeepsTypes, VersionsStayDistinct DEF ServiceInv
<1> QED
  BY <1>1, <1>2, PTL DEF Spec

\* The variables of the service and of its clients' connections keep their
\* types.
THEOREM ServiceTypes == Spec => []TypeOK
<1>1. ServiceInv => TypeOK
  BY DEF ServiceInv
<1> QED
  BY <1>1, ServiceInvInvariant, PTL

\* #patch of service.ts, "GET /operations/<key>": the version a look-up returns
\* is the version its own key made.
THEOREM DistinctVersions == Spec => []VersionsAreDistinct
<1>1. ServiceInv => VersionsAreDistinct
  BY DEF ServiceInv
<1> QED
  BY <1>1, ServiceInvInvariant, PTL

-----------------------------------------------------------------------------
\* #patch: "The same key never applies twice", however often, with whatever
\* payload and under whatever faults it is sent.
THEOREM KeysApplyOnce == Spec => KeyAppliesOnce
<1> DEFINE Once ==
      /\ \A k \in Keys : Recorded(k) => operations'[k] = operations[k]
      /\ \A r \in requests \ requests' :
           document' # document =>
             /\ ~Recorded(r.key) /\ Recorded(r.key)'
             /\ operations'[r.key] = [payload |-> r.patch, version |-> document'.version]
<1>1. ServiceInv /\ [Next]_vars => [Once]_vars
  <2> SUFFICES ASSUME ServiceInv, [Next]_vars PROVE Once
    OBVIOUS
  <2>1. TypeOK /\ TypeOK'
    BY NextKeepsTypes DEF ServiceInv
  <2>2. ASSUME NEW r \in requests, requests' = requests \ {r}, Applied(r)
        PROVE  Once
    BY <2>1, <2>2, AppliedIsRecorded DEF Applied
  <2> QED
    BY <2>1, <2>2, EveryStepHandles DEF Handled, LeftAlone
<1> QED
  BY <1>1, ServiceInvInvariant, PTL DEF Spec, KeyAppliesOnce

\* What the client of a key is answered is what became of its request.
THEOREM TrueAnswers == Spec => AnswersAreTrue
<1> DEFINE Told ==
      \A r \in requests \ requests' :
        replies[r.key] = "open" =>
          CASE replies'[r.key] = "200" -> /\ Recorded(r.key)'
                                          /\ operations'[r.key].payload = r.patch
            [] replies'[r.key] \in {"409", "412", "422", "503"} ->
                 UNCHANGED <<document, operations>>
            [] OTHER -> TRUE
<1>1. ServiceInv /\ [Next]_vars => [Told]_vars
  <2> SUFFICES ASSUME ServiceInv, [Next]_vars PROVE Told
    OBVIOUS
  <2>1. TypeOK /\ TypeOK'
    BY NextKeepsTypes DEF ServiceInv
  <2>2. ASSUME NEW r \in requests, requests' = requests \ {r}, Applied(r)
        PROVE  Told
    <3>1. Recorded(r.key)' /\ operations'[r.key].payload = r.patch
      BY <2>1, <2>2, AppliedIsRecorded
    <3> QED
      BY <2>2, <3>1 DEF Applied
  <2>3. ASSUME NEW r \in requests, requests' = requests \ {r}, LeftAlone(r)
        PROVE  Told
    BY <2>3 DEF LeftAlone, Recorded
  <2>4. CASE requests \subseteq requests'
    BY <2>4
  <2> QED
    BY <2>1, <2>2, <2>3, <2>4, EveryStepHandles DEF Handled
<1> QED
  BY <1>1, ServiceInvInvariant, PTL DEF Spec, AnswersAreTrue
=============================================================================
