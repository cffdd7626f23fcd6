--------------------------- MODULE DocumentService ---------------------------
(***************************************************************************)
(* The provider of the worked example, DocumentService of                  *)
(* src/examples/rest-resource/service.ts, holding one document, and the    *)
(* HTTP connections its clients reach it through.  PATCH requests carry an *)
(* idempotency key and may be conditional on the document's version; the   *)
(* service records each key it applies and answers look-ups of it.         *)
(*                                                                         *)
(* A request that was sent is handled later or never, and its client may   *)
(* have given up by then; the body is read before the handler looks at any *)
(* state, so a handler is one step.                                        *)
(***************************************************************************)
EXTENDS Naturals, FiniteSets

CONSTANTS
  Keys,          \* idempotency keys
  Fields,        \* the fields a DocumentPatch may carry
  Values,        \* their values
  NoOperation,   \* operations[key] of a key that was never applied
  NoIfMatch,     \* the if-match of a request without that header
  MaxVersion,    \* bound: the document is not edited past this version
  MaxInFlight    \* bound: the requests on their way at a time

Patches    == UNION {[F -> Values] : F \in SUBSET Fields}
Operations == [payload : Patches, version : Nat \ {0}]

\* operations is a Map: a key without an entry is told from every entry.
ASSUME ServiceAssumption == NoOperation \notin Operations /\ MaxVersion \in Nat

VARIABLES
  document,      \* [version, fields]
  operations,    \* the recorded operation of each key
  requests,      \* PATCH requests on their way
  replies        \* what the client of each key's latest connection sees

vars == <<document, operations, requests, replies>>

FaultModes == {"none", "lost-ack-after-commit", "refuse-before-commit", "definitive-rejection"}

Documents == [version : Nat \ {0}, fields : [Fields -> Values]]
Requests  == [key : Keys, patch : Patches, ifMatch : Nat \union {NoIfMatch}]

\* "none": nothing was sent; "refused": no connection could be made; "open":
\* no answer yet; "closed": the connection is gone; else the status answered.
Replies == {"none", "refused", "open", "closed", "200", "409", "412", "422", "503"}

Init ==
  /\ document \in [version : {1}, fields : [Fields -> Values]]
  /\ operations = [k \in Keys |-> NoOperation]
  /\ requests = {}
  /\ replies = [k \in Keys |-> "none"]

-----------------------------------------------------------------------------
Recorded(key) == operations[key] # NoOperation

\* Mutant: the patch becomes the document.
PatchReplaces(patch) == document' = [version |-> document.version + 1, fields |-> patch]

\* Mutant: the version stays.
VersionStays(patch) ==
  document' = [document EXCEPT !.fields = [f \in Fields |->
                 IF f \in DOMAIN patch THEN patch[f] ELSE document.fields[f]]]

\* #apply: the patched fields are replaced and the version is the next one.
Apply(patch) ==
  document' = [version |-> document.version + 1,
               fields  |-> [f \in Fields |-> IF f \in DOMAIN patch THEN patch[f]
                                                                   ELSE document.fields[f]]]

\* A response reaches the client only over a connection that is still open.
Respond(key, status) ==
  replies' = [replies EXCEPT ![key] = IF @ = "open" THEN status ELSE @]

\* Mutant: the payload of a key that comes again is not compared.
ReplayUnchecked(r) ==
  /\ Recorded(r.key)
  /\ Respond(r.key, "200")
  /\ UNCHANGED <<document, operations>>

Replay(r) ==
  /\ Recorded(r.key)
  /\ Respond(r.key, IF operations[r.key].payload = r.patch THEN "200" ELSE "409")
  /\ UNCHANGED <<document, operations>>

Refuse(r, fault) ==
  /\ ~Recorded(r.key)
  /\ fault = "refuse-before-commit"
  /\ Respond(r.key, "503")
  /\ UNCHANGED <<document, operations>>

Reject(r, fault) ==
  /\ ~Recorded(r.key)
  /\ fault = "definitive-rejection"
  /\ Respond(r.key, "422")
  /\ UNCHANGED <<document, operations>>

PreconditionHolds(r) == r.ifMatch \in {NoIfMatch, document.version}

FailPrecondition(r, fault) ==
  /\ ~Recorded(r.key)
  /\ fault \in {"none", "lost-ack-after-commit"}
  /\ ~PreconditionHolds(r)
  /\ Respond(r.key, "412")
  /\ UNCHANGED <<document, operations>>

\* Mutant: a key is not looked up before it is applied.
CommitsAgain(r, fault) ==
  /\ fault \in {"none", "lost-ack-after-commit"}
  /\ PreconditionHolds(r)
  /\ Apply(r.patch)
  /\ operations' = [operations EXCEPT ![r.key] =
                      [payload |-> r.patch, version |-> document.version + 1]]
  /\ Respond(r.key, IF fault = "lost-ack-after-commit" THEN "closed" ELSE "200")

Commit(r, fault) ==
  /\ ~Recorded(r.key)
  /\ fault \in {"none", "lost-ack-after-commit"}
  /\ PreconditionHolds(r)
  /\ Apply(r.patch)
  /\ operations' = [operations EXCEPT ![r.key] =
                      [payload |-> r.patch, version |-> document.version + 1]]
  /\ Respond(r.key, IF fault = "lost-ack-after-commit" THEN "closed" ELSE "200")

\* #patch: the handler of one PATCH request, under the fault mode set last.
Patch(r, fault) ==
  /\ r \in requests
  /\ requests' = requests \ {r}
  /\ \/ Replay(r)
     \/ Refuse(r, fault)
     \/ Reject(r, fault)
     \/ FailPrecondition(r, fault)
     \/ Commit(r, fault)

\* edit(): a person changes the document out of band; an empty patch stands
\* for a change to a field no effect declares.
Edit(patch) ==
  /\ document.version < MaxVersion
  /\ Apply(patch)
  /\ UNCHANGED <<operations, requests, replies>>

-----------------------------------------------------------------------------
(***************************************************************************)
(* The client's end of a connection.                                       *)
(***************************************************************************)
Send(r) ==
  /\ requests' = requests \union {r}
  /\ replies' = [replies EXCEPT ![r.key] = "open"]
  /\ UNCHANGED <<document, operations>>

\* No connection could be made: nothing left the client.
FailToSend(key) ==
  /\ replies' = [replies EXCEPT ![key] = "refused"]
  /\ UNCHANGED <<document, operations, requests>>

\* The connection breaks, whether or not the request was or will be handled.
Drop(key) ==
  /\ replies[key] # "none"
  /\ replies' = [replies EXCEPT ![key] = "closed"]
  /\ UNCHANGED <<document, operations, requests>>

\* GET /operations/<key>
Lookup(key) == Recorded(key)

Next ==
  \/ \E key \in Keys, patch \in Patches, ifMatch \in 1 .. MaxVersion \union {NoIfMatch} :
       /\ Cardinality(requests) < MaxInFlight
       /\ document.version < MaxVersion
       /\ Send([key |-> key, patch |-> patch, ifMatch |-> ifMatch])
  \/ \E r \in requests, fault \in FaultModes : Patch(r, fault)
  \/ \E patch \in Patches : Edit(patch)
  \/ \E key \in Keys : FailToSend(key) \/ Drop(key)

Spec == Init /\ [][Next]_vars

-----------------------------------------------------------------------------
\* Every variable of the service and of the connections is in its range.
TypeOK ==
  /\ document \in Documents
  /\ operations \in [Keys -> Operations \union {NoOperation}]
  /\ requests \subseteq Requests
  /\ replies \in [Keys -> Replies]

\* "The same key never applies twice" (the comment in #patch): a request only
\* changes the document by recording its own key, for the first time, at the
\* version it made, and a recorded operation is never rewritten, however often
\* and with whatever payload its key is sent again.
KeyAppliesOnce ==
  [][/\ \A k \in Keys : Recorded(k) => operations'[k] = operations[k]
     /\ \A r \in requests \ requests' :
          document' # document =>
            /\ ~Recorded(r.key) /\ Recorded(r.key)'
            /\ operations'[r.key] = [payload |-> r.patch, version |-> document'.version]]_vars

\* An answer tells its client what happened: 200 that its payload is recorded
\* under its key, every other status that this request changed nothing.
AnswersAreTrue ==
  [][\A r \in requests \ requests' :
       replies[r.key] = "open" =>
         CASE replies'[r.key] = "200" -> /\ Recorded(r.key)'
                                         /\ operations'[r.key].payload = r.patch
           [] replies'[r.key] \in {"409", "412", "422", "503"} ->
                UNCHANGED <<document, operations>>
           [] OTHER -> TRUE]_vars

\* Two recorded operations never share a version, so the version a look-up
\* returns belongs to one key.
VersionsAreDistinct ==
  \A j, k \in Keys :
    Recorded(j) /\ Recorded(k) =>
      /\ operations[j].version <= document.version
      /\ j # k => operations[j].version # operations[k].version
=============================================================================
