----------------------- MODULE ApprovalAuthorityProofs -----------------------
(***************************************************************************)
(* Proofs about the approval authority and the key store it takes its key  *)
(* from, for any processes, keys, nonces, bindings and clocks.             *)
(*                                                                         *)
(* The inductive invariant says who holds a key, and that the file does    *)
(* not contradict them: between "create" and the end of its restart a      *)
(* process that holds a key knows that no other key can be in the file,    *)
(* because the flag "wx" let exactly one process create it.                *)
(***************************************************************************)
EXTENDS ApprovalAuthority, TLAPS

\* A process has the key of the store in memory, from the creation or the read
\* of the file on.
Holds(p) == at[p] \in {"write", "truncate pub", "write pub", "truncate pem", "done"}

MemoryInv ==
  \A p \in Processes :
    /\ at[p] = "create" \/ Holds(p) => mine[p] \in Keys
    /\ at[p] = "read" => pem # "absent"
    /\ keyPair[p] # NoKey => Holds(p) /\ keyPair[p] = mine[p]
    /\ at[p] = "done" => keyPair[p] # NoKey

FileInv ==
  /\ \A p \in Processes : Holds(p) => pem \in {"empty", mine[p]}
  /\ \A p, q \in Processes : Holds(p) /\ Holds(q) => mine[p] = mine[q]
  /\ pub \in Keys =>
       /\ pem \in {"empty", pub}
       /\ \A p \in Processes : Holds(p) => mine[p] = pub

KeyInv == KeyTypeOK /\ MemoryInv /\ FileInv

\* What was signed was signed with the key that is in the file.
IssuedInv ==
  \A a \in issued :
    /\ pem \in {"empty", a.keyId}
    /\ \A p \in Processes : Holds(p) => mine[p] = a.keyId

\* The nonces of this life are remembered.
NoncesInv ==
  \A i \in DOMAIN consumed :
    LET c == consumed[i] IN
      /\ c.life <= restarts[c.by]
      /\ c.life = restarts[c.by] => c.nonce \in used[c.by]

-----------------------------------------------------------------------------
\* A counter below its bound may be increased.
LEMMA CountedOnce ==
  ASSUME NEW S, NEW p \in S, NEW M \in Nat, NEW f \in [S -> 0 .. M], f[p] < M
  PROVE  [f EXCEPT ![p] = @ + 1] \in [S -> 0 .. M]
OBVIOUS

\* An element of a list over S is in S.
LEMMA InSeq ==
  ASSUME NEW S, NEW list \in Seq(S), NEW i \in DOMAIN list
  PROVE  list[i] \in S
OBVIOUS

\* No key is held before anybody has looked.
LEMMA KeyInitially == KeyInit => KeyInv
<1> SUFFICES ASSUME KeyInit PROVE KeyInv
  OBVIOUS
<1>1. KeyTypeOK
  BY ProcessAssumption DEF KeyInit, KeyTypeOK
<1>2. MemoryInv
  BY DEF KeyInit, MemoryInv, Holds
<1>3. FileInv
  BY KeyAssumption DEF KeyInit, FileInv, Holds
<1> QED
  BY <1>1, <1>2, <1>3 DEF KeyInv

\* A system call on the key files keeps the invariant of the key store.
LEMMA KeyStep ==
  ASSUME KeyInv, NEW p \in Processes, GetKey(p) \/ Restart(p)
  PROVE  KeyInv'
<1> USE ProcessAssumption, KeyAssumption DEF KeyInv, NoKey, GoTo, Holds
<1>1. CASE Look(p)
  <2>1. KeyTypeOK'
    BY <1>1 DEF Look, KeyTypeOK
  <2>2. MemoryInv'
    BY <1>1 DEF Look, KeyTypeOK, MemoryInv
  <2>3. FileInv'
    BY <1>1 DEF Look, KeyTypeOK, FileInv
  <2> QED
    BY <2>1, <2>2, <2>3
<1>2. CASE Read(p)
  <2>1. CASE pem = "empty"
    <3>1. KeyTypeOK'
      BY <1>2, <2>1 DEF Read, KeyTypeOK
    <3>2. MemoryInv'
      BY <1>2, <2>1 DEF Read, KeyTypeOK, MemoryInv
    <3>3. /\ ~Holds(p)' /\ UNCHANGED <<pem, pub, mine>>
          /\ \A q \in Processes : q # p => at'[q] = at[q]
      BY <1>2, <2>1 DEF Read, KeyTypeOK
    <3>4. FileInv'
      BY <3>3 DEF FileInv
    <3> QED
      BY <3>1, <3>2, <3>4
  <2>2. CASE pem # "empty"
    <3>1. pem \in Keys /\ pem # NoKey
      BY <1>2, <2>2 DEF Read, KeyTypeOK, MemoryInv
    <3>2. /\ Holds(p)' /\ mine'[p] = pem /\ keyPair'[p] = pem
          /\ UNCHANGED <<pem, pub>>
          /\ \A q \in Processes : q # p =>
               at'[q] = at[q] /\ mine'[q] = mine[q] /\ keyPair'[q] = keyPair[q]
      BY <1>2, <2>2 DEF Read, Return, KeyTypeOK
    <3>3. KeyTypeOK'
      BY <1>2, <2>2, <3>1 DEF Read, Return, KeyTypeOK
    <3>4. MemoryInv'
      BY <3>1, <3>2 DEF MemoryInv
    <3>5. FileInv'
      BY <3>1, <3>2 DEF FileInv
    <3> QED
      BY <3>3, <3>4, <3>5
  <2> QED
    BY <2>1, <2>2
<1>3. CASE Generate(p)
  <2>1. /\ ~Holds(p)' /\ UNCHANGED <<pem, pub>>
        /\ \A q \in Processes : q # p => at'[q] = at[q] /\ mine'[q] = mine[q]
    BY <1>3 DEF Generate, KeyTypeOK
  <2>2. KeyTypeOK'
    BY <1>3 DEF Generate, KeyTypeOK
  <2>3. MemoryInv'
    BY <1>3 DEF Generate, KeyTypeOK, MemoryInv
  <2>4. FileInv'
    BY <2>1 DEF FileInv
  <2> QED
    BY <2>2, <2>3, <2>4
<1>4. CASE Create(p)
  <2>1. pem = "absent" => pub \notin Keys /\ \A q \in Processes : ~Holds(q)
    BY DEF KeyTypeOK, MemoryInv, FileInv
  <2>2. /\ UNCHANGED <<mine, pub>>
        /\ \A q \in Processes : q # p => at'[q] = at[q]
        /\ \/ pem = "absent" /\ pem' = "empty"
           \/ UNCHANGED pem /\ ~Holds(p)'
    BY <1>4 DEF Create, KeyTypeOK
  <2>3. KeyTypeOK'
    BY <1>4 DEF Create, KeyTypeOK
  <2>4. MemoryInv'
    BY <1>4 DEF Create, KeyTypeOK, MemoryInv
  <2>5. FileInv'
    BY <2>1, <2>2 DEF FileInv
  <2> QED
    BY <2>3, <2>4, <2>5
<1>5. CASE Write(p)
  <2>1. mine[p] \in Keys /\ Holds(p)
    BY <1>5 DEF Write, MemoryInv
  <2>2. KeyTypeOK'
    BY <1>5, <2>1 DEF Write, KeyTypeOK
  <2>3. MemoryInv'
    BY <1>5, <2>1 DEF Write, KeyTypeOK, MemoryInv
  <2>4. /\ pem' = mine[p] /\ UNCHANGED <<mine, pub>>
        /\ \A q \in Processes : q # p => at'[q] = at[q]
    BY <1>5 DEF Write, KeyTypeOK
  <2>5. FileInv'
    BY <2>1, <2>4 DEF FileInv
  <2> QED
    BY <2>2, <2>3, <2>5
<1>6. CASE TruncatePub(p)
  <2>1. KeyTypeOK'
    BY <1>6 DEF TruncatePub, KeyTypeOK
  <2>2. MemoryInv'
    BY <1>6 DEF TruncatePub, KeyTypeOK, MemoryInv
  <2>3. /\ Holds(p) /\ pub' = "empty" /\ UNCHANGED <<mine, pem>>
        /\ \A q \in Processes : q # p => at'[q] = at[q]
    BY <1>6 DEF TruncatePub, KeyTypeOK
  <2>4. "empty" \notin Keys
    BY KeyAssumption
  <2>5. FileInv'
    BY <2>3, <2>4 DEF FileInv
  <2> QED
    BY <2>1, <2>2, <2>5
<1>7. CASE WritePub(p)
  <2>1. mine[p] \in Keys /\ Holds(p)
    BY <1>7 DEF WritePub, MemoryInv
  <2>2. KeyTypeOK'
    BY <1>7, <2>1 DEF WritePub, Return, KeyTypeOK
  <2>3. MemoryInv'
    BY <1>7, <2>1 DEF WritePub, Return, KeyTypeOK, MemoryInv
  <2>4. /\ pub' = mine[p] /\ UNCHANGED <<mine, pem>>
        /\ \A q \in Processes : q # p => at'[q] = at[q]
    BY <1>7 DEF WritePub, Return, KeyTypeOK
  <2>5. FileInv'
    BY <2>1, <2>4 DEF FileInv
  <2> QED
    BY <2>2, <2>3, <2>5
<1>8. CASE TruncatePem(p)
  <2>1. KeyTypeOK'
    BY <1>8 DEF TruncatePem, KeyTypeOK
  <2>2. MemoryInv'
    BY <1>8 DEF TruncatePem, KeyTypeOK, MemoryInv
  <2>3. /\ Holds(p) /\ pem' = "empty" /\ UNCHANGED <<mine, pub>>
        /\ \A q \in Processes : q # p => at'[q] = at[q]
    BY <1>8 DEF TruncatePem, KeyTypeOK
  <2>4. "empty" \notin Keys
    BY KeyAssumption
  <2>5. FileInv'
    BY <2>3, <2>4 DEF FileInv
  <2> QED
    BY <2>1, <2>2, <2>5
<1>9. CASE Restart(p)
  <2>1. restarts[p] < MaxRestarts /\ restarts' = [restarts EXCEPT ![p] = @ + 1]
    BY <1>9 DEF Restart
  <2>2. restarts \in [Processes -> 0 .. MaxRestarts] /\ MaxRestarts \in Nat
    BY DEF KeyTypeOK
  <2>3. restarts' \in [Processes -> 0 .. MaxRestarts]
    BY <2>1, <2>2, CountedOnce
  <2>4. KeyTypeOK'
    BY <1>9, <2>3 DEF Restart, KeyTypeOK
  <2>5. MemoryInv'
    BY <1>9 DEF Restart, KeyTypeOK, MemoryInv
  <2>6. /\ ~Holds(p)' /\ UNCHANGED <<pem, pub>>
        /\ \A q \in Processes : q # p => at'[q] = at[q] /\ mine'[q] = mine[q]
    BY <1>9 DEF Restart, KeyTypeOK
  <2>7. FileInv'
    BY <2>6 DEF FileInv
  <2> QED
    BY <2>4, <2>5, <2>7
<1> QED
  BY <1>1, <1>2, <1>3, <1>4, <1>5, <1>6, <1>7, <1>8, <1>9 DEF GetKey

\* A step of the authority leaves the key store alone.
LEMMA KeyStutter == KeyInv /\ UNCHANGED keyVars => KeyInv'
BY DEF KeyInv, KeyTypeOK, MemoryInv, FileInv, Holds, keyVars

-----------------------------------------------------------------------------
\* What a call on the key files leaves alone of what IssuedInv speaks about.
LEMMA KeyOfTheFileStays ==
  ASSUME KeyInv, NEW p \in Processes, GetKey(p) \/ Restart(p),
         NEW key \in Keys, pem \in {"empty", key},
         \A q \in Processes : Holds(q) => mine[q] = key
  PROVE  /\ pem' \in {"empty", key}
         /\ \A q \in Processes : Holds(q)' => mine'[q] = key
<1> USE KeyAssumption DEF KeyInv, KeyTypeOK, MemoryInv, GoTo, Holds
<1>1. CASE Look(p)
  BY <1>1 DEF Look
<1>2. CASE Read(p)
  BY <1>2 DEF Read, Return
<1>3. CASE Generate(p)
  BY <1>3 DEF Generate
<1>4. CASE Create(p)
  BY <1>4 DEF Create
<1>5. CASE Write(p)
  BY <1>5 DEF Write
<1>6. CASE TruncatePub(p)
  BY <1>6 DEF TruncatePub
<1>7. CASE WritePub(p)
  BY <1>7 DEF WritePub, Return
<1>8. CASE TruncatePem(p)
  BY <1>8 DEF TruncatePem
<1>9. CASE Restart(p)
  BY <1>9 DEF Restart
<1> QED
  BY <1>1, <1>2, <1>3, <1>4, <1>5, <1>6, <1>7, <1>8, <1>9 DEF GetKey

-----------------------------------------------------------------------------
\* The inductive invariant of the authorities.
AuthorityInv ==
  /\ KeyInv
  /\ AuthorityTypeOK
  /\ IssuedInv
  /\ NoncesInv
  /\ ConsumedOncePerLife
  /\ ConsumedAsIssued

\* An authority has the key of the store.
LEMMA AuthorityHoldsTheKey ==
  ASSUME KeyInv, NEW p \in Processes, HasAuthority(p)
  PROVE  Holds(p) /\ keyPair[p] \in Keys /\ keyPair[p] = mine[p]
BY DEF KeyInv, KeyTypeOK, MemoryInv, Holds, HasAuthority

\* A call on the key files touches neither approvals nor nonces.
LEMMA KeyStepKeepsAuthorityInv ==
  ASSUME AuthorityInv, NEW p \in Processes, GetKey(p), UNCHANGED approvals
  PROVE  AuthorityInv'
<1> USE DEF AuthorityInv, approvals
<1>1. KeyInv'
  BY KeyStep
<1>2. AuthorityTypeOK'
  BY <1>1 DEF KeyInv, AuthorityTypeOK
<1>3. IssuedInv'
  <2> SUFFICES ASSUME NEW a \in issued
               PROVE  /\ pem' \in {"empty", a.keyId}
                      /\ \A q \in Processes : Holds(q)' => mine'[q] = a.keyId
    BY DEF IssuedInv
  <2>1. a.keyId \in Keys
    BY DEF AuthorityTypeOK
  <2>2. pem \in {"empty", a.keyId} /\ \A q \in Processes : Holds(q) => mine[q] = a.keyId
    BY DEF IssuedInv
  <2> QED
    BY <2>1, <2>2, KeyOfTheFileStays
<1>4. UNCHANGED restarts
  BY DEF GetKey, Look, Read, Generate, Create, Write, TruncatePub, WritePub, TruncatePem
<1>5. NoncesInv'
  BY <1>4 DEF NoncesInv
<1>6. ConsumedOncePerLife' /\ ConsumedAsIssued'
  BY DEF ConsumedOncePerLife, ConsumedAsIssued
<1> QED
  BY <1>1, <1>2, <1>3, <1>5, <1>6

\* A restart forgets the nonces, and begins another life.
LEMMA RestartKeepsAuthorityInv ==
  ASSUME AuthorityInv, NEW p \in Processes, Restart(p),
         used' = [used EXCEPT ![p] = {}], UNCHANGED <<issued, consumed>>
  PROVE  AuthorityInv'
<1> USE DEF AuthorityInv
<1>1. KeyInv'
  BY KeyStep
<1>2. AuthorityTypeOK'
  BY <1>1 DEF KeyInv, AuthorityTypeOK
<1>3. IssuedInv'
  <2> SUFFICES ASSUME NEW a \in issued
               PROVE  /\ pem' \in {"empty", a.keyId}
                      /\ \A q \in Processes : Holds(q)' => mine'[q] = a.keyId
    BY DEF IssuedInv
  <2>1. a.keyId \in Keys
    BY DEF AuthorityTypeOK
  <2>2. pem \in {"empty", a.keyId} /\ \A q \in Processes : Holds(q) => mine[q] = a.keyId
    BY DEF IssuedInv
  <2> QED
    BY <2>1, <2>2, KeyOfTheFileStays
<1>4. NoncesInv'
  <2> SUFFICES ASSUME NEW i \in DOMAIN consumed
               PROVE  /\ consumed[i].life <= restarts'[consumed[i].by]
                      /\ consumed[i].life = restarts'[consumed[i].by]
                           => consumed[i].nonce \in used'[consumed[i].by]
    BY DEF NoncesInv
  <2>1. consumed[i] \in [by : Processes, life : 0 .. MaxRestarts, nonce : Nonces,
                         binding : Bindings, at : Times]
    <3>1. consumed \in Seq([by : Processes, life : 0 .. MaxRestarts, nonce : Nonces,
                            binding : Bindings, at : Times])
      BY DEF AuthorityTypeOK
    <3> QED
      BY <3>1, InSeq
  <2>2. /\ restarts \in [Processes -> 0 .. MaxRestarts] /\ MaxRestarts \in Nat
        /\ restarts' = [restarts EXCEPT ![p] = @ + 1]
    BY ProcessAssumption DEF Restart, KeyInv, KeyTypeOK
  <2>3. used \in [Processes -> SUBSET Nonces]
    BY DEF AuthorityTypeOK
  <2>4. /\ consumed[i].life <= restarts[consumed[i].by]
        /\ consumed[i].life = restarts[consumed[i].by]
             => consumed[i].nonce \in used[consumed[i].by]
    BY DEF NoncesInv
  <2> QED
    BY <2>1, <2>2, <2>3, <2>4
<1>5. ConsumedOncePerLife' /\ ConsumedAsIssued'
  BY DEF ConsumedOncePerLife, ConsumedAsIssued
<1> QED
  BY <1>1, <1>2, <1>3, <1>4, <1>5

\* An approval is signed with the key of the store.
LEMMA IssueKeepsAuthorityInv ==
  ASSUME AuthorityInv, NEW p \in Processes, NEW b \in Bindings, NEW now \in Times,
         NEW ttl \in Ttls, Issue(p, b, now, ttl)
  PROVE  AuthorityInv'
<1> USE DEF AuthorityInv
<1>1. PICK nonce \in Nonces :
        issued' = issued \union
          {Sign([nonce |-> nonce, binding |-> b, expiresAt |-> now + ttl], keyPair[p])}
  BY DEF Issue
<1>2. HasAuthority(p) /\ UNCHANGED <<keyVars, used, consumed>>
  BY DEF Issue
<1>3. Holds(p) /\ keyPair[p] \in Keys /\ keyPair[p] = mine[p]
  BY <1>2, AuthorityHoldsTheKey
<1>4. now + ttl \in Int
  BY TimeAssumption
<1>5. KeyInv'
  BY <1>2, KeyStutter
<1>6. AuthorityTypeOK'
  BY <1>1, <1>2, <1>3, <1>4, <1>5 DEF AuthorityTypeOK, KeyInv, Sign, Claims
<1>7. IssuedInv'
  <2> SUFFICES ASSUME NEW x \in issued'
               PROVE  /\ pem \in {"empty", x.keyId}
                      /\ \A q \in Processes : Holds(q) => mine[q] = x.keyId
    BY <1>2 DEF IssuedInv, keyVars, Holds
  <2>1. CASE x \in issued
    BY <2>1 DEF IssuedInv
  <2>2. CASE x.keyId = keyPair[p]
    BY <1>3, <2>2 DEF KeyInv, FileInv
  <2> QED
    BY <1>1, <2>1, <2>2 DEF Sign
<1>8. NoncesInv' /\ ConsumedOncePerLife' /\ ConsumedAsIssued'
  BY <1>1, <1>2 DEF NoncesInv, ConsumedOncePerLife, ConsumedAsIssued, keyVars
<1> QED
  BY <1>5, <1>6, <1>7, <1>8

\* What is consumed is remembered, was issued so, and has not expired.
LEMMA ConsumeKeepsAuthorityInv ==
  ASSUME AuthorityInv, NEW p \in Processes, NEW b \in Bindings, NEW now \in Times,
         NEW a \in issued, NEW shown \in Presented(a), Consume(p, shown, b, now)
  PROVE  AuthorityInv'
<1> USE DEF AuthorityInv
<1> DEFINE entry == [by |-> p, life |-> restarts[p], nonce |-> shown.claims.nonce,
                     binding |-> b, at |-> now]
<1>1. /\ Verdict(p, shown, b, now) = "consumed"
      /\ consumed' = Append(consumed, entry)
      /\ used' = [used EXCEPT ![p] = @ \union {shown.claims.nonce}]
      /\ UNCHANGED <<keyVars, issued>>
  BY DEF Consume, Accept
<1>2. /\ shown.claims = shown.signed
      /\ shown.claims.nonce \notin used[p]
      /\ ~Expired(shown.claims, now)
      /\ shown.claims.binding = b
  BY <1>1 DEF Verdict
<1>3. a \in [claims : Claims, keyId : Keys, signed : Claims]
  BY DEF AuthorityTypeOK
<1>4. shown.signed = a.signed
  BY <1>3 DEF Presented
<1>5. /\ a.signed.nonce = entry.nonce /\ a.signed.binding = entry.binding
      /\ entry.nonce \in Nonces /\ now < a.signed.expiresAt
  BY <1>2, <1>3, <1>4, TimeAssumption DEF Claims, Expired
<1>6. restarts[p] \in 0 .. MaxRestarts /\ restarts \in [Processes -> 0 .. MaxRestarts]
  BY DEF KeyInv, KeyTypeOK
<1>7. entry \in [by : Processes, life : 0 .. MaxRestarts, nonce : Nonces,
                 binding : Bindings, at : Times]
  BY <1>5, <1>6
<1>8. KeyInv'
  BY <1>1, KeyStutter
<1>9. AuthorityTypeOK'
  BY <1>1, <1>5, <1>7, <1>8 DEF AuthorityTypeOK, KeyInv
<1>10. IssuedInv'
  BY <1>1 DEF IssuedInv, keyVars, Holds
<1>11. /\ Len(consumed) \in Nat /\ DOMAIN consumed = 1 .. Len(consumed)
       /\ DOMAIN consumed' = 1 .. Len(consumed) + 1
       /\ \A i \in DOMAIN consumed : consumed'[i] = consumed[i]
       /\ consumed'[Len(consumed) + 1] = entry
  BY <1>1, <1>7 DEF AuthorityTypeOK
<1>12. NoncesInv'
  <2> SUFFICES ASSUME NEW i \in DOMAIN consumed'
               PROVE  /\ consumed'[i].life <= restarts[consumed'[i].by]
                      /\ consumed'[i].life = restarts[consumed'[i].by]
                           => consumed'[i].nonce \in used'[consumed'[i].by]
    BY <1>1 DEF NoncesInv, keyVars
  <2>1. used \in [Processes -> SUBSET Nonces]
    BY DEF AuthorityTypeOK
  <2>2. CASE i \in DOMAIN consumed
    <3>1. /\ consumed[i].life <= restarts[consumed[i].by]
          /\ consumed[i].life = restarts[consumed[i].by]
               => consumed[i].nonce \in used[consumed[i].by]
      BY <2>2 DEF NoncesInv
    <3> QED
      BY <1>1, <1>11, <2>1, <2>2, <3>1
  <2>3. CASE i = Len(consumed) + 1
    BY <1>1, <1>6, <1>11, <2>1, <2>3
  <2> QED
    BY <1>11, <2>2, <2>3
<1>13. ConsumedOncePerLife'
  <2>1. \A i \in DOMAIN consumed :
          ~(consumed[i].nonce = entry.nonce /\ consumed[i].by = p
              /\ consumed[i].life = restarts[p])
    BY <1>2 DEF NoncesInv
  <2>2. \A i, j \in DOMAIN consumed :
          /\ consumed[i].nonce = consumed[j].nonce
          /\ consumed[i].by = consumed[j].by
          /\ consumed[i].life = consumed[j].life
          => i = j
    BY DEF ConsumedOncePerLife
  <2> QED
    BY <1>11, <2>1, <2>2 DEF ConsumedOncePerLife
<1>14. ConsumedAsIssued'
  <2> SUFFICES ASSUME NEW i \in DOMAIN consumed'
               PROVE  \E x \in issued : /\ x.signed.nonce = consumed'[i].nonce
                                        /\ x.signed.binding = consumed'[i].binding
                                        /\ consumed'[i].at < x.signed.expiresAt
    BY <1>1 DEF ConsumedAsIssued
  <2>1. CASE i \in DOMAIN consumed
    BY <1>11, <2>1 DEF ConsumedAsIssued
  <2>2. CASE i = Len(consumed) + 1
    BY <1>5, <1>11, <2>2
  <2> QED
    BY <1>11, <2>1, <2>2
<1> QED
  BY <1>8, <1>9, <1>10, <1>12, <1>13, <1>14

-----------------------------------------------------------------------------
\* Keys, files, nonces and issued approvals fit together in every reachable state.
LEMMA AuthorityInvInvariant == Spec => []AuthorityInv
<1>1. Init => AuthorityInv
  <2> SUFFICES ASSUME Init PROVE AuthorityInv
    OBVIOUS
  <2>1. KeyInv
    BY KeyInitially DEF Init
  <2>2. AuthorityTypeOK
    BY <2>1 DEF Init, AuthorityTypeOK, KeyInv
  <2> QED
    BY <2>1, <2>2 DEF Init, AuthorityInv, IssuedInv, NoncesInv, ConsumedOncePerLife,
                      ConsumedAsIssued
<1>2. AuthorityInv /\ [Next]_vars => AuthorityInv'
  <2> SUFFICES ASSUME AuthorityInv, [Next]_vars PROVE AuthorityInv'
    OBVIOUS
  <2>1. CASE \E p \in Processes : GetKey(p) /\ UNCHANGED approvals
    BY <2>1, KeyStepKeepsAuthorityInv
  <2>2. CASE \E p \in Processes : /\ Restart(p)
                                  /\ used' = [used EXCEPT ![p] = {}]
                                  /\ UNCHANGED <<issued, consumed>>
    BY <2>2, RestartKeepsAuthorityInv
  <2>3. CASE \E p \in Processes, b \in Bindings, now \in Times :
               \E ttl \in Ttls : Issue(p, b, now, ttl)
    BY <2>3, IssueKeepsAuthorityInv
  <2>4. CASE \E p \in Processes, b \in Bindings, now \in Times :
               \E a \in issued : \E shown \in Presented(a) : Consume(p, shown, b, now)
    BY <2>4, ConsumeKeepsAuthorityInv
  <2>5. CASE UNCHANGED vars
    <3>1. KeyInv'
      BY <2>5, KeyStutter DEF AuthorityInv, vars
    <3> QED
      BY <2>5, <3>1 DEF AuthorityInv, vars, approvals, keyVars, AuthorityTypeOK, KeyInv, IssuedInv,
                        Holds, NoncesInv, ConsumedOncePerLife, ConsumedAsIssued
  <2> QED
    BY <2>1, <2>2, <2>3, <2>4, <2>5 DEF Next
<1> QED
  BY <1>1, <1>2, PTL DEF Spec

\* The files and processes of one key store never hold two keys: for any number
\* of processes, commands, crashes and keys (key-store.ts:33-50).
THEOREM OneKey == Spec => []OneKeyPerName
<1>1. AuthorityInv => OneKeyPerName
  BY DEF AuthorityInv, KeyInv, MemoryInv, FileInv, OneKeyPerName
<1> QED
  BY <1>1, AuthorityInvInvariant, PTL

\* Authorities that share a key store know each other's approvals
\* (ApprovalAuthority.fromPem).
THEOREM SharedAuthority == Spec => []AuthoritiesAgree
<1>1. AuthorityInv => AuthoritiesAgree
  BY AuthorityHoldsTheKey DEF AuthorityInv, IssuedInv, AuthoritiesAgree
<1> QED
  BY <1>1, AuthorityInvInvariant, PTL

\* consume() accepts an approval once in the life of a process, by any clock.
THEOREM OncePerLife == Spec => []ConsumedOncePerLife
<1>1. AuthorityInv => ConsumedOncePerLife
  BY DEF AuthorityInv
<1> QED
  BY <1>1, AuthorityInvInvariant, PTL

\* consume() accepts what was issued, for its binding, before its expiry.
THEOREM AsIssued == Spec => []ConsumedAsIssued
<1>1. AuthorityInv => ConsumedAsIssued
  BY DEF AuthorityInv
<1> QED
  BY <1>1, AuthorityInvInvariant, PTL

\* Every variable of the key store and the authorities keeps its type.
THEOREM AuthorityTypeCorrect == Spec => []AuthorityTypeOK
<1>1. AuthorityInv => AuthorityTypeOK
  BY DEF AuthorityInv
<1> QED
  BY <1>1, AuthorityInvInvariant, PTL
=============================================================================
