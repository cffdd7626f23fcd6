------------------------- MODULE ApprovalAuthority -------------------------
(***************************************************************************)
(* ApprovalAuthority (src/src/core/approval.ts) in processes that share    *)
(* their key through KeyStore: an approval is issued by one of them and    *)
(* consumed by any, each by its own clock, which may be set back, and with *)
(* its own memory of the nonces used, which a restart loses.               *)
(*                                                                         *)
(* A binding stands for the ten members an approval is bound to, whose     *)
(* hashes consume() compares.                                              *)
(***************************************************************************)
EXTENDS KeyStore, Integers, Sequences

CONSTANTS Nonces, Bindings, Times, Ttls,
  MaxConsumed   \* bound: approvals consumed

ASSUME TimeAssumption == Times \subseteq Int /\ Ttls \subseteq Int

VARIABLES
  issued,    \* signed approvals
  used,      \* #usedNonces of the authority of a process
  consumed   \* what consume() accepted, with what it was asked

approvals == <<issued, used, consumed>>
vars      == <<keyVars, approvals>>

Init ==
  /\ KeyInit
  /\ issued = {}
  /\ used = [p \in Processes |-> {}]
  /\ consumed = <<>>

\* ApprovalAuthority.fromPem of the key the store returned.
HasAuthority(p) == at[p] = "done" /\ p \notin Commands

Sign(claims, key) == [claims |-> claims, keyId |-> key, signed |-> claims]

Issue(p, binding, now, ttl) ==
  /\ HasAuthority(p)
  /\ \E nonce \in Nonces \ {a.claims.nonce : a \in issued} :
       issued' = issued \union
         {Sign([nonce |-> nonce, binding |-> binding, expiresAt |-> now + ttl], keyPair[p])}
  /\ UNCHANGED <<keyVars, used, consumed>>

\* Mutant: an approval lasts until the end of its last instant.
ExpiresAfter(claims, now) == claims.expiresAt < now

Expired(claims, now) == claims.expiresAt <= now

\* The checks of consume(), in their order.
Verdict(p, a, expected, now) ==
  CASE a.keyId # keyPair[p]           -> "unknown authority"
    [] a.claims # a.signed            -> "signature is invalid"
    [] a.claims.nonce \in used[p]     -> "APPROVAL_REPLAYED"
    [] Expired(a.claims, now)         -> "APPROVAL_EXPIRED"
    [] a.claims.binding # expected    -> "APPROVAL_MISMATCH"
    [] OTHER                          -> "consumed"

\* What a caller presents: the approval, or one whose claims were changed since.
Presented(a) == {[a EXCEPT !.claims.binding = b] : b \in Bindings}

Accept(p, a, expected, now) ==
  /\ Len(consumed) < MaxConsumed
  /\ Verdict(p, a, expected, now) = "consumed"
  /\ consumed' = Append(consumed,
       [by |-> p, life |-> restarts[p], nonce |-> a.claims.nonce,
        binding |-> expected, at |-> now])

\* Mutant: nonces of expired approvals are forgotten.
ConsumeAndForget(p, a, expected, now) ==
  /\ HasAuthority(p)
  /\ Accept(p, a, expected, now)
  /\ used' = [used EXCEPT ![p] =
       {a.claims.nonce} \union {n \in @ :
         \E b \in issued : b.claims.nonce = n /\ ~Expired(b.claims, now)}]
  /\ UNCHANGED <<keyVars, issued>>

\* consume(); an approval it refuses is not used up.
Consume(p, a, expected, now) ==
  /\ HasAuthority(p)
  /\ Accept(p, a, expected, now)
  /\ used' = [used EXCEPT ![p] = @ \union {a.claims.nonce}]
  /\ UNCHANGED <<keyVars, issued>>

Next ==
  \/ \E p \in Processes : GetKey(p) /\ UNCHANGED approvals
  \/ \E p \in Processes :
       /\ Restart(p)
       /\ used' = [used EXCEPT ![p] = {}]
       /\ UNCHANGED <<issued, consumed>>
  \/ \E p \in Processes, b \in Bindings, now \in Times :
       \/ \E ttl \in Ttls : Issue(p, b, now, ttl)
       \/ \E a \in issued : \E shown \in Presented(a) : Consume(p, shown, b, now)

Spec == Init /\ [][Next]_vars

-----------------------------------------------------------------------------
(***************************************************************************)
(* Properties.                                                             *)
(***************************************************************************)
Claims == [nonce : Nonces, binding : Bindings, expiresAt : Int]

\* The approvals, the memory of the authorities and the log keep their types.
AuthorityTypeOK ==
  /\ KeyTypeOK
  /\ issued \subseteq [claims : Claims, keyId : Keys, signed : Claims]
  /\ used \in [Processes -> SUBSET Nonces]
  /\ consumed \in Seq([by : Processes, life : 0 .. MaxRestarts, nonce : Nonces,
                       binding : Bindings, at : Times])

\* In the life of one process an approval is consumed once (#usedNonces), even
\* when the clock goes back behind its expiry.  docs/README.md:309 grants no
\* more: another process, or a restart, accepts it again.
ConsumedOncePerLife ==
  \A i, j \in DOMAIN consumed :
    /\ consumed[i].nonce = consumed[j].nonce
    /\ consumed[i].by = consumed[j].by
    /\ consumed[i].life = consumed[j].life
    => i = j

\* What was consumed was issued, for exactly that binding, and had not reached
\* the instant of its expiry by the clock of who consumed it: an approval with no
\* or a negative life is never consumed while the clock stands.
ConsumedAsIssued ==
  \A i \in DOMAIN consumed : \E a \in issued :
    /\ a.signed.nonce = consumed[i].nonce
    /\ a.signed.binding = consumed[i].binding
    /\ consumed[i].at < a.signed.expiresAt

\* Processes that share a key store know each other's approvals
\* (ApprovalAuthority.fromPem: "a retained key shared across processes").
AuthoritiesAgree ==
  \A a \in issued : \A p \in Processes : HasAuthority(p) => keyPair[p] = a.keyId
=============================================================================
