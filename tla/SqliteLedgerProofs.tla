------------------------- MODULE SqliteLedgerProofs -------------------------
(***************************************************************************)
(* Proofs about SqliteLedger, for any ledgers and processes on one file,   *)
(* any calls, any failing statements and any crashes.                      *)
(***************************************************************************)
EXTENDS SqliteLedger, FiniteSetTheorems, WellFoundedInduction, TLAPS

\* A set of natural numbers has a smallest one.
LEMMA Smallest ==
  ASSUME NEW T \in SUBSET Nat, T # {}
  PROVE  \E x \in T : \A y \in T : x <= y
<1> DEFINE Less == OpToRel(<, Nat)
<1>1. IsWellFoundedOn(Less, Nat)
  BY NatLessThanWellFounded
<1>2. \A y, x \in Nat : <<y, x>> \in Less <=> y < x
  BY DEF OpToRel
<1> HIDE DEF Less
<1>3. PICK x \in T : \A y \in T : <<y, x>> \notin Less
  BY <1>1, WFMin
<1>4. \A y \in T : ~(y < x)
  BY <1>2, <1>3, Zenon
<1>5. \A y \in T : y \in Nat /\ x \in Nat
  OBVIOUS
<1> QED
  BY <1>4, <1>5

\* Induction, about a set instead of an operator.
LEMMA Induction ==
  ASSUME NEW T, 0 \in T, \A n \in Nat : n \in T => n + 1 \in T
  PROVE  Nat \subseteq T
<1> SUFFICES ASSUME Nat \ T # {}
             PROVE  FALSE
  OBVIOUS
<1>1. PICK x \in Nat \ T : \A y \in Nat \ T : x <= y
  BY Smallest
<1>2. x # 0 /\ x - 1 \in Nat /\ x - 1 \in T
  BY <1>1
<1>3. (x - 1) + 1 \in T
  BY <1>2
<1> QED
  BY <1>3

(***************************************************************************)
(* A list of events and the list with one more.                            *)
(***************************************************************************)
\* The first events of a subject are finitely many.
LEMMA CountIsNat ==
  ASSUME NEW list, NEW s, NEW n \in Nat
  PROVE  CountOf(list, s, n) \in Nat
<1> DEFINE P == {i \in 1 .. n : list[i].subject = s}
<1>1. IsFiniteSet(1 .. n)
  BY FS_Interval
<1>2. IsFiniteSet(P)
  BY <1>1, FS_Subset
<1> QED
  BY <1>2, FS_CardinalityType DEF CountOf

\* With the event at n there is one more of its subject, and of no other.
LEMMA CountGoesOn ==
  ASSUME NEW list, NEW s, NEW n \in Nat
  PROVE  CountOf(list, s, n + 1) =
           IF list[n + 1].subject = s THEN CountOf(list, s, n) + 1 ELSE CountOf(list, s, n)
<1> DEFINE P(m) == {i \in 1 .. m : list[i].subject = s}
<1>1. IsFiniteSet(1 .. n)
  BY FS_Interval
<1>2. IsFiniteSet(P(n)) /\ n + 1 \notin P(n)
  BY <1>1, FS_Subset
<1>3. P(n + 1) = IF list[n + 1].subject = s THEN P(n) \union {n + 1} ELSE P(n)
  OBVIOUS
<1> HIDE DEF P
<1>4. Cardinality(P(n + 1)) =
        IF list[n + 1].subject = s THEN Cardinality(P(n)) + 1 ELSE Cardinality(P(n))
  BY <1>2, <1>3, FS_AddElement
<1> QED
  BY <1>4 DEF CountOf, P

\* A count of more events is no smaller.
LEMMA CountGrows ==
  ASSUME NEW list, NEW s, NEW n \in Nat, NEW m \in 0 .. n
  PROVE  CountOf(list, s, m) <= CountOf(list, s, n)
<1> DEFINE P(k) == {i \in 1 .. k : list[i].subject = s}
<1>1. IsFiniteSet(1 .. n)
  BY FS_Interval
<1>2. IsFiniteSet(P(n)) /\ P(m) \subseteq P(n)
  BY <1>1, FS_Subset
<1> QED
  BY <1>2, FS_Subset DEF CountOf

\* As many events of a subject as there are, each has its place among them.
LEMMA KthExists ==
  ASSUME NEW list, NEW s, NEW n \in Nat, NEW k \in 1 .. CountOf(list, s, n)
  PROVE  \E i \in 1 .. n : list[i].subject = s /\ CountOf(list, s, i) = k
<1> DEFINE Placed(m) == \A j \in 1 .. CountOf(list, s, m) :
             \E i \in 1 .. m : list[i].subject = s /\ CountOf(list, s, i) = j
           T == {m \in Nat : Placed(m)}
<1>1. CountOf(list, s, 0) = 0
  BY FS_EmptySet DEF CountOf
<1>2. 0 \in T
  BY <1>1
<1>3. ASSUME NEW m \in Nat, Placed(m)
      PROVE  Placed(m + 1)
  <2> SUFFICES ASSUME NEW j \in 1 .. CountOf(list, s, m + 1)
               PROVE  \E i \in 1 .. m + 1 : list[i].subject = s /\ CountOf(list, s, i) = j
    OBVIOUS
  <2>1. CountOf(list, s, m) \in Nat
    BY CountIsNat
  <2>2. CASE j <= CountOf(list, s, m)
    BY <1>3, <2>1, <2>2
  <2>3. CASE j > CountOf(list, s, m)
    <3>1. list[m + 1].subject = s /\ CountOf(list, s, m + 1) = j
      BY <2>1, <2>3, CountGoesOn
    <3> QED
      BY <3>1
  <2> QED
    BY <2>1, <2>2, <2>3
<1>4. n \in T
  <2> HIDE DEF Placed
  <2>1. \A m \in Nat : m \in T => m + 1 \in T
    BY <1>3
  <2> QED
    BY <1>2, <2>1, Induction
<1> QED
  BY <1>4

\* An appended event changes no count of those before it.
LEMMA CountStays ==
  ASSUME NEW S, NEW list \in Seq(S), NEW e, NEW s, NEW n \in 0 .. Len(list)
  PROVE  CountOf(Append(list, e), s, n) = CountOf(list, s, n)
<1>1. \A i \in 1 .. n : Append(list, e)[i] = list[i]
  OBVIOUS
<1>2. {i \in 1 .. n : Append(list, e)[i].subject = s} = {i \in 1 .. n : list[i].subject = s}
  BY <1>1
<1> QED
  BY <1>2 DEF CountOf

\* Nor what a prefix holds of a subject.
LEMMA PrefixStays ==
  ASSUME NEW S, NEW list \in Seq(S), NEW e, NEW s, NEW n \in 0 .. Len(list)
  PROVE  FirstOf(Append(list, e), s, n) = FirstOf(list, s, n)
<1> DEFINE long == Append(list, e)
           kth(k, l) == {i \in 1 .. n : l[i].subject = s /\ CountOf(l, s, i) = k}
<1>1. \A i \in 1 .. n : long[i] = list[i] /\ CountOf(long, s, i) = CountOf(list, s, i)
  BY CountStays
<1>2. CountOf(long, s, n) = CountOf(list, s, n)
  BY CountStays
<1>3. \A k : kth(k, long) = kth(k, list)
  BY <1>1
<1>4. ASSUME NEW k \in 1 .. CountOf(list, s, n)
      PROVE  long[CHOOSE i \in kth(k, long) : TRUE] = list[CHOOSE i \in kth(k, list) : TRUE]
  <2>1. kth(k, list) # {}
    <3>1. n \in Nat
      OBVIOUS
    <3>2. \E i \in 1 .. n : list[i].subject = s /\ CountOf(list, s, i) = k
      BY <3>1, KthExists
    <3> QED
      BY <3>2
  <2>2. (CHOOSE i \in kth(k, list) : TRUE) \in 1 .. n
    BY <2>1
  <2>3. kth(k, long) = kth(k, list)
    BY <1>3
  <2> QED
    BY <1>1, <2>2, <2>3
<1> QED
  BY <1>2, <1>4 DEF FirstOf

\* A prefix holds events of its subject alone, as many as it counts.
LEMMA PrefixHolds ==
  ASSUME NEW list, NEW s, NEW n \in Nat
  PROVE  /\ DOMAIN FirstOf(list, s, n) = 1 .. CountOf(list, s, n)
         /\ \A k \in 1 .. CountOf(list, s, n) : \E i \in 1 .. n :
              list[i].subject = s /\ FirstOf(list, s, n)[k] = list[i]
<1> DEFINE kth(k) == {i \in 1 .. n : list[i].subject = s /\ CountOf(list, s, i) = k}
<1>1. ASSUME NEW k \in 1 .. CountOf(list, s, n)
      PROVE  (CHOOSE i \in kth(k) : TRUE) \in kth(k)
  <2>1. kth(k) # {}
    BY KthExists
  <2> QED
    BY <2>1
<1>2. FirstOf(list, s, n) =
        [k \in 1 .. CountOf(list, s, n) |-> list[CHOOSE i \in kth(k) : TRUE]]
  BY DEF FirstOf
<1>3. ASSUME NEW k \in 1 .. CountOf(list, s, n)
      PROVE  \E i \in 1 .. n : list[i].subject = s /\ FirstOf(list, s, n)[k] = list[i]
  <2> DEFINE i0 == CHOOSE i \in kth(k) : TRUE
  <2>1. i0 \in 1 .. n /\ list[i0].subject = s
    BY <1>1
  <2>2. FirstOf(list, s, n)[k] = list[i0]
    BY <1>2
  <2> QED
    BY <2>1, <2>2
<1> QED
  BY <1>2, <1>3

\* Every event is among those of its subject.
LEMMA EventIsListed ==
  ASSUME NEW list, NEW n \in Nat, NEW i \in 1 .. n
  PROVE  \E k \in DOMAIN FirstOf(list, list[i].subject, n) :
           FirstOf(list, list[i].subject, n)[k] = list[i]
<1> DEFINE s == list[i].subject
           k == CountOf(list, s, i)
           kth == {j \in 1 .. n : list[j].subject = s /\ CountOf(list, s, j) = k}
<1>1. k \in 1 .. CountOf(list, s, n)
  <2>1. i - 1 \in Nat /\ (i - 1) + 1 = i
    OBVIOUS
  <2>2. CountOf(list, s, i - 1) \in Nat
    BY <2>1, CountIsNat
  <2>3. CountOf(list, s, i) = CountOf(list, s, i - 1) + 1
    <3> DEFINE m == i - 1
    <3>1. CountOf(list, s, m + 1) = CountOf(list, s, m) + 1
      BY <2>1, CountGoesOn
    <3> QED
      BY <2>1, <3>1
  <2>4. k <= CountOf(list, s, n)
    BY CountGrows
  <2>5. CountOf(list, s, n) \in Nat
    BY CountIsNat
  <2> QED
    BY <2>2, <2>3, <2>4, <2>5
<1>2. \A j \in kth : j = i
  <2> SUFFICES ASSUME NEW j \in kth, j # i
               PROVE  FALSE
    OBVIOUS
  <2>1. ASSUME NEW a \in 1 .. n, NEW b \in 1 .. n, a < b, list[b].subject = s
        PROVE  CountOf(list, s, a) < CountOf(list, s, b)
    <3> DEFINE m == b - 1
    <3>1. m \in Nat /\ m + 1 = b /\ a \in 0 .. m
      BY <2>1
    <3>2. CountOf(list, s, m + 1) = CountOf(list, s, m) + 1
      BY <2>1, <3>1, CountGoesOn
    <3>3. CountOf(list, s, a) <= CountOf(list, s, m)
      BY <3>1, CountGrows
    <3>4. CountOf(list, s, a) \in Nat /\ CountOf(list, s, m) \in Nat
      BY <3>1, CountIsNat
    <3> QED
      BY <3>1, <3>2, <3>3, <3>4
  <2>2. j \in 1 .. n /\ list[j].subject = s /\ CountOf(list, s, j) = CountOf(list, s, i)
    OBVIOUS
  <2>3. CountOf(list, s, i) \in Nat
    BY CountIsNat
  <2>4. CASE j < i
    BY <2>1, <2>2, <2>3, <2>4
  <2>5. CASE i < j
    BY <2>1, <2>2, <2>3, <2>5
  <2> QED
    BY <2>2, <2>4, <2>5
<1>3. i \in kth
  OBVIOUS
<1>4. (CHOOSE j \in kth : TRUE) = i
  BY <1>2, <1>3
<1>5. FirstOf(list, s, n)[k] = list[CHOOSE j \in kth : TRUE]
  BY <1>1 DEF FirstOf
<1>6. DOMAIN FirstOf(list, s, n) = 1 .. CountOf(list, s, n)
  BY DEF FirstOf
<1> QED
  BY <1>1, <1>4, <1>5, <1>6

\* With the event at n the prefix of its subject ends in it.
LEMMA PrefixGoesOn ==
  ASSUME NEW list, NEW s, NEW n \in Nat
  PROVE  FirstOf(list, s, n + 1) =
           IF list[n + 1].subject = s THEN Append(FirstOf(list, s, n), list[n + 1])
           ELSE FirstOf(list, s, n)
<1> DEFINE kth(k, m) == {i \in 1 .. m : list[i].subject = s /\ CountOf(list, s, i) = k}
           mine == list[n + 1].subject = s
           count == CountOf(list, s, n)
<1>1. count \in Nat
  BY CountIsNat
<1>2. CountOf(list, s, n + 1) = IF mine THEN count + 1 ELSE count
  BY CountGoesOn
<1>3. ASSUME NEW k \in 1 .. count
      PROVE  kth(k, n + 1) = kth(k, n)
  <2>1. n + 1 \notin kth(k, n + 1)
    BY <1>1, <1>2
  <2> QED
    BY <2>1
<1>4. ASSUME mine
      PROVE  kth(count + 1, n + 1) = {n + 1}
  <2>1. ASSUME NEW i \in 1 .. n
        PROVE  CountOf(list, s, i) # count + 1
    <3>1. CountOf(list, s, i) <= count
      BY CountGrows
    <3>2. CountOf(list, s, i) \in Nat
      BY CountIsNat
    <3> QED
      BY <1>1, <3>1, <3>2
  <2>2. n + 1 \in kth(count + 1, n + 1)
    BY <1>2, <1>4
  <2> QED
    BY <2>1, <2>2
<1>6. FirstOf(list, s, n) = [k \in 1 .. count |-> list[CHOOSE i \in kth(k, n) : TRUE]]
  BY DEF FirstOf
<1>7. FirstOf(list, s, n + 1) =
        [k \in 1 .. CountOf(list, s, n + 1) |-> list[CHOOSE i \in kth(k, n + 1) : TRUE]]
  BY DEF FirstOf
<1> HIDE DEF kth, count
<1>8. \A k \in 1 .. count :
        list[CHOOSE i \in kth(k, n + 1) : TRUE] = list[CHOOSE i \in kth(k, n) : TRUE]
  BY <1>3
<1>9. CASE mine
  <2>1. (CHOOSE i \in kth(count + 1, n + 1) : TRUE) = n + 1
    BY <1>4, <1>9
  <2>2. FirstOf(list, s, n + 1) =
          [k \in 1 .. count + 1 |-> list[CHOOSE i \in kth(k, n + 1) : TRUE]]
    BY <1>2, <1>7, <1>9
  <2> DEFINE short == FirstOf(list, s, n)
             long  == FirstOf(list, s, n + 1)
  <2>3. DOMAIN short = 1 .. count /\ \A k \in 1 .. count : long[k] = short[k]
    <3>1. ASSUME NEW k \in 1 .. count
          PROVE  long[k] = short[k]
      <4>1. k \in 1 .. count + 1
        BY <1>1
      <4>2. long[k] = list[CHOOSE i \in kth(k, n + 1) : TRUE]
        BY <2>2, <4>1
      <4>3. short[k] = list[CHOOSE i \in kth(k, n) : TRUE]
        BY <1>6
      <4> QED
        BY <1>8, <4>2, <4>3
    <3> QED
      BY <1>6, <3>1
  <2>4. long[count + 1] = list[n + 1]
    BY <1>1, <2>1, <2>2
  <2>5. short = [k \in 1 .. count |-> short[k]] /\ Len(short) = count
    BY <1>1, <1>6
  <2>6. long = [k \in 1 .. count + 1 |-> long[k]]
    BY <2>2
  <2> DEFINE V == {short[k] : k \in 1 .. count} \union {list[n + 1]}
  <2> HIDE DEF short, long
  <2>7. short \in Seq(V) /\ Len(short) = count
    BY <1>1, <2>3, <2>5
  <2>8. \A k \in 1 .. count + 1 : long[k] \in V
    BY <1>1, <2>3, <2>4
  <2>9. long \in Seq(V) /\ Len(long) = count + 1
    BY <1>1, <2>6, <2>8
  <2>10. list[n + 1] \in V
    OBVIOUS
  <2> HIDE DEF V
  <2>11. long = Append(short, list[n + 1])
    BY <1>1, <2>3, <2>4, <2>7, <2>9, <2>10
  <2> QED
    BY <1>9, <2>11 DEF short, long
<1>10. CASE ~mine
  BY <1>2, <1>6, <1>7, <1>8, <1>10
<1> QED
  BY <1>9, <1>10

\* The events of a subject after an append.
LEMMA SubjectGrows ==
  ASSUME NEW S, NEW list \in Seq(S), NEW e, NEW s
  PROVE  OfSubject(Append(list, e), s) =
           IF e.subject = s THEN Append(OfSubject(list, s), e) ELSE OfSubject(list, s)
<1> DEFINE long == Append(list, e)
           n == Len(list)
<1>1. n \in Nat /\ Len(long) = n + 1 /\ long[n + 1] = e
  OBVIOUS
<1>2. FirstOf(long, s, n) = FirstOf(list, s, n)
  BY <1>1, PrefixStays
<1> HIDE DEF long
<1>3. FirstOf(long, s, n + 1) =
        IF long[n + 1].subject = s THEN Append(FirstOf(long, s, n), long[n + 1])
        ELSE FirstOf(long, s, n)
  BY <1>1, PrefixGoesOn
<1> HIDE DEF n
<1> QED
  BY <1>1, <1>2, <1>3 DEF OfSubject, long, n

\* A whole list stays whole with an event that follows the last of its subject.
LEMMA ChainGrows ==
  ASSUME NEW S, NEW list \in Seq(S), VerifyEventChain(list),
         NEW e, e.eventHash = OwnHash(e),
         e.sequence = Len(OfSubject(list, e.subject)) + 1,
         e.previousHash = LastHash(OfSubject(list, e.subject))
  PROVE  VerifyEventChain(Append(list, e))
<1> DEFINE long == Append(list, e)
           n == Len(list)
<1>1. n \in Nat /\ DOMAIN long = 1 .. n + 1 /\ DOMAIN list = 1 .. n
  OBVIOUS
<1>2. long[n + 1] = e /\ \A i \in 1 .. n : long[i] = list[i]
  OBVIOUS
<1>3. ASSUME NEW m \in 0 .. n, NEW s
      PROVE  FirstOf(long, s, m) = FirstOf(list, s, m)
  BY <1>3, PrefixStays
<1> DEFINE Fits(l, i) ==
             LET before == FirstOf(l, l[i].subject, i - 1) IN
               /\ l[i].previousHash = LastHash(before)
               /\ l[i].sequence = Len(before) + 1
               /\ l[i].eventHash = OwnHash(l[i])
<1> HIDE DEF long
<1>4. ASSUME NEW i \in 1 .. n
      PROVE  Fits(long, i)
  <2>1. Fits(list, i)
    BY <1>1 DEF VerifyEventChain
  <2>2. FirstOf(long, list[i].subject, i - 1) = FirstOf(list, list[i].subject, i - 1)
    <3>1. i - 1 \in 0 .. n
      BY <1>1
    <3> QED
      BY <3>1, <1>3
  <2> QED
    BY <1>2, <2>1, <2>2
<1>5. Fits(long, n + 1)
  <2>1. FirstOf(long, e.subject, n) = OfSubject(list, e.subject)
    BY <1>1, <1>3 DEF OfSubject
  <2>2. (n + 1) - 1 = n
    BY <1>1
  <2> QED
    BY <1>2, <2>1, <2>2
<1>6. \A i \in DOMAIN long : Fits(long, i)
  <2> HIDE DEF Fits, n
  <2> QED
    BY <1>1, <1>4, <1>5
<1> QED
  BY <1>6 DEF VerifyEventChain, long
-----------------------------------------------------------------------------
(***************************************************************************)
(* Types.  Settle takes the first of a queue, so the queue of a call that  *)
(* settles is never empty: AtHead, and with it TypeOK is inductive.        *)
(***************************************************************************)
IsFirst(c) == pending[Ledger(c)] # <<>> /\ Head(pending[Ledger(c)]) = c

\* From BEGIN on a call is the first of its queue.
AtHead(c) == pc[c] \in {"waiting", "begun", "committed"} => IsFirst(c)

\* The rules have said something of what is to be committed.
Ruled(c) == pc[c] = "begun" => outcome[c].said # "nothing"

TypeInv == TypeOK /\ \A c \in Calls : AtHead(c) /\ Ruled(c)

Said == {"stored", "reused", "moved", "integrity", "failed"}

\* An event that is not in the file yet has its type.
LEMMA StoredTypes ==
  ASSUME NEW c \in Calls, NEW time \in Times, NEW n \in Nat, NEW hash \in Hashes
  PROVE  StoredEvent(Input[c], time, n, hash) \in Events
<1> DEFINE event == PublicEvent(Input[c], time, n)
           Publics == [id : {Input[d].id : d \in Calls}, subject : Subjects,
                       data : {Input[d].data : d \in Calls}, time : Times, sequence : Nat]
<1>1. event \in Publics
  BY InputAssumption DEF PublicEvent
<1>2. Append(hash, event) \in Seq(Publics)
  <2> HIDE DEF event, Publics
  <2>1. hash \in Seq(Publics)
    BY DEF Hashes, Publics
  <2> QED
    BY <1>1, <2>1
<1>3. Append(hash, event) \in Hashes
  BY <1>2 DEF Hashes
<1>4. /\ Input[c].id \in {Input[d].id : d \in Calls}
      /\ Input[c].data \in {Input[d].data : d \in Calls}
      /\ Input[c].subject \in Subjects
  BY InputAssumption
<1> HIDE DEF event
<1> QED
  BY <1>3, <1>4 DEF StoredEvent, Events, EventHash, event

\* The events of a subject are as many as they are counted, and typed.
LEMMA SubjectTypes ==
  ASSUME NEW list \in Seq(Events), NEW s
  PROVE  OfSubject(list, s) \in Seq(Events) /\ Len(OfSubject(list, s)) \in Nat
<1> DEFINE n == Len(list)
           count == CountOf(list, s, n)
           mine == FirstOf(list, s, n)
<1>1. n \in Nat /\ \A i \in 1 .. n : list[i] \in Events
  OBVIOUS
<1>2. count \in Nat
  BY <1>1, CountIsNat
<1>3. /\ DOMAIN mine = 1 .. count
      /\ \A k \in 1 .. count : \E i \in 1 .. n : mine[k] = list[i]
  BY <1>1, PrefixHolds
<1>4. mine = [k \in 1 .. count |-> mine[k]]
  BY DEF FirstOf
<1> HIDE DEF n, count, mine
<1>5. mine \in Seq(Events)
  BY <1>1, <1>2, <1>3, <1>4
<1> QED
  BY <1>5 DEF OfSubject, mine, n

\* The last hash of typed events is one.
LEMMA LastHashTypes ==
  ASSUME NEW list \in Seq(Events)
  PROVE  LastHash(list) \in Hashes
<1>1. GENESIS \in Hashes
  BY DEF GENESIS, Hashes
<1>2. CASE list # <<>>
  <2>1. list[Len(list)] \in Events
    BY <1>2
  <2> QED
    BY <1>2, <2>1 DEF LastHash, Events
<1> QED
  BY <1>1, <1>2 DEF LastHash

\* What the rules say of a call has its type.
LEMMA AppendTypes ==
  ASSUME NEW list \in Seq(Events), NEW c \in Calls
  PROVE  InMemoryAppend(list, c) \in Outcomes /\ InMemoryAppend(list, c).said # "nothing"
<1> DEFINE id    == Input[c].id
           found == WithId(list, id)
           mine  == OfSubject(list, Input[c].subject)
           fresh == EventTime(Input[c], NoTime, c)
<1>1. CASE HasId(list, id)
  <2>1. found \in Events
    <3>1. (CHOOSE i \in DOMAIN list : list[i].id = id) \in DOMAIN list
      BY <1>1 DEF HasId
    <3> QED
      BY <3>1 DEF WithId
  <2> HIDE DEF found
  <2>2. [said |-> "stored", event |-> found] \in Outcomes /\ [said |-> "reused"] \in Outcomes
    BY <2>1 DEF Outcomes
  <2>3. InMemoryAppend(list, c) \in {[said |-> "stored", event |-> found], [said |-> "reused"]}
    BY <1>1 DEF InMemoryAppend, found
  <2> QED
    BY <2>2, <2>3
<1>2. CASE ~HasId(list, id)
  <2>1. fresh \in Times
    BY DEF EventTime, Times
  <2>2. Len(mine) + 1 \in Nat /\ LastHash(mine) \in Hashes
    BY SubjectTypes, LastHashTypes
  <2> DEFINE event == StoredEvent(Input[c], fresh, Len(mine) + 1, LastHash(mine))
  <2>3. event \in Events
    <3> HIDE DEF fresh, mine
    <3> QED
      BY <2>1, <2>2, StoredTypes
  <2>4. InMemoryAppend(list, c) \in {[said |-> "moved"], [said |-> "stored", event |-> event]}
    BY <1>2 DEF InMemoryAppend
  <2> HIDE DEF event
  <2>5. [said |-> "moved"] \in Outcomes /\ [said |-> "stored", event |-> event] \in Outcomes
    BY <2>3 DEF Outcomes
  <2> QED
    BY <2>4, <2>5
<1> QED
  BY <1>1, <1>2

\* A call that settles leaves a queue in order.
LEMMA SettleTypes ==
  ASSUME TypeInv, NEW c \in Calls, IsFirst(c), NEW a \in Said, Settle(c, a)
  PROVE  /\ pending' \in [Ledgers -> Seq(Calls)]
         /\ pc' \in [Calls -> {"idle", "queued", "waiting", "begun", "committed", "done"}]
         /\ outcome' \in [Calls -> Outcomes]
         /\ answer' \in [Calls -> {"none", "stored", "reused", "moved", "integrity", "failed"}]
         /\ \A d \in Calls : AtHead(d)' /\ Ruled(d)'
<1>1. Ledger(c) \in Ledgers /\ pending[Ledger(c)] \in Seq(Calls)
  BY LedgerAssumption DEF TypeInv, TypeOK, Ledger
<1>2. Tail(pending[Ledger(c)]) \in Seq(Calls)
  BY <1>1 DEF IsFirst
<1>3. NoOutcome \in Outcomes
  BY DEF NoOutcome, Outcomes
<1>4. pending' \in [Ledgers -> Seq(Calls)]
  BY <1>1, <1>2 DEF Settle, TypeInv, TypeOK
<1>5. ASSUME NEW d \in Calls
      PROVE  AtHead(d)'
  <2> SUFFICES ASSUME pc'[d] \in {"waiting", "begun", "committed"}
               PROVE  IsFirst(d)'
    BY DEF AtHead
  <2>1. d # c /\ pc[d] = pc'[d]
    BY DEF Settle, GoTo, TypeInv, TypeOK
  <2>2. IsFirst(d)
    BY <2>1 DEF TypeInv, AtHead
  <2>3. Ledger(d) # Ledger(c)
    BY <2>1, <2>2 DEF IsFirst
  <2>4. Ledger(d) \in Ledgers
    BY LedgerAssumption DEF Ledger
  <2>5. pending'[Ledger(d)] = pending[Ledger(d)]
    BY <2>3, <2>4 DEF Settle, TypeInv, TypeOK
  <2> QED
    BY <2>2, <2>5 DEF IsFirst, Ledger
<1>6. ASSUME NEW d \in Calls
      PROVE  Ruled(d)'
  BY DEF Settle, GoTo, TypeInv, TypeOK, Ruled
<1> QED
  BY <1>3, <1>4, <1>5, <1>6 DEF Settle, GoTo, TypeInv, TypeOK, Said

\* Every queue is empty or has its first call still first after one more joins.
LEMMA EnqueueTypes ==
  ASSUME TypeInv, NEW c \in Calls, Enqueue(c)
  PROVE  TypeInv'
<1>1. Ledger(c) \in Ledgers /\ pending[Ledger(c)] \in Seq(Calls)
  BY LedgerAssumption DEF TypeInv, TypeOK, Ledger
<1>2. pending' \in [Ledgers -> Seq(Calls)]
  BY <1>1 DEF Enqueue, TypeInv, TypeOK
<1>3. ASSUME NEW d \in Calls
      PROVE  AtHead(d)'
  <2> SUFFICES ASSUME pc'[d] \in {"waiting", "begun", "committed"}
               PROVE  IsFirst(d)'
    BY DEF AtHead
  <2>1. pc[d] = pc'[d]
    BY DEF Enqueue, GoTo, TypeInv, TypeOK
  <2>2. IsFirst(d)
    BY <2>1 DEF TypeInv, AtHead
  <2>3. Ledger(d) \in Ledgers
    BY LedgerAssumption DEF Ledger
  <2>4. CASE Ledger(d) # Ledger(c)
    BY <2>2, <2>3, <2>4 DEF Enqueue, TypeInv, TypeOK, IsFirst, Ledger
  <2>5. CASE Ledger(d) = Ledger(c)
    <3> DEFINE queue == pending[Ledger(c)]
    <3>1. pending'[Ledger(d)] = Append(queue, c)
      BY <1>1, <2>5 DEF Enqueue, TypeInv, TypeOK
    <3>2. queue \in Seq(Calls) /\ queue # <<>> /\ Head(queue) = d
      BY <1>1, <2>2, <2>5 DEF IsFirst
    <3> HIDE DEF queue
    <3>3. Append(queue, c) # <<>> /\ Head(Append(queue, c)) = d
      BY <3>2
    <3> QED
      BY <3>1, <3>3 DEF IsFirst, Ledger
  <2> QED
    BY <2>4, <2>5
<1>4. ASSUME NEW d \in Calls
      PROVE  Ruled(d)'
  BY DEF Enqueue, GoTo, TypeInv, TypeOK, Ruled
<1> QED
  BY <1>2, <1>3, <1>4 DEF Enqueue, GoTo, TypeInv, TypeOK, bounds

\* A call that runs is typed while it goes on.
LEMMA GoesOnTypes ==
  ASSUME TypeInv, NEW c \in Calls, IsFirst(c), UNCHANGED pending,
         NEW where \in {"waiting", "begun", "committed"}, GoTo(c, where)
  PROVE  /\ pc' \in [Calls -> {"idle", "queued", "waiting", "begun", "committed", "done"}]
         /\ \A d \in Calls : AtHead(d)'
BY DEF GoTo, TypeInv, TypeOK, AtHead, IsFirst, Ledger

\* A statement of a call keeps the types.
LEMMA StepTypes ==
  ASSUME TypeInv, NEW c \in Calls, Step(c) \/ StatementFails(c)
  PROVE  TypeInv'
<1> USE DEF Runs
<1>1. IsFirst(c)
  BY DEF Step, BeginFails, Wait, BusyTimeout, Begin, Commit, Resolve, Rollback, StatementFails,
         TypeInv, AtHead, IsFirst
<1>2. Ledger(c) \in Ledgers
  BY LedgerAssumption DEF Ledger
<1>3. CASE BeginFails(c) \/ BusyTimeout(c)
  <2>1. Settle(c, "failed") /\ UNCHANGED <<events, lock, handle, bounds>>
    BY <1>3 DEF BeginFails, BusyTimeout
  <2> QED
    BY <1>1, <2>1, SettleTypes DEF TypeInv, TypeOK, Said, bounds
<1>4. CASE Wait(c)
  <2>1. UNCHANGED pending /\ GoTo(c, "waiting")
    BY <1>4 DEF Wait
  <2>2. \A d \in Calls : Ruled(d)'
    BY <1>4 DEF Wait, GoTo, TypeInv, TypeOK, Ruled
  <2> QED
    BY <1>1, <1>4, <2>1, <2>2, GoesOnTypes DEF Wait, TypeInv, TypeOK, bounds
<1>5. CASE Begin(c)
  <2>1. UNCHANGED pending /\ GoTo(c, "begun")
    BY <1>5 DEF Begin
  <2>2. outcome' \in [Calls -> Outcomes] /\ \A d \in Calls : Ruled(d)'
    <3>1. /\ InMemoryAppend(events, c) \in Outcomes
          /\ InMemoryAppend(events, c).said # "nothing"
          /\ [said |-> "integrity"] \in Outcomes
      BY AppendTypes DEF TypeInv, TypeOK, Outcomes
    <3>2. outcome'[c] \in {InMemoryAppend(events, c), [said |-> "integrity"]}
      BY <1>5 DEF Begin, TypeInv, TypeOK
    <3>3. outcome' = [outcome EXCEPT ![c] = outcome'[c]]
      BY <1>5 DEF Begin, TypeInv, TypeOK
    <3>4. outcome'[c] \in Outcomes /\ outcome'[c].said # "nothing"
      BY <3>1, <3>2
    <3>5. ASSUME NEW d \in Calls
          PROVE  Ruled(d)'
      BY <2>1, <3>3, <3>4 DEF GoTo, TypeInv, TypeOK, Ruled
    <3> QED
      BY <3>3, <3>4, <3>5 DEF TypeInv, TypeOK
  <2>3. lock' \in Ledgers \union {Nobody}
    BY <1>2, <1>5 DEF Begin
  <2> QED
    BY <1>1, <1>5, <2>1, <2>2, <2>3, GoesOnTypes DEF Begin, TypeInv, TypeOK, bounds
<1>6. CASE Commit(c)
  <2>1. UNCHANGED pending /\ GoTo(c, "committed")
    BY <1>6 DEF Commit
  <2>2. outcome[c].event \in Events
    BY <1>6 DEF Commit, TypeInv, TypeOK, Outcomes
  <2>3. events' \in Seq(Events)
    BY <1>6, <2>2 DEF Commit, TypeInv, TypeOK
  <2>4. \A d \in Calls : Ruled(d)'
    BY <1>6 DEF Commit, GoTo, TypeInv, TypeOK, Ruled
  <2> QED
    BY <1>1, <1>6, <2>1, <2>3, <2>4, GoesOnTypes DEF Commit, TypeInv, TypeOK, bounds
<1>7. CASE Resolve(c)
  <2>1. Settle(c, "stored") /\ UNCHANGED <<events, lock, handle, bounds>>
    BY <1>7 DEF Resolve
  <2> QED
    BY <1>1, <2>1, SettleTypes DEF TypeInv, TypeOK, Said, bounds
<1>8. CASE Rollback(c)
  <2> DEFINE a == outcome[c].said
  <2>1. pc[c] = "begun" /\ Settle(c, a) /\ lock' = Nobody /\ UNCHANGED <<events, handle, bounds>>
    BY <1>8 DEF Rollback
  <2>2. a \in Said
    BY <2>1 DEF TypeInv, TypeOK, Ruled, Outcomes, Said
  <2> QED
    BY <1>1, <2>1, <2>2, SettleTypes DEF TypeInv, TypeOK, Said, bounds
<1>9. CASE StatementFails(c)
  <2>1. /\ Settle(c, "failed") /\ lock' = Nobody /\ faults' = faults + 1 /\ faults < MaxFaults
        /\ UNCHANGED <<events, handle, crashes>>
    BY <1>9 DEF StatementFails
  <2>2. faults' \in 0 .. MaxFaults
    BY <2>1, BoundsAssumption DEF TypeInv, TypeOK
  <2> QED
    BY <1>1, <2>1, <2>2, SettleTypes DEF TypeInv, TypeOK, Said
<1> QED
  BY <1>3, <1>4, <1>5, <1>6, <1>7, <1>8, <1>9 DEF Step

\* So do the life of a ledger and the death of a process.
LEMMA LifeTypes ==
  ASSUME TypeInv,
         \/ \E l \in Ledgers : Open(l) \/ Close(l)
         \/ \E p \in Processes : Crash(p)
         \/ UNCHANGED vars
  PROVE  TypeInv'
<1>1. ASSUME NEW l \in Ledgers, Open(l) \/ Close(l)
      PROVE  TypeInv'
  <2>1. UNCHANGED <<events, lock, pending, pc, outcome, answer, faults, crashes>>
    BY <1>1 DEF Open, Close, calls, bounds
  <2>2. handle' \in [Ledgers -> {"none", "open", "closed", "refused"}]
    BY <1>1 DEF Open, Close, TypeInv, TypeOK
  <2> QED
    BY <2>1, <2>2 DEF TypeInv, TypeOK, AtHead, IsFirst, Ledger, Ruled
<1>2. ASSUME NEW p \in Processes, Crash(p)
      PROVE  TypeInv'
  <2> DEFINE dying == {l \in Ledgers : ProcessOf[l] = p}
             lost == {c \in Calls : Ledger(c) \in dying /\ pc[c] \notin {"idle", "done"}}
  <2>1. /\ crashes < MaxCrashes /\ crashes' = crashes + 1
        /\ handle' = [l \in Ledgers |-> IF l \in dying THEN "none" ELSE handle[l]]
        /\ pending' = [l \in Ledgers |-> IF l \in dying THEN <<>> ELSE pending[l]]
        /\ lock' = IF lock \in dying THEN Nobody ELSE lock
        /\ pc' = [c \in Calls |-> IF c \in lost THEN "done" ELSE pc[c]]
        /\ outcome' = [c \in Calls |-> IF c \in lost THEN NoOutcome ELSE outcome[c]]
        /\ UNCHANGED <<events, answer, faults>>
    BY <1>2 DEF Crash
  <2>2. crashes' \in 0 .. MaxCrashes
    BY <2>1, BoundsAssumption DEF TypeInv, TypeOK
  <2>3. NoOutcome \in Outcomes /\ <<>> \in Seq(Calls)
    BY DEF NoOutcome, Outcomes
  <2>4. ASSUME NEW c \in Calls
        PROVE  AtHead(c)' /\ Ruled(c)'
    <3>1. CASE c \in lost
      BY <2>1, <3>1 DEF AtHead, Ruled
    <3>2. CASE c \notin lost
      <4>1. pc'[c] = pc[c] /\ outcome'[c] = outcome[c]
        BY <2>1, <3>2
      <4>2. Ledger(c) \in Ledgers
        BY LedgerAssumption DEF Ledger
      <4>3. pc[c] \notin {"idle", "done"} => pending'[Ledger(c)] = pending[Ledger(c)]
        BY <2>1, <3>2, <4>2
      <4> QED
        BY <4>1, <4>3 DEF TypeInv, AtHead, IsFirst, Ledger, Ruled
    <3> QED
      BY <3>1, <3>2
  <2> HIDE DEF dying, lost
  <2>5. /\ handle' \in [Ledgers -> {"none", "open", "closed", "refused"}]
        /\ pending' \in [Ledgers -> Seq(Calls)]
    BY <2>1, <2>3 DEF TypeInv, TypeOK
  <2>6. /\ pc' \in [Calls -> {"idle", "queued", "waiting", "begun", "committed", "done"}]
        /\ outcome' \in [Calls -> Outcomes]
        /\ lock' \in Ledgers \union {Nobody}
    BY <2>1, <2>3 DEF TypeInv, TypeOK
  <2> QED
    BY <2>1, <2>2, <2>4, <2>5, <2>6 DEF TypeInv, TypeOK
<1>3. CASE UNCHANGED vars
  BY <1>3 DEF TypeInv, TypeOK, AtHead, IsFirst, Ledger, Ruled, vars
<1> QED
  BY <1>1, <1>2, <1>3

\* The file is empty and nobody has called yet.
LEMMA TypeInvInitially == Init => TypeInv
<1> SUFFICES ASSUME Init
             PROVE  TypeInv
  OBVIOUS
<1>1. NoOutcome \in Outcomes /\ events \in Seq(Events) /\ <<>> \in Seq(Calls)
  BY DEF NoOutcome, Outcomes, Init
<1> QED
  BY <1>1, BoundsAssumption DEF Init, TypeInv, TypeOK, AtHead, Ruled

\* Every step keeps the types and the first of every queue.
LEMMA TypeInvKept == TypeInv /\ [Next]_vars => TypeInv'
BY EnqueueTypes, StepTypes, LifeTypes DEF Next

\* Every variable keeps its type, and a running call is the first of its queue.
LEMMA TypeInvInvariant == Spec => []TypeInv
BY TypeInvInitially, TypeInvKept, PTL DEF Spec

\* The file, the queues of its ledgers and what its callers are told keep their
\* types (append, constructor and close of sqlite-ledger.ts), for any calls.
THEOREM SqliteTypes == Spec => []TypeOK
<1>1. TypeInv => TypeOK
  BY DEF TypeInv
<1> QED
  BY <1>1, TypeInvInvariant, PTL

-----------------------------------------------------------------------------
(***************************************************************************)
(* The file.  That its chain is whole is not inductive: a commit must      *)
(* bring the event that follows the last one of its subject now, and does, *)
(* because what the rules said under the lock of the file is still so.     *)
(***************************************************************************)
\* What the rules said at BEGIN IMMEDIATE they would say again until COMMIT.
HoldsLock(c) ==
  pc[c] = "begun" => lock = Ledger(c) /\ outcome[c] = InMemoryAppend(events, c)

FileInv == FileAlwaysOpens /\ \A c \in Calls : HoldsLock(c)

\* There is one transaction at a time: the lock belongs to a ledger, and a ledger
\* runs the first of its queue.
LEMMA OneHolder ==
  ASSUME TypeInv, FileInv, NEW c \in Calls, pc[c] = "begun", NEW d \in Calls, pc[d] = "begun"
  PROVE  c = d
BY DEF TypeInv, FileInv, HoldsLock, AtHead, IsFirst

\* An event the rules accept that is not in the file follows the last of its subject.
LEMMA AcceptedFollows ==
  ASSUME TypeInv, NEW c \in Calls, ~HasId(events, Input[c].id),
         InMemoryAppend(events, c).said = "stored"
  PROVE  LET e == InMemoryAppend(events, c).event
             mine == OfSubject(events, Input[c].subject)
         IN /\ e.id = Input[c].id
            /\ e.subject = Input[c].subject
            /\ e.data = Input[c].data
            /\ e.time = EventTime(Input[c], NoTime, c)
            /\ e.sequence = Len(mine) + 1
            /\ e.previousHash = LastHash(mine)
            /\ e.eventHash = OwnHash(e)
            /\ Input[c].expected \in {0, Len(mine) + 1}
<1> DEFINE mine == OfSubject(events, Input[c].subject)
           time == EventTime(Input[c], NoTime, c)
           e == StoredEvent(Input[c], time, Len(mine) + 1, LastHash(mine))
<1>1. /\ Input[c].expected \in {0, Len(mine) + 1}
      /\ InMemoryAppend(events, c).event = e
  BY DEF InMemoryAppend
<1>2. e.eventHash = OwnHash(e)
  BY DEF StoredEvent, OwnHash, EventHash, PublicEvent
<1>3. /\ e.id = Input[c].id /\ e.subject = Input[c].subject /\ e.data = Input[c].data
      /\ e.time = time /\ e.sequence = Len(mine) + 1 /\ e.previousHash = LastHash(mine)
  BY DEF StoredEvent
<1> HIDE DEF e
<1> QED
  BY <1>1, <1>2, <1>3

\* What changes nothing in the file, and lets nobody into a transaction, keeps it.
LEMMA FileStays ==
  ASSUME FileInv, UNCHANGED events,
         \A l \in Ledgers : handle'[l] = "refused" => handle[l] = "refused",
         \A d \in Calls : pc'[d] = "begun" =>
           pc[d] = "begun" /\ lock' = lock /\ outcome'[d] = outcome[d]
  PROVE  FileInv'
BY DEF FileInv, FileAlwaysOpens, HoldsLock, Ledger

\* A commit leaves a whole file, and nobody in a transaction.
LEMMA CommitKeepsFile ==
  ASSUME TypeInv, FileInv, NEW c \in Calls, Commit(c)
  PROVE  FileInv'
<1> DEFINE e == outcome[c].event
<1>1. /\ pc[c] = "begun" /\ outcome[c].said = "stored" /\ outcome[c] = InMemoryAppend(events, c)
      /\ UNCHANGED handle
      /\ events' = IF HasId(events, Input[c].id) THEN events ELSE Append(events, e)
  BY DEF Commit, FileInv, HoldsLock
<1>2. \A d \in Calls : pc'[d] # "begun"
  BY <1>1, OneHolder DEF Commit, GoTo, TypeInv, TypeOK
<1>3. CASE HasId(events, Input[c].id)
  BY <1>1, <1>2, <1>3, FileStays
<1>4. CASE ~HasId(events, Input[c].id)
  <2>1. /\ e.id = Input[c].id
        /\ e.sequence = Len(OfSubject(events, e.subject)) + 1
        /\ e.previousHash = LastHash(OfSubject(events, e.subject))
        /\ e.eventHash = OwnHash(e)
    BY <1>1, <1>4, AcceptedFollows
  <2>2. events \in Seq(Events) /\ events' = Append(events, e)
    BY <1>1, <1>4 DEF TypeInv, TypeOK
  <2> HIDE DEF e
  <2>3. VerifyEventChain(events')
    BY <2>1, <2>2, ChainGrows DEF FileInv, FileAlwaysOpens
  <2>4. \A i \in DOMAIN events : events[i].id # e.id
    BY <1>4, <2>1 DEF HasId
  <2>5. \A i, j \in DOMAIN events : events[i].id = events[j].id => i = j
    BY DEF FileInv, FileAlwaysOpens
  <2>6. \A i, j \in DOMAIN events' : events'[i].id = events'[j].id => i = j
    <3> DEFINE n == Len(events)
    <3>1. n \in Nat /\ DOMAIN events = 1 .. n /\ DOMAIN events' = 1 .. n + 1
      BY <2>2
    <3>2. events'[n + 1] = e /\ \A i \in 1 .. n : events'[i] = events[i]
      BY <2>2
    <3> HIDE DEF n
    <3>3. \A i \in 1 .. n + 1 : i \in 1 .. n \/ i = n + 1
      BY <3>1
    <3> QED
      BY <2>4, <2>5, <3>1, <3>2, <3>3
  <2>7. \A l \in Ledgers : handle'[l] # "refused"
    BY <1>1 DEF FileInv, FileAlwaysOpens
  <2> QED
    BY <1>2, <2>3, <2>6, <2>7 DEF FileInv, FileAlwaysOpens, HoldsLock
<1> QED
  BY <1>3, <1>4

\* A call that settles lets nobody into a transaction.
LEMMA SettleKeepsFile ==
  ASSUME TypeInv, FileInv, NEW c \in Calls, NEW a, Settle(c, a), UNCHANGED <<events, handle>>,
         UNCHANGED lock \/ pc[c] = "begun"
  PROVE  FileInv'
<1>1. \A d \in Calls : pc'[d] = "begun" => pc[d] = "begun" /\ outcome'[d] = outcome[d] /\ d # c
  BY DEF Settle, GoTo, TypeInv, TypeOK
<1>2. \A d \in Calls : pc'[d] = "begun" => lock' = lock
  BY <1>1, OneHolder
<1> QED
  BY <1>1, <1>2, FileStays

\* Every step of a call keeps the file.
LEMMA StepKeepsFile ==
  ASSUME TypeInv, FileInv, NEW c \in Calls, Enqueue(c) \/ Step(c) \/ StatementFails(c)
  PROVE  FileInv'
<1>1. CASE Enqueue(c)
  BY <1>1, FileStays DEF Enqueue, GoTo, TypeInv, TypeOK
<1>2. CASE BeginFails(c) \/ BusyTimeout(c) \/ Resolve(c)
  <2>1. PICK a : Settle(c, a) /\ UNCHANGED <<events, lock, handle>>
    BY <1>2 DEF BeginFails, BusyTimeout, Resolve
  <2> QED
    BY <2>1, SettleKeepsFile
<1>3. CASE Wait(c)
  BY <1>3, FileStays DEF Wait, GoTo, TypeInv, TypeOK
<1>4. CASE Begin(c)
  <2>1. /\ lock = Nobody /\ lock' = Ledger(c) /\ GoTo(c, "begun")
        /\ outcome' = [outcome EXCEPT ![c] = InMemoryAppend(events, c)]
        /\ UNCHANGED <<events, handle>>
    BY <1>4 DEF Begin, FileInv, FileAlwaysOpens
  <2>2. \A d \in Calls : pc[d] # "begun"
    BY <2>1, LedgerAssumption DEF FileInv, HoldsLock, Nobody, Ledger
  <2>3. \A d \in Calls : pc'[d] = "begun" => d = c
    BY <2>1, <2>2 DEF GoTo, TypeInv, TypeOK
  <2>4. outcome'[c] = InMemoryAppend(events', c)
    BY <2>1 DEF TypeInv, TypeOK
  <2> QED
    BY <2>1, <2>3, <2>4 DEF FileInv, FileAlwaysOpens, HoldsLock, Ledger
<1>5. CASE Commit(c)
  BY <1>5, CommitKeepsFile
<1>6. CASE Rollback(c) \/ StatementFails(c)
  <2>1. PICK a : Settle(c, a) /\ pc[c] = "begun" /\ UNCHANGED <<events, handle>>
    BY <1>6 DEF Rollback, StatementFails
  <2> QED
    BY <2>1, SettleKeepsFile
<1> QED
  BY <1>1, <1>2, <1>3, <1>4, <1>5, <1>6 DEF Step

\* A file that is whole is opened, and a process that dies takes its transaction
\* with it.
LEMMA LifeKeepsFile ==
  ASSUME TypeInv, FileInv,
         \/ \E l \in Ledgers : Open(l) \/ Close(l)
         \/ \E p \in Processes : Crash(p)
         \/ UNCHANGED vars
  PROVE  FileInv'
<1>1. ASSUME NEW l \in Ledgers, Open(l) \/ Close(l)
      PROVE  FileInv'
  <2>1. UNCHANGED <<events, lock, pc, outcome>>
    BY <1>1 DEF Open, Close, calls
  <2>2. \A k \in Ledgers : handle'[k] = "refused" => handle[k] = "refused"
    BY <1>1 DEF Open, Close, TypeInv, TypeOK, FileInv, FileAlwaysOpens
  <2> QED
    BY <2>1, <2>2, FileStays
<1>2. ASSUME NEW p \in Processes, Crash(p)
      PROVE  FileInv'
  <2> DEFINE dying == {l \in Ledgers : ProcessOf[l] = p}
             lost == {c \in Calls : Ledger(c) \in dying /\ pc[c] \notin {"idle", "done"}}
  <2>1. /\ handle' = [l \in Ledgers |-> IF l \in dying THEN "none" ELSE handle[l]]
        /\ lock' = IF lock \in dying THEN Nobody ELSE lock
        /\ pc' = [c \in Calls |-> IF c \in lost THEN "done" ELSE pc[c]]
        /\ outcome' = [c \in Calls |-> IF c \in lost THEN NoOutcome ELSE outcome[c]]
        /\ UNCHANGED events
    BY <1>2 DEF Crash
  <2>2. ASSUME NEW d \in Calls, pc'[d] = "begun"
        PROVE  pc[d] = "begun" /\ lock' = lock /\ outcome'[d] = outcome[d]
    <3>1. d \notin lost /\ pc[d] = "begun" /\ outcome'[d] = outcome[d]
      BY <2>1, <2>2
    <3>2. lock = Ledger(d) /\ Ledger(d) \notin dying
      BY <3>1 DEF FileInv, HoldsLock
    <3> QED
      BY <2>1, <3>1, <3>2
  <2>3. \A l \in Ledgers : handle'[l] = "refused" => handle[l] = "refused"
    BY <2>1
  <2> QED
    BY <2>1, <2>2, <2>3, FileStays
<1>3. CASE UNCHANGED vars
  BY <1>3, FileStays DEF vars
<1> QED
  BY <1>1, <1>2, <1>3

\* The empty file is whole.
LEMMA FileInvInitially == Init => FileInv
BY DEF Init, FileInv, FileAlwaysOpens, VerifyEventChain, HoldsLock

\* Every step keeps a file that opens.
LEMMA FileInvKept == TypeInv /\ FileInv /\ [Next]_vars => FileInv'
BY StepKeepsFile, LifeKeepsFile DEF Next

\* In every state the file is whole, and a transaction knows its end.
LEMMA FileInvInvariant == Spec => []FileInv
BY FileInvInitially, FileInvKept, TypeInvInvariant, PTL DEF Spec

\* The file opens again whoever appends to it and dies (constructor and #snapshot
\* of sqlite-ledger.ts): for any ledgers in any processes, its events form whole
\* chains and no id is in it twice.
THEOREM AlwaysOpens == Spec => []FileAlwaysOpens
<1>1. FileInv => FileAlwaysOpens
  BY DEF FileInv
<1> QED
  BY <1>1, FileInvInvariant, PTL

-----------------------------------------------------------------------------
(***************************************************************************)
(* The queues.  A call is behind those its writer made before it, until    *)
(* they are done.                                                          *)
(***************************************************************************)
\* A call that is neither idle nor done is in the queue of its ledger.
Waits(c) ==
  pc[c] \notin {"idle", "done"} =>
    \E i \in DOMAIN pending[Ledger(c)] : pending[Ledger(c)][i] = c

\* Nothing is queued before it is called, or behind what was called after it.
InOrder(l) ==
  /\ \A i \in DOMAIN pending[l] : pc[pending[l][i]] # "idle"
  /\ \A i, j \in DOMAIN pending[l] : i < j => pending[l][j] \notin Earlier[pending[l][i]]

\* What was called before a call is called, and done before the call commits.
After(c) ==
  /\ pc[c] # "idle" => \A d \in Earlier[c] : pc[d] # "idle" /\ d # c
  /\ pc[c] \in {"committed", "done"} => \A d \in Earlier[c] : pc[d] = "done"

QueueInv ==
  /\ \A c \in Calls : Waits(c) /\ After(c)
  /\ \A l \in Ledgers : InOrder(l)

\* The first of a queue has nothing before it left.
LEMMA FirstIsNext ==
  ASSUME TypeInv, QueueInv, NEW c \in Calls, IsFirst(c), pc[c] # "idle", NEW d \in Earlier[c]
  PROVE  pc[d] = "done"
<1> SUFFICES ASSUME pc[d] # "done"
             PROVE  FALSE
  OBVIOUS
<1>1. d \in Calls /\ Ledger(d) = Ledger(c) /\ Ledger(c) \in Ledgers
  BY InputAssumption, LedgerAssumption DEF Ledger
<1>2. pc[d] # "idle" /\ d # c
  BY DEF QueueInv, After
<1> DEFINE queue == pending[Ledger(c)]
<1>3. PICK j \in DOMAIN queue : queue[j] = d
  BY <1>1, <1>2 DEF QueueInv, Waits
<1>4. queue \in Seq(Calls) /\ queue # <<>> /\ queue[1] = c
  BY <1>1 DEF IsFirst, TypeInv, TypeOK
<1>5. \A i, k \in DOMAIN queue : i < k => queue[k] \notin Earlier[queue[i]]
  BY <1>1 DEF QueueInv, InOrder
<1> HIDE DEF queue
<1>6. 1 \in DOMAIN queue /\ 1 < j
  BY <1>2, <1>3, <1>4
<1> QED
  BY <1>3, <1>4, <1>5, <1>6

\* One more call joins a queue, behind all that was made before it.
LEMMA EnqueueKeepsOrder ==
  ASSUME TypeInv, QueueInv, NEW c \in Calls, Enqueue(c)
  PROVE  QueueInv'
<1> DEFINE l0 == Ledger(c)
           queue == pending[l0]
           n == Len(queue)
<1>1. /\ pc[c] = "idle" /\ pc' = [pc EXCEPT ![c] = "queued"]
      /\ \A d \in Earlier[c] : pc[d] # "idle"
      /\ pending' = [pending EXCEPT ![l0] = Append(queue, c)]
  BY DEF Enqueue, GoTo
<1>2. l0 \in Ledgers /\ queue \in Seq(Calls) /\ n \in Nat /\ DOMAIN queue = 1 .. n
  BY LedgerAssumption DEF TypeInv, TypeOK, Ledger
<1>3. \A d \in Calls : d # c => pc'[d] = pc[d]
  BY <1>1 DEF TypeInv, TypeOK
<1>4. pc'[c] = "queued"
  BY <1>1 DEF TypeInv, TypeOK
<1>5. pending'[l0] = Append(queue, c) /\ \A l \in Ledgers : l # l0 => pending'[l] = pending[l]
  BY <1>1, <1>2 DEF TypeInv, TypeOK
<1>6. /\ DOMAIN Append(queue, c) = 1 .. n + 1 /\ Append(queue, c)[n + 1] = c
      /\ \A i \in 1 .. n : Append(queue, c)[i] = queue[i]
  BY <1>2
<1>7. \A d \in Calls : Earlier[d] \subseteq Calls
  BY InputAssumption
<1>8. ASSUME NEW d \in Calls
      PROVE  Waits(d)'
  <2>1. CASE d = c
    <3>1. n + 1 \in DOMAIN pending'[l0] /\ pending'[l0][n + 1] = c
      BY <1>2, <1>5, <1>6
    <3> QED
      BY <2>1, <3>1 DEF Waits, Ledger
  <2>2. CASE d # c /\ Ledger(d) = l0
    <3> SUFFICES ASSUME pc'[d] \notin {"idle", "done"}
                 PROVE  \E i \in DOMAIN pending'[l0] : pending'[l0][i] = d
      BY <2>2 DEF Waits, Ledger
    <3>1. PICK i \in DOMAIN queue : queue[i] = d
      BY <1>3, <2>2 DEF QueueInv, Waits
    <3>2. i \in DOMAIN pending'[l0] /\ pending'[l0][i] = d
      BY <1>2, <1>5, <1>6, <3>1
    <3> QED
      BY <3>2
  <2>3. CASE d # c /\ Ledger(d) # l0
    <3>1. Ledger(d) \in Ledgers
      BY LedgerAssumption DEF Ledger
    <3> QED
      BY <1>3, <1>5, <2>3, <3>1 DEF QueueInv, Waits, Ledger
  <2> QED
    BY <2>1, <2>2, <2>3
<1>9. ASSUME NEW d \in Calls
      PROVE  After(d)'
  <2>1. \A e \in Earlier[d] : pc[e] # "idle" => pc'[e] # "idle"
    BY <1>3, <1>4, <1>7
  <2>2. \A e \in Earlier[d] : pc[e] = "done" => pc'[e] = "done"
    BY <1>1, <1>3, <1>7
  <2>3. CASE d = c
    BY <1>1, <1>4, <2>1, <2>3 DEF After
  <2>4. CASE d # c
    BY <1>3, <2>1, <2>2, <2>4 DEF QueueInv, After
  <2> QED
    BY <2>3, <2>4
<1>10. ASSUME NEW l \in Ledgers
       PROVE  InOrder(l)'
  <2>1. \A d \in Calls : pc[d] # "idle" => pc'[d] # "idle"
    BY <1>3, <1>4
  <2>2. InOrder(l) /\ pending[l] \in Seq(Calls)
    BY DEF QueueInv, TypeInv, TypeOK
  <2>3. CASE l # l0
    <3>1. \A i \in DOMAIN pending[l] : pending[l][i] \in Calls
      BY <2>2
    <3> QED
      BY <1>5, <2>1, <2>2, <2>3, <3>1 DEF InOrder
  <2>4. CASE l = l0
    <3>1. \A i \in 1 .. n : queue[i] \in Calls /\ pc[queue[i]] # "idle"
      BY <1>2, <2>2, <2>4 DEF InOrder
    <3>2. \A i \in 1 .. n : c \notin Earlier[queue[i]]
      BY <1>1, <3>1 DEF QueueInv, After
    <3>3. \A i, j \in 1 .. n : i < j => queue[j] \notin Earlier[queue[i]]
      BY <1>2, <2>2, <2>4 DEF InOrder
    <3>4. \A i \in 1 .. n + 1 : pc'[Append(queue, c)[i]] # "idle"
      <4>1. \A i \in 1 .. n + 1 : i \in 1 .. n \/ i = n + 1
        BY <1>2
      <4> QED
        BY <1>4, <1>6, <2>1, <3>1, <4>1
    <3>5. ASSUME NEW i \in 1 .. n + 1, NEW j \in 1 .. n + 1, i < j
          PROVE  Append(queue, c)[j] \notin Earlier[Append(queue, c)[i]]
      <4>1. i \in 1 .. n /\ Append(queue, c)[i] = queue[i]
        BY <1>2, <1>6, <3>5
      <4>2. CASE j = n + 1
        BY <1>6, <3>2, <4>1, <4>2
      <4>3. CASE j # n + 1
        <5>1. j \in 1 .. n /\ Append(queue, c)[j] = queue[j]
          BY <1>2, <1>6, <4>3
        <5> QED
          BY <3>3, <3>5, <4>1, <5>1
      <4> QED
        BY <4>2, <4>3
    <3> QED
      BY <1>5, <1>6, <2>4, <3>4, <3>5 DEF InOrder
  <2> QED
    BY <2>3, <2>4
<1> QED
  BY <1>8, <1>9, <1>10 DEF QueueInv

\* A call settles, and the next one is first.
LEMMA SettleKeepsOrder ==
  ASSUME TypeInv, QueueInv, NEW c \in Calls, IsFirst(c), pc[c] # "idle", NEW a, Settle(c, a)
  PROVE  QueueInv'
<1> DEFINE l0 == Ledger(c)
           queue == pending[l0]
           n == Len(queue)
<1>1. pc' = [pc EXCEPT ![c] = "done"] /\ pending' = [pending EXCEPT ![l0] = Tail(queue)]
  BY DEF Settle, GoTo
<1>2. /\ l0 \in Ledgers /\ queue \in Seq(Calls) /\ n \in Nat \ {0} /\ DOMAIN queue = 1 .. n
      /\ queue[1] = c /\ queue # <<>>
  BY LedgerAssumption DEF TypeInv, TypeOK, Ledger, IsFirst
<1>3. pc'[c] = "done" /\ \A d \in Calls : d # c => pc'[d] = pc[d]
  BY <1>1 DEF TypeInv, TypeOK
<1>4. pending'[l0] = Tail(queue) /\ \A l \in Ledgers : l # l0 => pending'[l] = pending[l]
  BY <1>1, <1>2 DEF TypeInv, TypeOK
<1>5. DOMAIN Tail(queue) = 1 .. n - 1 /\ \A i \in 1 .. n - 1 : Tail(queue)[i] = queue[i + 1]
  BY <1>2
<1>6. \A d \in Calls : Earlier[d] \subseteq Calls
  BY InputAssumption
<1>7. ASSUME NEW d \in Calls
      PROVE  Waits(d)'
  <2>1. CASE d = c
    BY <1>3, <2>1 DEF Waits
  <2>2. CASE d # c /\ Ledger(d) = l0
    <3> SUFFICES ASSUME pc'[d] \notin {"idle", "done"}
                 PROVE  \E i \in DOMAIN pending'[l0] : pending'[l0][i] = d
      BY <2>2 DEF Waits, Ledger
    <3>1. PICK i \in DOMAIN queue : queue[i] = d
      BY <1>3, <2>2 DEF QueueInv, Waits
    <3>2. i - 1 \in 1 .. n - 1 /\ (i - 1) + 1 = i
      <4>1. i \in 1 .. n /\ i # 1
        BY <1>2, <2>2, <3>1
      <4> HIDE DEF n
      <4> QED
        BY <1>2, <4>1
    <3>3. i - 1 \in DOMAIN pending'[l0] /\ pending'[l0][i - 1] = d
      BY <1>4, <1>5, <3>1, <3>2
    <3> QED
      BY <3>3
  <2>3. CASE d # c /\ Ledger(d) # l0
    <3>1. Ledger(d) \in Ledgers
      BY LedgerAssumption DEF Ledger
    <3> QED
      BY <1>3, <1>4, <2>3, <3>1 DEF QueueInv, Waits, Ledger
  <2> QED
    BY <2>1, <2>2, <2>3
<1>8. \A d \in Calls : (pc[d] # "idle" => pc'[d] # "idle") /\ (pc[d] = "done" => pc'[d] = "done")
  BY <1>3
<1>9. ASSUME NEW d \in Calls
      PROVE  After(d)'
  <2>1. CASE d = c
    <3>1. \A e \in Earlier[c] : pc[e] = "done"
      BY FirstIsNext
    <3>2. \A e \in Earlier[c] : e # c
      BY DEF QueueInv, After
    <3> QED
      BY <1>6, <1>8, <2>1, <3>1, <3>2 DEF After
  <2>2. CASE d # c
    BY <1>3, <1>6, <1>8, <2>2 DEF QueueInv, After
  <2> QED
    BY <2>1, <2>2
<1>10. ASSUME NEW l \in Ledgers
       PROVE  InOrder(l)'
  <2>1. InOrder(l) /\ pending[l] \in Seq(Calls)
    BY DEF QueueInv, TypeInv, TypeOK
  <2>2. CASE l # l0
    <3>1. \A i \in DOMAIN pending[l] : pending[l][i] \in Calls
      BY <2>1
    <3> QED
      BY <1>4, <1>8, <2>1, <2>2, <3>1 DEF InOrder
  <2>3. CASE l = l0
    <3>1. \A i \in 1 .. n : queue[i] \in Calls /\ pc[queue[i]] # "idle"
      BY <1>2, <2>1, <2>3 DEF InOrder
    <3>2. \A i, j \in 1 .. n : i < j => queue[j] \notin Earlier[queue[i]]
      BY <1>2, <2>1, <2>3 DEF InOrder
    <3>3. \A i \in 1 .. n - 1 : i + 1 \in 1 .. n
      BY <1>2
    <3>4. \A i \in 1 .. n - 1 : pc'[Tail(queue)[i]] # "idle"
      BY <1>5, <1>8, <3>1, <3>3
    <3>5. ASSUME NEW i \in 1 .. n - 1, NEW j \in 1 .. n - 1, i < j
          PROVE  Tail(queue)[j] \notin Earlier[Tail(queue)[i]]
      <4>1. i + 1 \in 1 .. n /\ j + 1 \in 1 .. n /\ i + 1 < j + 1
        BY <1>2, <3>5
      <4>2. queue[j + 1] \notin Earlier[queue[i + 1]]
        <5> HIDE DEF queue, n
        <5> QED
          BY <3>2, <4>1
      <4> QED
        BY <1>5, <4>2
    <3> QED
      BY <1>4, <1>5, <2>3, <3>4, <3>5 DEF InOrder
  <2> QED
    BY <2>2, <2>3
<1> QED
  BY <1>7, <1>9, <1>10 DEF QueueInv

\* A call that goes on stays where it is.
LEMMA GoesOnInOrder ==
  ASSUME TypeInv, QueueInv, NEW c \in Calls, IsFirst(c), pc[c] \notin {"idle", "done"},
         UNCHANGED pending, NEW where \in {"waiting", "begun", "committed"}, GoTo(c, where)
  PROVE  QueueInv'
<1>1. pc'[c] = where /\ \A d \in Calls : d # c => pc'[d] = pc[d]
  BY DEF GoTo, TypeInv, TypeOK
<1>2. \A d \in Calls : Earlier[d] \subseteq Calls
  BY InputAssumption
<1>3. \A d \in Calls : (pc[d] # "idle" => pc'[d] # "idle") /\ (pc[d] = "done" => pc'[d] = "done")
  BY <1>1
<1>4. ASSUME NEW d \in Calls
      PROVE  Waits(d)'
  BY <1>1 DEF QueueInv, Waits, Ledger
<1>5. ASSUME NEW d \in Calls
      PROVE  After(d)'
  <2>1. CASE d = c
    <3>1. \A e \in Earlier[c] : pc[e] = "done" /\ e # c
      BY FirstIsNext DEF QueueInv, After
    <3> QED
      BY <1>2, <1>3, <2>1, <3>1 DEF After
  <2>2. CASE d # c
    BY <1>1, <1>2, <1>3, <2>2 DEF QueueInv, After
  <2> QED
    BY <2>1, <2>2
<1>6. ASSUME NEW l \in Ledgers
      PROVE  InOrder(l)'
  <2>1. \A i \in DOMAIN pending[l] : pending[l][i] \in Calls
    BY DEF TypeInv, TypeOK
  <2> QED
    BY <1>3, <2>1 DEF QueueInv, InOrder
<1> QED
  BY <1>4, <1>5, <1>6 DEF QueueInv

\* A process that dies takes the queues of its ledgers with it, and all their calls.
LEMMA CrashKeepsOrder ==
  ASSUME TypeInv, QueueInv, NEW p \in Processes, Crash(p)
  PROVE  QueueInv'
<1> DEFINE dying == {l \in Ledgers : ProcessOf[l] = p}
           lost == {c \in Calls : Ledger(c) \in dying /\ pc[c] \notin {"idle", "done"}}
<1>1. /\ pending' = [l \in Ledgers |-> IF l \in dying THEN <<>> ELSE pending[l]]
      /\ pc' = [c \in Calls |-> IF c \in lost THEN "done" ELSE pc[c]]
  BY DEF Crash
<1>2. \A d \in Calls : (pc[d] # "idle" => pc'[d] # "idle") /\ (pc[d] = "done" => pc'[d] = "done")
  BY <1>1
<1>3. \A c \in Calls : Ledger(c) \in Ledgers
  BY LedgerAssumption DEF Ledger
<1>4. ASSUME NEW c \in Calls
      PROVE  Waits(c)'
  <2>1. CASE pc'[c] \notin {"idle", "done"}
    <3>1. pc'[c] = pc[c] /\ Ledger(c) \notin dying
      BY <1>1, <2>1
    <3>2. pending'[Ledger(c)] = pending[Ledger(c)]
      BY <1>1, <1>3, <3>1
    <3> QED
      BY <3>1, <3>2 DEF QueueInv, Waits, Ledger
  <2> QED
    BY <2>1 DEF Waits
<1>5. ASSUME NEW c \in Calls
      PROVE  After(c)'
  <2>1. ASSUME NEW d \in Earlier[c]
        PROVE  d \in Calls /\ Ledger(d) = Ledger(c)
    BY InputAssumption, LedgerAssumption DEF Ledger
  <2>2. CASE c \in lost
    <3>1. \A d \in Earlier[c] : pc[d] # "idle" /\ d # c
      BY <2>2 DEF QueueInv, After
    <3>2. \A d \in Earlier[c] : pc'[d] = "done"
      BY <1>1, <2>1, <2>2, <3>1
    <3> QED
      BY <3>1, <3>2 DEF After
  <2>3. CASE c \notin lost
    <3>1. pc'[c] = pc[c]
      BY <1>1, <2>3
    <3> QED
      BY <1>2, <2>1, <3>1 DEF QueueInv, After
  <2> QED
    BY <2>2, <2>3
<1>6. ASSUME NEW l \in Ledgers
      PROVE  InOrder(l)'
  <2>1. CASE l \in dying
    <3>1. pending'[l] = <<>>
      BY <1>1, <2>1
    <3> QED
      BY <3>1 DEF InOrder
  <2>2. CASE l \notin dying
    <3>1. pending'[l] = pending[l]
      BY <1>1, <2>2
    <3>2. \A i \in DOMAIN pending[l] : pending[l][i] \in Calls
      BY DEF TypeInv, TypeOK
    <3> QED
      BY <1>2, <3>1, <3>2 DEF QueueInv, InOrder
  <2> QED
    BY <2>1, <2>2
<1> QED
  BY <1>4, <1>5, <1>6 DEF QueueInv

\* Every step keeps the order of the calls.
LEMMA QueueInvKept ==
  ASSUME TypeInv, QueueInv, [Next]_vars
  PROVE  QueueInv'
<1> USE DEF Runs
<1>1. ASSUME NEW c \in Calls, Enqueue(c)
      PROVE  QueueInv'
  BY <1>1, EnqueueKeepsOrder
<1>2. ASSUME NEW c \in Calls, Step(c) \/ StatementFails(c)
      PROVE  QueueInv'
  <2>1. IsFirst(c) /\ pc[c] \notin {"idle", "done"}
    BY <1>2 DEF Step, BeginFails, Wait, BusyTimeout, Begin, Commit, Resolve, Rollback, StatementFails,
         TypeInv, AtHead, IsFirst
  <2>2. CASE \E a : Settle(c, a)
    BY <2>1, <2>2, SettleKeepsOrder
  <2>3. CASE UNCHANGED pending /\ \E where \in {"waiting", "begun", "committed"} : GoTo(c, where)
    BY <2>1, <2>3, GoesOnInOrder
  <2> QED
    BY <1>2, <2>2, <2>3 DEF Step, BeginFails, Wait, BusyTimeout, Begin, Commit, Resolve, Rollback,
         StatementFails
<1>3. CASE \E l \in Ledgers : Open(l) \/ Close(l)
  BY <1>3 DEF Open, Close, calls, QueueInv, Waits, After, InOrder, Ledger
<1>4. CASE \E p \in Processes : Crash(p)
  BY <1>4, CrashKeepsOrder
<1>5. CASE UNCHANGED vars
  BY <1>5 DEF vars, QueueInv, Waits, After, InOrder, Ledger
<1> QED
  BY <1>1, <1>2, <1>3, <1>4, <1>5 DEF Next

-----------------------------------------------------------------------------
(***************************************************************************)
(* The file is an append-only list of events: every commit is a Record of  *)
(* AppendOnlyLedger, every settled call an answer of it, and all else a    *)
(* stutter.                                                                *)
(***************************************************************************)
\* What a call asks for is in the file.
Kept(c) == \E i \in DOMAIN events : Abstract!IsOf(c, events[i].subject, events[i])

\* Every event was asked for by a call that has committed, a call that has is in
\* the file, and nobody is answered before the end.
Knows ==
  /\ \A i \in DOMAIN events : \E c \in Calls :
       pc[c] \in {"committed", "done"} /\ Abstract!IsOf(c, events[i].subject, events[i])
  /\ \A c \in Calls :
       /\ pc[c] = "committed" => Kept(c)
       /\ pc[c] # "done" => answer[c] = "none"

Refines == TypeInv /\ FileInv /\ QueueInv /\ Knows

\* The list of a subject has its events, each with its content.
LEMMA ContentsTell ==
  ASSUME TypeInv, NEW s \in Subjects
  PROVE  /\ Len(Contents[s]) = Len(OfSubject(events, s))
         /\ \A k \in DOMAIN Contents[s] : \E i \in DOMAIN events :
              events[i].subject = s /\ Contents[s][k] = ContentOf(events[i])
         /\ \A i \in DOMAIN events : events[i].subject = s =>
              \E k \in DOMAIN Contents[s] : Contents[s][k] = ContentOf(events[i])
<1> DEFINE n == Len(events)
           list == FirstOf(events, s, n)
<1>1. n \in Nat /\ DOMAIN events = 1 .. n
  BY DEF TypeInv, TypeOK
<1>2. /\ DOMAIN list = 1 .. CountOf(events, s, n)
      /\ \A k \in 1 .. CountOf(events, s, n) : \E i \in 1 .. n :
           events[i].subject = s /\ list[k] = events[i]
  BY <1>1, PrefixHolds
<1>3. ASSUME NEW i \in 1 .. n, events[i].subject = s
      PROVE  \E k \in DOMAIN list : list[k] = events[i]
  <2>1. \E k \in DOMAIN FirstOf(events, events[i].subject, n) :
          FirstOf(events, events[i].subject, n)[k] = events[i]
    BY <1>1, EventIsListed
  <2> QED
    BY <1>3, <2>1
<1>4. list \in Seq(Events)
  BY SubjectTypes DEF OfSubject, TypeInv, TypeOK
<1>5. Contents[s] = [k \in DOMAIN list |-> ContentOf(list[k])]
  BY DEF Contents, OfSubject
<1> HIDE DEF list, n
<1>6. Len(Contents[s]) = Len(list) /\ DOMAIN Contents[s] = DOMAIN list
  BY <1>4, <1>5
<1>7. \A k \in DOMAIN list : Contents[s][k] = ContentOf(list[k])
  BY <1>5
<1>8. ASSUME NEW k \in DOMAIN list
      PROVE  \E i \in DOMAIN events :
               events[i].subject = s /\ Contents[s][k] = ContentOf(events[i])
  <2>1. PICK i \in 1 .. n : events[i].subject = s /\ list[k] = events[i]
    BY <1>2
  <2> QED
    BY <1>1, <1>7, <2>1
<1>9. ASSUME NEW i \in DOMAIN events, events[i].subject = s
      PROVE  \E k \in DOMAIN list : Contents[s][k] = ContentOf(events[i])
  <2>1. PICK k \in DOMAIN list : list[k] = events[i]
    BY <1>1, <1>3, <1>9
  <2> QED
    BY <1>7, <2>1
<1> QED
  BY <1>6, <1>8, <1>9 DEF OfSubject, list, n

\* A call asks for an event by its content.
LEMMA AskedByContent ==
  ASSUME NEW c, NEW s, NEW e
  PROVE  Abstract!IsOf(c, s, ContentOf(e)) <=> Abstract!IsOf(c, s, e)
<1>1. ContentOf(e).id = e.id /\ ContentOf(e).data = e.data /\ ContentOf(e).time = e.time
  BY DEF ContentOf
<1> QED
  BY <1>1 DEF Abstract!IsOf

\* What is kept is recorded.
LEMMA KeptIsRecorded ==
  ASSUME TypeInv, NEW c \in Calls
  PROVE  Kept(c) <=> Abstract!Recorded(c)
<1> DEFINE s == Input[c].subject
<1>1. s \in Subjects
  BY InputAssumption
<1>2. ASSUME Kept(c)
      PROVE  Abstract!Recorded(c)
  <2>1. PICK i \in DOMAIN events : Abstract!IsOf(c, events[i].subject, events[i])
    BY <1>2 DEF Kept
  <2>2. events[i].subject = s
    BY <2>1 DEF Abstract!IsOf
  <2>3. PICK k \in DOMAIN Contents[s] : Contents[s][k] = ContentOf(events[i])
    BY <1>1, <2>2, ContentsTell
  <2>4. Abstract!IsOf(c, s, Contents[s][k])
    BY <2>1, <2>2, <2>3, AskedByContent
  <2> QED
    BY <2>4 DEF Abstract!Recorded
<1>3. ASSUME Abstract!Recorded(c)
      PROVE  Kept(c)
  <2>1. PICK k \in DOMAIN Contents[s] : Abstract!IsOf(c, s, Contents[s][k])
    BY <1>3 DEF Abstract!Recorded
  <2>2. PICK i \in DOMAIN events : events[i].subject = s /\ Contents[s][k] = ContentOf(events[i])
    BY <1>1, <2>1, ContentsTell
  <2>3. Abstract!IsOf(c, events[i].subject, events[i])
    BY <2>1, <2>2, AskedByContent
  <2> QED
    BY <2>3 DEF Kept
<1> QED
  BY <1>2, <1>3

\* The lists hold the ids of the file.
LEMMA IdsAreHeld ==
  ASSUME TypeInv, NEW id, Abstract!Holds(id)
  PROVE  HasId(events, id)
<1>1. PICK s \in Subjects : \E k \in DOMAIN Contents[s] : Contents[s][k].id = id
  BY DEF Abstract!Holds
<1>2. PICK k \in DOMAIN Contents[s] : Contents[s][k].id = id
  BY <1>1
<1>3. PICK i \in DOMAIN events : Contents[s][k] = ContentOf(events[i])
  BY <1>2, ContentsTell
<1> QED
  BY <1>2, <1>3 DEF HasId, ContentOf

\* A list of contents after an append.
LEMMA ContentGrows ==
  ASSUME NEW list \in Seq(Events), NEW e \in Events
  PROVE  [k \in DOMAIN Append(list, e) |-> ContentOf(Append(list, e)[k])] =
           Append([k \in DOMAIN list |-> ContentOf(list[k])], ContentOf(e))
<1> DEFINE V == {ContentOf(f) : f \in Events}
           long == Append(list, e)
           old == [k \in DOMAIN list |-> ContentOf(list[k])]
           new == [k \in DOMAIN long |-> ContentOf(long[k])]
           n == Len(list)
<1>1. n \in Nat /\ DOMAIN list = 1 .. n /\ DOMAIN long = 1 .. n + 1
  OBVIOUS
<1>2. long[n + 1] = e /\ \A k \in 1 .. n : long[k] = list[k] /\ list[k] \in Events
  OBVIOUS
<1>3. \A k \in 1 .. n + 1 : k \in 1 .. n \/ k = n + 1
  BY <1>1
<1>4. ContentOf(e) \in V
  OBVIOUS
<1>5. old = [k \in 1 .. n |-> ContentOf(list[k])] /\ new = [k \in 1 .. n + 1 |-> ContentOf(long[k])]
  BY <1>1
<1> HIDE DEF long, n, old, new
<1>6. \A k \in 1 .. n : ContentOf(list[k]) \in V
  BY <1>2
<1>7. \A k \in 1 .. n + 1 : ContentOf(long[k]) \in V
  BY <1>2, <1>3, <1>4, <1>6
<1> HIDE DEF V
<1>8. old \in Seq(V) /\ Len(old) = n /\ \A k \in 1 .. n : old[k] = ContentOf(list[k])
  BY <1>1, <1>5, <1>6
<1>9. new \in Seq(V) /\ Len(new) = n + 1 /\ \A k \in 1 .. n + 1 : new[k] = ContentOf(long[k])
  BY <1>1, <1>5, <1>7
<1>10. new[n + 1] = ContentOf(e) /\ \A k \in 1 .. n : new[k] = old[k]
  <2>1. n + 1 \in 1 .. n + 1 /\ \A k \in 1 .. n : k \in 1 .. n + 1
    BY <1>1
  <2> QED
    BY <1>2, <1>8, <1>9, <2>1
<1>11. new = Append(old, ContentOf(e))
  BY <1>1, <1>4, <1>8, <1>9, <1>10
<1> QED
  BY <1>11 DEF old, new, long

\* What changes neither the file nor an answer is a stutter of the lists.
LEMMA Stutters ==
  ASSUME UNCHANGED <<events, answer>>
  PROVE  UNCHANGED Abstract!vars
BY DEF Abstract!vars, Contents

\* A commit of a new event records it.
LEMMA CommitRecords ==
  ASSUME Refines, NEW c \in Calls, Commit(c), ~HasId(events, Input[c].id)
  PROVE  /\ \E time \in {Input[c].time} \union Calls : Abstract!Record(c, time)
         /\ events' = Append(events, outcome[c].event)
         /\ Abstract!IsOf(c, outcome[c].event.subject, outcome[c].event)
<1> DEFINE e == outcome[c].event
           s0 == Input[c].subject
           mine == OfSubject(events, s0)
<1>1. /\ pc[c] = "begun" /\ outcome[c].said = "stored" /\ outcome[c] = InMemoryAppend(events, c)
      /\ events' = Append(events, e)
      /\ UNCHANGED answer
  BY DEF Commit, Refines, FileInv, HoldsLock
<1>2. /\ e.id = Input[c].id /\ e.subject = s0 /\ e.data = Input[c].data
      /\ e.time = EventTime(Input[c], NoTime, c)
      /\ Input[c].expected \in {0, Len(mine) + 1}
  BY <1>1, AcceptedFollows DEF Refines
<1>3. events \in Seq(Events) /\ e \in Events /\ s0 \in Subjects
  BY <1>1, InputAssumption DEF Refines, TypeInv, TypeOK, Outcomes
<1>4. Input[c].time \in {NoTime, e.time} /\ e.time \in {Input[c].time} \union Calls
  BY <1>2 DEF EventTime
<1> HIDE DEF e
<1>5. ContentOf(e) = Abstract!Content(c, e.time)
  BY <1>2 DEF ContentOf, Abstract!Content
<1>6. ASSUME NEW s \in Subjects
      PROVE  Contents'[s] = IF s = s0 THEN Append(Contents[s], ContentOf(e)) ELSE Contents[s]
  <2> DEFINE list == OfSubject(events, s)
             next == OfSubject(events', s)
  <2>1. next = IF s = s0 THEN Append(list, e) ELSE list
    BY <1>1, <1>2, <1>3, SubjectGrows
  <2>2. list \in Seq(Events)
    BY <1>3, SubjectTypes
  <2>3. /\ Contents[s] = [k \in DOMAIN list |-> ContentOf(list[k])]
        /\ Contents'[s] = [k \in DOMAIN next |-> ContentOf(next[k])]
    BY DEF Contents
  <2> HIDE DEF list, next
  <2>4. CASE s = s0
    BY <1>3, <2>1, <2>2, <2>3, <2>4, ContentGrows
  <2>5. CASE s # s0
    BY <2>1, <2>3, <2>5
  <2> QED
    BY <2>4, <2>5
<1>7. Contents' = [Contents EXCEPT ![s0] = Append(@, Abstract!Content(c, e.time))]
  <2>1. Contents = [s \in Subjects |-> Contents[s]] /\ Contents' = [s \in Subjects |-> Contents'[s]]
    BY DEF Contents
  <2> HIDE DEF s0
  <2> QED
    BY <1>3, <1>5, <1>6, <2>1
<1>8. ~Abstract!Holds(Input[c].id)
  BY IdsAreHeld DEF Refines
<1>9. ASSUME NEW d \in Calls, Abstract!Follows(d, c), Abstract!Recorded(d)
      PROVE  FALSE
  <2>1. Kept(d)
    BY <1>9, KeptIsRecorded DEF Refines
  <2>2. PICK i \in DOMAIN events : Abstract!IsOf(d, events[i].subject, events[i])
    BY <2>1 DEF Kept
  <2>3. PICK f \in Calls :
          pc[f] \in {"committed", "done"} /\ Abstract!IsOf(f, events[i].subject, events[i])
    BY <2>2 DEF Refines, Knows
  <2>4. Input[f].id = Input[d].id
    BY <2>2, <2>3 DEF Abstract!IsOf
  <2>5. c \in Earlier[f]
    BY <1>9, <2>4 DEF Abstract!Follows
  <2> QED
    BY <1>1, <2>3, <2>5 DEF Refines, QueueInv, After
<1>10. answer[c] = "none"
  BY <1>1 DEF Refines, Knows
<1>11. Input[c].expected \in {0, Len(Contents[s0]) + 1}
  <2>1. Len(Contents[s0]) = Len(mine)
    BY <1>3, ContentsTell DEF Refines
  <2> QED
    BY <1>2, <2>1
<1>12. Abstract!Record(c, e.time)
  <2>1. Input[c].time \in {Abstract!NotGiven, e.time}
    BY <1>4 DEF Abstract!NotGiven, NoTime
  <2> QED
    BY <1>1, <1>7, <1>8, <1>9, <1>10, <1>11, <2>1 DEF Abstract!Record
<1>13. Abstract!IsOf(c, e.subject, e)
  BY <1>2, <1>4 DEF Abstract!IsOf, Abstract!NotGiven, NoTime
<1> QED
  BY <1>1, <1>4, <1>12, <1>13 DEF e

\* An event that is found as it is asked for is kept.
LEMMA FoundIsKept ==
  ASSUME Refines, NEW c \in Calls, HasId(events, Input[c].id)
  PROVE  /\ InMemoryAppend(events, c).said \in {"stored", "reused"}
         /\ InMemoryAppend(events, c).said = "stored" => Kept(c)
         /\ InMemoryAppend(events, c).said = "reused" =>
              \E i \in DOMAIN events :
                events[i].id = Input[c].id /\ ~Abstract!IsOf(c, events[i].subject, events[i])
<1> DEFINE i == CHOOSE j \in DOMAIN events : events[j].id = Input[c].id
           found == events[i]
           time == EventTime(Input[c], found.time, c)
           same == Fingerprint(Input[c], time) = Fingerprint(found, found.time)
<1>1. i \in DOMAIN events /\ found.id = Input[c].id
  BY DEF HasId
<1>2. InMemoryAppend(events, c) =
        IF same THEN [said |-> "stored", event |-> found] ELSE [said |-> "reused"]
  BY DEF InMemoryAppend, WithId
<1> HIDE DEF i
<1>3. found.time # NoTime
  <2>1. found \in Events
    BY <1>1 DEF Refines, TypeInv, TypeOK
  <2> QED
    BY <2>1, InputAssumption DEF Events, Times
<1>4. time = IF Input[c].time # NoTime THEN Input[c].time ELSE found.time
  BY <1>3 DEF EventTime
<1> HIDE DEF found, time
<1>5. same <=> Abstract!IsOf(c, found.subject, found)
  BY <1>1, <1>4 DEF Fingerprint, Abstract!IsOf, Abstract!NotGiven, NoTime, found
<1> HIDE DEF same
<1> QED
  BY <1>1, <1>2, <1>5 DEF Kept, found

\* An id that is not in the file is accepted, or asked for at another sequence.
LEMMA NotFoundIsMoved ==
  ASSUME Refines, NEW c \in Calls, ~HasId(events, Input[c].id)
  PROVE  /\ InMemoryAppend(events, c).said \in {"stored", "moved"}
         /\ InMemoryAppend(events, c).said = "moved" =>
              Input[c].expected \notin {0, Len(Contents[Input[c].subject]) + 1}
<1>1. Len(Contents[Input[c].subject]) = Len(OfSubject(events, Input[c].subject))
  BY InputAssumption, ContentsTell DEF Refines
<1> QED
  BY <1>1 DEF InMemoryAppend

\* What a call is told is so.
LEMMA RollbackAnswers ==
  ASSUME Refines, NEW c \in Calls, Rollback(c)
  PROVE  Abstract!Next
<1> DEFINE a == outcome[c].said
<1>1. /\ pc[c] = "begun" /\ a # "stored" /\ outcome[c] = InMemoryAppend(events, c)
      /\ Settle(c, a) /\ UNCHANGED events
  BY DEF Rollback, Refines, FileInv, HoldsLock
<1>2. answer[c] = "none"
  BY <1>1 DEF Refines, Knows
<1>3. Abstract!Answer(c, a)
  <2>1. UNCHANGED Contents
    BY <1>1 DEF Contents
  <2> QED
    BY <1>1, <1>2, <2>1 DEF Settle, Abstract!Answer
<1>4. CASE HasId(events, Input[c].id)
  <2>1. a = "reused"
    BY <1>1, <1>4, FoundIsKept
  <2>2. PICK i \in DOMAIN events :
          events[i].id = Input[c].id /\ ~Abstract!IsOf(c, events[i].subject, events[i])
    BY <1>1, <1>4, <2>1, FoundIsKept
  <2> DEFINE s == events[i].subject
  <2>3. s \in Subjects
    <3>1. events[i] \in Events
      BY DEF Refines, TypeInv, TypeOK
    <3> QED
      BY <3>1 DEF Events
  <2>4. PICK k \in DOMAIN Contents[s] : Contents[s][k] = ContentOf(events[i])
    BY <2>3, ContentsTell DEF Refines
  <2>5. Contents[s][k].id = Input[c].id /\ ~Abstract!IsOf(c, s, Contents[s][k])
    <3>1. ContentOf(events[i]).id = events[i].id
      BY DEF ContentOf
    <3> QED
      BY <2>2, <2>4, <3>1, AskedByContent
  <2> HIDE DEF s
  <2>6. Abstract!Reused(c)
    BY <1>3, <2>1, <2>3, <2>5 DEF Abstract!Reused
  <2> QED
    BY <2>6 DEF Abstract!Next
<1>5. CASE ~HasId(events, Input[c].id)
  <2>1. a = "moved" /\ Input[c].expected \notin {0, Len(Contents[Input[c].subject]) + 1}
    BY <1>1, <1>5, NotFoundIsMoved
  <2>2. Abstract!Moved(c)
    BY <1>3, <2>1 DEF Abstract!Moved
  <2> QED
    BY <2>2 DEF Abstract!Next
<1> QED
  BY <1>4, <1>5

\* What is known stays known where the file stays.
LEMMA StaysKnown ==
  ASSUME Knows, UNCHANGED events,
         \A d \in Calls :
           /\ pc[d] \in {"committed", "done"} => pc'[d] \in {"committed", "done"}
           /\ pc'[d] = "committed" => pc[d] = "committed"
           /\ pc'[d] # "done" => pc[d] # "done" /\ answer'[d] = answer[d]
  PROVE  Knows'
<1>1. ASSUME NEW i \in DOMAIN events
      PROVE  \E c \in Calls :
               pc'[c] \in {"committed", "done"} /\ Abstract!IsOf(c, events[i].subject, events[i])
  BY DEF Knows
<1>2. \A c \in Calls : Kept(c)' <=> Kept(c)
  BY DEF Kept, Abstract!IsOf, Abstract!NotGiven
<1>3. \A c \in Calls : pc'[c] = "committed" => Kept(c)
  BY DEF Knows
<1>4. \A c \in Calls : pc'[c] # "done" => answer'[c] = "none"
  BY DEF Knows
<1> QED
  BY <1>1, <1>2, <1>3, <1>4 DEF Knows, Abstract!IsOf, Abstract!NotGiven

\* A call that fails is answered so, whatever became of it.
LEMMA FailureRefines ==
  ASSUME Refines, NEW c \in Calls, pc[c] # "done", Settle(c, "failed"), UNCHANGED events
  PROVE  Abstract!Next
<1>1. answer[c] = "none" /\ UNCHANGED Contents
  BY DEF Refines, Knows, Contents
<1>2. Abstract!Failed(c)
  BY <1>1 DEF Settle, Abstract!Failed, Abstract!Answer
<1> QED
  BY <1>2 DEF Abstract!Next

\* A call whose commit returned is told what is so.
LEMMA ResolveRefines ==
  ASSUME Refines, NEW c \in Calls, Resolve(c)
  PROVE  Abstract!Next
<1>1. pc[c] = "committed" /\ Settle(c, "stored") /\ UNCHANGED events
  BY DEF Resolve
<1>2. answer[c] = "none" /\ Kept(c) /\ UNCHANGED Contents
  BY <1>1 DEF Refines, Knows, Contents
<1>3. Abstract!Recorded(c)
  BY <1>2, KeptIsRecorded DEF Refines
<1>4. Abstract!Stored(c)
  BY <1>1, <1>2, <1>3 DEF Settle, Abstract!Stored, Abstract!Answer
<1> QED
  BY <1>4 DEF Abstract!Next

\* A call that settles is done, and the others know what they knew.
LEMMA SettleKnows ==
  ASSUME Refines, NEW c \in Calls, NEW a, Settle(c, a), UNCHANGED events
  PROVE  Knows'
<1>1. pc'[c] = "done" /\ \A d \in Calls : d # c => pc'[d] = pc[d] /\ answer'[d] = answer[d]
  BY DEF Settle, GoTo, Refines, TypeInv, TypeOK
<1>2. \A d \in Calls :
        /\ pc[d] \in {"committed", "done"} => pc'[d] \in {"committed", "done"}
        /\ pc'[d] = "committed" => pc[d] = "committed"
        /\ pc'[d] # "done" => pc[d] # "done" /\ answer'[d] = answer[d]
  BY <1>1
<1> QED
  BY <1>2, StaysKnown DEF Refines

\* A commit is a Record or, of an event that was there, a stutter.
LEMMA CommitRefines ==
  ASSUME Refines, NEW c \in Calls, Commit(c)
  PROVE  Knows' /\ (Abstract!Next \/ UNCHANGED Abstract!vars)
<1>1. /\ pc[c] = "begun" /\ outcome[c].said = "stored" /\ outcome[c] = InMemoryAppend(events, c)
      /\ events' = IF HasId(events, Input[c].id) THEN events ELSE Append(events, outcome[c].event)
      /\ UNCHANGED answer
  BY DEF Commit, Refines, FileInv, HoldsLock
<1>2. pc'[c] = "committed" /\ \A d \in Calls : d # c => pc'[d] = pc[d]
  BY DEF Commit, GoTo, Refines, TypeInv, TypeOK
<1>3. \A d \in Calls : pc'[d] # "done" => answer'[d] = "none"
  BY <1>1, <1>2 DEF Refines, Knows
<1>4. \A d \in Calls : pc[d] \in {"committed", "done"} => pc'[d] \in {"committed", "done"}
  BY <1>2
<1>5. \A d \in Calls : pc'[d] = "committed" => d = c \/ Kept(d)
  BY <1>2 DEF Refines, Knows
<1>6. CASE HasId(events, Input[c].id)
  <2>1. UNCHANGED events /\ Kept(c)
    BY <1>1, <1>6, FoundIsKept
  <2>2. \A d \in Calls : Kept(d)' <=> Kept(d)
    BY <2>1 DEF Kept, Abstract!IsOf, Abstract!NotGiven
  <2>3. ASSUME NEW i \in DOMAIN events
        PROVE  \E d \in Calls :
                 pc'[d] \in {"committed", "done"} /\ Abstract!IsOf(d, events[i].subject, events[i])
    BY <1>4 DEF Refines, Knows
  <2>4. Knows'
    BY <1>3, <1>5, <2>1, <2>2, <2>3 DEF Knows, Abstract!IsOf, Abstract!NotGiven
  <2>5. UNCHANGED Abstract!vars
    BY <1>1, <2>1, Stutters
  <2> QED
    BY <2>4, <2>5
<1>7. CASE ~HasId(events, Input[c].id)
  <2> DEFINE e == outcome[c].event
             n == Len(events)
  <2>1. /\ \E time \in {Input[c].time} \union Calls : Abstract!Record(c, time)
        /\ events' = Append(events, e)
        /\ Abstract!IsOf(c, e.subject, e)
    BY <1>7, CommitRecords
  <2>2. events \in Seq(Events)
    BY DEF Refines, TypeInv, TypeOK
  <2> HIDE DEF e
  <2>3. /\ n \in Nat /\ DOMAIN events = 1 .. n /\ DOMAIN events' = 1 .. n + 1
        /\ events'[n + 1] = e /\ \A i \in 1 .. n : events'[i] = events[i]
    BY <2>1, <2>2
  <2> HIDE DEF n
  <2>4. \A i \in 1 .. n + 1 : i \in 1 .. n \/ i = n + 1
    BY <2>3
  <2>5. n + 1 \in DOMAIN events' /\ \A i \in 1 .. n : i \in DOMAIN events'
    BY <2>3
  <2>6. ASSUME NEW d \in Calls, d = c \/ Kept(d)
        PROVE  \E i \in DOMAIN events' : Abstract!IsOf(d, events'[i].subject, events'[i])
    <3>1. CASE d = c
      <4>1. Abstract!IsOf(d, events'[n + 1].subject, events'[n + 1])
        BY <2>1, <2>3, <3>1
      <4> QED
        BY <2>5, <4>1
    <3>2. CASE Kept(d)
      <4>1. PICK i \in 1 .. n : Abstract!IsOf(d, events[i].subject, events[i])
        BY <2>3, <3>2 DEF Kept
      <4>2. Abstract!IsOf(d, events'[i].subject, events'[i])
        BY <2>3, <4>1
      <4> QED
        BY <2>5, <4>2
    <3> QED
      BY <2>6, <3>1, <3>2
  <2>7. ASSUME NEW i \in DOMAIN events'
        PROVE  \E d \in Calls :
                 pc'[d] \in {"committed", "done"} /\ Abstract!IsOf(d, events'[i].subject, events'[i])
    <3>1. CASE i = n + 1
      BY <1>2, <2>1, <2>3, <3>1
    <3>2. CASE i \in 1 .. n
      <4>1. PICK d \in Calls :
              pc[d] \in {"committed", "done"} /\ Abstract!IsOf(d, events[i].subject, events[i])
        BY <2>3, <3>2 DEF Refines, Knows
      <4> QED
        BY <1>4, <2>3, <3>2, <4>1
    <3> QED
      BY <2>3, <2>4, <3>1, <3>2
  <2>8. ASSUME NEW d \in Calls, d = c \/ Kept(d)
        PROVE  Kept(d)'
    BY <2>6, <2>8 DEF Kept, Abstract!IsOf, Abstract!NotGiven
  <2>9. Knows'
    BY <1>3, <1>5, <2>7, <2>8 DEF Knows, Abstract!IsOf, Abstract!NotGiven
  <2>10. Abstract!Next
    BY <2>1 DEF Abstract!Next
  <2> QED
    BY <2>9, <2>10
<1> QED
  BY <1>6, <1>7

\* Every step of a call is a step of the lists, or a stutter.
LEMMA CallRefines ==
  ASSUME Refines, NEW c \in Calls, Enqueue(c) \/ Step(c) \/ StatementFails(c)
  PROVE  Knows' /\ (Abstract!Next \/ UNCHANGED Abstract!vars)
<1>1. CASE Enqueue(c) \/ Wait(c) \/ Begin(c)
  <2>1. UNCHANGED <<events, answer>>
    BY <1>1 DEF Enqueue, Wait, Begin
  <2>2. PICK where \in {"queued", "waiting", "begun"} : GoTo(c, where)
    BY <1>1 DEF Enqueue, Wait, Begin
  <2>3. pc[c] \in {"idle", "queued", "waiting"}
    BY <1>1 DEF Enqueue, Wait, Begin
  <2>4. \A d \in Calls :
          /\ pc[d] \in {"committed", "done"} => pc'[d] \in {"committed", "done"}
          /\ pc'[d] = "committed" => pc[d] = "committed"
          /\ pc'[d] # "done" => pc[d] # "done" /\ answer'[d] = answer[d]
    BY <2>1, <2>2, <2>3 DEF GoTo, Refines, TypeInv, TypeOK
  <2>5. Knows'
    BY <2>1, <2>4, StaysKnown DEF Refines
  <2> QED
    BY <2>1, <2>5, Stutters
<1>2. CASE BeginFails(c) \/ BusyTimeout(c) \/ StatementFails(c)
  <2>1. pc[c] # "done" /\ Settle(c, "failed") /\ UNCHANGED events
    BY <1>2 DEF BeginFails, BusyTimeout, StatementFails
  <2> QED
    BY <2>1, FailureRefines, SettleKnows
<1>3. CASE Commit(c)
  BY <1>3, CommitRefines
<1>4. CASE Resolve(c)
  <2>1. Settle(c, "stored") /\ UNCHANGED events
    BY <1>4 DEF Resolve
  <2> QED
    BY <1>4, <2>1, ResolveRefines, SettleKnows
<1>5. CASE Rollback(c)
  <2>1. Settle(c, outcome[c].said) /\ UNCHANGED events
    BY <1>5 DEF Rollback
  <2> QED
    BY <1>5, <2>1, RollbackAnswers, SettleKnows
<1> QED
  BY <1>1, <1>2, <1>3, <1>4, <1>5 DEF Step

\* Ledgers that open and close, and processes that die, change neither list nor
\* answer.
LEMMA LifeRefines ==
  ASSUME Refines,
         \/ \E l \in Ledgers : Open(l) \/ Close(l)
         \/ \E p \in Processes : Crash(p)
         \/ UNCHANGED vars
  PROVE  Knows' /\ UNCHANGED Abstract!vars
<1>1. UNCHANGED <<events, answer>>
  BY DEF Open, Close, Crash, calls, vars
<1>2. CASE UNCHANGED pc
  BY <1>1, <1>2, StaysKnown, Stutters DEF Refines
<1>3. CASE \E p \in Processes : Crash(p)
  <2>1. PICK p \in Processes : Crash(p)
    BY <1>3
  <2> DEFINE lost == {c \in Calls : /\ Ledger(c) \in {l \in Ledgers : ProcessOf[l] = p}
                                   /\ pc[c] \notin {"idle", "done"}}
  <2>2. pc' = [c \in Calls |-> IF c \in lost THEN "done" ELSE pc[c]]
    BY <2>1 DEF Crash
  <2> HIDE DEF lost
  <2>3. \A d \in Calls : pc'[d] \in {pc[d], "done"}
    BY <2>2
  <2> QED
    BY <1>1, <2>3, StaysKnown, Stutters DEF Refines
<1> QED
  BY <1>2, <1>3 DEF Open, Close, calls, vars

\* The empty file is empty lists.
LEMMA RefinesInitially == Init => Refines /\ Abstract!Init
<1> SUFFICES ASSUME Init
             PROVE  Refines /\ Abstract!Init
  OBVIOUS
<1>1. TypeInv /\ FileInv
  BY TypeInvInitially, FileInvInitially
<1>2. QueueInv /\ Knows
  BY DEF Init, QueueInv, Waits, After, InOrder, Knows
<1>3. ASSUME NEW s \in Subjects
      PROVE  Contents[s] = <<>>
  <2>1. CountOf(events, s, 0) = 0
    BY FS_EmptySet DEF CountOf
  <2>2. OfSubject(events, s) = <<>>
    BY <2>1 DEF Init, OfSubject, FirstOf
  <2> QED
    BY <2>2 DEF Contents
<1>4. Contents = [s \in Subjects |-> Contents[s]]
  BY DEF Contents
<1>5. Abstract!Init
  BY <1>3, <1>4 DEF Init, Abstract!Init
<1> QED
  BY <1>1, <1>2, <1>5 DEF Refines

\* Every step is one of the lists, and keeps what is known.
LEMMA RefinesKept == Refines /\ [Next]_vars => Refines' /\ [Abstract!Next]_(Abstract!vars)
<1> SUFFICES ASSUME Refines, [Next]_vars
             PROVE  Refines' /\ [Abstract!Next]_(Abstract!vars)
  OBVIOUS
<1>1. TypeInv' /\ FileInv' /\ QueueInv'
  BY TypeInvKept, FileInvKept, QueueInvKept DEF Refines
<1>2. Knows' /\ (Abstract!Next \/ UNCHANGED Abstract!vars)
  BY CallRefines, LifeRefines DEF Next
<1> QED
  BY <1>1, <1>2 DEF Refines

\* The SQLite ledger is the append-only list of events that the engine takes a
\* ledger for (append of sqlite-ledger.ts over InMemoryEventLedger), for any
\* ledgers in any processes, any calls, failing statements and crashes.
THEOREM SqliteAppendOnly == Spec => ImplementsAppendOnlyLedger
<1>1. Init => Refines /\ Abstract!Init
  BY RefinesInitially
<1>2. Refines /\ [Next]_vars => Refines' /\ [Abstract!Next]_(Abstract!vars)
  BY RefinesKept
<1> QED
  BY <1>1, <1>2, PTL DEF Spec, ImplementsAppendOnlyLedger, Abstract!Spec
=============================================================================
