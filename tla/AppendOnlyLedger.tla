-------------------------- MODULE AppendOnlyLedger --------------------------
(***************************************************************************)
(* What a ZeroGate ledger promises the engine, whatever database is under  *)
(* it: one growing list of events per subject, an event id stored once,    *)
(* and answers that agree with what is stored.                             *)
(*                                                                         *)
(* A call is one appendEvent() or append().  Earlier[c] are the calls its  *)
(* writer has made before it.  An answer "failed" leaves open whether the  *)
(* event is stored, or will be: the acknowledgement of a commit can be     *)
(* lost, and a database may finish it later.                               *)
(***************************************************************************)
EXTENDS Naturals, Sequences

CONSTANTS Subjects, Calls, Input, Earlier

VARIABLES chain, answer

vars == <<chain, answer>>

NotGiven == "no time"

Content(c, time) == [id |-> Input[c].id, data |-> Input[c].data, time |-> time]

\* An event of subject s is what call c asks for.  A call without a time adopts
\* that of the event it finds; its own clock is c.
IsOf(c, s, e) ==
  /\ s = Input[c].subject
  /\ e.id = Input[c].id
  /\ e.data = Input[c].data
  /\ Input[c].time \in {NotGiven, e.time}

Recorded(c) ==
  LET s == Input[c].subject IN \E i \in DOMAIN chain[s] : IsOf(c, s, chain[s][i])

Holds(id) == \E s \in Subjects : \E i \in DOMAIN chain[s] : chain[s][i].id = id

Init ==
  /\ chain = [s \in Subjects |-> <<>>]
  /\ answer = [c \in Calls |-> "none"]

\* The event of d is asked for by calls alone whose writers had made c before.
Follows(d, c) == \A e \in Calls : Input[e].id = Input[d].id => c \in Earlier[e]

\* The event of a call becomes durable: at the sequence its caller expected, if
\* it did, and never behind an event that is appended only after it.
Record(c, time) ==
  /\ answer[c] \in {"none", "failed"}
  /\ Input[c].time \in {NotGiven, time}
  /\ \/ UNCHANGED answer
     \/ answer[c] = "none" /\ answer' = [answer EXCEPT ![c] = "stored"]
  /\ Input[c].expected \in {0, Len(chain[Input[c].subject]) + 1}
  /\ chain' = [chain EXCEPT ![Input[c].subject] = Append(@, Content(c, time))]
  /\ ~Holds(Input[c].id)
  /\ \A d \in Calls :
       Follows(d, c) /\ Input[c].subject = Input[d].subject => ~Recorded(d)

Answer(c, a) ==
  /\ answer[c] = "none"
  /\ answer' = [answer EXCEPT ![c] = a]
  /\ UNCHANGED chain

\* The event is in the ledger, with the content asked for.
Stored(c) == Answer(c, "stored") /\ Recorded(c)

\* The id belongs to another event, or to one at another time or sequence.
Reused(c) ==
  /\ Answer(c, "reused")
  /\ \E s \in Subjects : \E i \in DOMAIN chain[s] :
       LET e == chain[s][i] IN
         /\ e.id = Input[c].id
         /\ \/ ~IsOf(c, s, e)
            \/ e.time \notin {Input[c].time, c}
            \/ Input[c].expected \notin {0, i}

\* The caller's sequence is not the next one.
Moved(c) ==
  /\ Answer(c, "moved")
  /\ Input[c].expected \notin {0, Len(chain[Input[c].subject]) + 1}

Failed(c) == Answer(c, "failed")

Next ==
  \E c \in Calls :
    \/ \E time \in {Input[c].time} \union Calls : Record(c, time)
    \/ Stored(c) \/ Reused(c) \/ Moved(c) \/ Failed(c)

Spec == Init /\ [][Next]_vars
=============================================================================
