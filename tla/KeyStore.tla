------------------------------ MODULE KeyStore ------------------------------
(***************************************************************************)
(* KeyStore (src/src/core/key-store.ts) on one directory and one name, and *)
(* the command `zerogate keys new` (src/src/cli/main.ts): processes look   *)
(* for the key file, read it, or generate a key and create it, one system  *)
(* call at a time, and may die between two of them.                        *)
(*                                                                         *)
(* A file is absent, empty (created or truncated, not yet written) or      *)
(* holds a key.                                                            *)
(***************************************************************************)
EXTENDS Naturals, FiniteSets

CONSTANTS
  Processes,
  Commands,     \* those that run `keys new`
  Keys,         \* what generateKeyPairSync may return
  MaxRestarts   \* bound: of each process

ASSUME ProcessAssumption == Commands \subseteq Processes /\ MaxRestarts \in Nat
ASSUME KeyAssumption     == Keys \intersect {"absent", "empty", "no key"} = {}

VARIABLES
  pem,        \* <name>.pem
  pub,        \* <name>.pub.pem
  generated,  \* keys that were returned by generateKeyPairSync
  at,         \* the next system call of a process
  mine,       \* the key it has in memory
  keyPair,    \* what getOrCreateKeyPair returned to it
  restarts

keyVars == <<pem, pub, generated, at, mine, keyPair, restarts>>

NoKey == "no key"

KeyInit ==
  /\ pem = "absent"
  /\ pub = "absent"
  /\ generated = {}
  /\ at = [p \in Processes |-> "look"]
  /\ mine = [p \in Processes |-> NoKey]
  /\ keyPair = [p \in Processes |-> NoKey]
  /\ restarts = [p \in Processes |-> 0]

GoTo(p, call) == at' = [at EXCEPT ![p] = call]

\* The pair is returned: an application works with it, the command writes both
\* files once more.
Return(p, key) ==
  /\ keyPair' = [keyPair EXCEPT ![p] = key]
  /\ GoTo(p, IF p \in Commands THEN "truncate pem" ELSE "done")

\* existsSync
Look(p) ==
  /\ at[p] = "look"
  /\ GoTo(p, IF pem = "absent" THEN "generate" ELSE "read")
  /\ UNCHANGED <<pem, pub, generated, mine, keyPair, restarts>>

\* Mutant: the file is not parsed.
ReadUnparsed(p) ==
  /\ at[p] = "read"
  /\ mine' = [mine EXCEPT ![p] = pem]
  /\ Return(p, pem)
  /\ UNCHANGED <<pem, pub, generated, restarts>>

\* readFileSync and createPrivateKey, which throws on an empty file.
Read(p) ==
  /\ at[p] = "read"
  /\ IF pem = "empty"
     THEN GoTo(p, "threw") /\ UNCHANGED <<mine, keyPair>>
     ELSE mine' = [mine EXCEPT ![p] = pem] /\ Return(p, pem)
  /\ UNCHANGED <<pem, pub, generated, restarts>>

Generate(p) ==
  /\ at[p] = "generate"
  /\ \E key \in Keys \ generated :
       /\ generated' = generated \union {key}
       /\ mine' = [mine EXCEPT ![p] = key]
  /\ GoTo(p, "create")
  /\ UNCHANGED <<pem, pub, keyPair, restarts>>

\* Mutant: flag "w".
CreateOrTruncate(p) ==
  /\ at[p] = "create"
  /\ pem' = "empty"
  /\ GoTo(p, "write")
  /\ UNCHANGED <<pub, generated, mine, keyPair, restarts>>

\* writeFileSync with flag "wx": EEXIST if the file is there by now.
Create(p) ==
  /\ at[p] = "create"
  /\ IF pem = "absent"
     THEN pem' = "empty" /\ GoTo(p, "write")
     ELSE GoTo(p, "threw") /\ UNCHANGED pem
  /\ UNCHANGED <<pub, generated, mine, keyPair, restarts>>

Write(p) ==
  /\ at[p] = "write"
  /\ pem' = mine[p]
  /\ GoTo(p, "truncate pub")
  /\ UNCHANGED <<pub, generated, mine, keyPair, restarts>>

\* writeFileSync of the public half, by the store and then by the command.
TruncatePub(p) ==
  /\ at[p] = "truncate pub"
  /\ pub' = "empty"
  /\ GoTo(p, "write pub")
  /\ UNCHANGED <<pem, generated, mine, keyPair, restarts>>

WritePub(p) ==
  /\ at[p] = "write pub"
  /\ pub' = mine[p]
  /\ IF keyPair[p] = NoKey THEN Return(p, mine[p]) ELSE GoTo(p, "done") /\ UNCHANGED keyPair
  /\ UNCHANGED <<pem, generated, mine, restarts>>

\* keysNewCommand writes what it was given over <name>.pem.
TruncatePem(p) ==
  /\ at[p] = "truncate pem"
  /\ pem' = "empty"
  /\ GoTo(p, "write")
  /\ UNCHANGED <<pub, generated, mine, keyPair, restarts>>

\* A process that dies, or whose caller gives up, starts again.
Restart(p) ==
  /\ restarts[p] < MaxRestarts
  /\ restarts' = [restarts EXCEPT ![p] = @ + 1]
  /\ GoTo(p, "look")
  /\ mine' = [mine EXCEPT ![p] = NoKey]
  /\ keyPair' = [keyPair EXCEPT ![p] = NoKey]
  /\ UNCHANGED <<pem, pub, generated>>

GetKey(p) ==
  \/ Look(p) \/ Read(p) \/ Generate(p) \/ Create(p) \/ Write(p)
  \/ TruncatePub(p) \/ WritePub(p) \/ TruncatePem(p)

-----------------------------------------------------------------------------
(***************************************************************************)
(* Properties.                                                             *)
(***************************************************************************)
\* The key files and the calls on them keep their types.
KeyTypeOK ==
  /\ pem \in Keys \union {"absent", "empty"}
  /\ pub \in Keys \union {"absent", "empty"}
  /\ generated \subseteq Keys
  /\ at \in [Processes ->
       {"look", "read", "generate", "create", "write", "truncate pub",
        "write pub", "truncate pem", "threw", "done"}]
  /\ mine \in [Processes -> Keys \union {NoKey}]
  /\ keyPair \in [Processes -> Keys \union {NoKey}]
  /\ restarts \in [Processes -> 0 .. MaxRestarts]

\* All processes that were given a key by one store have the same, it is the one
\* on disk or nothing is, and so is its public half, which verifiers are given:
\* whoever looked, generated, crashed or ran `keys new` in between (check and
\* creation of key-store.ts:33-50, rewrite of cli/main.ts:163).
OneKeyPerName ==
  /\ \A p, q \in Processes :
       keyPair[p] # NoKey /\ keyPair[q] # NoKey => keyPair[p] = keyPair[q]
  /\ \A p \in Processes : keyPair[p] # NoKey => pem \in {"empty", keyPair[p]}
  /\ pub \in Keys => pem \in {"empty", pub}
=============================================================================
