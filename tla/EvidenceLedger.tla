--------------------------- MODULE EvidenceLedger ---------------------------
(***************************************************************************)
(* The durable evidence ledger (omni_q.evidence.EvidenceLedger) under the  *)
(* runs of one engine, across crashes and restarts of its process.  On     *)
(* disk: one receipt per run, the authorizations of its steps, and the     *)
(* manifest that links the receipts.  In memory: the hash of the last      *)
(* receipt.  A write lands whole or not at all, except that a crash may    *)
(* leave the last line of the manifest incomplete.                         *)
(***************************************************************************)
EXTENDS Naturals, Sequences

CONSTANTS
  Runs,                 \* deterministic run ids: the same mission has the same id
  None,
  \* bounds
  MaxStarts, MaxSteps, MaxCrashes

VARIABLES
  receipts,  \* runs/<run>/receipt.json: [parent, hash], or None
  allows,    \* per run, ALLOW lines in its authorizations.jsonl
  manifest,  \* the complete lines of manifest.jsonl
  torn,      \* an incomplete line follows them
  last,      \* _last_hash of the open ledger
  pc,        \* where the process is
  run,       \* the run in hand
  acted,     \* history: per run, actions the driver has performed
  spent      \* how often things have happened

disk == <<receipts, allows, manifest, torn>>
vars == <<disk, last, pc, run, acted, spent>>

Chain == INSTANCE HashChain WITH chain <- manifest

Receipt == [parent : Chain!Hashes, hash : Chain!Hashes]

ASSUME LedgerAssumption ==
  /\ None \notin Runs \cup Receipt
  /\ {MaxStarts, MaxSteps, MaxCrashes} \subseteq Nat

Init ==
  /\ receipts = [r \in Runs |-> None]
  /\ allows = [r \in Runs |-> 0]
  /\ manifest = <<>> /\ torn = FALSE
  /\ last = Chain!Genesis
  /\ pc = "closed" /\ run = None
  /\ acted = [r \in Runs |-> 0]
  /\ spent = [starts |-> 0, steps |-> 0, crashes |-> 0]

Spend(what, bound) == spent[what] < bound /\ spent' = [spent EXCEPT ![what] = @ + 1]

-----------------------------------------------------------------------------
(* EvidenceLedger(root): the last complete line is where the chain goes on.  *)
(* An incomplete line is no JSON: opening raises, now and ever after.        *)
\* Mutant: the chain is started anew by every process.
ForgetLastHash == Chain!Genesis
LoadLastHash == Chain!Tip(manifest)

Open ==
  /\ pc = "closed" /\ ~torn
  /\ last' = LoadLastHash
  /\ pc' = "ready"
  /\ UNCHANGED <<disk, run, acted, spent>>

(* The engine starts a run, possibly one that has been run before.           *)
StartRun(r) ==
  /\ pc = "ready"
  /\ Spend("starts", MaxStarts)
  /\ run' = r
  /\ pc' = "run"
  /\ UNCHANGED <<disk, last, acted>>

(* authorize(): the line is on disk when the call returns.                   *)
\* Mutant: the line is left in a buffer.
AuthorizeUnflushed ==
  /\ pc = "run"
  /\ Spend("steps", MaxSteps)
  /\ pc' = "allowed"
  /\ UNCHANGED allows
Authorize ==
  /\ pc = "run"
  /\ Spend("steps", MaxSteps)
  /\ allows' = [allows EXCEPT ![run] = @ + 1]
  /\ pc' = "allowed"

Allow == Authorize /\ UNCHANGED <<receipts, manifest, torn, last, run, acted>>

(* The write raises, the line on disk or not: the engine takes it for a no.  *)
AuthorizeFails ==
  /\ pc = "run"
  /\ Spend("steps", MaxSteps)
  /\ \E written \in {0, 1} : allows' = [allows EXCEPT ![run] = @ + written]
  /\ UNCHANGED <<receipts, manifest, torn, last, pc, run, acted>>

Act ==
  /\ pc = "allowed"
  /\ acted' = [acted EXCEPT ![run] = @ + 1]
  /\ pc' = "run"
  /\ UNCHANGED <<disk, last, run, spent>>

-----------------------------------------------------------------------------
(* record(): check, write the receipt, link it, remember its hash.           *)

Stop == pc' = "ready" /\ run' = None

(* FileExistsError: the run has acted, and its evidence is dropped.          *)
Duplicate ==
  /\ pc = "run" /\ receipts[run] # None
  /\ Stop
  /\ UNCHANGED <<disk, last, acted, spent>>

BeginRecord == pc = "run" /\ receipts[run] = None /\ pc' = "write"

Check == BeginRecord /\ UNCHANGED <<disk, last, run, acted, spent>>

NewReceipt == [parent |-> last, hash |-> Chain!HashOf(last, run)]

(* os.replace puts the whole receipt in place at once.                       *)
WriteReceipt ==
  /\ pc = "write"
  /\ receipts' = [receipts EXCEPT ![run] = NewReceipt]
  /\ pc' = "append"
  /\ UNCHANGED <<allows, manifest, torn, last, run, acted, spent>>

(* The receipt, or then the manifest, cannot be written: record raises.      *)
WriteFails ==
  /\ pc \in {"write", "append"}
  /\ Stop
  /\ UNCHANGED <<disk, last, acted, spent>>

\* Mutant: the line links the receipt to nothing.
LineWithoutParent == [run |-> run, parent |-> Chain!Genesis, hash |-> receipts[run].hash]
Line == [run |-> run, parent |-> receipts[run].parent, hash |-> receipts[run].hash]

AppendManifest ==
  /\ pc = "append"
  /\ manifest' = Append(manifest, Line)
  /\ pc' = "remember"
  /\ UNCHANGED <<receipts, allows, torn, last, run, acted, spent>>

Remember ==
  /\ pc = "remember"
  /\ last' = receipts[run].hash
  /\ Stop
  /\ UNCHANGED <<disk, acted, spent>>

(* The process dies, perhaps while a line is being written.                  *)
Crash ==
  /\ pc # "closed"
  /\ Spend("crashes", MaxCrashes)
  /\ \E t \in {FALSE, pc = "append"} : torn' = t
  /\ pc' = "closed" /\ run' = None
  /\ last' = Chain!Genesis
  /\ UNCHANGED <<receipts, allows, manifest, acted>>

Next ==
  \/ Open \/ (\E r \in Runs : StartRun(r)) \/ Allow \/ AuthorizeFails \/ Act
  \/ Duplicate \/ Check \/ WriteReceipt \/ WriteFails \/ AppendManifest \/ Remember
  \/ Crash

Spec == Init /\ [][Next]_vars

-----------------------------------------------------------------------------
(* Properties.                                                               *)

(* The files and the ledger's memory keep their types.                       *)
TypeOK ==
  /\ receipts \in [Runs -> Receipt \cup {None}]
  /\ allows \in [Runs -> Nat] /\ acted \in [Runs -> Nat]
  /\ manifest \in Seq(Chain!Entry)
  /\ torn \in BOOLEAN
  /\ last \in Chain!Hashes
  /\ pc \in {"closed", "ready", "run", "allowed", "write", "append", "remember"}
  /\ run \in Runs \cup {None}
  /\ spent \in [{"starts", "steps", "crashes"} -> Nat]

(* Across crashes, restarts, failed writes and repeated runs, the manifest   *)
(* on disk is the log HashChain specifies.                                   *)
ChainSpec == Chain!Spec

(* verify_ledger finds nothing at any moment, not even after a crash between *)
(* two writes: every line's receipt is there with the hash the line names,   *)
(* and every parent is the hash of the line before.                          *)
LedgerVerifies ==
  \A i \in DOMAIN manifest :
    /\ receipts[manifest[i].run] = [parent |-> manifest[i].parent, hash |-> manifest[i].hash]
    /\ manifest[i].parent = IF i = 1 THEN Chain!Genesis ELSE manifest[i - 1].hash

(* Fail closed: the driver has never acted more often for a run than the     *)
(* run has ALLOW authorizations on disk.                                     *)
ActedWasAuthorized == \A r \in Runs : acted[r] <= allows[r]

(* Both: what the disk holds is sound, and says no less than was done.       *)
LedgerHolds == LedgerVerifies /\ ActedWasAuthorized

(* Evidence is never replaced: a receipt, once there, stays as it is, even   *)
(* when its run is run again in a process that has forgotten it.             *)
EvidenceNeverReplaced ==
  [][\A r \in Runs : receipts[r] # None => receipts'[r] = receipts[r]]_vars
=============================================================================
