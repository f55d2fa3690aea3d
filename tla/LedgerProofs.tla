---------------------------- MODULE LedgerProofs ----------------------------
(***************************************************************************)
(* Theorems about the evidence of a run, for every value of the constants: *)
(* the ledger implements the hash chain, for any number of runs and        *)
(* crashes, and a published bundle that verifies is whole.                 *)
(***************************************************************************)
EXTENDS EvidenceLedger, EvidenceBundle, TLAPS

(* What the files and the memory have to do with each other.                 *)
Recorded(r) == receipts[r] # None

(* A line is a receipt's line, and no receipt has a line before it is there. *)
LinesInv ==
  \A i \in DOMAIN manifest :
    /\ Recorded(manifest[i].run)
    /\ receipts[manifest[i].run] = [parent |-> manifest[i].parent, hash |-> manifest[i].hash]
    /\ manifest[i].parent = IF i = 1 THEN Chain!Genesis ELSE manifest[i - 1].hash

(* An open ledger remembers the tip, except while it is about to; and what   *)
(* it is recording is not linked yet.                                        *)
MemoryInv ==
  /\ pc \in {"ready", "run", "allowed", "write", "append"} => last = Chain!Tip(manifest)
  /\ pc \in {"run", "allowed", "write", "append", "remember"} => run \in Runs
  /\ pc = "write" => receipts[run] = None
  /\ pc = "append" => receipts[run] = NewReceipt /\ run \notin Chain!Listed(manifest)
  /\ pc = "remember" => receipts[run] # None /\ receipts[run].hash = Chain!Tip(manifest)

(* The driver is one action behind the authorizations while it is allowed.   *)
ActsInv ==
  /\ ActedWasAuthorized
  /\ pc = "allowed" => acted[run] < allows[run]

IInv == TypeOK /\ LinesInv /\ MemoryInv /\ ActsInv

-----------------------------------------------------------------------------
(* A non-empty log's tip is the hash of its last line.                       *)
LEMMA TipTyped ==
  ASSUME NEW c \in Seq(Chain!Entry)
  PROVE  Chain!Tip(c) \in Chain!Hashes
<1>1. CASE c = <<>>
  BY <1>1 DEF Chain!Tip, Chain!Genesis, Chain!Hashes
<1>2. CASE c # <<>>
  <2>1. c[Len(c)] \in Chain!Entry
    BY <1>2
  <2> QED
    BY <1>2, <2>1 DEF Chain!Tip, Chain!Entry
<1> QED
  BY <1>1, <1>2

LEMMA TipOfAppend ==
  ASSUME NEW c \in Seq(Chain!Entry), NEW e \in Chain!Entry
  PROVE  Chain!Tip(Append(c, e)) = e.hash
<1>1. Append(c, e) # <<>> /\ Len(Append(c, e)) = Len(c) + 1 /\ Append(c, e)[Len(c) + 1] = e
  OBVIOUS
<1> QED
  BY <1>1 DEF Chain!Tip

LEMMA NewReceiptTyped ==
  ASSUME last \in Chain!Hashes, run \in Runs
  PROVE  NewReceipt \in Receipt
BY DEF NewReceipt, Receipt, Chain!Hashes, Chain!HashOf

LEMMA SpendTyped ==
  ASSUME TypeOK, NEW what \in {"starts", "steps", "crashes"}, NEW bound, Spend(what, bound)
  PROVE  spent' \in [{"starts", "steps", "crashes"} -> Nat]
BY DEF TypeOK, Spend

-----------------------------------------------------------------------------
(* The strengthened invariant holds at first and is kept by every step.      *)

LEMMA InitInv == Init => IInv
<1> SUFFICES ASSUME Init PROVE IInv
  OBVIOUS
<1>1. TypeOK
  <2>1. spent \in [{"starts", "steps", "crashes"} -> Nat]
    BY DEF Init
  <2>2. Chain!Genesis \in Chain!Hashes
    BY DEF Chain!Genesis, Chain!Hashes
  <2>3. manifest \in Seq(Chain!Entry)
    BY DEF Init
  <2>4. receipts \in [Runs -> Receipt \cup {None}]
    BY DEF Init
  <2>5. allows \in [Runs -> Nat] /\ acted \in [Runs -> Nat]
    BY DEF Init
  <2>6. pc \in {"closed", "ready", "run", "allowed", "write", "append", "remember"}
    BY DEF Init
  <2>7. torn \in BOOLEAN /\ run \in Runs \cup {None}
    BY DEF Init
  <2> QED
    BY <2>1, <2>2, <2>3, <2>4, <2>5, <2>6, <2>7 DEF Init, TypeOK
<1>2. LinesInv
  BY DEF Init, LinesInv
<1>3. MemoryInv
  BY DEF Init, MemoryInv
<1>4. ActsInv
  BY DEF Init, ActsInv, ActedWasAuthorized
<1> QED
  BY <1>1, <1>2, <1>3, <1>4 DEF IInv

LEMMA LineTyped ==
  ASSUME TypeOK, pc = "append", MemoryInv
  PROVE  Line \in Chain!Entry /\ Line = [run |-> run, parent |-> last, hash |-> Chain!HashOf(last, run)]
<1>1. receipts[run] = NewReceipt /\ run \in Runs /\ last \in Chain!Hashes
  BY DEF TypeOK, MemoryInv
<1>2. receipts[run] \in Receipt
  BY <1>1, NewReceiptTyped
<1> QED
  BY <1>1, <1>2 DEF Line, NewReceipt, Receipt, Chain!Entry

LEMMA TypeStep == TypeOK /\ MemoryInv /\ [Next]_vars => TypeOK'
<1> SUFFICES ASSUME TypeOK, MemoryInv, [Next]_vars PROVE TypeOK'
  OBVIOUS
<1> USE DEF TypeOK
<1>1. CASE Open
  <2>1. last' \in Chain!Hashes
    BY <1>1, TipTyped DEF Open, LoadLastHash
  <2> QED
    BY <1>1, <2>1 DEF Open, disk
<1>2. ASSUME NEW r \in Runs, StartRun(r) PROVE TypeOK'
  BY <1>2, SpendTyped DEF StartRun, disk
<1>3. CASE Allow
  <2>1. spent' \in [{"starts", "steps", "crashes"} -> Nat]
    BY <1>3, SpendTyped DEF Allow, Authorize
  <2>2. run \in Runs
    BY <1>3 DEF Allow, Authorize, MemoryInv
  <2> QED
    BY <1>3, <2>1, <2>2 DEF Allow, Authorize
<1>4. CASE AuthorizeFails
  <2>1. spent' \in [{"starts", "steps", "crashes"} -> Nat]
    BY <1>4, SpendTyped DEF AuthorizeFails
  <2>2. run \in Runs
    BY <1>4 DEF AuthorizeFails, MemoryInv
  <2> QED
    BY <1>4, <2>1, <2>2 DEF AuthorizeFails
<1>5. CASE Act
  BY <1>5 DEF Act, disk, MemoryInv
<1>6. CASE Duplicate
  BY <1>6 DEF Duplicate, Stop, disk
<1>7. CASE Check
  BY <1>7 DEF Check, BeginRecord, disk
<1>8. CASE WriteReceipt
  <2>1. NewReceipt \in Receipt /\ run \in Runs
    BY <1>8, NewReceiptTyped DEF WriteReceipt, MemoryInv
  <2> QED
    BY <1>8, <2>1 DEF WriteReceipt
<1>9. CASE WriteFails
  BY <1>9 DEF WriteFails, Stop, disk
<1>10. CASE AppendManifest
  <2>1. Line \in Chain!Entry
    BY <1>10, LineTyped DEF AppendManifest
  <2> QED
    BY <1>10, <2>1 DEF AppendManifest
<1>11. CASE Remember
  <2>1. receipts[run] \in Receipt
    BY <1>11 DEF Remember, MemoryInv
  <2>2. last' \in Chain!Hashes
    BY <1>11, <2>1 DEF Remember, Receipt
  <2> QED
    BY <1>11, <2>2 DEF Remember, Stop, disk
<1>12. CASE Crash
  <2>1. Chain!Genesis \in Chain!Hashes
    BY DEF Chain!Genesis, Chain!Hashes
  <2>2. spent' \in [{"starts", "steps", "crashes"} -> Nat]
    BY <1>12, SpendTyped DEF Crash
  <2> QED
    BY <1>12, <2>1, <2>2 DEF Crash
<1>13. CASE UNCHANGED vars
  BY <1>13 DEF vars, disk
<1> QED
  BY <1>1, <1>2, <1>3, <1>4, <1>5, <1>6, <1>7, <1>8, <1>9, <1>10, <1>11, <1>12, <1>13 DEF Next

-----------------------------------------------------------------------------
(* A receipt is written only where there was none; only then is it new.      *)
LEMMA ReceiptKept ==
  ASSUME IInv, [Next]_vars
  PROVE  \A r \in Runs : receipts[r] # None => receipts'[r] = receipts[r]
<1>1. CASE WriteReceipt
  <2>1. receipts[run] = None /\ run \in Runs
    BY <1>1 DEF WriteReceipt, IInv, MemoryInv
  <2> QED
    BY <1>1, <2>1 DEF WriteReceipt, IInv, TypeOK
<1>2. CASE ~WriteReceipt
  <2>1. receipts' = receipts
    BY <1>2 DEF Next, vars, disk, Open, StartRun, Allow, AuthorizeFails, Act, Duplicate, Check,
      WriteFails, AppendManifest, Remember, Crash
  <2> QED
    BY <2>1
<1> QED
  BY <1>1, <1>2

(* The manifest stays or grows by the line of the run in hand.               *)
LEMMA ManifestStep ==
  ASSUME [Next]_vars
  PROVE  AppendManifest \/ manifest' = manifest
BY DEF Next, vars, disk, Open, StartRun, Allow, AuthorizeFails, Act, Duplicate, Check,
  WriteReceipt, WriteFails, Remember, Crash

LEMMA LinesStep == IInv /\ [Next]_vars => LinesInv'
<1> SUFFICES ASSUME IInv, [Next]_vars PROVE LinesInv'
  OBVIOUS
<1> USE DEF IInv
<1>1. \A i \in DOMAIN manifest :
        manifest[i].run \in Runs /\ receipts'[manifest[i].run] = receipts[manifest[i].run]
  <2> TAKE i \in DOMAIN manifest
  <2>1. manifest[i] \in Chain!Entry
    BY DEF TypeOK
  <2>2. manifest[i].run \in Runs
    BY <2>1 DEF Chain!Entry
  <2>3. receipts[manifest[i].run] # None
    BY DEF LinesInv, Recorded
  <2> QED
    BY <2>2, <2>3, ReceiptKept
<1>2. CASE manifest' = manifest
  BY <1>1, <1>2 DEF LinesInv, Recorded
<1>3. CASE AppendManifest
  <2>1. receipts' = receipts /\ manifest' = Append(manifest, Line)
    BY <1>3 DEF AppendManifest
  <2>2. Line = [run |-> run, parent |-> last, hash |-> Chain!HashOf(last, run)]
    BY <1>3, LineTyped DEF AppendManifest
  <2>3. receipts[run] = [parent |-> Line.parent, hash |-> Line.hash] /\ Line.run = run
    BY <1>3, <2>2 DEF AppendManifest, MemoryInv, NewReceipt
  <2>4. receipts[run] # None
    <3>1. receipts[run] \in Receipt
      BY <1>3, NewReceiptTyped DEF AppendManifest, MemoryInv, TypeOK
    <3> QED
      BY <3>1, LedgerAssumption
  <2>5. Line.parent = IF manifest = <<>> THEN Chain!Genesis ELSE manifest[Len(manifest)].hash
    BY <1>3, <2>2 DEF AppendManifest, MemoryInv, Chain!Tip
  <2> SUFFICES ASSUME NEW i \in DOMAIN manifest' PROVE
        /\ receipts[manifest'[i].run] # None
        /\ receipts[manifest'[i].run] = [parent |-> manifest'[i].parent, hash |-> manifest'[i].hash]
        /\ manifest'[i].parent = IF i = 1 THEN Chain!Genesis ELSE manifest'[i - 1].hash
    BY <2>1 DEF LinesInv, Recorded
  <2>6. manifest \in Seq(Chain!Entry)
    BY DEF TypeOK
  <2>7. CASE i \in DOMAIN manifest
    <3>1. manifest'[i] = manifest[i] /\ (i # 1 => manifest'[i - 1] = manifest[i - 1])
      BY <2>1, <2>6, <2>7
    <3> QED
      BY <3>1, <2>7 DEF LinesInv, Recorded
  <2>8. CASE i = Len(manifest) + 1
    <3>1. manifest'[i] = Line /\ (i # 1 => manifest'[i - 1] = manifest[i - 1])
      BY <2>1, <2>6, <2>8
    <3>2. i = 1 <=> manifest = <<>>
      BY <2>6, <2>8
    <3> QED
      BY <3>1, <3>2, <2>3, <2>4, <2>5, <2>6, <2>8
  <2> QED
    BY <2>1, <2>6, <2>7, <2>8
<1> QED
  BY <1>2, <1>3, ManifestStep

LEMMA ListedMeansRecorded ==
  ASSUME IInv, NEW r \in Chain!Listed(manifest)
  PROVE  receipts[r] # None
<1>1. PICK i \in DOMAIN manifest : r = manifest[i].run
  BY DEF Chain!Listed
<1>2. Recorded(manifest[i].run)
  BY DEF IInv, LinesInv
<1> QED
  BY <1>1, <1>2 DEF Recorded

LEMMA MemoryStep == IInv /\ [Next]_vars => MemoryInv'
<1> SUFFICES ASSUME IInv, [Next]_vars PROVE MemoryInv'
  OBVIOUS
<1> USE DEF IInv
<1>1. CASE Open
  BY <1>1 DEF Open, LoadLastHash, disk, MemoryInv, Chain!Tip
<1>2. ASSUME NEW r \in Runs, StartRun(r) PROVE MemoryInv'
  BY <1>2 DEF StartRun, disk, MemoryInv, Chain!Tip
<1>3. CASE Allow
  BY <1>3 DEF Allow, Authorize, MemoryInv, Chain!Tip
<1>4. CASE AuthorizeFails
  BY <1>4 DEF AuthorizeFails, MemoryInv, Chain!Tip
<1>5. CASE Act
  BY <1>5 DEF Act, disk, MemoryInv, Chain!Tip
<1>6. CASE Duplicate
  BY <1>6 DEF Duplicate, Stop, disk, MemoryInv, Chain!Tip
<1>7. CASE Check
  BY <1>7 DEF Check, BeginRecord, disk, MemoryInv, Chain!Tip
<1>8. CASE WriteReceipt
  <2>1. pc' = "append" /\ run' = run /\ last' = last /\ manifest' = manifest
    BY <1>8 DEF WriteReceipt
  <2>2. run \in Runs /\ receipts[run] = None /\ last = Chain!Tip(manifest)
    BY <1>8 DEF WriteReceipt, MemoryInv
  <2>3. receipts'[run] = NewReceipt
    BY <1>8, <2>2 DEF WriteReceipt, TypeOK
  <2>4. run \notin Chain!Listed(manifest)
    BY <2>2, ListedMeansRecorded
  <2>5. NewReceipt' = NewReceipt
    BY <2>1 DEF NewReceipt
  <2> QED
    BY <2>1, <2>2, <2>3, <2>4, <2>5 DEF MemoryInv, Chain!Tip, Chain!Listed
<1>9. CASE WriteFails
  BY <1>9 DEF WriteFails, Stop, disk, MemoryInv, Chain!Tip
<1>10. CASE AppendManifest
  <2>1. Line \in Chain!Entry /\ Line.hash = receipts[run].hash
    <3>1. Line \in Chain!Entry
      BY <1>10, LineTyped DEF AppendManifest
    <3> QED
      BY <3>1 DEF Line
  <2>2. manifest' = Append(manifest, Line) /\ receipts' = receipts /\ run' = run /\ pc' = "remember"
    BY <1>10 DEF AppendManifest
  <2>3. Chain!Tip(Append(manifest, Line)) = receipts[run].hash
    BY <2>1, TipOfAppend DEF TypeOK
  <2>4. Chain!Tip(manifest)' = Chain!Tip(Append(manifest, Line))
    BY <2>2 DEF Chain!Tip
  <2>5. receipts[run] \in Receipt /\ run \in Runs
    BY <1>10, NewReceiptTyped DEF AppendManifest, MemoryInv, TypeOK
  <2>6. receipts[run] # None
    BY <2>5, LedgerAssumption
  <2> QED
    BY <2>2, <2>3, <2>4, <2>5, <2>6 DEF MemoryInv
<1>11. CASE Remember
  BY <1>11 DEF Remember, Stop, disk, MemoryInv, Chain!Tip
<1>12. CASE Crash
  BY <1>12 DEF Crash, MemoryInv
<1>13. CASE UNCHANGED vars
  BY <1>13 DEF vars, disk, MemoryInv, NewReceipt, Chain!Tip, Chain!Listed
<1> QED
  BY <1>1, <1>2, <1>3, <1>4, <1>5, <1>6, <1>7, <1>8, <1>9, <1>10, <1>11, <1>12, <1>13 DEF Next

LEMMA ActsStep == IInv /\ [Next]_vars => ActsInv'
<1> SUFFICES ASSUME IInv, [Next]_vars PROVE ActsInv'
  OBVIOUS
<1> USE DEF IInv
<1>1. allows \in [Runs -> Nat] /\ acted \in [Runs -> Nat]
  BY DEF TypeOK
<1>2. CASE Allow
  <2>1. run \in Runs /\ run' = run /\ acted' = acted /\ allows' = [allows EXCEPT ![run] = @ + 1]
    BY <1>2 DEF Allow, Authorize, MemoryInv
  <2> QED
    BY <1>1, <2>1 DEF ActsInv, ActedWasAuthorized
<1>3. CASE AuthorizeFails
  <2>1. PICK written \in {0, 1} : allows' = [allows EXCEPT ![run] = @ + written]
    BY <1>3 DEF AuthorizeFails
  <2>2. pc' = "run" /\ acted' = acted /\ run \in Runs
    BY <1>3 DEF AuthorizeFails, MemoryInv
  <2> QED
    BY <1>1, <2>1, <2>2 DEF ActsInv, ActedWasAuthorized
<1>4. CASE Act
  <2>1. run \in Runs /\ acted[run] < allows[run]
    BY <1>4 DEF Act, MemoryInv, ActsInv
  <2>2. pc' = "run" /\ allows' = allows /\ acted' = [acted EXCEPT ![run] = @ + 1]
    BY <1>4 DEF Act, disk
  <2> QED
    BY <1>1, <2>1, <2>2 DEF ActsInv, ActedWasAuthorized
<1>5. CASE UNCHANGED <<allows, acted>> /\ pc' # "allowed"
  BY <1>5 DEF ActsInv, ActedWasAuthorized
<1>6. CASE UNCHANGED vars
  BY <1>6 DEF vars, disk, ActsInv, ActedWasAuthorized
<1> QED
  BY <1>2, <1>3, <1>4, <1>5, <1>6 DEF Next, disk, Open, StartRun, Duplicate, Check, BeginRecord,
    WriteReceipt, WriteFails, AppendManifest, Remember, Crash, Stop

LEMMA InvStep == IInv /\ [Next]_vars => IInv'
BY TypeStep, LinesStep, MemoryStep, ActsStep DEF IInv

LEMMA InvHolds == Spec => []IInv
BY InitInv, InvStep, PTL DEF Spec

-----------------------------------------------------------------------------
(* Files and memory keep their types.                                        *)
THEOREM TypeCorrect == Spec => []TypeOK
<1>1. IInv => TypeOK
  BY DEF IInv
<1> QED
  BY <1>1, InvHolds, PTL

(* verify_ledger finds nothing, for any runs, at any moment of any history   *)
(* of crashes and failed writes.                                             *)
THEOREM LedgerSound == Spec => []LedgerVerifies
<1>1. IInv => LedgerVerifies
  BY DEF IInv, LinesInv, LedgerVerifies
<1> QED
  BY <1>1, InvHolds, PTL

(* The driver never acts without an authorization on disk.                   *)
THEOREM ActsAuthorized == Spec => []ActedWasAuthorized
<1>1. IInv => ActedWasAuthorized
  BY DEF IInv, ActsInv
<1> QED
  BY <1>1, InvHolds, PTL

(* The two together: the disk is sound and says no less than was done.       *)
THEOREM LedgerStaysTrue == Spec => []LedgerHolds
<1>1. LedgerVerifies /\ ActedWasAuthorized => LedgerHolds
  BY DEF LedgerHolds
<1> QED
  BY <1>1, LedgerSound, ActsAuthorized, PTL

(* A receipt on disk is never replaced.                                      *)
THEOREM ReceiptsFinal == Spec => EvidenceNeverReplaced
<1>1. IInv /\ [Next]_vars => [\A r \in Runs : receipts[r] # None => receipts'[r] = receipts[r]]_vars
  BY ReceiptKept
<1> QED
  BY <1>1, InvHolds, PTL DEF Spec, EvidenceNeverReplaced

(* Every step of the ledger is a step of the hash chain or leaves it alone.  *)
LEMMA ChainStep == IInv /\ [Next]_vars => [Chain!Next]_manifest
<1> SUFFICES ASSUME IInv, AppendManifest PROVE Chain!Next
  BY ManifestStep
<1> USE DEF IInv
<1>1. run \in Runs /\ run \notin Chain!Listed(manifest) /\ last = Chain!Tip(manifest)
  BY DEF AppendManifest, MemoryInv
<1>2. manifest' = Append(manifest, [run |-> run, parent |-> last, hash |-> Chain!HashOf(last, run)])
  BY LineTyped DEF AppendManifest
<1>3. Chain!Extend(run)
  BY <1>1, <1>2 DEF Chain!Extend
<1> QED
  BY <1>1, <1>3 DEF Chain!Next

(* The manifest on disk implements the hash chain: it only grows, by one run *)
(* at a time, each once, each linked to the one before it.                   *)
THEOREM ImplementsChain == Spec => ChainSpec
<1>1. Init => Chain!Init
  BY DEF Init, Chain!Init
<1> QED
  BY <1>1, ChainStep, InvHolds, PTL DEF Spec, ChainSpec, Chain!Spec

-----------------------------------------------------------------------------
(* EvidenceBundle.  The directory and the files of a call are its own while *)
(* it is under way, and what it has written is under the checksums it wrote. *)

Stages == {"called", "clear", "manifest", "parts", "sums", "done", "raised"}
Calls == [at : Stages, dir : RunDirs, parts : PartLists, rows : Nat, finite : BOOLEAN, next : Nat]
Active == {"manifest", "parts", "sums"}

(* A call that has made its directory and not failed.                        *)
Past(c) == c.at \in Active \cup {"done"}

(* Whoever wrote the checksums took them from files of its own, whole ones,  *)
(* under a manifest that lists what it was called with.                      *)
Filed(x) == x = [whole |-> x.whole, by |-> x.by, says |-> x.says] /\ x.whole \in BOOLEAN
Signed(s, calls) ==
  /\ s.by \in BundleWriters /\ calls[s.by] # NotCalled
  /\ "manifest.json" \in DOMAIN s.says
  /\ \A g \in DOMAIN s.says : s.says[g].by = s.by /\ s.says[g].whole
  /\ s.says["manifest.json"].says.lists = Names(calls[s.by].parts)
Sealed(F, calls) ==
  /\ \A f \in DOMAIN F : Filed(F[f])
  /\ "checksums.json" \in DOMAIN F => Signed(F["checksums.json"], calls)

(* What has been written so far is the writer's, whole and nothing else; and *)
(* what is done is complete.                                                 *)
Written(c) == IF c.at = "parts" THEN {c.parts[i].name : i \in 1..(c.next - 1)} ELSE Names(c.parts)
Own(w, c, F, names) ==
  /\ DOMAIN F = {"manifest.json"} \cup names
  /\ \A f \in DOMAIN F : F[f].by = w /\ F[f].whole
  /\ F["manifest.json"].says.lists = Names(c.parts)
Progress(w, c, F) ==
  /\ c.at = "manifest" => DOMAIN F = {}
  /\ c.at = "parts" => c.next \in 1..Len(c.parts)
  /\ c.at \in {"parts", "sums"} => Own(w, c, F, Written(c))
Complete(w, c, F) ==
  LET all == {"manifest.json"} \cup Names(c.parts)
  IN  /\ DOMAIN F = all \cup {"checksums.json"}
      /\ \A f \in DOMAIN F : F[f].by = w /\ F[f].whole
      /\ F["manifest.json"].says.lists = Names(c.parts)
      /\ F["checksums.json"].says = [f \in all |-> F[f]]

WriterOk(w, c, dirs, left) ==
  /\ Past(c) => c.dir \in DOMAIN dirs
  /\ Past(c) \/ c.at = "clear" => Names(c.parts) \cap BadNames = {}
  /\ c.at \in Active => c.dir \notin left /\ Progress(w, c, dirs[c.dir])
  /\ c.at = "done" /\ c.dir \notin left => Complete(w, c, dirs[c.dir])

Alone(calls) == \A v, w \in BundleWriters :
  Past(calls[v]) /\ Past(calls[w]) /\ calls[v].dir = calls[w].dir => v = w

BundleInv ==
  /\ writings \in [BundleWriters -> {NotCalled} \cup Calls] /\ transitions \in Nat
  /\ DOMAIN shelf \subseteq RunDirs /\ touched \subseteq DOMAIN shelf
  /\ \A dir \in DOMAIN shelf : Sealed(shelf[dir], writings)
  /\ \A w \in BundleWriters : WriterOk(w, writings[w], shelf, touched)
  /\ Alone(writings)

LEMMA BundleInvSound == BundleInv => BundleSound
<1> SUFFICES ASSUME BundleInv, NEW dir \in DOMAIN shelf
             PROVE  LET F == shelf[dir] IN
               /\ Verifies(F) =>
                   /\ \E w \in BundleWriters :
                        /\ writings[w] # NotCalled /\ \A f \in DOMAIN F : F[f].by = w /\ F[f].whole
                        /\ DOMAIN F = {"manifest.json", "checksums.json"} \cup Names(writings[w].parts)
               /\ \A w \in BundleWriters :
                   writings[w].at = "done" /\ writings[w].dir = dir /\ dir \notin touched /\ CountAgrees(F)
                     => Verifies(F)
  BY DEF BundleSound
<1> DEFINE F == shelf[dir]
<1>1. Sealed(F, writings)
  BY DEF BundleInv
<1>2. ASSUME Verifies(F)
      PROVE  \E w \in BundleWriters :
               /\ writings[w] # NotCalled /\ \A f \in DOMAIN F : F[f].by = w /\ F[f].whole
               /\ DOMAIN F = {"manifest.json", "checksums.json"} \cup Names(writings[w].parts)
  <2> DEFINE s == F["checksums.json"]
             w == s.by
  <2>1. Signed(s, writings) /\ s.whole
    BY <1>1, <1>2 DEF Sealed, Verifies
  <2>2. \A f \in DOMAIN F : f # "checksums.json" => f \in DOMAIN s.says /\ F[f] = s.says[f]
    BY <1>2 DEF Verifies
  <2>3. F["manifest.json"] = s.says["manifest.json"]
    BY <1>2, <2>2 DEF Verifies
  <2>4. DOMAIN F = {"manifest.json", "checksums.json"} \cup Names(writings[w].parts)
    BY <1>2, <2>1, <2>3 DEF Verifies, Listed, Signed
  <2>5. \A f \in DOMAIN F : F[f].by = w /\ F[f].whole
    BY <2>1, <2>2 DEF Signed
  <2> QED
    BY <2>1, <2>4, <2>5 DEF Signed
<1>3. ASSUME NEW w \in BundleWriters, writings[w].at = "done", writings[w].dir = dir, dir \notin touched, CountAgrees(F)
      PROVE  Verifies(F)
  <2>1. Complete(w, writings[w], F) /\ Names(writings[w].parts) \cap BadNames = {}
    BY <1>3 DEF BundleInv, WriterOk, Past
  <2>2. "checksums.json" \notin Names(writings[w].parts)
    BY <2>1, BundleAssumption
  <2> QED
    BY <1>3, <2>1, <2>2 DEF Complete, Verifies, Listed
<1> QED
  BY <1>2, <1>3

(* A step of one call: the others find the directories as they left them,    *)
(* and what is sealed stays so.                                              *)
LEMMA OneCall ==
  ASSUME BundleInv, NEW w \in BundleWriters, NEW d \in Calls,
         writings' = [writings EXCEPT ![w] = d], transitions' = transitions, touched' = touched,
         writings[w] # NotCalled => writings[w].parts = d.parts,
         DOMAIN shelf \subseteq DOMAIN shelf', DOMAIN shelf' \subseteq RunDirs,
         \A dir \in DOMAIN shelf : dir # d.dir => shelf'[dir] = shelf[dir],
         Past(writings[w]) \/ \A dir \in DOMAIN shelf : shelf'[dir] = shelf[dir],
         Past(d) => (Past(writings[w]) \/ d.dir \notin DOMAIN shelf),
         Past(writings[w]) => writings[w].dir = d.dir,
         WriterOk(w, d, shelf', touched),
         \A dir \in DOMAIN shelf' : (dir \in DOMAIN shelf /\ shelf'[dir] = shelf[dir]) \/ Sealed(shelf'[dir], writings')
  PROVE  BundleInv'
<1>1. /\ writings' \in [BundleWriters -> {NotCalled} \cup Calls] /\ writings'[w] = d
      /\ \A v \in BundleWriters \ {w} : writings'[v] = writings[v]
  BY DEF BundleInv
<1>2. \A v \in BundleWriters : writings[v] # NotCalled =>
        writings'[v] # NotCalled /\ writings'[v].parts = writings[v].parts
  <2>1. d # NotCalled
    BY DEF Calls, NotCalled, Stages
  <2> QED
    BY <1>1, <2>1
<1>3. \A dir \in DOMAIN shelf' : Sealed(shelf'[dir], writings')
  <2> SUFFICES ASSUME NEW dir \in DOMAIN shelf, shelf'[dir] = shelf[dir] PROVE Sealed(shelf'[dir], writings')
    OBVIOUS
  <2>1. Sealed(shelf[dir], writings)
    BY DEF BundleInv
  <2> QED
    BY <1>2, <2>1 DEF Sealed, Signed
<1>4. ASSUME NEW v \in BundleWriters \ {w}, Past(writings[v])
      PROVE  /\ writings[v].dir \in DOMAIN shelf /\ shelf'[writings[v].dir] = shelf[writings[v].dir]
             /\ Past(d) => writings[v].dir # d.dir
  BY <1>4 DEF BundleInv, WriterOk, Alone
<1>5. ASSUME NEW v \in BundleWriters PROVE WriterOk(v, writings'[v], shelf', touched')
  <2>1. CASE v = w
    BY <1>1, <2>1
  <2>2. CASE v # w
    <3>1. WriterOk(v, writings[v], shelf, touched)
      BY DEF BundleInv
    <3> QED
      BY <1>1, <1>4, <2>2, <3>1 DEF WriterOk, Past
  <2> QED
    BY <2>1, <2>2
<1>6. Alone(writings')
  BY <1>1, <1>4 DEF BundleInv, Alone
<1> QED
  BY <1>1, <1>3, <1>5, <1>6 DEF BundleInv

(* The file a call writes next is its own, and nothing that is sealed.       *)
LEMMA NextFiled ==
  ASSUME BundleInv, NEW w \in BundleWriters, Writing(w)
  PROVE  LET c == writings[w]  file == NextFile(w).file  name == NextFile(w).name
         IN  /\ c \in Calls /\ c.dir \in DOMAIN shelf /\ c.dir \in RunDirs /\ c.dir \notin touched
             /\ Progress(w, c, shelf[c.dir]) /\ Names(c.parts) \cap BadNames = {}
             /\ Filed(file) /\ file.whole /\ file.by = w
             /\ c.at = "manifest" => name = "manifest.json" /\ file.says.lists = Names(c.parts)
             /\ c.at = "parts" => name = c.parts[c.next].name /\ name \notin {"manifest.json", "checksums.json"}
             /\ c.at = "sums" => name = "checksums.json" /\ Signed(file, writings)
                                 /\ file.says = [f \in {"manifest.json"} \cup Names(c.parts) |-> shelf[c.dir][f]]
<1> DEFINE c == writings[w]
           file == NextFile(w).file
           name == NextFile(w).name
<1>1. c.at \in Active /\ c \in Calls
  BY DEF Writing, Active, NotCalled, BundleInv
<1>2. WriterOk(w, c, shelf, touched)
  BY DEF BundleInv
<1>3. /\ c.dir \in DOMAIN shelf /\ c.dir \in RunDirs /\ c.dir \notin touched
      /\ Progress(w, c, shelf[c.dir]) /\ Names(c.parts) \cap BadNames = {}
  BY <1>1, <1>2 DEF BundleInv, WriterOk, Past
<1>4. CASE c.at = "manifest"
  BY <1>1, <1>3, <1>4 DEF NextFile, ManifestFile, File, Filed
<1>5. CASE c.at = "parts"
  <2>1. c.next \in DOMAIN c.parts
    BY <1>1, <1>3, <1>5, BundleAssumption DEF Progress, Calls
  <2>2. c.parts[c.next].name \in Names(c.parts)
    BY <2>1 DEF Names
  <2> QED
    BY <1>1, <1>3, <1>5, <2>2, BundleAssumption DEF NextFile, PartFile, File, Filed
<1>6. CASE c.at = "sums"
  <2>1. Own(w, c, shelf[c.dir], Names(c.parts))
    BY <1>3, <1>6 DEF Progress, Written
  <2>2. name = "checksums.json" /\ file = SumsFile(w)
    BY <1>6 DEF NextFile
  <2>3. /\ file.whole /\ file.by = w /\ Filed(file)
        /\ file.says = [f \in {"manifest.json"} \cup Names(c.parts) |-> shelf[c.dir][f]]
    BY <2>2 DEF SumsFile, File, Filed
  <2> HIDE DEF file
  <2>4. c # NotCalled
    BY <1>6 DEF NotCalled
  <2>5. Signed(file, writings)
    BY <2>1, <2>3, <2>4 DEF Signed, Own
  <2> QED
    BY <1>1, <1>3, <1>6, <2>2, <2>3, <2>5 DEF file
<1> QED
  BY <1>1, <1>4, <1>5, <1>6 DEF Active

(* A file put into a directory, whole or not.                                *)
LEMMA PutInto ==
  ASSUME BundleInv, NEW dir \in DOMAIN shelf, NEW name, NEW file, Filed(file), shelf' = Put(dir, name, file)
  PROVE  /\ DOMAIN shelf' = DOMAIN shelf
         /\ DOMAIN shelf'[dir] = DOMAIN shelf[dir] \cup {name} /\ shelf'[dir][name] = file
         /\ \A f \in DOMAIN shelf[dir] \ {name} : shelf'[dir][f] = shelf[dir][f]
         /\ \A e \in DOMAIN shelf \ {dir} : shelf'[e] = shelf[e]
         /\ \A f \in DOMAIN shelf'[dir] : Filed(shelf'[dir][f])
<1> DEFINE F == [f \in DOMAIN shelf[dir] \cup {name} |-> IF f = name THEN file ELSE shelf[dir][f]]
<1>1. shelf' = [shelf EXCEPT ![dir] = F]
  BY DEF Put
<1>2. Sealed(shelf[dir], writings)
  BY DEF BundleInv
<1>3. /\ DOMAIN F = DOMAIN shelf[dir] \cup {name} /\ F[name] = file
      /\ \A f \in DOMAIN shelf[dir] \ {name} : F[f] = shelf[dir][f]
      /\ \A f \in DOMAIN F : Filed(F[f])
  BY <1>2 DEF Sealed
<1> HIDE DEF F
<1>4. DOMAIN shelf' = DOMAIN shelf /\ shelf'[dir] = F /\ \A e \in DOMAIN shelf \ {dir} : shelf'[e] = shelf[e]
  BY <1>1
<1> QED
  BY <1>3, <1>4

LEMMA Makes == ASSUME BundleInv, NEW w \in BundleWriters, MakeRunDir(w) PROVE BundleInv'
<1> DEFINE c == writings[w]
           made == MayMake(c.dir)
           d == [c EXCEPT !.at = IF made THEN "manifest" ELSE "raised"]
<1>1. c.at = "clear" /\ c \in Calls /\ WriterOk(w, c, shelf, touched)
  BY DEF MakeRunDir, BundleInv, NotCalled
<1>2. /\ d \in Calls /\ d.dir = c.dir /\ d.parts = c.parts /\ d.at = (IF made THEN "manifest" ELSE "raised")
      /\ d.dir \in RunDirs
  BY <1>1 DEF Calls, Stages
<1>3. writings' = [writings EXCEPT ![w] = d] /\ transitions' = transitions /\ touched' = touched
  BY DEF MakeRunDir, BundleInv
<1>4. ~Past(c) /\ Names(c.parts) \cap BadNames = {} /\ touched \subseteq DOMAIN shelf /\ DOMAIN shelf \subseteq RunDirs
  BY <1>1 DEF Past, Active, WriterOk, BundleInv
<1>5. CASE made
  <2>1. /\ DOMAIN shelf' = DOMAIN shelf \cup {d.dir} /\ d.dir \notin DOMAIN shelf
        /\ \A e \in DOMAIN shelf : shelf'[e] = shelf[e]
        /\ shelf'[d.dir] = <<>>
    BY <1>2, <1>5 DEF MakeRunDir, MayMake
  <2>2. d.at = "manifest"
    BY <1>2, <1>5
  <2> HIDE DEF d, c
  <2>3. WriterOk(w, d, shelf', touched)
    BY <1>2, <1>4, <2>1, <2>2 DEF WriterOk, Progress, Active
  <2>4. Sealed(shelf'[d.dir], writings')
    BY <2>1 DEF Sealed
  <2> QED
    BY <1>2, <1>3, <1>4, <2>1, <2>2, <2>3, <2>4, OneCall DEF c
<1>6. CASE ~made
  <2>1. shelf' = shelf
    BY <1>6 DEF MakeRunDir
  <2>2. d.at = "raised"
    BY <1>2, <1>6
  <2> HIDE DEF d, c
  <2>3. ~Past(d) /\ WriterOk(w, d, shelf', touched)
    BY <2>2 DEF WriterOk, Past, Active
  <2> QED
    BY <1>2, <1>3, <1>4, <2>1, <2>3, OneCall DEF c
<1> QED
  BY <1>5, <1>6

(* A call that ends early, with the directory as it is or a torn file.       *)
LEMMA Stops ==
  ASSUME BundleInv, NEW w \in BundleWriters, NEW d \in Calls, writings[w] \in Calls,
         d = [writings[w] EXCEPT !.at = "raised"] \/ d = [writings[w] EXCEPT !.at = "clear"],
         d.at \in {"raised", "clear"}, d.at = "clear" => Names(d.parts) \cap BadNames = {},
         writings' = [writings EXCEPT ![w] = d], transitions' = transitions, touched' = touched,
         \/ shelf' = shelf
         \/ Writing(w) /\ shelf' = Put(writings[w].dir, NextFile(w).name, Torn(NextFile(w).file))
  PROVE  BundleInv'
<1> DEFINE c == writings[w]
           dir == c.dir
           file == NextFile(w).file
           name == NextFile(w).name
<1>1. d.dir = dir /\ d.parts = c.parts /\ ~Past(d) /\ DOMAIN shelf \subseteq RunDirs
  BY DEF Calls, Past, Active, BundleInv
<1>2. ASSUME NEW dirs PROVE WriterOk(w, d, dirs, touched)
  BY DEF WriterOk, Past, Active
<1>3. CASE shelf' = shelf
  BY <1>1, <1>2, <1>3, OneCall
<1>4. CASE Writing(w) /\ shelf' = Put(dir, name, Torn(file))
  <2>1. /\ dir \in DOMAIN shelf /\ c \in Calls
        /\ name = "checksums.json" => Signed(file, writings)
    BY <1>4, NextFiled DEF Writing
  <2>2. Filed(Torn(file)) /\ Torn(file).by = file.by /\ Torn(file).says = file.says
    BY DEF Torn, Filed
  <2> HIDE DEF file, name, c, dir
  <2> DEFINE F == shelf'[dir]
             t == Torn(file)
  <2>3. /\ DOMAIN shelf' = DOMAIN shelf
        /\ DOMAIN F = DOMAIN shelf[dir] \cup {name} /\ F[name] = t
        /\ \A f \in DOMAIN shelf[dir] \ {name} : F[f] = shelf[dir][f]
        /\ \A e \in DOMAIN shelf \ {dir} : shelf'[e] = shelf[e]
        /\ \A f \in DOMAIN F : Filed(F[f])
    BY <1>4, <2>1, <2>2, PutInto
  <2>4. Sealed(shelf[dir], writings)
    BY <2>1 DEF BundleInv
  <2>5. Past(c)
    BY <1>4 DEF Writing, Past, Active, c
  <2>6. /\ c # NotCalled /\ d # NotCalled
        /\ \A v \in BundleWriters : writings[v] # NotCalled =>
              writings'[v] # NotCalled /\ writings'[v].parts = writings[v].parts
    BY <1>1 DEF BundleInv, NotCalled, Calls, Stages, c
  <2>7. ASSUME "checksums.json" \in DOMAIN F PROVE Signed(F["checksums.json"], writings')
    <3>1. CASE name = "checksums.json"
      <4>1. Signed(t, writings)
        BY <2>1, <2>2, <3>1 DEF Signed
      <4> QED
        BY <2>3, <2>6, <3>1, <4>1 DEF Signed
    <3>2. CASE name # "checksums.json"
      <4>1. F["checksums.json"] = shelf[dir]["checksums.json"] /\ Signed(shelf[dir]["checksums.json"], writings)
        BY <2>3, <2>4, <2>7, <3>2 DEF Sealed
      <4> QED
        BY <2>6, <4>1 DEF Signed
    <3> QED
      BY <3>1, <3>2
  <2>8. Sealed(F, writings')
    BY <2>3, <2>7 DEF Sealed
  <2> QED
    BY <1>1, <1>2, <2>1, <2>3, <2>5, <2>8, OneCall DEF c, dir
<1> QED
  BY <1>3, <1>4

LEMMA Writes == ASSUME BundleInv, NEW w \in BundleWriters, WriteFile(w) PROVE BundleInv'
<1> DEFINE c == writings[w]
           dir == c.dir
           file == NextFile(w).file
           name == NextFile(w).name
           d == Then(c)
           F == shelf'[dir]
<1>1. /\ Writing(w) /\ shelf' = Put(dir, name, file) /\ writings' = [writings EXCEPT ![w] = d]
      /\ transitions' = transitions /\ touched' = touched
  BY DEF WriteFile
<1>2. /\ c \in Calls /\ dir \in DOMAIN shelf /\ dir \in RunDirs /\ dir \notin touched
      /\ Progress(w, c, shelf[dir]) /\ Names(c.parts) \cap BadNames = {}
      /\ Filed(file) /\ file.whole /\ file.by = w
      /\ c.at = "manifest" => name = "manifest.json" /\ file.says.lists = Names(c.parts)
      /\ c.at = "parts" => name = c.parts[c.next].name /\ name \notin {"manifest.json", "checksums.json"}
      /\ c.at = "sums" => name = "checksums.json" /\ Signed(file, writings)
                          /\ file.says = [f \in {"manifest.json"} \cup Names(c.parts) |-> shelf[dir][f]]
  BY <1>1, NextFiled
<1> HIDE DEF file, name
<1>3. /\ DOMAIN shelf' = DOMAIN shelf
      /\ DOMAIN F = DOMAIN shelf[dir] \cup {name} /\ F[name] = file
      /\ \A f \in DOMAIN shelf[dir] \ {name} : F[f] = shelf[dir][f]
      /\ \A e \in DOMAIN shelf \ {dir} : shelf'[e] = shelf[e]
      /\ \A f \in DOMAIN F : Filed(F[f])
  BY <1>1, <1>2, PutInto
<1>4. Sealed(shelf[dir], writings)
  BY <1>2 DEF BundleInv
<1>5. Past(c) /\ c.at \in Active /\ c # NotCalled /\ Len(c.parts) \in Nat /\ c.next \in Nat
      /\ DOMAIN c.parts = 1..Len(c.parts)
  BY <1>1, <1>2, BundleAssumption DEF Writing, Past, Active, NotCalled, Calls
<1>6. /\ d \in Calls /\ d.dir = dir /\ d.parts = c.parts /\ Past(d)
      /\ c.at = "sums" => d.at = "done"
      /\ c.at = "manifest" => d.next = 1 /\ d.at = (IF 1 > Len(c.parts) THEN "sums" ELSE "parts")
      /\ c.at = "parts" => d.next = c.next + 1 /\ d.at = (IF c.next + 1 > Len(c.parts) THEN "sums" ELSE "parts")
  <2>1. CASE c.at = "sums"
    BY <1>2, <2>1 DEF Then, Calls, Stages, Past, Active
  <2>2. CASE c.at = "manifest"
    BY <1>2, <2>2 DEF Then, Calls, Stages, Past, Active
  <2>3. CASE c.at = "parts"
    <3> DEFINE n == c.next + 1
               s == IF n > Len(c.parts) THEN "sums" ELSE "parts"
    <3>1. n \in Nat /\ s \in {"sums", "parts"}
      BY <1>5
    <3>2. d = [c EXCEPT !.next = n, !.at = s]
      BY <2>3 DEF Then
    <3> HIDE DEF n, s
    <3>3. d \in Calls /\ d.dir = dir /\ d.parts = c.parts /\ d.next = n /\ d.at = s
      BY <1>2, <3>1, <3>2 DEF Calls, Stages
    <3> QED
      BY <2>3, <3>1, <3>3 DEF n, s, Past, Active
  <2> QED
    BY <1>5, <2>1, <2>2, <2>3 DEF Active
<1> HIDE DEF d
<1>7. /\ d # NotCalled
      /\ \A v \in BundleWriters : writings[v] # NotCalled =>
            writings'[v] # NotCalled /\ writings'[v].parts = writings[v].parts
  BY <1>1, <1>2, <1>6 DEF BundleInv, NotCalled, Calls, Stages
<1> HIDE DEF c, dir, F
<1>8. Sealed(F, writings')
  <2>1. ASSUME "checksums.json" \in DOMAIN F PROVE Signed(F["checksums.json"], writings')
    <3>1. CASE c.at = "sums"
      BY <1>2, <1>3, <1>7, <3>1 DEF Signed
    <3>2. CASE c.at # "sums"
      <4>1. name # "checksums.json"
        BY <1>2, <1>5, <3>2 DEF Active
      <4>2. F["checksums.json"] = shelf[dir]["checksums.json"] /\ Signed(shelf[dir]["checksums.json"], writings)
        BY <1>3, <1>4, <2>1, <4>1 DEF Sealed
      <4> QED
        BY <1>7, <4>2 DEF Signed
    <3> QED
      BY <3>1, <3>2
  <2> QED
    BY <1>3, <2>1 DEF Sealed
<1>9. WriterOk(w, d, shelf', touched)
  <2>1. CASE c.at = "manifest"
    <3>1. Own(w, d, F, {})
      BY <1>2, <1>3, <1>6, <2>1 DEF Own, Progress
    <3>2. d.at \in {"parts", "sums"} /\ Written(d) = {} /\ (d.at = "parts" => d.next \in 1..Len(d.parts))
      BY <1>5, <1>6, <2>1 DEF Written, Names
    <3> QED
      BY <1>2, <1>3, <1>6, <3>1, <3>2 DEF WriterOk, Progress, F
  <2>2. CASE c.at = "parts"
    <3>1. Own(w, c, shelf[dir], Written(c)) /\ c.next \in 1..Len(c.parts)
      BY <1>2, <2>2 DEF Progress
    <3>2. Written(d) = Written(c) \cup {name}
      <4>1. {c.parts[i].name : i \in 1..c.next} = {c.parts[i].name : i \in 1..(c.next - 1)} \cup {c.parts[c.next].name}
        <5>1. 1..c.next = 1..(c.next - 1) \cup {c.next}
          BY <3>1
        <5> QED
          BY <5>1
      <4>2. CASE d.at = "parts"
        <5>1. d.next - 1 = c.next /\ d.parts = c.parts /\ name = c.parts[c.next].name
          BY <1>2, <1>5, <1>6, <2>2
        <5>2. Written(d) = {c.parts[i].name : i \in 1..c.next}
          BY <4>2, <5>1 DEF Written
        <5>3. Written(c) = {c.parts[i].name : i \in 1..(c.next - 1)}
          BY <2>2 DEF Written
        <5> QED
          BY <4>1, <5>1, <5>2, <5>3
      <4>3. CASE d.at = "sums"
        <5>1. c.next = Len(c.parts)
          BY <1>5, <1>6, <2>2, <3>1, <4>3
        <5> QED
          BY <1>2, <1>5, <1>6, <2>2, <4>1, <4>3, <5>1 DEF Written, Names
      <4> QED
        BY <1>6, <2>2, <4>2, <4>3
    <3>3. Own(w, d, F, Written(d))
      BY <1>2, <1>3, <1>6, <2>2, <3>1, <3>2 DEF Own
    <3>4. d.at \in {"parts", "sums"} /\ (d.at = "parts" => d.next \in 1..Len(d.parts))
      BY <1>5, <1>6, <2>2, <3>1
    <3> QED
      BY <1>2, <1>3, <1>6, <3>3, <3>4 DEF WriterOk, Progress, F
  <2>3. CASE c.at = "sums"
    <3> DEFINE all == {"manifest.json"} \cup Names(c.parts)
    <3>1. Own(w, c, shelf[dir], Names(c.parts))
      BY <1>2, <2>3 DEF Progress, Written
    <3>2. "checksums.json" \notin all
      BY <1>2, BundleAssumption
    <3>3. name = "checksums.json" /\ DOMAIN shelf[dir] = all
      BY <1>2, <2>3, <3>1 DEF Own
    <3>4. \A f \in all : F[f] = shelf[dir][f]
      BY <1>3, <3>2, <3>3
    <3>5. [f \in all |-> F[f]] = [f \in all |-> shelf[dir][f]]
      BY <3>4
    <3> HIDE DEF all
    <3>6. Complete(w, d, F)
      <4>1. DOMAIN F = all \cup {"checksums.json"} /\ F["checksums.json"] = file /\ file.says = [f \in all |-> F[f]]
        BY <1>2, <1>3, <2>3, <3>3, <3>5 DEF all
      <4>2. \A f \in DOMAIN F : F[f].by = w /\ F[f].whole
        BY <1>2, <3>1, <3>3, <3>4, <4>1 DEF Own
      <4>3. F["manifest.json"].says.lists = Names(d.parts)
        BY <1>6, <3>1, <3>4 DEF Own, all
      <4> QED
        BY <1>6, <4>1, <4>2, <4>3 DEF Complete, all
    <3>7. d.at = "done"
      BY <1>6, <2>3
    <3> QED
      BY <1>2, <1>3, <1>6, <3>6, <3>7 DEF WriterOk, Active, F
  <2> QED
    BY <1>5, <2>1, <2>2, <2>3 DEF Active
<1> QED
  <2>1. DOMAIN shelf \subseteq RunDirs
    BY DEF BundleInv
  <2>2. /\ writings[w] # NotCalled => writings[w].parts = d.parts
        /\ Past(writings[w]) /\ writings[w].dir = d.dir
        /\ \A e \in DOMAIN shelf : e # d.dir => shelf'[e] = shelf[e]
        /\ \A e \in DOMAIN shelf' : (e \in DOMAIN shelf /\ shelf'[e] = shelf[e]) \/ Sealed(shelf'[e], writings')
    BY <1>3, <1>5, <1>6, <1>8 DEF c, dir, F
  <2> QED
    BY <1>1, <1>3, <1>6, <1>9, <2>1, <2>2, OneCall

LEMMA BundleInductive == BundleInv /\ [BundleNext]_bundles => BundleInv'
<1> SUFFICES ASSUME BundleInv, [BundleNext]_bundles PROVE BundleInv'
  OBVIOUS
<1>1. ASSUME NEW w \in BundleWriters, Call(w) PROVE BundleInv'
  <2>1. PICK dir \in RunDirs, parts \in PartLists, finite \in BOOLEAN :
          writings' = [writings EXCEPT ![w] = NewCall(w, dir, parts, finite)]
    BY <1>1 DEF Call
  <2> DEFINE d == NewCall(w, dir, parts, finite)
  <2>2. d \in Calls /\ d.dir = dir /\ d.at = "called" /\ writings[w] = NotCalled /\ shelf' = shelf
        /\ transitions' = transitions /\ touched' = touched /\ DOMAIN shelf \subseteq RunDirs
    BY <1>1 DEF NewCall, Calls, Stages, Call, BundleInv
  <2> HIDE DEF d
  <2>3. ~Past(d) /\ ~Past(writings[w]) /\ WriterOk(w, d, shelf', touched)
    BY <2>2 DEF Past, Active, WriterOk, NotCalled
  <2>4. writings' = [writings EXCEPT ![w] = d]
    BY <2>1 DEF d
  <2> QED
    BY <2>2, <2>3, <2>4, OneCall
<1>2. ASSUME NEW w \in BundleWriters, LookFirst(w) PROVE BundleInv'
  <2> DEFINE c == writings[w]
             at == IF RefusesCall(c) THEN "raised" ELSE "clear"
             d == [c EXCEPT !.at = at]
  <2>1. c \in Calls /\ shelf' = shelf /\ transitions' = transitions /\ touched' = touched
        /\ writings' = [writings EXCEPT ![w] = d]
    BY <1>2 DEF LookFirst, BundleInv, NotCalled
  <2>2. d \in Calls /\ d.at = at /\ d.parts = c.parts
    BY <2>1 DEF Calls, Stages
  <2>3. at = "clear" => Names(d.parts) \cap BadNames = {}
    BY <2>2 DEF RefusesCall
  <2>4. at \in {"raised", "clear"} /\ (d = [c EXCEPT !.at = "raised"] \/ d = [c EXCEPT !.at = "clear"])
    OBVIOUS
  <2> HIDE DEF d, at
  <2> QED
    BY <2>1, <2>2, <2>3, <2>4, Stops
<1>3. ASSUME NEW w \in BundleWriters, NotFinite(w) \/ WritingStops(w) PROVE BundleInv'
  <2> DEFINE c == writings[w]
             d == [c EXCEPT !.at = "raised"]
  <2>1. /\ c \in Calls /\ transitions' = transitions /\ touched' = touched
        /\ writings' = [writings EXCEPT ![w] = d]
        /\ \/ shelf' = shelf
           \/ Writing(w) /\ shelf' = Put(c.dir, NextFile(w).name, Torn(NextFile(w).file))
    BY <1>3 DEF NotFinite, WritingStops, Writing, BundleInv, NotCalled
  <2>2. d \in Calls /\ d.at = "raised"
    BY <2>1 DEF Calls, Stages
  <2> HIDE DEF d
  <2> QED
    BY <2>1, <2>2, Stops DEF d
<1>4. CASE LogGoesOn
  BY <1>4 DEF LogGoesOn, BundleInv
<1>5. ASSUME NEW dir \in RunDirs, Touch(dir) PROVE BundleInv'
  <2> DEFINE F == shelf'[dir]
  <2>1. /\ dir \in DOMAIN shelf /\ writings' = writings /\ transitions' = transitions
        /\ touched' = touched \cup {dir} /\ Sealed(shelf[dir], writings)
        /\ \A w \in BundleWriters : writings[w].at \in Active => writings[w].dir # dir
    BY <1>5 DEF Touch, BundleInv, Writing, Active, NotCalled
  <2>2. DOMAIN shelf' = DOMAIN shelf /\ \A e \in DOMAIN shelf \ {dir} : shelf'[e] = shelf[e]
    BY <1>5, <2>1 DEF Touch, Put
  <2>3. Sealed(F, writings)
    <3>1. CASE \E f \in DOMAIN shelf[dir] :
                 shelf' = [shelf EXCEPT ![dir] = [g \in DOMAIN shelf[dir] \ {f} |-> shelf[dir][g]]]
      <4>1. PICK f \in DOMAIN shelf[dir] : F = [g \in DOMAIN shelf[dir] \ {f} |-> shelf[dir][g]]
        BY <2>1, <3>1
      <4> QED
        BY <2>1, <4>1 DEF Sealed
    <3>2. ASSUME NEW f \in DOMAIN shelf[dir], shelf' = Put(dir, f, Torn(shelf[dir][f])) PROVE Sealed(F, writings)
      <4> DEFINE t == Torn(shelf[dir][f])
      <4>1. Filed(t) /\ t.by = shelf[dir][f].by /\ t.says = shelf[dir][f].says
        BY DEF Torn, Filed
      <4> HIDE DEF t
      <4>2. /\ DOMAIN F = DOMAIN shelf[dir] \cup {f} /\ F[f] = t
            /\ \A g \in DOMAIN shelf[dir] \ {f} : F[g] = shelf[dir][g]
            /\ \A g \in DOMAIN F : Filed(F[g])
        BY <2>1, <3>2, <4>1, PutInto DEF t
      <4> HIDE DEF F
      <4>3. ASSUME "checksums.json" \in DOMAIN F PROVE Signed(F["checksums.json"], writings)
        <5>1. Signed(shelf[dir]["checksums.json"], writings)
          BY <2>1, <4>2, <4>3 DEF Sealed
        <5>2. F["checksums.json"].by = shelf[dir]["checksums.json"].by
              /\ F["checksums.json"].says = shelf[dir]["checksums.json"].says
          BY <4>1, <4>2, <4>3
        <5> QED
          BY <5>1, <5>2 DEF Signed
      <4> QED
        BY <4>2, <4>3 DEF Sealed
    <3>3. CASE shelf' = Put(dir, "stray.txt", File("nobody", 0))
      <4> DEFINE t == File("nobody", 0)
      <4>1. Filed(t)
        BY DEF File, Filed
      <4> HIDE DEF t
      <4>2. /\ DOMAIN F = DOMAIN shelf[dir] \cup {"stray.txt"}
            /\ \A g \in DOMAIN shelf[dir] \ {"stray.txt"} : F[g] = shelf[dir][g]
            /\ \A g \in DOMAIN F : Filed(F[g])
        BY <2>1, <3>3, <4>1, PutInto DEF t
      <4> HIDE DEF F
      <4>3. "checksums.json" \in DOMAIN F => Signed(F["checksums.json"], writings)
        BY <2>1, <4>2 DEF Sealed
      <4> QED
        BY <4>2, <4>3 DEF Sealed
    <3> QED
      BY <1>5, <3>1, <3>2, <3>3 DEF Touch
  <2>4. \A e \in DOMAIN shelf' : Sealed(shelf'[e], writings')
    BY <2>1, <2>2, <2>3 DEF BundleInv
  <2>5. ASSUME NEW w \in BundleWriters PROVE WriterOk(w, writings'[w], shelf', touched')
    <3>1. WriterOk(w, writings[w], shelf, touched)
      BY DEF BundleInv
    <3> HIDE DEF F
    <3> QED
      BY <2>1, <2>2, <3>1 DEF WriterOk, Past
  <2> QED
    BY <2>1, <2>2, <2>4, <2>5 DEF BundleInv
<1>6. CASE UNCHANGED bundles
  BY <1>6 DEF bundles, BundleInv
<1> QED
  BY <1>1, <1>2, <1>3, <1>4, <1>5, <1>6, Makes, Writes DEF BundleNext

(* However many calls want however many directories, wherever any of them is *)
(* killed and whatever finished directories suffer, a bundle that verifies   *)
(* is one call's and whole (validate_evidence_bundle, write_run).            *)
THEOREM BundlesSound == BundleSpec => []BundleSound
<1>1. BundleInit => BundleInv
  <2> SUFFICES ASSUME BundleInit PROVE BundleInv
    OBVIOUS
  <2>1. shelf = <<>> /\ touched = {} /\ transitions = 0 /\ DOMAIN shelf = {}
        /\ writings = [w \in BundleWriters |-> NotCalled]
    BY DEF BundleInit
  <2>2. \A w \in BundleWriters : writings[w].at = "none"
    BY <2>1 DEF NotCalled
  <2> QED
    BY <2>1, <2>2 DEF BundleInv, WriterOk, Alone, Past, Active
<1> QED
  BY <1>1, BundleInductive, BundleInvSound, PTL DEF BundleSpec
=============================================================================
