---------------------------- MODULE EvidenceBundle ----------------------------
(* Evidence bundles (evidence_bundle.py): a run's directory, its manifest    *)
(* first, then the artifacts, the checksums last; and what                   *)
(* validate_evidence_bundle makes of a directory that a writer was killed    *)
(* in, that two writers wanted, or that somebody touched afterwards.  A      *)
(* checksum is what it was computed from, and no two writers' files are the  *)
(* same; a file that lacks its last newline only is as good as whole.        *)
EXTENDS Naturals, Sequences, FiniteSets

CONSTANTS
  BundleWriters, \* calls of write_run
  RunDirs,       \* the directories their run ids lead to
  PartLists,     \* artifacts: sequences of [name, kept: "bytes" or "path"]
  BadNames,      \* names that leave the directory, or are reserved
  MaxLog,        \* bound on the log
  MaxTouched     \* bound on accidents to finished directories

ASSUME BundleAssumption ==
  /\ PartLists \subseteq Seq([name : STRING, kept : {"bytes", "path"}])
  /\ \A parts \in PartLists : \A i, j \in DOMAIN parts : parts[i].name = parts[j].name => i = j
  /\ {"manifest.json", "checksums.json"} \subseteq BadNames /\ "nobody" \notin BundleWriters

VARIABLES
  shelf,       \* directory -> file name -> [whole, by, says]
  writings,    \* writer -> its call and how far it is
  transitions, \* the slider's log, by its length; also the file some pass on
  touched      \* directories somebody touched
bundles == <<shelf, writings, transitions, touched>>

LogName == "transitions.jsonl"
NotCalled == [at |-> "none"]
NewCall(w, dir, parts, finite) ==
  [at |-> "called", dir |-> dir, parts |-> parts, rows |-> transitions, finite |-> finite, next |-> 1]

(* ResidencyManager.write_receipt: the rows of the log, and their number.    *)
ReceiptParts == <<[name |-> "decision.json", kept |-> "bytes"], [name |-> LogName, kept |-> "bytes"]>>

(* A file is as long as what was written; a log says how many rows it has.   *)
File(w, says) == [whole |-> TRUE, by |-> w, says |-> says]
Torn(file) == [whole |-> FALSE, by |-> file.by, says |-> file.says]
Names(parts) == {parts[i].name : i \in DOMAIN parts}
Put(dir, name, file) ==
  [shelf EXCEPT ![dir] = [f \in DOMAIN shelf[dir] \cup {name} |-> IF f = name THEN file ELSE shelf[dir][f]]]

(* ------------------------------- write_run ------------------------------- *)
Call(w) ==
  /\ writings[w] = NotCalled
  /\ \E dir \in RunDirs, parts \in PartLists, finite \in BOOLEAN :
       writings' = [writings EXCEPT ![w] = NewCall(w, dir, parts, finite)]
  /\ UNCHANGED <<shelf, transitions, touched>>

RefusesCall(c) == c.dir \in DOMAIN shelf \/ Names(c.parts) \cap BadNames # {}
LookFirst(w) ==
  /\ writings[w].at = "called"
  /\ writings' = [writings EXCEPT ![w].at = IF RefusesCall(writings[w]) THEN "raised" ELSE "clear"]
  /\ UNCHANGED <<shelf, transitions, touched>>

\* Mutant: a directory that exists by now is taken over.
TakesAny(dir) == TRUE
MayMake(dir) == dir \notin DOMAIN shelf
MakeRunDir(w) ==
  /\ writings[w].at = "clear"
  /\ LET dir == writings[w].dir
         made == MayMake(dir)
     IN  /\ writings' = [writings EXCEPT ![w].at = IF made THEN "manifest" ELSE "raised"]
         /\ shelf' = IF made THEN [d \in DOMAIN shelf \cup {dir} |->
                                     IF d \in DOMAIN shelf THEN shelf[d] ELSE <<>>]
                     ELSE shelf
  /\ UNCHANGED <<transitions, touched>>

(* The file a writer writes next, if it can be: a number that is not finite  *)
(* cannot be serialized, and leaves an empty directory.                      *)
ManifestFile(w) ==
  LET c == writings[w] IN File(w, [lists |-> Names(c.parts), rows |-> c.rows])
PartFile(w) ==
  LET c == writings[w]
      rows == IF c.parts[c.next].kept = "path" THEN transitions ELSE c.rows
  IN  File(w, IF c.parts[c.next].name = LogName THEN rows ELSE 0)
SumsFile(w) ==
  LET dir == writings[w].dir
      summed == {"manifest.json"} \cup Names(writings[w].parts)
  IN  File(w, [f \in summed |-> shelf[dir][f]])

NextFile(w) ==
  CASE writings[w].at = "manifest" -> [name |-> "manifest.json", file |-> ManifestFile(w)]
    [] writings[w].at = "parts" -> [name |-> writings[w].parts[writings[w].next].name, file |-> PartFile(w)]
    [] writings[w].at = "sums" -> [name |-> "checksums.json", file |-> SumsFile(w)]
Then(c) ==
  IF c.at = "sums" THEN [c EXCEPT !.at = "done"]
  ELSE LET next == IF c.at = "manifest" THEN 1 ELSE c.next + 1
       IN  [c EXCEPT !.next = next, !.at = IF next > Len(c.parts) THEN "sums" ELSE "parts"]
Writing(w) == writings[w].at \in {"manifest", "parts", "sums"}

WriteFile(w) ==
  /\ Writing(w) /\ (writings[w].at = "manifest" => writings[w].finite)
  /\ shelf' = Put(writings[w].dir, NextFile(w).name, NextFile(w).file)
  /\ writings' = [writings EXCEPT ![w] = Then(writings[w])]
  /\ UNCHANGED <<transitions, touched>>

NotFinite(w) ==
  /\ writings[w].at = "manifest" /\ ~writings[w].finite
  /\ writings' = [writings EXCEPT ![w].at = "raised"]
  /\ UNCHANGED <<shelf, transitions, touched>>

(* The process is killed, or the disk is full or the source gone: between    *)
(* two files, or in the middle of one.                                       *)
WritingStops(w) ==
  /\ Writing(w) /\ (writings[w].at = "manifest" => writings[w].finite)
  /\ \/ UNCHANGED shelf
     \/ shelf' = Put(writings[w].dir, NextFile(w).name, Torn(NextFile(w).file))
  /\ writings' = [writings EXCEPT ![w].at = "raised"]
  /\ UNCHANGED <<transitions, touched>>

LogGoesOn ==
  /\ transitions < MaxLog /\ transitions' = transitions + 1
  /\ UNCHANGED <<shelf, writings, touched>>

(* ----------------------- validate_evidence_bundle ------------------------ *)
Listed(F) == {"manifest.json", "checksums.json"} \cup F["manifest.json"].says.lists
CountAgrees(F) == LogName \in DOMAIN F =>
  F[LogName].whole /\ F[LogName].says = F["manifest.json"].says.rows
Verifies(F) ==
  /\ {"manifest.json", "checksums.json"} \subseteq DOMAIN F
  /\ F["manifest.json"].whole /\ F["checksums.json"].whole
  /\ DOMAIN F["checksums.json"].says = Listed(F) \ {"checksums.json"}
  /\ DOMAIN F = Listed(F)
  /\ \A f \in DOMAIN F["checksums.json"].says : F[f] = F["checksums.json"].says[f]
  /\ CountAgrees(F)

(* A file of a directory nobody writes to is lost, torn, or one is added.    *)
Touch(dir) ==
  /\ dir \in DOMAIN shelf \ touched /\ Cardinality(touched) < MaxTouched
  /\ \A w \in BundleWriters : writings[w] # NotCalled /\ writings[w].dir = dir => ~Writing(w)
  /\ \/ \E f \in DOMAIN shelf[dir] :
          \/ shelf' = [shelf EXCEPT ![dir] = [g \in DOMAIN shelf[dir] \ {f} |-> shelf[dir][g]]]
          \/ shelf[dir][f].whole /\ shelf' = Put(dir, f, Torn(shelf[dir][f]))
     \/ shelf' = Put(dir, "stray.txt", File("nobody", 0))
  /\ touched' = touched \cup {dir}
  /\ UNCHANGED <<writings, transitions>>

BundleInit ==
  /\ shelf = <<>> /\ transitions = 0 /\ touched = {}
  /\ writings = [w \in BundleWriters |-> NotCalled]
BundleNext ==
  \/ \E w \in BundleWriters : Call(w) \/ LookFirst(w) \/ MakeRunDir(w) \/ WriteFile(w)
                              \/ NotFinite(w) \/ WritingStops(w)
  \/ LogGoesOn \/ \E dir \in RunDirs : Touch(dir)
BundleSpec == BundleInit /\ [][BundleNext]_bundles

(* ------------------------------- properties ------------------------------ *)

(* A bundle that verifies is one call's from the first file to the last, all *)
(* it was given and nothing else, whoever else wanted the directory and      *)
(* whatever was killed, lost or torn; and one that was written to its end    *)
(* and left alone verifies, if what it counts is what it holds.              *)
BundleSound == \A dir \in DOMAIN shelf :
  LET F == shelf[dir] IN
  /\ Verifies(F) =>
       /\ \E w \in BundleWriters :
            /\ writings[w] # NotCalled /\ \A f \in DOMAIN F : F[f].by = w /\ F[f].whole
            /\ DOMAIN F = {"manifest.json", "checksums.json"} \cup Names(writings[w].parts)
  /\ \A w \in BundleWriters :
       writings[w].at = "done" /\ writings[w].dir = dir /\ dir \notin touched /\ CountAgrees(F)
         => Verifies(F)
==============================================================================
