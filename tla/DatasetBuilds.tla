---------------------------- MODULE DatasetBuilds ----------------------------
(***************************************************************************)
(* The dataset builders of src/perception on one disk, run after each      *)
(* other, any of them more than once and any of them killed half-way:      *)
(* multisource_haul ("val", "train", "oi"), pseudo_label ("pseudo"),       *)
(* merge_datasets ("merge"), build_combined_yolo ("combined") and          *)
(* build_oi_context_dataset ("context").                                   *)
(*                                                                         *)
(* An image is its path; what a path holds is Nothing, "torn" (a writer was   *)
(* killed) or the picture of some path.  A dataset's images are hard links:*)
(* they show what the path holds until the path is removed.  Annotations   *)
(* are there or not; train/val splits, statistics and receipts are left    *)
(* out, and so are the small annotation files.                             *)
(***************************************************************************)
EXTENDS Integers, FiniteSets, SequencesExt

CONSTANTS
  Members,    \* "val", "train" -> wanted images in that archive, in order
  Extra,      \* LVIS images "val" fetches one by one
  OpenImages,     \* "val", "oi", "context" -> Open Images, each in a cache of its own
  Dump,       \* downloaded images on which the detector found something
  DHash, Sha,  \* dHash of a picture (a set of bits), its bytes
  Tolerance,
  Classes, Boxes, \* picture -> class -> boxes
  Rank, Batch, MinPerClass,        \* the order of the wanted images
  Size,       \* blocks of a downloaded file
  Wave, Cap, MaxTries, MaxImages,
  Jobs,       \* the builders that are run
  OutAgain,   \* pseudo_label may be given the directory of an earlier run
  MaxBuilds, MaxKills, \* bounds
  Nothing

Images == UNION {Range(Members[j]) : j \in DOMAIN Members} \cup Extra
            \cup UNION {OpenImages[j] : j \in DOMAIN OpenImages} \cup Dump
Urls   == {"val", "train", "oi", "fallback", "context"}

VARIABLES
  files,    \* path -> what it holds
  remote,   \* url -> [part, whole]: blocks in the .part file, the file itself
  sets,     \* the datasets, in the order they were begun
  job, doing, url,
  inputs,   \* the datasets this build reads or must not duplicate
  writing,  \* paths this process is writing
  order, rest, batch,  \* order_oi_candidates: picked, remaining, to be looked at
  wave, kept, tried,
  unhashed,     \* items still to be hashed
  seen,     \* pictures the Deduper has accepted
  pool,     \* items kept
  out,      \* the dataset being written and how many of the pool it has
  builds, kills

store   == <<files, remote, sets>>
memory == <<url, inputs, writing, order, rest, batch, wave, kept, tried, unhashed, seen, pool, out>>
datasets == <<store, job, doing, memory, builds, kills>>

------------------------------------------------------------------------------
(* What is stored.                                                           *)
Holds(p)  == files[p] # Nothing
Intact(p) == files[p] \in Images

\* An image of a dataset: a link to a path, or a file of its own.
Entry(p) == [path |-> p, linked |-> TRUE, own |-> Nothing, label |-> FALSE]
Shows(e) == IF e.linked THEN files[e.path] ELSE e.own

(* Removing a path leaves the links to what it held.                         *)
Detached(e, p) == IF e.linked /\ e.path = p THEN [e EXCEPT !.linked = FALSE, !.own = files[p]] ELSE e
AfterRemoval(S) ==
  [k \in DOMAIN sets |->
     [sets[k] EXCEPT !.images = [i \in DOMAIN @ |->
        IF @[i].linked /\ @[i].path \in S THEN Detached(@[i], @[i].path) ELSE @[i]]]]

RemoveFiles(S) ==
  /\ files' = [p \in Images |-> IF p \in S THEN Nothing ELSE files[p]]
  /\ sets' = AfterRemoval(S)

(* Opening a path for writing empties it.                                    *)
BeginWrite(p) == files' = [files EXCEPT ![p] = "torn"] /\ writing' = writing \cup {p}
EndWrite(p)   == files' = [files EXCEPT ![p] = p] /\ writing' = writing \ {p}

------------------------------------------------------------------------------
(* Deduper: exact by bytes, near by the number of different bits.            *)
Hamming(a, b) == Cardinality((DHash[a] \ DHash[b]) \cup (DHash[b] \ DHash[a]))
\* Mutant: an image at the tolerance itself is kept.
DuplicatesBelow(a, b) == Sha[a] = Sha[b] \/ Hamming(a, b) < Tolerance
Duplicates(a, b) == Sha[a] = Sha[b] \/ Hamming(a, b) <= Tolerance
Unique(c, S) == \A d \in S : ~Duplicates(c, d)
AddUnique(S, c) == IF Unique(c, S) THEN S \cup {c} ELSE S

(* seed_deduper_from_dataset: all images of the references, in order.        *)
ImagesOf(ks) == FlattenSeq([i \in DOMAIN ks |-> sets[ks[i]].images])
Seeds(ks) == FoldLeft(LAMBDA S, e : AddUnique(S, Shows(e)), {}, ImagesOf(ks))

(* iter_dataset_items: what has a label.                                     *)
Labelled(ks) == SelectSeq(ImagesOf(ks), LAMBDA e : e.label)

------------------------------------------------------------------------------
(* A build begins, ends, or is killed.                                       *)
Forget ==
  /\ url' = Nothing /\ inputs' = <<>> /\ writing' = {} /\ order' = <<>> /\ rest' = {} /\ batch' = <<>>
  /\ wave' = <<>> /\ kept' = 0 /\ tried' = 0 /\ unhashed' = <<>> /\ seen' = {} /\ pool' = <<>>
  /\ out' = [set |-> 0, next |-> 1]

FirstPhase(j) ==
  CASE j = "train" -> "pick"
    [] j \in {"val", "oi", "context"} -> "fetch"
    [] OTHER -> "hash"

Paths(ps) == [i \in DOMAIN ps |-> Entry(ps[i])]
Present(ps) == SelectSeq(ps, LAMBDA p : Holds(p))
Sorted(S) == SetToSortSeq(S, LAMBDA p, q : Rank[p] < Rank[q])

(* What is hashed from the start: the dump, or the input datasets and, for   *)
(* the combined one, the COCO files lying in the caches.                     *)
FirstItems(j, ks) ==
  CASE j = "pseudo" -> Paths(Sorted(Dump))
    [] j = "merge" -> Labelled(ks)
    [] j = "combined" -> Labelled(ks) \o Paths(Present(Sorted(Extra))) \o Paths(Present(Members["val"]))
    [] OTHER -> <<>>

Inputs(j) ==
  LET subsets == {SetToSortSeq(S, <) : S \in SUBSET DOMAIN sets}
  IN CASE j = "val" -> {<<>>}
       [] j = "context" -> {<<k>> : k \in DOMAIN sets}
       [] j \in {"merge", "combined"} -> subsets \ {<<>>}
       [] OTHER -> subsets

Begin(j) ==
  /\ doing = "idle" /\ builds < MaxBuilds
  /\ \E ks \in Inputs(j) :
       /\ inputs' = ks
       /\ seen' = IF j \in {"train", "oi", "pseudo", "context"} THEN Seeds(ks) ELSE {}
       /\ unhashed' = FirstItems(j, ks)
  /\ \E again \in {0} \cup {k \in DOMAIN sets : OutAgain /\ j = "pseudo" /\ sets[k].by = j} :
       out' = [set |-> again, next |-> 1]
  /\ job' = j /\ doing' = FirstPhase(j) /\ url' = IF j \in Urls THEN j ELSE Nothing
  /\ rest' = IF j = "train" THEN Range(Members["train"]) ELSE {}
  /\ builds' = builds + 1
  /\ UNCHANGED <<store, writing, order, batch, wave, kept, tried, pool, kills>>

End == doing' = "idle" /\ job' = Nothing /\ Forget

(* Killed, or an exception nobody catches.                                   *)
Kill ==
  /\ doing # "idle" /\ kills < MaxKills
  /\ kills' = kills + 1
  /\ End /\ UNCHANGED <<store, builds>>

------------------------------------------------------------------------------
(* download, download_file: into a .part file that is renamed when complete; *)
(* a .part left behind is resumed, if the server agrees, but by "context".   *)
AfterFetch(j) == CASE j = "oi" -> "pick" [] j = "context" -> "base" [] OTHER -> "extract"

Fetched(then) ==
  /\ doing' = then
  /\ rest' = IF then = "pick" THEN OpenImages[job] ELSE rest
  /\ order' = IF then = "base" THEN Sorted(OpenImages[job]) ELSE order

AlreadyThere ==
  /\ doing = "fetch" /\ remote[url].whole
  /\ Fetched(AfterFetch(job))
  /\ UNCHANGED <<store, job, url, inputs, writing, batch, wave, kept, tried, unhashed, seen, pool, out, builds, kills>>

Answer(blocks) ==
  /\ doing = "fetch" /\ ~remote[url].whole
  /\ remote' = [remote EXCEPT ![url].part = blocks]
  /\ doing' = "stream"
  /\ UNCHANGED <<files, sets, job, memory, builds, kills>>

(* A server that resumes has something left to send; one that does not, or   *)
(* is not asked to, sends everything.                                        *)
Resumes  == doing = "fetch" /\ job # "context" /\ remote[url].part \in 1..(Size - 1) /\ Answer(remote[url].part)
SendsAll == Answer(0)

(* An HTTP error, as for a range behind the end: the boxes of "oi" have a    *)
(* second address, everything else is over.                                  *)
Refused ==
  /\ doing = "fetch" /\ ~remote[url].whole
  /\ IF url = "oi"
     THEN /\ url' = "fallback"
          /\ UNCHANGED <<job, doing, inputs, writing, order, rest, batch, wave, kept, tried, unhashed, seen, pool, out>>
     ELSE End
  /\ UNCHANGED <<store, builds, kills>>

Block ==
  /\ doing = "stream" /\ remote[url].part < Size
  /\ remote' = [remote EXCEPT ![url].part = @ + 1]
  /\ UNCHANGED <<files, sets, job, doing, memory, builds, kills>>

Rename ==
  /\ doing = "stream" /\ remote[url].part = Size
  /\ remote' = [remote EXCEPT ![url] = [part |-> 0, whole |-> TRUE]]
  /\ Fetched(AfterFetch(job))
  /\ UNCHANGED <<files, sets, job, url, inputs, writing, batch, wave, kept, tried, unhashed, seen, pool, out, builds, kills>>

------------------------------------------------------------------------------
(* Taking the wanted images out of the archive: what exists is left alone.   *)
Wanted == IF job = "train" THEN Sorted(Range(order)) ELSE Members["val"]
\* Mutant: members that were extracted before are extracted again.
MissingOrOld == Range(Wanted)
Missing == {p \in Range(Wanted) : ~Holds(p)}

OpenMember ==
  /\ doing = "extract" /\ writing = {}
  /\ \E p \in Missing : (\A q \in Missing : Rank[p] <= Rank[q]) /\ BeginWrite(p)
  /\ UNCHANGED <<remote, sets, job, doing, url, inputs, order, rest, batch, wave, kept, tried, unhashed, seen, pool, out, builds, kills>>

CopyMember ==
  /\ doing = "extract" /\ \E p \in writing : EndWrite(p)
  /\ UNCHANGED <<remote, sets, job, doing, url, inputs, order, rest, batch, wave, kept, tried, unhashed, seen, pool, out, builds, kills>>

HashTrain == /\ doing' = "hash" /\ unhashed' = Paths(Present(Wanted)) /\ order' = <<>>

(* "train" removes the archive before it hashes anything; "val" goes on with *)
(* the images it has to fetch one by one.                                    *)
Extracted ==
  /\ doing = "extract" /\ writing = {} /\ Missing = {}
  /\ IF job = "train"
     THEN HashTrain /\ remote' = [remote EXCEPT ![url].whole = FALSE] /\ UNCHANGED rest
     ELSE doing' = "pull" /\ rest' = {p \in Extra : ~Holds(p)} /\ UNCHANGED <<remote, unhashed, order>>
  /\ UNCHANGED <<files, sets, job, url, inputs, writing, batch, wave, kept, tried, seen, pool, out, builds, kills>>

(* _pull, by eight threads: fetched, or given up.                            *)
PullBegin ==
  /\ doing = "pull" /\ \E p \in rest : ~Holds(p) /\ BeginWrite(p)
  /\ UNCHANGED <<remote, sets, job, doing, url, inputs, order, rest, batch, wave, kept, tried, unhashed, seen, pool, out, builds, kills>>

PullEnd ==
  /\ doing = "pull" /\ \E p \in writing : EndWrite(p)
  /\ UNCHANGED <<remote, sets, job, doing, url, inputs, order, rest, batch, wave, kept, tried, unhashed, seen, pool, out, builds, kills>>

PullFail ==
  /\ doing = "pull" /\ \E p \in rest : ~Holds(p) /\ rest' = rest \ {p}
  /\ UNCHANGED <<store, job, doing, url, inputs, writing, order, batch, wave, kept, tried, unhashed, seen, pool, out, builds, kills>>

Pulled ==
  /\ doing = "pull" /\ writing = {} /\ \A p \in rest : Holds(p)
  /\ doing' = "hash" /\ rest' = {}
  /\ unhashed' = Paths(Present(Members["val"])) \o Paths(Sorted(rest))
  /\ UNCHANGED <<store, job, url, inputs, writing, order, batch, wave, kept, tried, seen, pool, out, builds, kills>>

------------------------------------------------------------------------------
(* Hashing, one image at a time.  A torn one cannot be opened: pseudo_label  *)
(* skips it, the others do not survive it.                                   *)
HashNext ==
  /\ doing = "hash" /\ unhashed # <<>>
  /\ LET e == Head(unhashed)
         c == Shows(e)
     IN IF c = "torn" /\ job # "pseudo" THEN End
        ELSE /\ unhashed' = Tail(unhashed)
             /\ IF c # "torn" /\ Unique(c, seen)
                THEN seen' = seen \cup {c} /\ pool' = Append(pool, e)
                ELSE UNCHANGED <<seen, pool>>
             /\ UNCHANGED <<job, doing, url, inputs, writing, order, rest, batch, wave, kept, tried, out>>
  /\ UNCHANGED <<store, builds, kills>>

HashEnd ==
  /\ doing = "hash" /\ unhashed = <<>>
  /\ IF job = "val" THEN doing' = "pick" /\ rest' = OpenImages[job] ELSE doing' = "persist" /\ UNCHANGED rest
  /\ UNCHANGED <<store, job, url, inputs, writing, order, batch, wave, kept, tried, unhashed, seen, pool, out, builds, kills>>

------------------------------------------------------------------------------
(* order_oi_candidates: a batch is sorted by what its images cover of the    *)
(* classes still below the minimum; the first image of no use ends it.       *)
Sum(S, f(_)) == FoldSet(LAMBDA x, n : f(x) + n, 0, S)
Shown(ps, c) == FoldLeft(LAMBDA n, p : n + Boxes[p][c], 0, ps)
Counted(c) == Shown(order, c) + Shown([i \in DOMAIN pool |-> Shows(pool[i])], c)
Deficit(c) == IF MinPerClass > Counted(c) THEN MinPerClass - Counted(c) ELSE 0
Covers(p) == Sum(Classes, LAMBDA c : IF Boxes[p][c] < Deficit(c) THEN Boxes[p][c] ELSE Deficit(c))
Rows(p) == Sum(Classes, LAMBDA c : Boxes[p][c])
Better(p, q) ==
  \/ Covers(p) > Covers(q)
  \/ Covers(p) = Covers(q) /\ Rows(p) > Rows(q)
  \/ Covers(p) = Covers(q) /\ Rows(p) = Rows(q) /\ Rank[p] < Rank[q]

NewBatch ==
  /\ doing = "pick" /\ batch = <<>> /\ rest # {}
  /\ LET best == SetToSortSeq(rest, Better)
     IN batch' = SubSeq(best, 1, IF Len(best) < Batch THEN Len(best) ELSE Batch)
  /\ UNCHANGED <<store, job, doing, url, inputs, writing, order, rest, wave, kept, tried, unhashed, seen, pool, out, builds, kills>>

PickBest ==
  /\ doing = "pick" /\ batch # <<>>
  /\ LET best == Head(batch)
     IN IF Covers(best) = 0 /\ order # <<>>
        THEN order' = order \o Sorted(rest) /\ rest' = {} /\ batch' = <<>>
        ELSE order' = Append(order, best) /\ rest' = rest \ {best} /\ batch' = Tail(batch)
  /\ UNCHANGED <<store, job, doing, url, inputs, writing, wave, kept, tried, unhashed, seen, pool, out, builds, kills>>

(* "train" takes the first images only, and needs no archive when all of     *)
(* them lie in the cache.                                                    *)
Picked ==
  /\ doing = "pick" /\ batch = <<>> /\ rest = {}
  /\ IF job = "train"
     THEN LET first == SubSeq(order, 1, IF Len(order) < MaxImages THEN Len(order) ELSE MaxImages)
          IN IF \A i \in DOMAIN first : Holds(first[i])
             THEN doing' = "hash" /\ unhashed' = Paths(Sorted(Range(first))) /\ order' = <<>>
             ELSE doing' = "fetch" /\ order' = first /\ UNCHANGED unhashed
     ELSE doing' = "wave" /\ UNCHANGED <<order, unhashed>>
  /\ UNCHANGED <<store, job, url, inputs, writing, rest, batch, wave, kept, tried, seen, pool, out, builds, kills>>

\* "val" may be without time, permission or luck with the annotations.
SkipBucket ==
  /\ doing = "pick" /\ job = "val" /\ order = <<>> /\ batch = <<>>
  /\ doing' = "persist" /\ rest' = {}
  /\ UNCHANGED <<store, job, url, inputs, writing, order, batch, wave, kept, tried, unhashed, seen, pool, out, builds, kills>>

------------------------------------------------------------------------------
(* Images come in waves, each fetched by eight threads.                      *)
More == /\ order # <<>> /\ kept < Cap
        /\ (job # "val" => tried < MaxTries)

NextWave ==
  /\ doing = "wave" /\ wave = <<>> /\ rest = {} /\ More
  /\ LET n == IF Len(order) < Wave THEN Len(order) ELSE Wave
     IN wave' = SubSeq(order, 1, n) /\ order' = SubSeq(order, n + 1, Len(order)) /\ rest' = Range(SubSeq(order, 1, n))
  /\ UNCHANGED <<store, job, doing, url, inputs, writing, batch, kept, tried, unhashed, seen, pool, out, builds, kills>>

\* "context" has no budget of time.
WavesOver ==
  /\ doing = "wave" /\ wave = <<>> /\ rest = {}
  /\ More => job # "context"
  /\ doing' = "persist"
  /\ UNCHANGED <<store, job, memory, builds, kills>>

(* _fetch_one, fetch: a cached image that cannot be opened is removed at     *)
(* once, or by "context" when its turn comes.                                *)
FetchCached ==
  /\ doing = "wave"
  /\ \E p \in rest \ writing :
       /\ Holds(p) /\ rest' = rest \ {p}
       /\ IF (Intact(p) \/ job = "context") THEN UNCHANGED <<files, sets>> ELSE RemoveFiles({p})
  /\ UNCHANGED <<remote, job, doing, url, inputs, writing, order, batch, wave, kept, tried, unhashed, seen, pool, out, builds, kills>>

FetchBegin ==
  /\ doing = "wave" /\ \E p \in rest : ~Holds(p) /\ BeginWrite(p)
  /\ UNCHANGED <<remote, sets, job, doing, url, inputs, order, rest, batch, wave, kept, tried, unhashed, seen, pool, out, builds, kills>>

FetchEnd ==
  /\ doing = "wave" /\ \E p \in writing : EndWrite(p) /\ rest' = rest \ {p}
  /\ UNCHANGED <<remote, sets, job, doing, url, inputs, order, batch, wave, kept, tried, unhashed, seen, pool, out, builds, kills>>

FetchFail ==
  /\ doing = "wave" /\ \E p \in rest : ~Holds(p) /\ rest' = rest \ {p}
  /\ UNCHANGED <<store, job, doing, url, inputs, writing, order, batch, wave, kept, tried, unhashed, seen, pool, out, builds, kills>>

(* The results are looked at in the order of the wave; nothing this does     *)
(* touches an image still being fetched, so here it waits for all of them.   *)
Accept ==
  /\ doing = "wave" /\ rest = {} /\ wave # <<>>
  /\ LET p == Head(wave)
         good == Intact(p) /\ Unique(p, seen)
     IN /\ tried' = tried + 1
        /\ wave' = IF good /\ job = "context" /\ kept + 1 >= Cap THEN <<>> ELSE Tail(wave)
        /\ IF good
           THEN /\ kept' = kept + 1 /\ seen' = seen \cup {p} /\ pool' = Append(pool, Entry(p))
                /\ UNCHANGED <<files, sets>>
           ELSE /\ IF Holds(p) THEN RemoveFiles({p}) ELSE UNCHANGED <<files, sets>>
                /\ UNCHANGED <<kept, seen, pool>>
  /\ UNCHANGED <<remote, job, doing, url, inputs, writing, order, rest, batch, unhashed, out, builds, kills>>

------------------------------------------------------------------------------
(* Writing the dataset: _fresh_dir never takes a directory that exists.      *)
Dataset(entries) == [by |-> job, refs |-> inputs, images |-> entries, done |-> FALSE]

(* "context" begins with what its base dataset has.                          *)
CopyBase ==
  /\ doing = "base"
  /\ sets' = Append(sets, Dataset(Labelled(inputs)))
  /\ out' = [out EXCEPT !.set = Len(sets) + 1]
  /\ doing' = "wave"
  /\ UNCHANGED <<files, remote, job, url, inputs, writing, order, rest, batch, wave, kept, tried, unhashed, seen, pool, builds, kills>>

MakeDir ==
  /\ doing = "persist" /\ out.set = 0
  /\ sets' = Append(sets, Dataset(<<>>))
  /\ out' = [out EXCEPT !.set = Len(sets) + 1]
  /\ UNCHANGED <<files, remote, job, doing, url, inputs, writing, order, rest, batch, wave, kept, tried, unhashed, seen, pool, builds, kills>>

(* An image of that number exists only if pseudo_label is given an old       *)
(* directory: it cannot be linked over, so the new image is copied into the  *)
(* old file, wherever else that file is linked.                              *)
Target == sets[out.set].images
Numbered == IF job = "pseudo" THEN out.next ELSE Len(Target) + 1

Link ==
  /\ doing = "persist" /\ out.set # 0 /\ out.next <= Len(pool) /\ Numbered > Len(Target)
  /\ sets' = [sets EXCEPT ![out.set].images = Append(@, [pool[out.next] EXCEPT !.label = FALSE])]
  /\ doing' = "label"
  /\ UNCHANGED <<files, remote, job, memory, builds, kills>>

CopyOver ==
  /\ doing = "persist" /\ out.set # 0 /\ out.next <= Len(pool) /\ Numbered <= Len(Target)
  /\ LET old == Target[Numbered]
         new == pool[out.next]
     IN IF old.linked /\ new.linked /\ old.path = new.path
        THEN End /\ UNCHANGED <<files, sets>>    \* SameFileError
        ELSE /\ IF old.linked
                THEN files' = [files EXCEPT ![old.path] = Shows(new)] /\ UNCHANGED sets
                ELSE sets' = [sets EXCEPT ![out.set].images[Numbered].own = Shows(new)] /\ UNCHANGED files
             /\ doing' = "label" /\ UNCHANGED <<job, memory>>
  /\ UNCHANGED <<remote, builds, kills>>

Label ==
  /\ doing = "label"
  /\ LET n == IF job = "pseudo" THEN out.next ELSE Len(Target)
     IN sets' = [sets EXCEPT ![out.set].images[n].label = TRUE]
  /\ out' = [out EXCEPT !.next = @ + 1] /\ doing' = "persist"
  /\ UNCHANGED <<files, remote, job, url, inputs, writing, order, rest, batch, wave, kept, tried, unhashed, seen, pool, builds, kills>>

\* The manifest is the last thing written.
Manifest ==
  /\ doing = "persist" /\ out.set # 0 /\ out.next > Len(pool)
  /\ sets' = [sets EXCEPT ![out.set].done = TRUE]
  /\ End /\ UNCHANGED <<files, remote, builds, kills>>

------------------------------------------------------------------------------
DatasetInit ==
  /\ files = [p \in Images |-> IF p \in Dump THEN p ELSE Nothing]
  /\ remote = [u \in Urls |-> [part |-> 0, whole |-> FALSE]]
  /\ sets = <<>> /\ job = Nothing /\ doing = "idle"
  /\ url = Nothing /\ inputs = <<>> /\ writing = {} /\ order = <<>> /\ rest = {} /\ batch = <<>>
  /\ wave = <<>> /\ kept = 0 /\ tried = 0 /\ unhashed = <<>> /\ seen = {} /\ pool = <<>>
  /\ out = [set |-> 0, next |-> 1] /\ builds = 0 /\ kills = 0

DatasetNext ==
  \/ \E j \in Jobs : Begin(j)
  \/ Kill
  \/ AlreadyThere \/ Resumes \/ SendsAll \/ Refused \/ Block \/ Rename
  \/ OpenMember \/ CopyMember \/ Extracted
  \/ PullBegin \/ PullEnd \/ PullFail \/ Pulled
  \/ HashNext \/ HashEnd
  \/ NewBatch \/ PickBest \/ Picked \/ SkipBucket
  \/ NextWave \/ WavesOver \/ FetchCached \/ FetchBegin \/ FetchEnd \/ FetchFail \/ Accept
  \/ CopyBase \/ MakeDir \/ Link \/ Label \/ Manifest

DatasetSpec == DatasetInit /\ [][DatasetNext]_datasets
\* Where pseudo_label is given a directory it has filled before (OutAgain).
AgainNext == DatasetNext \/ CopyOver

------------------------------------------------------------------------------
Contents(k) == [i \in DOMAIN sets[k].images |-> Shows(sets[k].images[i])]
Distinct(c, d) == Sha[c] # Sha[d] /\ Hamming(c, d) > Tolerance
Apart(s) == \A i, j \in DOMAIN s : i # j => Distinct(s[i], s[j])

(* Whatever was killed, resumed or cached before: a dataset with a manifest  *)
(* has only whole images, no two of them duplicates, each with its label;    *)
(* and none of them duplicates an image of the dataset it was built against. *)
DatasetsSound ==
  \A k \in DOMAIN sets : sets[k].done =>
    /\ Range(Contents(k)) \subseteq Images /\ Apart(Contents(k))
    /\ \A i \in DOMAIN sets[k].images : sets[k].images[i].label
    /\ Len(sets[k].refs) = 1 /\ sets[k].by \in {"train", "oi", "pseudo"} =>
         \A c \in Range(Contents(k)), d \in Range(Contents(sets[k].refs[1])) : Distinct(c, d)

(* Sources and finished datasets are only read: no whole image is ever       *)
(* written over, be it in a cache, a download or a dataset ("sources are     *)
(* never touched, let alone destroyed").                                     *)
NothingOverwritten ==
  [][/\ \A p \in Images : Intact(p) => files'[p] \in {files[p], Nothing}
     /\ \A k \in DOMAIN sets : sets[k].done => Contents(k)' = Contents(k)]_datasets
==============================================================================
