---------------------------- MODULE CameraObserver ----------------------------
(* From cameras to named things: every camera's detections after the         *)
(* detector's suppression, MultiCameraFusion (omni_q.vision), the tracker    *)
(* and FrameObserver.observe.  The table is a line of cells; confidences are *)
(* tenths.                                                                   *)
EXTENDS Integers, FiniteSets, Sequences
LOCAL INSTANCE SequencesExt

CONSTANTS
  Items,        \* things on the table, a sequence
  ItemKind,     \* [thing -> class]
  Views,        \* cameras, a sequence of [skew, conf]: where it sees, how surely
  Ghosts,       \* what a camera may report that is not there: [view, kind, at, conf, of]
  Cells,        \* positions, 0..n
  ZoneOf,       \* zone of a cell (make_camera_zone_map)
  HomeOf,       \* target zone of a class (target_zones)
  Stride, KeptApart, \* assumed of the table: how far a thing goes between two
                     \* frames, how near two of a class come
  Blur,         \* distance at which a detector's boxes count as one
  MergeRadius, MinVotes, SureAt, \* of the fusion
  SameBox, Gate, MaxMisses,      \* of the tracker: same box, centre gate, max_missed
  MaxFrames     \* bound

ASSUME CameraAssumption == SameBox <= Gate /\ MinVotes \in Nat \ {0} /\ MaxMisses \in Nat

VARIABLES
  place,        \* where the things are
  tracks,       \* sequence of [name, kind, at, missed, first, of]
  minted,       \* names given, per class
  report,       \* the last Observation
  frames
camera == <<place, tracks, minted, report, frames>>

OnTable == ToSet(Items)
Gap(p, q) == IF p > q THEN p - q ELSE q - p
\* a stable sort, the surest first
Surest(s) == FlattenSeq([c \in 1..10 |-> SelectSeq(s, LAMBDA d : d.conf = 11 - c)])

(* OpenVINODetector.detect: the surest boxes first, without those that       *)
(* overlap one that is kept, of whatever class.                              *)
Raw(v, where, seen, ghosts) ==
  LET here == SelectSeq(Items, LAMBDA o : o \in seen)
  IN  [i \in DOMAIN here |-> [kind |-> ItemKind[here[i]], conf |-> Views[v].conf,
                              at |-> where[here[i]] + Views[v].skew, view |-> v, of |-> here[i]]]
      \o SetToSeq({g \in ghosts : g.view = v})
Detected(s) ==
  FoldLeft(LAMBDA kept, d : IF \E i \in DOMAIN kept : Gap(kept[i].at, d.at) <= Blur
                            THEN kept ELSE Append(kept, d),
           <<>>, Surest(s))

(* MultiCameraFusion: a hit joins the first cluster of its class within the  *)
(* radius of its weighted mean, or is one; what is neither seen twice nor    *)
(* sure is left out.                                                         *)
Near(f, d) == f.kind = d.kind /\ Gap(f.sum, d.at * f.weight) <= MergeRadius * f.weight
Join(f, d) == [f EXCEPT !.sum = @ + (d.at * d.conf), !.weight = @ + d.conf, !.votes = @ + 1,
                        !.of = @ \cup {d.of}]
Merge(fused, d) ==
  LET near == {i \in DOMAIN fused : Near(fused[i], d)}
  IN  IF near = {}
      THEN Append(fused, [kind |-> d.kind, conf |-> d.conf, sum |-> d.at * d.conf,
                          weight |-> d.conf, votes |-> 1, of |-> {d.of}])
      ELSE LET i == CHOOSE j \in near : \A k \in near : j <= k
           IN  [fused EXCEPT ![i] = Join(@, d)]
\* Mutant: one vote less is enough.
BelievedByOne(f) == f.votes >= MinVotes - 1 \/ f.conf >= SureAt
Believed(f) == f.votes >= MinVotes \/ f.conf >= SureAt
Fused(hits) == SelectSeq(FoldLeft(Merge, <<>>, Surest(hits)), Believed)

(* Tracker.update: each detection, the surest first, takes the nearest track *)
(* of its class that overlaps and is not taken yet; then, for the others,    *)
(* the nearest within the gate; then a new name.  A tie goes to the later    *)
(* track.                                                                    *)
Where(f) == f.sum \div f.weight
Reachable(state, f, reach) ==
  {i \in 1..state.old : /\ i \notin state.taken /\ state.tracks[i].kind = f.kind
                        /\ Gap(state.tracks[i].at, Where(f)) <= reach}
NearestTrack(state, f, S) ==
  CHOOSE i \in S : \A j \in S :
    LET p == Gap(state.tracks[i].at, Where(f))
        q == Gap(state.tracks[j].at, Where(f))
    IN  p < q \/ (p = q /\ j <= i)
TakeTrack(state, f, i) ==
  [state EXCEPT !.taken = @ \cup {i},
                !.tracks[i] = [@ EXCEPT !.at = Where(f), !.missed = 0, !.of = f.of]]
FirstPass(state, f) ==
  LET S == Reachable(state, f, SameBox)
  IN  IF S = {} THEN [state EXCEPT !.pending = Append(@, f)] ELSE TakeTrack(state, f, NearestTrack(state, f, S))
MintName(state, f) ==
  LET n == state.minted[f.kind] + 1
  IN  [state EXCEPT !.minted[f.kind] = n, !.taken = @ \cup {Len(state.tracks) + 1},
                    !.tracks = Append(@, [name |-> <<f.kind, n>>, kind |-> f.kind, at |-> Where(f),
                                          missed |-> 0, first |-> f.of, of |-> f.of])]
SecondPass(state, f) ==
  LET S == Reachable(state, f, Gate)
  IN  IF S = {} THEN MintName(state, f) ELSE TakeTrack(state, f, NearestTrack(state, f, S))
Missed(t, i, taken) == IF i \in taken THEN t ELSE [t EXCEPT !.missed = @ + 1]
Tracked(found) ==
  LET one == FoldLeft(FirstPass, [tracks |-> tracks, minted |-> minted, old |-> Len(tracks),
                                  taken |-> {}, pending |-> <<>>], found)
      two == FoldLeft(SecondPass, one, one.pending)
  IN  [tracks |-> SelectSeq([i \in DOMAIN two.tracks |-> Missed(two.tracks[i], i, two.taken)],
                            LAMBDA t : t.missed <= MaxMisses),
       minted |-> two.minted]

(* FrameObserver.observe: only what was seen in this frame is reported.      *)
Visible(ts) == SelectSeq(ts, LAMBDA t : t.missed = 0)
Observed(ts) ==
  [seen |-> {[name |-> t.name, zone |-> ZoneOf[t.at], target |-> HomeOf[t.kind]] : t \in ToSet(Visible(ts))},
   clear |-> \A t \in ToSet(Visible(ts)) : ZoneOf[t.at] = HomeOf[t.kind]]

------------------------------------------------------------------------------
(* Things move a little, keeping clear of others of their class; each camera *)
(* sees some of them; and the frame is taken through all stages.             *)
Settled(p) == \A o, q \in OnTable : (o # q /\ ItemKind[o] = ItemKind[q]) => Gap(p[o], p[q]) >= KeptApart
Moves == {p \in [OnTable -> Cells] :
            Settled(p) /\ \A o \in OnTable : Gap(p[o], place[o]) <= Stride}
LookAround ==
  /\ frames < MaxFrames /\ frames' = frames + 1
  /\ \E p \in Moves, sights \in [DOMAIN Views -> SUBSET OnTable], ghosts \in SUBSET Ghosts :
       LET hits == FlattenSeq([v \in DOMAIN Views |-> Detected(Raw(v, p, sights[v], ghosts))])
           next == Tracked(Fused(hits))
       IN  /\ place' = p
           /\ tracks' = next.tracks /\ minted' = next.minted
           /\ report' = Observed(next.tracks)

CameraInit ==
  /\ place \in {p \in [OnTable -> Cells] : Settled(p)}
  /\ tracks = <<>> /\ minted = [k \in DOMAIN HomeOf |-> 0]
  /\ report = [seen |-> {}, clear |-> TRUE] /\ frames = 0
CameraNext == LookAround
CameraSpec == CameraInit /\ [][CameraNext]_camera

(* ------------------------------- properties ------------------------------ *)

(* A name stays with its thing: while things of a class keep clear of each   *)
(* other, however they come into and out of sight of whichever cameras, and  *)
(* whatever one camera unsurely takes for a thing, no name passes from one   *)
(* thing to another, two visible names are never one thing's, and no name is *)
(* given twice or to nothing (Tracker, MultiCameraFusion).                   *)
Really(of) == of \ {"ghost"}
NamesStay ==
  /\ \A i \in DOMAIN tracks : /\ Really(tracks[i].of) = Really(tracks[i].first)
                              /\ Cardinality(Really(tracks[i].of)) = 1
  /\ \A i, j \in DOMAIN tracks : i # j =>
       /\ tracks[i].name # tracks[j].name
       /\ tracks[i].missed = 0 /\ tracks[j].missed = 0 => tracks[i].of # tracks[j].of
==============================================================================
