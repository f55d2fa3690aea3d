------------------------------ MODULE Ontology -------------------------------
(* The ontology (ontology.py): claims of several detectors, reconciled into  *)
(* entities with votes, ids and a memory, and the conflict between a human   *)
(* and an arm.  Positions are cells of a line: boxes at distance 0 overlap   *)
(* strongly, at 1 weakly, at 2 their centres are within the gate, beyond it  *)
(* they are unrelated.  Confidence is counted in hundredths.                 *)
EXTENDS Naturals, Sequences, FiniteSets
LOCAL INSTANCE SequencesExt

CONSTANTS Kind,         \* label -> canonical type (the IS-A hierarchy)
          ArmLabels,    \* the labels of arms
          ZoneAt,       \* cell -> zone
          MaxMissed,    \* frames an entity outlives its last claim
          Unnamed       \* a claim without the world's own id

ASSUME OntologyAssumption == MaxMissed \in Nat

NoOntology == [entities |-> <<>>, minted |-> {}, conflict |-> FALSE]

Distance(a, b) == IF a > b THEN a - b ELSE b - a

(* ------------------------------ one entity ------------------------------- *)

Tally(votes, Counts(_)) == FoldLeft(LAMBDA n, v : IF Counts(v.label) THEN n + v.sum ELSE n, 0, votes)
Bucket(votes, kind) == Tally(votes, LAMBDA label : Kind[label] = kind)
FirstBest(indices, Worth(_)) ==
  CHOOSE i \in indices : \A j \in indices :
    Worth(j) < Worth(i) \/ (Worth(j) = Worth(i) /\ i <= j)

Winner(votes) ==
  Kind[votes[FirstBest(DOMAIN votes, LAMBDA i : Bucket(votes, Kind[votes[i].label]))].label]
LabelOf(votes) ==
  votes[FirstBest({i \in DOMAIN votes : Kind[votes[i].label] = Winner(votes)},
                  LAMBDA i : votes[i].sum)].label

Voted(votes, label, confidence) ==
  IF \E i \in DOMAIN votes : votes[i].label = label
  THEN [i \in DOMAIN votes |-> IF votes[i].label = label
                               THEN [votes[i] EXCEPT !.sum = @ + confidence] ELSE votes[i]]
  ELSE Append(votes, [label |-> label, sum |-> confidence])

KindOf(e) == Winner(e.votes)

(* --------------------------------- ingest -------------------------------- *)

(* _associate: the best overlap, a strong one whatever the type; else the    *)
(* nearest centre of the same type.  The later of two equals wins.           *)
Match(o, c) ==
  LET free == {i \in DOMAIN o.entities : c.source \notin o.entities[i].sources}
      gap(i) == Distance(o.entities[i].cell, c.cell)
      alike(i) == KindOf(o.entities[i]) = Kind[c.label]
      overlapping == {i \in free : gap(i) = 0 \/ (gap(i) = 1 /\ alike(i))}
      near == {i \in free : alike(i) /\ gap(i) <= 2}
  IN  IF overlapping # {} THEN overlapping ELSE near

Nearest(o, c, candidates) ==
  CHOOSE i \in candidates : \A j \in candidates :
    LET g(k) == Distance(o.entities[k].cell, c.cell)
    IN  g(i) < g(j) \/ (g(i) = g(j) /\ j <= i)

Ids(o) == {o.entities[i].id : i \in DOMAIN o.entities}

(* _mint: the world's id when it is free, else the class and its count; an   *)
(* entity of that id is replaced.                                            *)
Enter(o, c, id, frame) ==
  LET e == [id |-> id, votes |-> <<[label |-> c.label, sum |-> c.confidence]>>, cell |-> c.cell, zone |-> c.zone,
            sources |-> {c.source}, missed |-> 0, since |-> frame]
  IN  [o EXCEPT !.entities =
         IF id \in Ids(o)
         THEN [i \in DOMAIN @ |-> IF @[i].id # id THEN @[i]
                                  ELSE [e EXCEPT !.sources = @ \cup o.entities[i].sources]]
         ELSE Append(@, e)]

NextId(o, kind) == <<kind, Cardinality({id \in o.minted : id[1] = kind}) + 1>>

Mint(o, c, frame) ==
  LET id == NextId(o, Kind[c.label])
  IN  IF c.name # Unnamed /\ c.name \notin Ids(o) THEN Enter(o, c, c.name, frame)
      ELSE Enter([o EXCEPT !.minted = @ \cup {id}], c, id, frame)

Fuse(o, i, c) ==
  [o EXCEPT !.entities[i].cell = c.cell, !.entities[i].zone = c.zone, !.entities[i].missed = 0,
            !.entities[i].sources = @ \cup {c.source},
            !.entities[i].votes = Voted(@, c.label, c.confidence)]

Take(o, c, frame) ==
  IF Match(o, c) = {} THEN Mint(o, c, frame) ELSE Fuse(o, Nearest(o, c, Match(o, c)), c)

(* _workspace_delta over the rules' relations: a human in an arm's zone or   *)
(* overlapping it; near it only if the human is the older entity of the two. *)
ArmIn(e) == LabelOf(e.votes) \in ArmLabels
Intrudes(o) == \E i, j \in DOMAIN o.entities :
  LET h == o.entities[i]
      a == o.entities[j]
  IN  /\ h.missed = 0 /\ a.missed = 0
      /\ KindOf(h) = "human" /\ ArmIn(a)
      /\ \/ h.zone = a.zone
         \/ Distance(h.cell, a.cell) <= 1
         \/ Distance(h.cell, a.cell) = 2 /\ i < j

(* ingest: claims by falling confidence; then those not claimed age, and are *)
(* dropped when they have been missed too long; then the workspace is judged.*)
Reconciled(o, claims, frame) ==
  LET cleared == [o EXCEPT !.entities = [i \in DOMAIN o.entities |->
                    [o.entities[i] EXCEPT !.sources = {}, !.missed = @ + 1]]]
      taken == FoldLeft(LAMBDA s, c : Take(s, c, frame), cleared, claims)
  IN  [taken EXCEPT !.entities = SelectSeq(@, LAMBDA e : e.missed <= MaxMissed)]
Judged(o) == [entities |-> o.entities, minted |-> o.minted, conflict |-> Intrudes(o)]
Ingest(o, claims, frame) == Judged(Reconciled(o, claims, frame))
==============================================================================
