------------------------------- MODULE Reactor -------------------------------
(* A person reaches into the workspace while the engine carries one object   *)
(* to its place: the detectors' claims, the ontology, the reactive observer  *)
(* and planner (reactor.py) around the engine's loop (engine.py) and the     *)
(* rule planner's graph.  The arm and the object are claimed where they are. *)
EXTENDS Ontology

CONSTANTS HandCells,     \* where a hand may be
          ArmCell, ObjectCell,
          ObjectName,    \* the world's id of the object
          Labels,        \* what a second specialist may call it
          From, To,      \* the zone the object is in and belongs to
          ReactorBudget, \* the engine's max_revisions
          MaxSights,     \* bound on observations
          EngineGiven    \* the observer was given the engine

ASSUME ReactorAssumption ==
  /\ {ArmCell, ObjectCell} \cup HandCells \subseteq DOMAIN ZoneAt
  /\ ReactorBudget \in Nat /\ MaxSights \in Nat /\ EngineGiven \in BOOLEAN

VARIABLES
  hand,    \* the cell a hand is in, if any: a set
  object,  \* the object in the world: waiting, held or placed
  onto,    \* the ontology
  sights,  \* how many observations were made
  blocked, \* ReactiveObserver.blocked
  queued,  \* constraints in the engine's queue
  todo,    \* what is left of the graph, the step in hand included
  budget,  \* the engine's revisions
  turn     \* the engine: start, loop, check, over
reactor == <<hand, object, onto, sights, blocked, queued, todo, budget, turn>>

(* ------------------------------- observation ----------------------------- *)

ZoneOfObject == IF object = "placed" THEN To ELSE From

(* One claim of each specialist, by falling confidence; all but the robot's  *)
(* own may miss.                                                             *)
Seen(claim) == {<<>>, <<claim>>}
Claims ==
  LET says(source, label, cell, zone, name, confidence) ==
        [source |-> source, label |-> label, cell |-> cell, zone |-> zone, name |-> name,
         confidence |-> confidence]
      robot == {<<says("robot", "left_arm", ArmCell, ZoneAt[ArmCell], Unnamed, 99)>>}
      objects == Seen(says("objects", "cup", ObjectCell, ZoneOfObject, ObjectName, 90))
      humans == {<<>>} \cup UNION {Seen(says("human", "hand", h, ZoneAt[h], Unnamed, 86)) : h \in hand}
      tools == UNION {Seen(says("tools", l, ObjectCell, ZoneAt[ObjectCell], Unnamed, 61)) : l \in Labels}
  IN  {r \o o \o h \o t : r \in robot, o \in objects, h \in humans, t \in tools}

(* ReactiveObserver.observe: what changed is told to the engine, as a        *)
(* constraint.                                                               *)
\* Mutant: the engine is told of a RESUME only.
NudgeResume(conflict) == IF EngineGiven /\ blocked /\ ~conflict THEN 1 ELSE 0
Nudge(conflict) == IF EngineGiven /\ conflict # blocked THEN 1 ELSE 0

Look ==
  /\ sights < MaxSights
  /\ \E c \in Claims :
       LET o == Ingest(onto, c, sights + 1)
       IN  /\ onto' = o
           /\ blocked' = o.conflict
           /\ queued' = queued + Nudge(o.conflict)
  /\ sights' = sights + 1

(* ------------------------------ planner, engine -------------------------- *)

Plan(halted, it) ==
  IF halted THEN <<"STABILIZE", "VERIFY">>
  ELSE CASE it = "waiting" -> <<"PICK", "MOVE", "VERIFY">>
         [] it = "held"    -> <<"MOVE", "VERIFY">>
         [] it = "placed"  -> <<"VERIFY">>

BeginRun ==
  /\ turn = "start"
  /\ Look
  /\ todo' = Plan(blocked', object) /\ turn' = "loop"
  /\ UNCHANGED <<hand, object, budget>>

ApplyQueued ==
  /\ turn = "loop" /\ queued > 0
  /\ queued' = 0 /\ budget' = budget + 1
  /\ todo' = Plan(blocked, object)
  /\ UNCHANGED <<hand, object, onto, sights, blocked, turn>>

Dispatch ==
  /\ turn = "loop" /\ queued = 0 /\ todo # <<>>
  /\ object' = CASE Head(todo) = "PICK" -> "held" [] Head(todo) = "MOVE" -> "placed"
                 [] OTHER -> object
  /\ turn' = "check"
  /\ UNCHANGED <<hand, onto, sights, blocked, queued, todo, budget>>

(* FakeVerifier.check, on what the ontology remembers.                       *)
Remembered(o) == {o.entities[i] : i \in {j \in DOMAIN o.entities :
                    o.entities[j].id = ObjectName /\ KindOf(o.entities[j]) # "human"}}
Confirmed(op, o) ==
  CASE op = "PICK"   -> Remembered(o) # {}
    [] op = "MOVE"   -> \E e \in Remembered(o) : e.zone = To
    [] op = "VERIFY" -> \A e \in Remembered(o) : e.zone = To
    [] OTHER         -> TRUE

VerifyStep ==
  /\ turn = "check" /\ Look
  /\ IF \E o \in {onto'} : Confirmed(Head(todo), o)
     THEN todo' = Tail(todo) /\ turn' = "loop" /\ UNCHANGED budget
     ELSE /\ budget' = budget + 1
          /\ IF budget + 1 > ReactorBudget THEN turn' = "over" /\ UNCHANGED todo
             ELSE todo' = Plan(blocked', object) /\ turn' = "loop"
  /\ UNCHANGED <<hand, object>>

EndRun ==
  /\ turn = "loop" /\ queued = 0 /\ todo = <<>>
  /\ turn' = "over"
  /\ UNCHANGED <<hand, object, onto, sights, blocked, queued, todo, budget>>

HandMoves ==
  /\ turn # "over"
  /\ hand' \in {{}} \cup {{c} : c \in HandCells}
  /\ UNCHANGED <<object, onto, sights, blocked, queued, todo, budget, turn>>

ReactorInit ==
  /\ hand = {} /\ object = "waiting" /\ onto = NoOntology /\ sights = 0
  /\ blocked = FALSE /\ queued = 0 /\ todo = <<>> /\ budget = 0 /\ turn = "start"

ReactorNext == BeginRun \/ ApplyQueued \/ Dispatch \/ VerifyStep \/ EndRun \/ HandMoves
ReactorSpec == ReactorInit /\ [][ReactorNext]_reactor

(* ------------------------------- properties ------------------------------ *)

(* From the observation that shows a person near an arm to the one that      *)
(* shows the workspace clear, the object is neither picked nor moved.        *)
HeldForHuman == [][object' # object => ~onto.conflict]_reactor
==============================================================================
