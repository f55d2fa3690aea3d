----------------------------- MODULE MCScheduler -----------------------------
(* Two objects, each with a chain of its own kind, on a pair of arms or on a *)
(* fleet of three; and single graphs of what is hard to fit or to hold.      *)
EXTENDS Scheduler

CONSTANTS armL, armR, armE, cup, dish

MCZones == {"A", "B", "mid", "centre"}
MCX == [z \in MCZones |-> CASE z = "A" -> -25 [] z = "B" -> 25 [] z = "mid" -> 12 [] OTHER -> 0]

NewStep(id, op, obj, to, recv, arm, deps) ==
  [id |-> id, contract |-> IF op \in {"OBSERVE", "VERIFY"} THEN "other" ELSE "manipulate",
   op |-> op, obj |-> obj, to |-> to, recv |-> recv, arm |-> arm, deps |-> deps]

Look == <<None, 1>>

(* The chain of one object: what is done between picking and moving it.      *)
Kinds == {"move", "show", "pass", "turn", "slide", "resume"}
ChainFor(o, kind, zone, arm) ==
  LET at(k, op, to, deps) ==
        NewStep(<<o, k>>, op, o, to, IF op = "HANDOFF" THEN armR ELSE None, arm, deps)
      pick == at(1, "PICK", None, {Look})
  IN CASE kind = "move"  -> <<pick, at(2, "MOVE", zone, {<<o, 1>>})>>
       [] kind = "show"  -> <<pick, at(2, "PRESENT", None, {<<o, 1>>}), at(3, "MOVE", zone, {<<o, 1>>})>>
       [] kind = "pass"  -> <<pick, at(2, "HANDOFF", None, {<<o, 1>>}), at(3, "MOVE", zone, {<<o, 2>>})>>
       [] kind = "turn"  -> <<pick, at(2, "CO_ROTATE", None, {<<o, 1>>}), at(3, "MOVE", zone, {<<o, 2>>})>>
       [] kind = "slide" -> <<at(1, "SLIDE", zone, {Look})>>
       [] OTHER          -> <<at(1, "MOVE", zone, {Look})>>

NeededIds(steps) == {s.id : s \in {t \in ToSet(steps) : t.op # "PRESENT"}}

(* The last look waits for one of the objects only: the waves must do the    *)
(* rest.                                                                     *)
Graph(c1, c2) ==
  <<NewStep(Look, "OBSERVE", None, None, None, None, {})>> \o c1 \o c2
    \o <<NewStep(<<None, 2>>, "WAVE", None, None, None, None, {Look}),
         NewStep(<<None, 3>>, "VERIFY", None, None, None, None, NeededIds(c1))>>

(* The second pick can only be forced.                                       *)
Crossing ==
  << NewStep(<<cup, 1>>, "PICK", cup, None, None, armL, {}),
     NewStep(<<dish, 1>>, "PICK", dish, None, None, armL, {<<cup, 1>>}),
     NewStep(<<cup, 2>>, "MOVE", cup, "B", None, armL, {<<cup, 1>>, <<dish, 1>>}),
     NewStep(<<dish, 2>>, "MOVE", dish, "A", None, armL, {<<dish, 1>>, <<cup, 2>>}) >>

(* An object is handed to an arm that has another one in hand; one is picked *)
(* by an arm that had another all along; one is moved before it is picked,   *)
(* by an arm that has another in hand.                                       *)
Handed ==
  << NewStep(<<cup, 1>>, "PICK", cup, None, None, armL, {}),
     NewStep(<<dish, 1>>, "PICK", dish, None, None, armR, {}),
     NewStep(<<cup, 2>>, "HANDOFF", cup, None, armR, armL, {<<cup, 1>>}),
     NewStep(<<dish, 2>>, "MOVE", dish, "B", None, armR, {<<dish, 1>>}) >>
Kept ==
  << NewStep(<<dish, 1>>, "PICK", dish, None, None, armR, {}),
     NewStep(<<dish, 2>>, "MOVE", dish, "B", None, armR, {<<dish, 1>>}) >>
Untidy ==
  << NewStep(<<cup, 1>>, "PICK", cup, None, None, armL, {}),
     NewStep(<<dish, 2>>, "MOVE", dish, "mid", None, armL, {<<cup, 1>>}),
     NewStep(<<dish, 1>>, "PICK", dish, None, None, armL, {<<dish, 2>>}),
     NewStep(<<cup, 2>>, "MOVE", cup, "A", None, armL, {<<cup, 1>>, <<dish, 1>>}) >>

(* An object is put down only once the other arm has braced twice, and a     *)
(* second one could be picked in the meantime.                               *)
Braced ==
  << NewStep(<<cup, 1>>, "PICK", cup, None, None, armR, {}),
     NewStep(<<None, 1>>, "BRACE", None, "B", None, armL, {}),
     NewStep(<<None, 2>>, "BRACE", None, "B", None, armL, {<<None, 1>>}),
     NewStep(<<dish, 1>>, "PICK", dish, None, None, armR, {}),
     NewStep(<<dish, 2>>, "MOVE", dish, "A", None, armR, {<<dish, 1>>}),
     NewStep(<<cup, 2>>, "MOVE", cup, "A", None, armR, {<<cup, 1>>, <<None, 2>>}) >>

(* An arm puts down what it has while the other braces, and a look that only *)
(* waits for the other is followed by a second pick.  The wave of the        *)
(* flourish comes before the look.                                           *)
Shown ==
  << NewStep(<<cup, 1>>, "PICK", cup, None, None, armL, {}),
     NewStep(<<None, 1>>, "BRACE", None, "B", None, armR, {}),
     NewStep(<<cup, 2>>, "MOVE", cup, "A", None, armL, {<<cup, 1>>}),
     NewStep(<<None, 2>>, "BRACE", None, "B", None, armR, {<<None, 1>>}),
     NewStep(<<cup, 3>>, "PRESENT", cup, None, None, armL, {<<cup, 1>>}),
     NewStep(<<None, 3>>, "OBSERVE", None, None, None, None, {<<None, 2>>}),
     NewStep(<<dish, 1>>, "PICK", dish, None, None, armL, {<<None, 3>>}) >>

Three == [regions |-> [a \in Arms |-> IF a = armE THEN MCZones ELSE MCZones \ {"A"}],
          units |-> << <<armL, armR>>, <<armR, armE>> >>]

Job(graph, fleet, style, groups, held) ==
  [graph |-> graph, arms |-> IF fleet = None THEN <<armL, armR>> ELSE <<armL, armR, armE>>, fleet |-> fleet,
   zone |-> [o \in {cup, dish} |-> IF o = cup THEN "A" ELSE "mid"], prefer |-> IF style = "plain" THEN armR ELSE None,
   style |-> style, groups |-> groups, hands |-> [a \in Arms |-> IF a = armR THEN held ELSE {}]]

\* An empty plan stands for no plan at all.
NoJob == Job(<<>>, None, "plain", None, {})

MCJobs ==
  {Job(Graph(ChainFor(cup, k1, z1, a1), ChainFor(dish, k2, "B", None)), fleet, style[1], style[2],
       IF k1 = "resume" THEN {cup} ELSE {}) :
     k1 \in Kinds, k2 \in Kinds \ {"resume"}, z1 \in {"A", "centre"}, a1 \in {None, armR},
     fleet \in {None, Three},
     style \in {<<"plain", None>>, <<"dance", None>>, <<"freeze", None>>, <<"plain", <<{armL}, {armL, armR}>> >>}}
  \cup {NoJob, Job(Crossing, None, "plain", None, {}), Job(Braced, None, "plain", None, {}),
        Job(Shown, None, "plain", None, {}), Job(Handed, None, "plain", None, {}),
        Job(Kept, None, "plain", None, {cup}), Job(Untidy, None, "plain", None, {}),
        [Job(Crossing, None, "plain", None, {}) EXCEPT !.graph = ChainFor(dish, "turn", "B", None), !.arms = <<armL>>]}
==============================================================================
