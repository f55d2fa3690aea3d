---------------------------- MODULE GraphRewrite ----------------------------
(***************************************************************************)
(* Edits of a step graph (rewrite.py): a pick-and-place collapsed into a   *)
(* contact operation, and what an operator asks to spin or to nudge.  A    *)
(* graph is a set of steps with distinct names; of two steps of one name   *)
(* the later one stays, as in the dictionary _topo_ish builds.             *)
(***************************************************************************)
EXTENDS FiniteSets, SequencesExt

CONSTANTS
  Things,      \* the objects
  ThingOrder,  \* the objects, sorted by id
  ClassOf,     \* the class of each
  Surface,     \* pairs of zones one arm reaches without a lift
  CanRun,      \* what the manipulator supports
  Nobody

TerminalOps == {"MOVE", "PLACE", "SLIDE"}
GStep(name, op, o, arm, to, deps) ==
  [id |-> <<name, o>>, op |-> op, obj |-> o, arm |-> arm, to |-> to, deps |-> deps]

StepIds(g) == {s.id : s \in g}
Edit(g, new) == {s \in g : s.id # new.id} \cup {new}

(* Can topo_order list the graph: every dependency is there, and no steps    *)
(* wait for each other.                                                      *)
Walkable(g) ==
  /\ \A s \in g : s.deps \subseteq StepIds(g)
  /\ \A R \in SUBSET g \ {{}} : {s \in R : s.deps \cap StepIds(R) = {}} # {}

Reparent(g, old, new) ==
  {IF s.deps \cap old # {} THEN [s EXCEPT !.deps = (@ \ old) \cup {new}] ELSE s : s \in g}

Picks(g, o) == {s \in g : s.op = "PICK" /\ s.obj = o}
Terminals(g, o) == {s \in g : s.op \in TerminalOps /\ s.obj = o}

(* One step in the place of a PICK and its MOVE, which are looked up in the  *)
(* graph as it was before any edit.                                          *)
Collapse(g, before, o, name, op, to) ==
  LET pick    == CHOOSE s \in Picks(before, o) : TRUE
      move    == CHOOSE s \in Terminals(before, o) : TRUE
      removed == {pick.id, move.id}
      new     == GStep(name, op, o, Nobody, to, pick.deps \cup (move.deps \ removed))
  IN Edit(Reparent({s \in g : s.id \notin removed}, removed, new.id), new)

IsChain(g, o) == Picks(g, o) # {} /\ Terminals(g, o) # {}
Destination(g, o) == (CHOOSE s \in Terminals(g, o) : TRUE).to

(* optimize: objects nobody holds, by name.                                  *)
Cheaper(g, before, o, spot, holder) ==
  IF ~IsChain(before, o) \/ holder[o] # Nobody THEN g
  ELSE IF Destination(before, o) = spot[o] /\ "NUDGE" \in CanRun
       THEN Collapse(g, before, o, "nudge", "NUDGE", Nobody)
       ELSE IF <<spot[o], Destination(before, o)>> \in Surface /\ "SLIDE" \in CanRun
            THEN Collapse(g, before, o, "slide", "SLIDE", Destination(before, o))
            ELSE g

Optimize(g, spot, holder) ==
  FoldLeft(LAMBDA h, o : Cheaper(h, g, o, spot, holder), g, ThingOrder)

\* Mutant: the spin is put behind the move that waits for it.
SpinAfterMove(g, o) ==
  IF Terminals(g, o) = {} \/ <<"spin", o>> \in StepIds(g) THEN g
  ELSE LET move == CHOOSE s \in Terminals(g, o) : TRUE
       IN Edit(Edit(g, GStep("spin", "SPIN", o, Nobody, Nobody, {move.id})),
               [move EXCEPT !.deps = @ \cup {<<"spin", o>>}])
(* _spin: in the hand, just before the object is put down.                   *)
SpinObject(g, o) ==
  IF Terminals(g, o) = {} \/ <<"spin", o>> \in StepIds(g) THEN g
  ELSE LET move == CHOOSE s \in Terminals(g, o) : TRUE
       IN Edit(Edit(g, GStep("spin", "SPIN", o, Nobody, Nobody, move.deps)),
               [move EXCEPT !.deps = @ \cup {<<"spin", o>>}])

(* _nudge: instead of the chain, or on its own before the verification.      *)
NudgeObject(g, o) ==
  LET verify == {s \in g : s.op = "VERIFY"}
      waits  == UNION {s.deps : s \in verify}
  IN IF IsChain(g, o) THEN Collapse(g, g, o, "nudge", "NUDGE", Nobody)
     ELSE Edit({IF s \in verify THEN [s EXCEPT !.deps = @ \cup {<<"nudge", o>>}] ELSE s : s \in g},
               GStep("nudge", "NUDGE", o, Nobody, Nobody, waits))

(* apply_mutation: [kind, what], what an object or a class.                  *)
Mutate(g, m) ==
  CASE m.kind = "spin" /\ "SPIN" \in CanRun -> SpinObject(g, m.what)
    [] m.kind = "spin_on_place" /\ "SPIN" \in CanRun ->
         FoldLeft(SpinObject, g, SelectSeq(ThingOrder, LAMBDA o : ClassOf[o] = m.what))
    [] m.kind = "nudge" /\ "NUDGE" \in CanRun -> NudgeObject(g, m.what)
    [] OTHER -> g

(* RewritingPlanner._apply: on every plan, everything ever asked for.        *)
Rewritten(g, spot, holder, said) == FoldLeft(Mutate, Optimize(g, spot, holder), said)
=============================================================================
