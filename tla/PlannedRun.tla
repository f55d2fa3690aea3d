----------------------------- MODULE PlannedRun -----------------------------
(***************************************************************************)
(* A run of the engine over graphs that were advised by a model or         *)
(* rewritten as an operator asked: compile, walk, and compile again when a *)
(* step is refused or fails, until the revisions are used up.              *)
(***************************************************************************)
EXTENDS OmniPlanner

CONSTANTS
  Texts,          \* what the model may write: sequences of lines
  Begins,         \* where the objects may lie at first
  PlannedBudget,  \* max_revisions
  Mutations,      \* what the operator may ask for
  MaxSaid,        \* bound: how often
  Repeats         \* an object may be named in more than one request

VARIABLES
  planner,    \* how the engine was put together
  complete,   \* complete_with_fallback
  said,       \* RewritingPlanner._mutations
  spot, holder,
  graph,
  advised,    \* the graph is the model's
  executed, revisions,
  progress       \* "compile", "run", "done", "hold" or "raised"
planned == <<planner, complete, said, spot, holder, graph, advised, executed,
             revisions, progress>>

Planners == {"omni", "fenced", "rewriting"}
PlannedInit ==
  /\ planner \in Planners /\ complete \in BOOLEAN /\ (complete => planner # "rewriting")
  /\ said = <<>>
  /\ spot \in Begins /\ holder = [o \in Things |-> Nobody]
  /\ graph = {} /\ advised = FALSE /\ executed = {} /\ revisions = 0 /\ progress = "compile"

-----------------------------------------------------------------------------
Concerned(m) == IF m.kind = "spin_on_place" THEN {o \in Things : ClassOf[o] = m.what} ELSE {m.what}
(* RuntimeMutator: what the manipulator can do is kept for every later plan. *)
Say == \E m \in Mutations :
  /\ planner = "rewriting" /\ progress \in {"compile", "run"} /\ Len(said) < MaxSaid
  /\ Repeats \/ \A i \in DOMAIN said : Concerned(said[i]) \cap Concerned(m) = {}
  /\ (IF m.kind = "nudge" THEN "NUDGE" ELSE "SPIN") \in CanRun
  /\ said' = Append(said, m)
  /\ UNCHANGED <<planner, complete, spot, holder, graph, advised, executed, revisions, progress>>

Adopt(g, byModel) ==
  /\ graph' = g /\ advised' = byModel /\ executed' = {} /\ progress' = "run"
  /\ UNCHANGED <<planner, complete, said, spot, holder, revisions>>

(* OmniPlanner.plan, replan: advice with at least one step that stands.      *)
TakeAdvice == \E text \in Texts :
  /\ progress = "compile" /\ planner # "rewriting"
  /\ planner = "fenced" => InFence(text)
  /\ Usable(text, spot, holder)
  /\ Adopt(Advised(text, complete, spot, holder), TRUE)

(* The reasoner is unavailable, or nothing it wrote stands.                  *)
FallBack ==
  /\ progress = "compile" /\ planner # "rewriting"
  /\ Adopt(RuleGraph(spot, holder), FALSE)

Rewrite ==
  /\ progress = "compile" /\ planner = "rewriting"
  /\ Adopt(Rewritten(RuleGraph(spot, holder), spot, holder, said), FALSE)

-----------------------------------------------------------------------------
ReadyStep(s) == s.id \notin executed /\ s.deps \subseteq executed

(* MockWorld.apply_transition, and one object in a gripper at a time.        *)
WorldTakes(s) ==
  CASE s.op = "PICK" -> holder[s.obj] = Nobody /\ \A o \in Things : holder[o] # s.arm
    [] s.op \in {"MOVE", "PLACE"} -> s.to # Nobody /\ holder[s.obj] \in {Nobody, s.arm}
    [] OTHER -> TRUE
Effect(s) ==
  CASE s.op = "PICK" -> holder' = [holder EXCEPT ![s.obj] = s.arm] /\ UNCHANGED spot
    [] s.op \in {"MOVE", "PLACE"} -> spot' = [spot EXCEPT ![s.obj] = s.to]
                                     /\ holder' = [holder EXCEPT ![s.obj] = Nobody]
    [] OTHER -> UNCHANGED <<spot, holder>>

StepDone == \E s \in graph :
  /\ progress = "run" /\ Walkable(graph) /\ ReadyStep(s) /\ WorldTakes(s)
  /\ s.op = "VERIFY" => spot = Goal
  /\ Effect(s) /\ executed' = executed \cup {s.id}
  /\ UNCHANGED <<planner, complete, said, graph, advised, revisions, progress>>

(* Unfit by the world, failed in the hand, or not verified.                *)
StepFailed == \E s \in graph :
  /\ progress = "run" /\ Walkable(graph) /\ ReadyStep(s)
  /\ s.op = "VERIFY" => spot # Goal
  /\ revisions' = revisions + 1
  /\ progress' = IF revisions + 1 > PlannedBudget THEN "hold" ELSE "compile"
  /\ executed' = {}
  /\ UNCHANGED <<planner, complete, said, spot, holder, graph, advised>>

(* Nothing is left to do; or topo_order raises, and run() with it.           *)
WalkEnds ==
  /\ progress = "run" /\ (Walkable(graph) => StepIds(graph) \subseteq executed)
  /\ progress' = IF Walkable(graph) THEN "done" ELSE "raised"
  /\ UNCHANGED <<planner, complete, said, spot, holder, graph, advised, executed, revisions>>

PlannedNext == Say \/ TakeAdvice \/ FallBack \/ Rewrite
               \/ StepDone \/ StepFailed \/ WalkEnds
PlannedSpec == PlannedInit /\ [][PlannedNext]_planned

-----------------------------------------------------------------------------
(* Whatever the model wrote and the operator asked for, the engine can list  *)
(* the graph it was given: a rewrite cannot break a run.                     *)
GraphWalks == progress = "run" => Walkable(graph)

(* In an advised graph, what is in a gripper is put down before that gripper *)
(* is asked to pick anything: the pick cannot be reached before the move.    *)
CannotPrecede(p, m) ==
  \A D \in SUBSET graph :
    (p \in D /\ \A s \in D : s.deps \subseteq StepIds(D)) => m \in D
HeldGoesFirst ==
  progress = "run" /\ advised /\ executed = {} =>
    \A p \in graph, m \in graph :
      p.op = "PICK" /\ m.op = "MOVE" /\ holder[m.obj] = p.arm => CannotPrecede(p, m)
=============================================================================
