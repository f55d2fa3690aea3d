------------------------------ MODULE TableRun ------------------------------
(***************************************************************************)
(* Setting the table: IntelTablePlanner's graphs, executed by the engine's *)
(* loop step by step or as pairs on both arms (_companion_step,            *)
(* _run_steps_parallel) in TableWorld, while an arm may be withdrawn by    *)
(* the operator or stop answering.                                         *)
(***************************************************************************)
EXTENDS TableWorld, SequencesExt

CONSTANTS
  Order,          \* _OBJECT_ORDER, a sequence of the objects
  DefaultArm,     \* which arm an object is planned for (_RIGHT_OBJECTS)
  Reach,          \* <<arm, object>> an arm can pick and place (_arm_can_reach)
  MaxDefer,       \* _MAX_ATTEMPTS_BEFORE_DEPRIORITIZE
  MaxRevisions,
  MayFail         \* arms that may stop answering

VARIABLES
  prefer,    \* value of the first prefer_arm constraint
  queued,    \* a prefer_arm constraint the engine has not applied yet
  counts,    \* _attempt_counts
  graph,     \* the steps, in topological order
  executed, revisions,
  pc,        \* "boundary", "moving", "done" or "hold"
  tried      \* history: objects some primitive has tried to pick

run  == <<prefer, queued, counts, graph, executed, revisions, pc, tried>>
vars == <<table, run>>

ASSUME TableAssumption ==
  /\ \E a, b \in Arms : a # b /\ Arms = {a, b}
  /\ None \notin Arms /\ None \notin Progress
  /\ IsFiniteSet(Objects) /\ IsFiniteSet(Drawers) /\ Objects \cap Drawers = {}
  /\ Bimanual \subseteq Objects
  /\ DefaultArm \in [Objects -> Arms] /\ DrawerArm \in [Drawers -> Arms]
  /\ Order \in Seq(Objects) /\ ToSet(Order) = Objects

Other(a) == CHOOSE b \in Arms : b # a

------------------------------------------------------------------------------
(* IntelTablePlanner.plan.                                                   *)
Misplaced == {o \in Objects : zone[o] # "goal"}
At(o) == CHOOSE i \in DOMAIN Order : Order[i] = o

Attempts(n) == IF n > 1 THEN n - 1 ELSE 0
(* sort_key: deferred last, one retry in place, two-arm objects first.       *)
Key(n, o) == <<IF n[o] > MaxDefer THEN 1 ELSE 0, Attempts(n[o]),
               IF o \in Bimanual THEN 0 ELSE 1, At(o)>>
Less(k, l) == \E i \in DOMAIN k : k[i] < l[i] /\ \A j \in 1..(i - 1) : k[j] = l[j]
Ahead(n, S, o) == {p \in S : Less(Key(n, p), Key(n, o))}
ByPriority(n, S) == [i \in 1..Cardinality(S) |->
                       CHOOSE o \in S : Cardinality(Ahead(n, S, o)) = i - 1]

(* The operator's choice of arm reassigns what the other arm was to do, or   *)
(* drops it: two-arm objects, what is out of reach, drawers really pulled.   *)
Withdrawn(arm, p) == p # None /\ arm # p
Planned(o, p) ==
  Withdrawn(DefaultArm[o], p) => o \notin Bimanual /\ <<p, o>> \in Reach
ArmFor(o, p) == IF Withdrawn(DefaultArm[o], p) THEN p ELSE DefaultArm[o]
OpenPlanned(d, p) == ~Withdrawn(DrawerArm[d], p) \/ ~RealDrawers
OpenArm(d, p) == IF Withdrawn(DrawerArm[d], p) THEN p ELSE DrawerArm[d]

Id(s) == <<s.op, s.obj>>
TStep(op, o, arm, deps) == [op |-> op, obj |-> o, arm |-> arm, deps |-> deps]

ToPick(o) == owner[o] = None
Needed(p) == {d \in Drawers : OpenPlanned(d, p) /\
                \E o \in Misplaced : DrawerOf[o] = d /\ ToPick(o) /\ Planned(o, p)}

StepsFor(o, p) ==
  LET pick == TStep("PICK", o, ArmFor(o, p),
                    IF DrawerOf[o] \in Needed(p) THEN {<<"OPEN", DrawerOf[o]>>} ELSE {})
      move == TStep("MOVE", o, ArmFor(o, p), IF ToPick(o) THEN {<<"PICK", o>>} ELSE {})
  IN IF ToPick(o) THEN <<pick, move>> ELSE <<move>>

Plan(n, p) ==
  LET objects == {o \in Misplaced : Planned(o, p)}
      opens   == SetToSeq({TStep("OPEN", d, OpenArm(d, p), {}) : d \in Needed(p)})
  IN opens
     \o FlattenSeq([i \in 1..Cardinality(objects) |-> StepsFor(ByPriority(n, objects)[i], p)])
     \o <<TStep("VERIFY", None, None, {<<"MOVE", o>> : o \in objects})>>

\* Mutant: every object of the graph counts as attempted.
CountAll(n) ==
  [o \in Objects |-> IF \E i \in DOMAIN graph : graph[i].op = "PICK" /\ graph[i].obj = o
                     THEN n[o] + 1 ELSE n[o]]
(* replan after a failure: the first PICK of the graph whose object is still *)
(* misplaced counts as the one that was attempted.                           *)
Counted(n) ==
  LET picks == {i \in DOMAIN graph : graph[i].op = "PICK" /\ graph[i].obj \in Misplaced}
      first == CHOOSE i \in picks : \A j \in picks : i <= j
  IN IF picks = {} THEN n ELSE [n EXCEPT ![graph[first].obj] = @ + 1]

------------------------------------------------------------------------------
(* The engine.                                                               *)
Ready(s) == Id(s) \notin executed /\ s.deps \subseteq executed
NextStep == LET ready == {i \in DOMAIN graph : Ready(graph[i])}
            IN graph[CHOOSE i \in ready : \A j \in ready : i <= j]

Graspable(s) == s.op \in {"PICK", "MOVE", "OPEN"}
(* May a step share its transition at all: no two-arm step is pending.       *)
MayPair(s) ==
  /\ Graspable(s) /\ s.obj \notin Bimanual
  /\ \A i \in DOMAIN graph : graph[i].obj \in Bimanual => Id(graph[i]) \in executed

Companions(s) ==
  {i \in DOMAIN graph :
     /\ MayPair(s) /\ Graspable(graph[i]) /\ graph[i].obj \notin Bimanual
     /\ Ready(graph[i]) /\ graph[i].arm # s.arm /\ graph[i].obj # s.obj}

(* _recompile after a failure, unless the revisions are used up.             *)
Recompile ==
  /\ revisions' = revisions + 1
  /\ IF revisions + 1 > MaxRevisions
     THEN pc' = "hold" /\ UNCHANGED <<counts, graph, executed>>
     ELSE /\ counts' = Counted(counts)
          /\ graph' = Plan(Counted(counts), prefer)
          /\ executed' = {} /\ pc' = "boundary"

(* A prefer_arm constraint; only the first one ever counts.                  *)
ApplyConstraint ==
  /\ pc = "boundary" /\ queued # None
  /\ queued' = None
  /\ prefer' = IF prefer = None THEN queued ELSE prefer
  /\ graph' = Plan(counts, prefer') /\ executed' = {} /\ revisions' = revisions + 1
  /\ UNCHANGED <<table, counts, pc, tried>>

AtBoundary == pc = "boundary" /\ queued = None
SomeReady == \E i \in DOMAIN graph : Ready(graph[i])

Finish1 ==
  /\ AtBoundary /\ ~SomeReady
  /\ pc' = "done"
  /\ UNCHANGED <<table, prefer, queued, counts, graph, executed, revisions, tried>>

Verify ==
  /\ AtBoundary /\ SomeReady /\ NextStep.op = "VERIFY"
  /\ IF Misplaced = {} THEN /\ executed' = executed \cup {Id(NextStep)}
                            /\ UNCHANGED <<counts, graph, revisions, pc>>
     ELSE Recompile
  /\ UNCHANGED <<table, prefer, queued, tried>>

Begun(S) == /\ executed' = executed \cup {Id(s) : s \in S}
            /\ tried' = tried \cup {s.obj : s \in {t \in S : t.op = "PICK"}}
            /\ pc' = "moving"
            /\ UNCHANGED <<prefer, queued, counts, graph, revisions>>

ExecuteOne ==
  /\ AtBoundary /\ SomeReady /\ Graspable(NextStep) /\ Companions(NextStep) = {}
  /\ BeginOne(NextStep) /\ Begun({NextStep})

(* The world refuses the request: rejected, or the gripper is full.          *)
Reject ==
  /\ AtBoundary /\ SomeReady /\ Graspable(NextStep) /\ Companions(NextStep) = {}
  /\ ~Accepts(NextStep) \/ Refused(NextStep)
  /\ Recompile
  /\ UNCHANGED <<table, prefer, queued, tried>>

ExecutePair ==
  /\ AtBoundary /\ SomeReady /\ Companions(NextStep) # {}
  /\ LET other == CHOOSE i \in Companions(NextStep) : \A j \in Companions(NextStep) : i <= j
     IN BeginPair(NextStep, graph[other]) /\ Begun({NextStep, graph[other]})

Move ==
  /\ pc = "moving" /\ Primitives /\ UNCHANGED run

(* The transition is over; a failed one recompiles on what the world claims. *)
Over ==
  /\ pc = "moving"
  /\ (ConcludeOne \/ ConcludePair)
  /\ IF Succeeded THEN pc' = "boundary" /\ UNCHANGED <<counts, graph, executed, revisions>>
     ELSE pc' = "failed" /\ UNCHANGED <<counts, graph, executed, revisions>>
  /\ UNCHANGED <<prefer, queued, tried>>

Failed ==
  /\ pc = "failed" /\ Recompile
  /\ UNCHANGED <<table, prefer, queued, tried>>

(* An operator withdraws an arm at any time, or one stops answering between  *)
(* two transitions and is withdrawn by the fault handler.                    *)
Withdraw(a) ==
  /\ pc \notin {"done", "hold"} /\ queued = None /\ prefer = None
  /\ queued' = Other(a)
  /\ UNCHANGED <<table, prefer, counts, graph, executed, revisions, pc, tried>>

ArmStops(a) ==
  /\ pc = "boundary" /\ frozen = {} /\ queued = None /\ prefer = None /\ a \in MayFail
  /\ FailArm(a)
  /\ queued' = Other(a)
  /\ UNCHANGED <<prefer, counts, graph, executed, revisions, pc, tried>>

Init ==
  /\ TableInit
  /\ prefer = None /\ queued = None /\ counts = [o \in Objects |-> 0]
  /\ graph = Plan(counts, None) /\ executed = {} /\ revisions = 0
  /\ pc = "boundary" /\ tried = {}

Next ==
       \/ ApplyConstraint \/ Finish1 \/ Verify \/ ExecuteOne \/ Reject \/ ExecutePair
        \/ Move \/ Over \/ Failed
        \/ \E a \in Arms : Withdraw(a) \/ ArmStops(a)

Engine == \/ ApplyConstraint \/ Finish1 \/ Verify \/ ExecuteOne \/ Reject \/ ExecutePair
          \/ Over \/ Failed
Spec == Init /\ [][Next]_vars /\ WF_vars(Engine) /\ WF_vars(Move)

------------------------------------------------------------------------------
(* Whatever the table world claims between two transitions is so: an object  *)
(* it says an arm holds is between that arm's jaws, a two-arm object between *)
(* both arms' (drawers written open, as they are by default; as long as no   *)
(* arm is withdrawn that a two-arm step would use all the same).             *)
GripMatchesClaim ==
  AtRest => \A o \in Objects, a \in Arms : owner[o] = a =>
    /\ (\A p \in Bimanual : prefer # DefaultArm[p]) => o \in jaws[a]
    /\ (o \in Bimanual /\ prefer = None) => \A b \in Arms : o \in jaws[b]

(* A physics step is made only when every arm under way asked for one: never *)
(* while a partner's primitive is between two steps (_CoopStepper).          *)
StepWaitsForAll == bar.left = {}

(* Objects that cannot be grasped do not keep the others from being tried:   *)
(* when the run is given up, every planned object has had its attempt.       *)
EveryoneTried ==
  (pc = "hold" /\ prefer = None) => tried = Objects

TableRunEnds == <>(pc \in {"done", "hold"})

Pinches(a) == prim[a] # None /\ prim[a].req.op = "PICK" /\ prim[a].req.obj \in Bimanual

(* An arm the operator has withdrawn is not used silently                    *)
(* (intel_sim.py:3694): the two-arm pick has it move as well.                *)
NeverBothOnceWithdrawn == prefer # None => \A a \in Arms : ~Pinches(a)
=============================================================================
