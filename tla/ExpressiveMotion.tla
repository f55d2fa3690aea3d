--------------------------- MODULE ExpressiveMotion ---------------------------
(* Bounded free motion beside the task: the window an operator grants        *)
(* (omni_q.expressive), what is proposed inside it, ScheduledPlanner putting *)
(* the proposals into idle waves, and the engine and the world judging them  *)
(* once more when their turn comes.                                          *)
EXTENDS Integers, FiniteSets, Sequences

CONSTANTS
  Asked,        \* windows asked for, well formed or not
  Coordinated, Touching, \* primitives that take two arms, or touch something
  Known,        \* EXPRESSIVE_PRIMITIVES
  Safe,         \* regions whose name begins with safe_
  Work,         \* the task: sequences of waves, each the set of arms that work in it
  Requests,     \* expressive requests sent to the world by somebody else
  Longest, ProviderLongest, \* durations: of a proposal, of what a world performs
  MaxExpressive, MaxOutside, \* bounds: max_revisions, disturbances
  NoWindow      \* no window, nothing drawn, no step in hand

(* What is asked for names no arm twice: tuple(dict.fromkeys(...)).          *)
ASSUME ExpressiveAssumption ==
  /\ Coordinated \cap Touching = {} /\ Longest \in 1..ProviderLongest
  /\ NoWindow \notin Asked
  /\ \A w \in Asked :
       /\ w.base \in Nat /\ w.arms \in Seq(STRING)
       /\ \A i, j \in DOMAIN w.arms : w.arms[i] = w.arms[j] => i = j
  /\ Work \subseteq Seq(SUBSET {"left", "right", "none"}) /\ MaxExpressive \in Nat

VARIABLES
  window,       \* of the planner, or NoWindow
  draw,         \* what its seeded generator draws for the first two arms
  chores,       \* the waves of the task: per wave, the arms that still work in it
  chart,        \* the graph: its task and expressive steps
  taken,        \* those that were executed
  inHand,       \* the step that is being executed
  worldAt,      \* revision of the world
  seenAt,       \* revision the step in hand was authorized at
  express,      \* compile, loop, act or over
  failures,     \* revisions of the run
  lost,         \* those that an expressive step caused
  outside       \* disturbances so far
expressive == <<window, draw, chores, chart, taken, inHand, worldAt, seenAt, express, failures, lost,
                outside>>

(* ExpressiveWindow.__post_init__                                            *)
ArmsOf(w) == {w.arms[i] : i \in DOMAIN w.arms}
ReturnBy(w) == IF w.returnBy = NoWindow THEN w.deadline - w.margin ELSE w.returnBy
WellFormed(w) ==
  /\ w.deadline > w.start /\ ReturnBy(w) \in w.start..w.deadline
  /\ w.arms # <<>> /\ ArmsOf(w) \subseteq {"left", "right"}
  /\ w.regions # <<>> /\ w.primitives # {} /\ w.primitives \subseteq Known
  /\ w.touch >= 0

(* validate_proposal                                                         *)
Permits(w, p) ==
  /\ p.arm \in ArmsOf(w) /\ p.primitive \in w.primitives
  /\ \E i \in DOMAIN w.regions : p.region = w.regions[i]
  /\ p.duration >= 1 /\ p.start >= w.start /\ p.start + p.duration <= ReturnBy(w)
  /\ p.primitive \in Touching => p.duration <= w.touch

(* generate_expression_plan: with two arms and a coordinated primitive, a    *)
(* group of both; else one proposal per arm, none of which touches.  Which   *)
(* primitives the seed draws from their pool is left open.                   *)
Paired(w) == Len(w.arms) >= 2 /\ w.together /\ w.primitives \cap Coordinated # {}
Pool(w) == IF Paired(w) THEN w.primitives \cap Coordinated ELSE w.primitives \ Touching
Draws(w) == IF w = NoWindow \/ Pool(w) = {} THEN {NoWindow} ELSE [1..2 -> Pool(w)]
Proposal(w, i, primitive, group) ==
  [arm |-> w.arms[i], primitive |-> primitive, region |-> Head(w.regions), start |-> w.start,
   duration |-> IF ReturnBy(w) - w.start < Longest THEN ReturnBy(w) - w.start ELSE Longest,
   group |-> group]
Other(primitive) ==
  CASE primitive = "LEAD" -> "FOLLOW" [] primitive = "FOLLOW" -> "LEAD" [] OTHER -> primitive
Gestures(w) ==
  IF ReturnBy(w) = w.start THEN {}
  ELSE IF Paired(w) THEN {Proposal(w, 1, draw[1], 0), Proposal(w, 2, Other(draw[1]), 0)}
  ELSE {Proposal(w, i, draw[i], i) : i \in {j \in DOMAIN w.arms : j <= Cardinality(Pool(w))}}

(* It raises at another revision than the window's, and where the partner of *)
(* a LEAD or FOLLOW is not permitted.                                        *)
\* Mutant: the window is taken for any revision.
GeneratesAtAny(w) == \A p \in Gestures(w) : Permits(w, p)
Generates(w) == worldAt = w.base /\ \A p \in Gestures(w) : Permits(w, p)

(* _place_expression_plan: a group goes into the first wave that is not done *)
(* yet, in which every step has an arm and all its own are idle, or is       *)
(* dropped.                                                                  *)
GroupArms(plan, g) == {p.arm : p \in {q \in plan : q.group = g}}
IdleFor(waves, arms) ==
  {i \in DOMAIN waves : waves[i] # {} /\ "none" \notin waves[i] /\ waves[i] \cap arms = {}}
IsSlot(waves, plan, g, i) ==
  LET idle == IdleFor(waves, GroupArms(plan, g))
  IN  i \in idle /\ \A j \in idle : i <= j

(* annotate(execute_expression=True): each proposal becomes a step of its    *)
(* wave, and no step waits for it.                                           *)
TaskStep(i, arm) == [kind |-> "task", wave |-> i, arm |-> arm]
ExpressStep(i, p) == [kind |-> "express", wave |-> i, arm |-> p.arm, proposal |-> p]
TaskSteps(waves) == UNION {{TaskStep(i, arm) : arm \in waves[i]} : i \in DOMAIN waves}
Extras(waves, plan) ==
  {s \in {ExpressStep(i, p) : i \in DOMAIN waves, p \in plan} :
     IsSlot(waves, plan, s.proposal.group, s.wave)}
ChartOf(waves, plan) == TaskSteps(waves) \cup Extras(waves, plan)

(* ScheduledPlanner._apply: if scheduling raises, the graph as it is.        *)
Scheduled(waves) ==
  ChartOf(waves, IF window # NoWindow /\ Generates(window) THEN Gestures(window) ELSE {})
------------------------------------------------------------------------------
(* plan and replan, at the revision the world has then.                      *)
Compile ==
  /\ express = "compile" /\ express' = "loop"
  /\ chart' = Scheduled(chores) /\ taken' = {}
  /\ UNCHANGED <<window, draw, chores, inHand, worldAt, seenAt, failures, lost, outside>>

(* Waves go one after the other, and in a wave what was generated comes      *)
(* after its last step of the task; in which order arms do is left open.     *)
Waiting == chart \ taken
InTurn(s) ==
  s \in Waiting /\ \A u \in Waiting :
    s.wave < u.wave \/ (s.wave = u.wave /\ (s.kind = "express" => u.kind = "express"))

(* A denied or failed step is one more revision, or the end; what is left of *)
(* the task is planned again.                                                *)
Failed(s) ==
  /\ failures' = failures + 1
  /\ lost' = IF s.kind = "express" THEN lost + 1 ELSE lost
  /\ express' = IF failures + 1 > MaxExpressive THEN "over" ELSE "compile"
  /\ inHand' = NoWindow
  /\ UNCHANGED <<chores, chart, taken>>

(* _authorize: an expressive step must be of this window, at this revision.  *)
Allowed(s) ==
  s.kind = "express" => /\ window # NoWindow /\ worldAt = window.base
                        /\ Permits(window, s.proposal)
TakeTurn ==
  /\ express = "loop"
  /\ \E s \in chart :
       /\ InTurn(s)
       /\ IF Allowed(s)
          THEN /\ express' = "act" /\ seenAt' = worldAt /\ inHand' = s
               /\ UNCHANGED <<chores, chart, taken, failures, lost>>
          ELSE Failed(s) /\ UNCHANGED seenAt
  /\ UNCHANGED <<window, draw, worldAt, outside>>

(* apply_transition: refused if the world has moved on since; else done, or  *)
(* failed before or after the world has changed.  A check changes nothing.   *)
Succeed ==
  /\ express = "act" /\ seenAt = worldAt /\ express' = "loop"
  /\ chores' = IF inHand.kind = "task" THEN [chores EXCEPT ![inHand.wave] = @ \ {inHand.arm}] ELSE chores
  /\ worldAt' = IF inHand.arm = "none" THEN worldAt ELSE worldAt + 1
  /\ taken' = taken \cup {inHand} /\ inHand' = NoWindow
  /\ UNCHANGED <<window, draw, chart, seenAt, failures, lost, outside>>
Miss ==
  /\ express = "act" /\ Failed(inHand)
  /\ worldAt' \in IF seenAt = worldAt THEN {worldAt, worldAt + 1} ELSE {worldAt}
  /\ UNCHANGED <<window, draw, seenAt, outside>>

Finish ==
  /\ express = "loop" /\ Waiting = {} /\ express' = "over"
  /\ UNCHANGED <<window, draw, chores, chart, taken, inHand, worldAt, seenAt, failures, lost, outside>>

(* Somebody else asks the world for a motion, or something is moved.  The    *)
(* world judges a motion by its own rules (validate_expressive_command).     *)
Acceptable(p) ==
  /\ p.primitive \in Known \ Touching /\ p.region \in Safe
  /\ p.duration \in 1..ProviderLongest
Disturb ==
  /\ express \in {"loop", "act"} /\ outside < MaxOutside /\ outside' = outside + 1
  /\ \E p \in Requests \cup {NoWindow} :
       worldAt' = IF p = NoWindow \/ Acceptable(p) THEN worldAt + 1 ELSE worldAt
  /\ UNCHANGED <<window, draw, chores, chart, taken, inHand, seenAt, express, failures, lost>>

(* A fleet fault, at the top of the loop: replan_strict does without no      *)
(* schedule, and the run holds.                                              *)
FleetFault ==
  /\ express = "loop" /\ outside < MaxOutside /\ outside' = outside + 1
  /\ failures' = failures + 1 /\ taken' = {}
  /\ IF window = NoWindow \/ Generates(window)
     THEN chart' = Scheduled(chores) /\ UNCHANGED express
     ELSE express' = "over" /\ chart' = {}
  /\ UNCHANGED <<window, draw, chores, inHand, worldAt, seenAt, lost>>

ExpressiveInit ==
  /\ window \in {w \in Asked : WellFormed(w)} \cup {NoWindow} /\ draw \in Draws(window)
  /\ chores \in Work /\ chart = {} /\ taken = {} /\ inHand = NoWindow
  /\ worldAt = 1 /\ seenAt = 0 /\ express = "compile" /\ failures = 0 /\ lost = 0 /\ outside = 0
ExpressiveNext ==
  Compile \/ TakeTurn \/ Succeed \/ Miss \/ Finish \/ Disturb \/ FleetFault
ExpressiveSpec == ExpressiveInit /\ [][ExpressiveNext]_expressive

(* ------------------------------- properties ------------------------------ *)

(* Free motion stays beside the task: whatever is granted, drawn, moved or   *)
(* asked of the world meanwhile, it costs a run at the most one graph, no    *)
(* proposal of a graph leaves its window, and no arm is proposed to that     *)
(* works in the same wave (expressive.py, ScheduledPlanner).                 *)
BesideTheTask ==
  /\ lost <= 1
  /\ \A s \in chart : s.kind = "express" =>
       /\ Permits(window, s.proposal)
       /\ \A u \in chart : u # s /\ u.wave = s.wave => u.arm \notin {s.arm, "none"}
==============================================================================
