------------------------------ MODULE Scheduler ------------------------------
(***************************************************************************)
(* omni_q.scheduler: a plan graph is compiled into waves, annotated, and   *)
(* then executed by an engine that only looks at dependencies.             *)
(*                                                                         *)
(* One behaviour is one call of schedule() and the execution of what it    *)
(* returned.  The loops of schedule() are loops here: a chain is given its *)
(* arm, a wave is filled, a flourish is fitted in, one at a time.  The     *)
(* list of Barrier remarks and the metrics are left out: nothing reads     *)
(* them back.  Any ready step may be executed next, alone or beside        *)
(* another, which is more than the engine's own choice.                    *)
(***************************************************************************)
EXTENDS Integers, FiniteSets, SequencesExt

CONSTANTS
  Arms,      \* all manipulators; a job schedules for a sequence of them
  Left,      \* the mounting side in the two-arm layout: {a : a is on the left}
  Zones, Center,
  X,         \* layout: signed distance of a zone from the centreline
  OverlapWidth,
  Jobs,      \* what schedule() may be called with
  None

GeneratedNames == {"idle", "express"} \X Nat \X Arms

(* A job names every step once, none like the steps the scheduler adds, and  *)
(* every arm once.                                                           *)
ASSUME SchedulerAssumption ==
  /\ X \in [Zones -> Int] /\ OverlapWidth \in Int /\ Center \in Zones /\ None \notin Zones \cup Arms
  /\ \A j \in Jobs :
       /\ Len(j.graph) \in Nat /\ DOMAIN j.graph = 1..Len(j.graph)
       /\ Len(j.arms) \in Nat \ {0} /\ DOMAIN j.arms = 1..Len(j.arms)
       /\ \A i \in DOMAIN j.arms : j.arms[i] \in Arms
       /\ \A i, k \in DOMAIN j.arms : j.arms[i] = j.arms[k] => i = k
       /\ \A i, k \in DOMAIN j.graph : j.graph[i].id = j.graph[k].id => i = k
       /\ \A i \in DOMAIN j.graph :
            /\ j.graph[i].id \notin GeneratedNames
            /\ j.graph[i].to \in Zones \cup {None}
            /\ j.graph[i].obj # None => j.zone[j.graph[i].obj] \in Zones
       /\ j.fleet # None =>
            /\ Len(j.fleet.units) \in Nat /\ DOMAIN j.fleet.units = 1..Len(j.fleet.units)
            /\ \A k \in DOMAIN j.fleet.units :
                 /\ Len(j.fleet.units[k]) \in Nat
                 /\ DOMAIN j.fleet.units[k] = 1..Len(j.fleet.units[k])

VARIABLES
  job,        \* [graph, arms, fleet, zone, prefer, style, groups, hands]
  stage,      \* where the call is
  chains,     \* the first step of each chain that has no arm yet
  assignment, \* arm of each step, None until it has one
  load,       \* steps given to each arm
  resources,  \* all arms each step takes
  done,       \* ids of the steps already in a wave
  armHold,    \* what the scheduler thinks each arm holds: arm_hold
  queue,      \* steps or groups still to be looked at in the current loop
  wave,       \* the wave being filled
  waves,
  leftovers,  \* flourishes without a slot
  forced,     \* a wave had to be forced
  needs,      \* annotate(): the dependencies of every step of the new graph
  executed, hands  \* the execution: steps run, and objects really in each hand

building == <<chains, assignment, load, resources, done, armHold, wave, waves, leftovers, forced>>
running  == <<needs, executed, hands>>
scheduling == <<job, stage, queue, building, running>>

------------------------------------------------------------------------------
(* Operations, by what the scheduler asks of them (actions.py).              *)
BothArms   == {"HANDOFF", "CO_ROTATE"}
Grabs      == {"PICK"}
Releases   == {"MOVE"}
NeedsGrasp == {"MOVE", "SPIN"} \cup BothArms
StyleOps   == {"PRESENT", "SPIN", "CO_ROTATE"}
DanceModes == {"dance", "mirrored"}
StripModes == {"minimum_time", "freeze"}

(* Steps go by their place in the graph: a loop over some of them takes the  *)
(* first one.                                                                *)
First(S) == CHOOSE i \in S : \A k \in S : i <= k
Places == DOMAIN job.graph
IdsOf(S) == {job.graph[i].id : i \in S}

PlanSteps == ToSet(job.graph)
StepOf(id) == CHOOSE s \in PlanSteps : s.id = id
Online == ToSet(job.arms)
Manipulates(s) == s.contract = "manipulate"
Other(a) == job.arms[First({i \in DOMAIN job.arms : job.arms[i] # a})]

Region(s) == IF s.to # None THEN s.to
             ELSE IF s.obj # None THEN job.zone[s.obj] ELSE Center

Apart(z) == IF z < 0 THEN -z ELSE z
Conflict(y, z) == y = z \/ Apart(X[y] - X[z]) <= OverlapWidth

(* A fleet's arms declare regions; the plain pair is split by the centreline. *)
ArmReaches(a, s) ==
  IF job.fleet # None THEN Region(s) \in job.fleet.regions[a]
  ELSE IF a \in Left THEN X[Region(s)] >= -OverlapWidth ELSE X[Region(s)] <= OverlapWidth

DependedOn == UNION {s.deps : s \in PlanSteps}
IsFlourish(s) == Manipulates(s) /\ s.op \in StyleOps /\ s.id \notin DependedOn
Flourishes == {i \in Places : IsFlourish(job.graph[i])}
Mandatory  == Places \ Flourishes

------------------------------------------------------------------------------
(* _assign_arms: every chain of steps on one object gets one arm, or a giver *)
(* and a receiver; steps without an object are chains of their own, and come *)
(* last.                                                                     *)
Chain(i) ==
  IF job.graph[i].obj = None THEN {i}
  ELSE {k \in Places : Manipulates(job.graph[k]) /\ job.graph[k].obj = job.graph[i].obj}
ObjectChains == {i \in Places : Manipulates(job.graph[i]) /\ i = First(Chain(i))}
NextChain ==
  LET objects == {i \in chains : job.graph[i].obj # None}
  IN First(IF objects # {} THEN objects ELSE chains)

Explicit(S) ==
  LET named == {i \in S : job.graph[i].arm \in Online}
  IN IF named = {} THEN None ELSE job.graph[First(named)].arm

Index(a) == CHOOSE i \in DOMAIN job.arms : job.arms[i] = a

ChooseArm(S, explicit) ==
  LET able == {a \in Online : \A i \in S : ArmReaches(a, job.graph[i])}
      fit  == IF able = {} THEN Online ELSE able
  IN IF explicit # None THEN explicit
     ELSE IF job.prefer \in able THEN job.prefer
     ELSE CHOOSE a \in fit : \A b \in fit :
            load[a] < load[b] \/ (load[a] = load[b] /\ Index(a) <= Index(b))

TooFewArms == Len(job.arms) < 2 /\ \E s \in PlanSteps : Manipulates(s) /\ s.op \in BothArms

AssignChain ==
  /\ stage = "assign" /\ chains # {} /\ ~TooFewArms
  /\ LET chain == Chain(NextChain)
         cuts  == {i \in chain : job.graph[i].op = "HANDOFF"}
         cut   == First(cuts)
         pre   == IF cuts = {} THEN chain ELSE {i \in chain : i <= cut}
         judged == IF cuts = {} \/ pre = {cut} THEN pre ELSE pre \ {cut}
         giver == ChooseArm(judged, Explicit(pre))
         taker == IF cuts = {} THEN giver
                  ELSE IF job.graph[cut].recv \in Online THEN job.graph[cut].recv ELSE Other(giver)
         of(i) == IF i \in pre THEN giver ELSE taker
     IN /\ assignment' = [id \in DOMAIN assignment |->
             IF id \in IdsOf(chain) THEN of(CHOOSE i \in chain : job.graph[i].id = id)
             ELSE assignment[id]]
        /\ load' = [a \in Arms |-> load[a] + Cardinality({i \in chain : of(i) = a})]
  /\ chains' = chains \ {NextChain}
  /\ UNCHANGED <<job, stage, queue, resources, done, armHold, wave, waves, leftovers, forced, running>>

(* Which arms a step takes; {} when the fleet cannot serve it (FleetError).  *)
Servable(S, s) == IF job.fleet = None \/ \A a \in S : ArmReaches(a, s) THEN S ELSE {}

Units(s) ==
  {k \in DOMAIN job.fleet.units : LET u == ToSet(job.fleet.units[k]) IN
     /\ u \subseteq Online /\ Servable(u, s) # {}
     /\ s.arm \in Online => s.arm \in u}
Unit(s) == job.fleet.units[First(Units(s))]

Takes(s) ==
  LET arm == assignment[s.id]
  IN CASE ~Manipulates(s) -> {}
       [] Manipulates(s) /\ s.op \notin BothArms -> Servable({arm}, s)
       [] Manipulates(s) /\ s.op = "HANDOFF" ->
            Servable({arm, IF s.recv \in Online THEN s.recv ELSE Other(arm)}, s)
       [] OTHER -> IF job.fleet = None THEN Online
                   ELSE IF Units(s) = {} THEN {} ELSE ToSet(Unit(s))

(* The primary arm of a pair the fleet chose is the one that the step names, *)
(* or else its first member.                                                 *)
Primary(s) ==
  IF ~Manipulates(s) \/ s.op \notin BothArms \ {"HANDOFF"} \/ job.fleet = None THEN assignment[s.id]
  ELSE IF s.arm \in Online THEN s.arm ELSE Unit(s)[1]

RaiseError == stage' = "raised" /\ UNCHANGED <<job, queue, building, running>>

Unservable == TooFewArms \/ \E s \in PlanSteps : Manipulates(s) /\ Takes(s) = {}

TakeResources ==
  /\ stage = "assign" /\ (chains = {} \/ TooFewArms)
  /\ IF Unservable THEN RaiseError
     ELSE /\ resources'  = [id \in DOMAIN assignment |-> Takes(StepOf(id))]
          /\ assignment' = [id \in DOMAIN assignment |-> Primary(StepOf(id))]
          /\ stage' = "ready"
          /\ UNCHANGED <<job, chains, queue, load, done, armHold, wave, waves, leftovers,
                         forced, running>>

------------------------------------------------------------------------------
(* The wave loop.                                                            *)
Ready == {i \in Mandatory : job.graph[i].id \notin done /\ job.graph[i].deps \subseteq done}
Barriers == {i \in Ready : ~Manipulates(job.graph[i])}

Placed(s, kind) ==
  [id |-> s.id, arm |-> assignment[s.id], region |-> IF Manipulates(s) THEN Region(s) ELSE None,
   parts |-> IF kind = "work" THEN resources[s.id] ELSE {}, kind |-> kind]

StartWave ==
  /\ stage = "ready"
  /\ done # IdsOf(Mandatory)
  /\ IF Ready = {} \/ Len(waves) >= Cardinality(Mandatory) + 5 THEN RaiseError
     ELSE /\ IF Barriers # {}
             THEN /\ waves' = Append(waves, {Placed(job.graph[First(Barriers)], "work")})
                  /\ done' = done \cup {job.graph[First(Barriers)].id}
                  /\ UNCHANGED <<stage, queue>>
             ELSE stage' = "place" /\ queue' = Ready /\ UNCHANGED <<waves, done>>
          /\ UNCHANGED <<job, chains, assignment, load, resources, armHold, wave, leftovers,
                         forced, running>>

FreeIn(s, w) ==
  /\ \A p \in w : p.parts \cap resources[s.id] = {}
  /\ \A p \in w : ~Conflict(p.region, Region(s))

GrabsAnyway(s) ==  \* a full hand may grab
  (s.op \in NeedsGrasp \ BothArms /\ \E a \in Online : s.obj # None /\ armHold[a] = s.obj)
    => armHold[assignment[s.id]] = s.obj

(* Gripper occupancy; the two-armed branch of the code does not ask.         *)
HandAllows(s) ==
  \/ s.op \in BothArms
  \/ /\ s.op \in Grabs => armHold[assignment[s.id]] = None
     /\ (s.op \in NeedsGrasp /\ s.obj # None /\ \E a \in Online : armHold[a] = s.obj)
          => armHold[assignment[s.id]] = s.obj

HoldAfter(s) ==
  [a \in Arms |->
     CASE s.op = "HANDOFF" /\ s.obj # None /\ a \in Online ->
            IF a = s.recv THEN s.obj ELSE IF armHold[a] = s.obj THEN None ELSE armHold[a]
       [] s.op \in Grabs /\ a = assignment[s.id] -> s.obj
       [] s.op \in Releases /\ a = assignment[s.id] -> None
       [] OTHER -> armHold[a]]

Place ==
  /\ stage = "place" /\ queue # {}
  /\ LET s == job.graph[First(queue)]
     IN IF FreeIn(s, wave) /\ HandAllows(s)
        THEN /\ wave' = wave \cup {Placed(s, "work")}
             /\ done' = done \cup {s.id}
             /\ armHold' = HoldAfter(s)
        ELSE UNCHANGED <<wave, done, armHold>>
  /\ queue' = queue \ {First(queue)}
  /\ UNCHANGED <<job, stage, chains, assignment, load, resources, waves, leftovers, forced, running>>

EndWave ==
  /\ stage = "place" /\ queue = {} /\ wave # {}
  /\ waves' = Append(waves, wave)
  /\ wave' = {}
  /\ stage' = "ready"
  /\ UNCHANGED <<job, queue, chains, assignment, load, resources, done, armHold, leftovers,
                 forced, running>>

LookAgain ==  \* hopes for a placeable step instead of forcing one
  /\ stage = "place" /\ queue = {} /\ wave = {} /\ stage' = "ready"
  /\ UNCHANGED <<job, queue, building, running>>

(* Nothing could be placed: the first ready step goes ahead all the same.    *)
ForceWave ==
  /\ stage = "place" /\ queue = {} /\ wave = {}
  /\ LET s == job.graph[First(Ready)]
     IN /\ waves' = Append(waves, {Placed(s, "work")})
        /\ done' = done \cup {s.id}
        /\ armHold' = IF s.op \in BothArms THEN armHold ELSE HoldAfter(s)
  /\ forced' = TRUE
  /\ stage' = "ready"
  /\ UNCHANGED <<job, queue, chains, assignment, load, resources, wave, leftovers, running>>

------------------------------------------------------------------------------
(* Flourishes, after the plan: into a wave with slack, else into one wave of *)
(* their own in front of the last barrier, else dropped.                     *)
Strip == job.groups # None \/ job.style \in StripModes

BeginFlourishes ==
  /\ stage = "ready" /\ done = IdsOf(Mandatory)
  /\ IF Strip
     THEN leftovers' = Flourishes /\ queue' = {} /\ stage' = "slack"
     ELSE queue' = Flourishes /\ stage' = "flourish" /\ UNCHANGED leftovers
  /\ UNCHANGED <<job, chains, assignment, load, resources, done, armHold, wave, waves,
                 forced, running>>

IsBarrier(w) == \E p \in w : p.arm = None
LastBarrier ==
  LET at == {i \in DOMAIN waves : IsBarrier(waves[i])}
  IN IF at = {} THEN Len(waves) + 1 ELSE CHOOSE i \in at : \A j \in at : j <= i

PlacedBefore(ids, i) == \A d \in ids : \E j \in 1..(i - 1) : \E p \in waves[j] : p.id = d

(* Only the primary arm of a step is looked at.                              *)
Slack(f, i) ==
  /\ i < LastBarrier
  /\ PlacedBefore(f.deps, i)
  /\ \A p \in waves[i] :
       p.arm # assignment[f.id] /\ (p.region # None => ~Conflict(p.region, Region(f)))

PlaceFlourish ==
  /\ stage = "flourish" /\ queue # {}
  /\ LET f == job.graph[First(queue)]
         slots == {i \in DOMAIN waves : Slack(f, i)}
     IN IF slots # {}
        THEN /\ waves' = [waves EXCEPT ![First(slots)] = @ \cup {Placed(f, "flourish")}]
             /\ UNCHANGED leftovers
        ELSE leftovers' = leftovers \cup {First(queue)} /\ UNCHANGED waves
  /\ queue' = queue \ {First(queue)}
  /\ UNCHANGED <<job, stage, chains, assignment, load, resources, done, armHold, wave, forced, running>>

BeginExtraWave ==
  /\ stage = "flourish" /\ queue = {}
  /\ queue' = leftovers /\ leftovers' = {}
  /\ stage' = "extra"
  /\ UNCHANGED <<job, chains, assignment, load, resources, done, armHold, wave, waves,
                 forced, running>>

FitsExtra(f) ==
  /\ PlacedBefore(f.deps, LastBarrier)
  /\ \A p \in wave : p.arm # assignment[f.id] /\ ~Conflict(p.region, Region(f))

PlaceExtra ==
  /\ stage = "extra" /\ queue # {}
  /\ LET f == job.graph[First(queue)]
     IN IF FitsExtra(f)
        THEN wave' = wave \cup {Placed(f, "flourish")} /\ UNCHANGED leftovers
        ELSE leftovers' = leftovers \cup {First(queue)} /\ UNCHANGED wave
  /\ queue' = queue \ {First(queue)}
  /\ UNCHANGED <<job, stage, chains, assignment, load, resources, done, armHold, waves, forced, running>>

EndExtraWave ==
  /\ stage = "extra" /\ queue = {}
  /\ waves' = IF wave = {} THEN waves ELSE InsertAt(waves, LastBarrier, wave)
  /\ wave' = {}
  /\ stage' = "slack"
  /\ UNCHANGED <<job, queue, chains, assignment, load, resources, done, armHold, leftovers,
                 forced, running>>

(* _fill_idle_slack and _place_expression_plan: an arm counts as idle when   *)
(* it is nobody's primary arm in the wave.                                   *)
IdleIn(w) == {a \in Online : \A p \in w : p.arm # a}
Generated(kind, i, a) ==
  [id |-> <<kind, i, a>>, arm |-> a, region |-> None, parts |-> {}, kind |-> kind]
GeneratedFor(kind, i, S) == {Generated(kind, i, a) : a \in S}

FillSlack ==
  /\ stage = "slack" /\ job.groups = None
  /\ waves' = [i \in DOMAIN waves |->
       IF job.style \in DanceModes /\ i < Len(waves) /\ ~IsBarrier(waves[i])
       THEN waves[i] \cup GeneratedFor("idle", i, IdleIn(waves[i])) ELSE waves[i]]
  /\ stage' = "annotate"
  /\ UNCHANGED <<job, queue, chains, assignment, load, resources, done, armHold, wave,
                 leftovers, forced, running>>

BeginExpression ==
  /\ stage = "slack" /\ job.groups # None
  /\ queue' = DOMAIN job.groups /\ stage' = "express"
  /\ UNCHANGED <<job, building, running>>

PlaceGroup ==
  /\ stage = "express" /\ queue # {}
  /\ LET group == job.groups[First(queue)]
         slots == {i \in DOMAIN waves : ~IsBarrier(waves[i]) /\ group \subseteq IdleIn(waves[i])}
     IN waves' = IF slots = {} THEN waves
                 ELSE [waves EXCEPT ![First(slots)] = @ \cup GeneratedFor("express", First(slots), group)]
  /\ queue' = queue \ {First(queue)}
  /\ UNCHANGED <<job, stage, chains, assignment, load, resources, done, armHold, wave,
                 leftovers, forced, running>>

EndExpression ==
  /\ stage = "express" /\ queue = {}
  /\ stage' = "annotate"
  /\ UNCHANGED <<job, queue, building, running>>

------------------------------------------------------------------------------
(* Schedule.annotate: a step also waits for the whole wave before its own,   *)
(* flourishes excepted.  Idle flourishes stay out of the graph.              *)
AllPlaced == UNION {waves[i] : i \in DOMAIN waves}
WaveOf(id) == CHOOSE i \in DOMAIN waves : \E p \in waves[i] : p.id = id
Members(i) == IF i = 0 THEN {} ELSE {p.id : p \in {q \in waves[i] : q.kind = "work"}}

Dropped == IdsOf(leftovers)
OwnNeeds(id) ==  \* the waves impose nothing
  IF \E s \in PlanSteps : s.id = id THEN StepOf(id).deps \ Dropped ELSE {}

Needs(id) ==
  (IF \E s \in PlanSteps : s.id = id THEN StepOf(id).deps \ Dropped ELSE {})
    \cup Members(WaveOf(id) - 1)

Annotate ==
  /\ stage = "annotate"
  /\ needs' = [id \in {p.id : p \in {q \in AllPlaced : q.kind # "idle"}} |-> Needs(id)]
  /\ stage' = "run"
  /\ UNCHANGED <<job, queue, building, executed, hands>>

(* The dep-gated engine runs S: one step, or two on different arms.          *)
Startable == {id \in DOMAIN needs \ executed : needs[id] \subseteq executed}

HandsAfter(s) ==
  [a \in Arms |->
     CASE s.op \in Grabs /\ a = assignment[s.id] -> hands[a] \cup {s.obj}
       [] s.op \in Releases /\ a = assignment[s.id] -> hands[a] \ {s.obj}
       [] s.op = "HANDOFF" /\ a \in resources[s.id] ->
            IF a = assignment[s.id] THEN hands[a] \ {s.obj} ELSE hands[a] \cup {s.obj}
       [] OTHER -> hands[a]]

Execute ==
  /\ stage = "run"
  /\ \E id \in Startable :
       /\ executed' = executed \cup {id}
       /\ hands' = IF \E s \in PlanSteps : s.id = id
                   THEN HandsAfter(StepOf(id)) ELSE hands
  /\ UNCHANGED <<job, stage, queue, building, needs>>

------------------------------------------------------------------------------
ScheduleInit ==
  /\ job \in Jobs
  /\ stage = "assign"
  /\ chains = ObjectChains
  /\ assignment = [id \in IdsOf(Places) |-> None]
  /\ load = [a \in Arms |-> 0]
  /\ resources = [id \in IdsOf(Places) |-> {}]
  /\ done = {} /\ forced = FALSE
  /\ armHold = [a \in Arms |-> None]
  /\ queue = {} /\ wave = {} /\ waves = <<>> /\ leftovers = {}
  /\ needs = <<>> /\ executed = {}
  /\ hands = job.hands

ScheduleNext ==
  \/ AssignChain \/ TakeResources
  \/ StartWave \/ Place \/ EndWave \/ ForceWave
  \/ BeginFlourishes \/ PlaceFlourish \/ BeginExtraWave \/ PlaceExtra \/ EndExtraWave
  \/ FillSlack \/ BeginExpression \/ PlaceGroup \/ EndExpression
  \/ Annotate \/ Execute

ScheduleSpec == ScheduleInit /\ [][ScheduleNext]_scheduling /\ WF_scheduling(ScheduleNext)

------------------------------------------------------------------------------
Work(w) == {p \in w : p.kind = "work"}

HasExtraWave == \E i \in DOMAIN waves : Work(waves[i]) = {}

(* An engine that knows nothing of waves and only looks at dependencies      *)
(* executes them in order: no step of the plan runs before one of an earlier *)
(* wave.  The docstring of Schedule.annotate says so (scheduler.py:179-182). *)
WavesInOrder ==
  \A i \in DOMAIN waves : (\E id \in executed : id \in Members(i)) =>
    \A k \in 1..(i - 1) : Members(k) \subseteq executed

(* The scheduler never lets two steps of the plan share an arm, a hand-off's *)
(* receiver included, or a stretch of table in one wave, the wave being      *)
(* filled included; a barrier is alone in its wave but for flourishes        *)
(* (schedule(), scheduler.py:556-613).  And what it returns is executed in   *)
(* order, unless a wave of flourishes alone was put in between (annotate,    *)
(* 172-257).                                                                 *)
WavesSound ==
  /\ \A i \in DOMAIN Append(waves, wave) :
       \A p, q \in Work(Append(waves, wave)[i]) : p # q =>
         /\ p.arm # None /\ q.arm # None
         /\ p.parts \cap q.parts = {}
         /\ ~Conflict(p.region, q.region)
  /\ HasExtraWave \/ WavesInOrder

(* What the planners ask for: a thing is picked once and put down once, and  *)
(* what is done with it in hand waits for what was done with it before.      *)
Orderly ==
  /\ \A s, t \in PlanSteps : (s.obj = t.obj /\ s.op = t.op /\ s.op \in Grabs \cup Releases) => s = t
  /\ \A s \in PlanSteps : s.op \in Grabs \cup Releases => s.obj # None /\ Manipulates(s)
  /\ \A s \in PlanSteps : (s.obj # None /\ s.op \in NeedsGrasp) =>
       \E t \in PlanSteps : t.obj = s.obj /\ t.op \in Grabs \cup NeedsGrasp /\ t.id \in s.deps

(* In the execution an arm never grips two objects, whatever order the steps *)
(* of a wave run in, as long as no wave was forced or is one of flourishes   *)
(* alone, nothing is handed over, and the hands were empty (the gripper      *)
(* check, scheduler.py:588-593).                                             *)
OneObjectPerArm ==
  (/\ ~forced /\ ~HasExtraWave /\ Orderly
   /\ \A a \in Arms : job.hands[a] = {}
   /\ \A s \in PlanSteps : s.op # "HANDOFF")
    => \A a \in Arms : Cardinality(hands[a]) <= 1

(* Scheduling comes to an end, and the plan's every step is executed, the    *)
(* dropped flourishes excepted, unless the fleet cannot serve it.            *)
PlanIsExecuted ==
  <>(\/ stage = "raised" /\ Unservable
     \/ stage = "run" /\ IdsOf(Places) \ Dropped \subseteq executed)
==============================================================================
