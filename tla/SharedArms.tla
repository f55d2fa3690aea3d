----------------------------- MODULE SharedArms -------------------------------
(* The physical fleet backend (omni_q.intel_fleet): all arms in one physics  *)
(* world, a wave's commands driven by one loop, and a fault latch that any   *)
(* thread may trip between two statements of the loop.                       *)
EXTENDS Integers, FiniteSets, Sequences

CONSTANTS
  Stations,     \* arms that can be built
  FirstStations, \* arms the world is built with
  Waves,        \* waves asked for: sequences of [step, arms]
  SettleTicks,  \* settle_steps
  MaxTicks,     \* max_steps
  MaxWaves, MaxPrepares, MaxBreaks, \* bounds: waves, run boundaries, numerical faults
  NoFault

ASSUME SharedArmsAssumption ==
  FirstStations \subseteq Stations /\ SettleTicks \in Nat \ {0} /\ MaxTicks \in Nat \ {0}

VARIABLES
  bindings,     \* arms in the compiled model
  moved,        \* the world has made a step: its model is final
  drive,        \* what an arm is commanded: to stay where it is, or to a target
  pendingFault, latchedFault,
  running,      \* the wave in execution
  loopAt,       \* idle, check or drive
  tick, settled, \* of the wave: its ticks, and per step how many in tolerance
  results,     \* what the last wave returned: per step, whether it was reached
  late,         \* steps of the physics since a fault was observed
  counters      \* waves, prepares, numerical faults so far
sharedArms == <<bindings, moved, drive, pendingFault, latchedFault, running, loopAt, tick, settled,
                results, late, counters>>

Steps(w) == {w[i].step : i \in DOMAIN w}
Driven(w) == UNION {w[i].arms : i \in DOMAIN w}
Held == [a \in bindings |-> "stay"]

(* prepare_run, ensure_arms: the model can only be rebuilt before its first  *)
(* step; afterwards a new arm is refused.                                    *)
PrepareRun ==
  /\ loopAt = "idle" /\ counters.prepares < MaxPrepares
  /\ counters' = [counters EXCEPT !.prepares = @ + 1]
  /\ \E asked \in SUBSET Stations :
       bindings' = IF moved THEN bindings ELSE bindings \cup asked
  /\ drive' = IF bindings' = bindings THEN drive ELSE [a \in bindings' |-> "stay"]
  /\ UNCHANGED <<moved, pendingFault, latchedFault, running, loopAt, tick, settled, results, late>>

(* An observer's thread queues a fault, once.                                *)
MayReport == pendingFault = NoFault /\ latchedFault = NoFault
ReportArmFault ==
  /\ MayReport
  /\ \E arms \in (SUBSET bindings) \ {{}} : pendingFault' = arms
  /\ UNCHANGED <<bindings, moved, drive, latchedFault, running, loopAt, tick, settled, results, late, counters>>

(* _check_fault: latches what is pending, has every arm stay and raises.     *)
Faulty == pendingFault # NoFault \/ latchedFault # NoFault
Latch(f) ==
  /\ latchedFault' = f /\ pendingFault' = NoFault
  /\ drive' = Held
  /\ running' = <<>> /\ loopAt' = "idle" /\ tick' = 0 /\ settled' = <<>>
Trip == Latch(IF pendingFault # NoFault THEN pendingFault ELSE latchedFault)

(* execute_wave: the whole wave is validated before anything is written.     *)
Valid(w) ==
  /\ Driven(w) \subseteq bindings
  /\ \A i, j \in DOMAIN w : i # j => w[i].step # w[j].step /\ w[i].arms \cap w[j].arms = {}

BeginWave ==
  /\ loopAt = "idle" /\ counters.waves < MaxWaves
  /\ counters' = [counters EXCEPT !.waves = @ + 1]
  /\ \E w \in Waves :
       /\ Valid(w)
       /\ IF Faulty THEN Trip
          ELSE /\ running' = w /\ tick' = 0 /\ settled' = [s \in Steps(w) |-> 0]
               /\ loopAt' = IF w = <<>> THEN "idle" ELSE "check"
               /\ UNCHANGED <<drive, pendingFault, latchedFault>>
  /\ results' = <<>>
  /\ UNCHANGED <<bindings, moved, late>>

\* Mutant: a wave that was begun is carried through.
ChecksAtBegin == FALSE
Checks == Faulty
CheckTick ==
  /\ loopAt = "check"
  /\ IF Checks THEN Trip
     ELSE loopAt' = "drive" /\ UNCHANGED <<drive, pendingFault, latchedFault, running, tick, settled>>
  /\ UNCHANGED <<bindings, moved, results, late, counters>>

(* One tick: every arm of the wave is given its target, then one step of the *)
(* physics for all of them.                                                  *)
Stepped ==
  /\ moved' = TRUE
  /\ late' = IF Faulty THEN late + 1 ELSE late

DriveTick ==
  /\ loopAt = "drive" /\ Stepped
  /\ \E near \in SUBSET Driven(running) :
       LET counted == [s \in Steps(running) |->
             IF \E i \in DOMAIN running : running[i].step = s /\ running[i].arms \subseteq near
             THEN settled[s] + 1 ELSE 0]
           reached == {s \in Steps(running) : counted[s] >= SettleTicks}
       IN  IF reached = Steps(running) \/ tick + 1 = MaxTicks
           THEN /\ results' = [s \in Steps(running) |-> s \in reached]
                /\ running' = <<>> /\ loopAt' = "idle" /\ tick' = 0 /\ settled' = <<>>
           ELSE /\ settled' = counted /\ tick' = tick + 1 /\ loopAt' = "check"
                /\ UNCHANGED <<running, results>>
  /\ drive' = [a \in bindings |-> IF a \in Driven(running) THEN "target" ELSE drive[a]]
  /\ UNCHANGED <<bindings, pendingFault, latchedFault, counters>>

(* The step broke the numbers: reported and latched at once, unless a fault  *)
(* is already pending: then report_fault itself raises, and nothing is held. *)
BreakTick ==
  /\ loopAt = "drive" /\ Stepped
  /\ counters.breaks < MaxBreaks /\ counters' = [counters EXCEPT !.breaks = @ + 1]
  /\ IF MayReport THEN Latch(Driven(running))
     ELSE /\ drive' = [a \in bindings |-> IF a \in Driven(running) THEN "target" ELSE drive[a]]
          /\ running' = <<>> /\ loopAt' = "idle" /\ tick' = 0 /\ settled' = <<>>
          /\ UNCHANGED <<pendingFault, latchedFault>>
  /\ UNCHANGED <<bindings, results>>

SharedArmsInit ==
  /\ bindings = FirstStations /\ moved = FALSE /\ drive = Held
  /\ pendingFault = NoFault /\ latchedFault = NoFault
  /\ running = <<>> /\ loopAt = "idle" /\ tick = 0 /\ settled = <<>> /\ results = <<>> /\ late = 0
  /\ counters = [waves |-> 0, prepares |-> 0, breaks |-> 0]
SharedArmsNext == PrepareRun \/ ReportArmFault \/ BeginWave \/ CheckTick \/ DriveTick \/ BreakTick
SharedArmsSpec == SharedArmsInit /\ [][SharedArmsNext]_sharedArms

(* ------------------------------- properties ------------------------------ *)

(* Whenever a fault comes, the physics makes one more step at the most; once *)
(* it is latched every arm is told to stay where it is, and no later wave or *)
(* run boundary sets one in motion again (IntelFleetBackend).                *)
FaultStopsArms ==
  /\ late <= 1
  /\ latchedFault # NoFault => loopAt = "idle" /\ drive = Held
==============================================================================
