----------------------------- MODULE ServiceProofs ----------------------------
(***************************************************************************)
(* Theorems about parts around the engine, each for every value of its     *)
(* constants: a fault stops shared arms, a skill keeps its arm in the      *)
(* workspace, an admitted handoff is where the world says it is, what is   *)
(* resident fits the memory there is, and a humanoid follows its intent.   *)
(***************************************************************************)
EXTENDS SharedArms, SkillRuntime, ContactHandoff, Residency, Humanoid, SessionServer,
        ExpressiveMotion,
        FiniteSetTheorems, WellFoundedInduction, TLAPS

-----------------------------------------------------------------------------
(* SharedArms.  A late step of the physics is one taken while a fault was    *)
(* there; from then on the fault stays, pending or latched, and the loop     *)
(* never gets as far as driving again.                                       *)

LoopInv ==
  /\ loopAt \in {"idle", "check", "drive"}
  /\ late \in {0, 1}
  /\ late = 1 => Faulty /\ loopAt # "drive"
LatchInv == latchedFault # NoFault => loopAt = "idle" /\ drive = Held
ArmsInv == LoopInv /\ LatchInv

LEMMA TripLatches ==
  ASSUME Faulty, Trip
  PROVE  latchedFault' # NoFault /\ loopAt' = "idle" /\ drive' = Held
  BY DEF Faulty, Trip, Latch

LEMMA ArmsInvInductive == ArmsInv /\ [SharedArmsNext]_sharedArms => ArmsInv'
<1> SUFFICES ASSUME ArmsInv, [SharedArmsNext]_sharedArms PROVE ArmsInv'
  OBVIOUS
<1> USE DEF ArmsInv, LoopInv, LatchInv
<1>1. CASE PrepareRun
  <2>1. UNCHANGED <<pendingFault, latchedFault, loopAt, late>>
    BY <1>1 DEF PrepareRun
  <2>2. drive = Held => drive' = Held'
    BY <1>1 DEF PrepareRun, Held
  <2> QED
    BY <2>1, <2>2 DEF Faulty
<1>2. CASE ReportArmFault
  BY <1>2 DEF ReportArmFault, MayReport, Faulty, Held
<1>3. CASE BeginWave
  <2>1. UNCHANGED <<bindings, late>> /\ loopAt = "idle" /\ Held' = Held
    BY <1>3 DEF BeginWave, Held
  <2>2. CASE Faulty
    <3>1. Trip
      BY <1>3, <2>2 DEF BeginWave
    <3> QED
      BY <2>1, <2>2, <3>1, TripLatches DEF Faulty
  <2>3. CASE ~Faulty
    <3>1. loopAt' \in {"idle", "check"} /\ UNCHANGED <<drive, pendingFault, latchedFault>>
      BY <1>3, <2>3 DEF BeginWave
    <3> QED
      BY <2>1, <2>3, <3>1 DEF Faulty
  <2> QED
    BY <2>2, <2>3
<1>4. CASE CheckTick
  <2>1. UNCHANGED <<bindings, late>> /\ Held' = Held
    BY <1>4 DEF CheckTick, Held
  <2>2. CASE Faulty
    <3>1. Trip
      BY <1>4, <2>2 DEF CheckTick, Checks
    <3> QED
      BY <2>1, <2>2, <3>1, TripLatches DEF Faulty
  <2>3. CASE ~Faulty
    BY <1>4, <2>1, <2>3 DEF CheckTick, Checks, Faulty
  <2> QED
    BY <2>2, <2>3
<1>5. CASE DriveTick
  <2>1. late = 0 /\ latchedFault = NoFault
    BY <1>5 DEF DriveTick
  <2>2. UNCHANGED <<pendingFault, latchedFault>> /\ late' = IF Faulty THEN late + 1 ELSE late
    BY <1>5 DEF DriveTick, Stepped
  <2>3. loopAt' \in {"idle", "check"}
    BY <1>5 DEF DriveTick
  <2> QED
    BY <2>1, <2>2, <2>3 DEF Faulty
<1>6. CASE BreakTick
  <2>1. late = 0 /\ latchedFault = NoFault /\ Held' = Held
    BY <1>6 DEF BreakTick, Held
  <2>2. late' = IF Faulty THEN late + 1 ELSE late
    BY <1>6 DEF BreakTick, Stepped
  <2>3. CASE MayReport
    BY <1>6, <2>1, <2>2, <2>3 DEF BreakTick, Latch, MayReport, Faulty
  <2>4. CASE ~MayReport
    BY <1>6, <2>1, <2>2, <2>4 DEF BreakTick, MayReport, Faulty
  <2> QED
    BY <2>3, <2>4
<1>7. CASE UNCHANGED sharedArms
  BY <1>7 DEF sharedArms, Faulty, Held
<1> QED
  BY <1>1, <1>2, <1>3, <1>4, <1>5, <1>6, <1>7 DEF SharedArmsNext

(* Whenever a fault is reported, by an observer's thread or by the physics,  *)
(* at most one more step is made, and once latched it keeps every arm where  *)
(* it is, for any number of arms, waves and ticks (IntelFleetBackend).       *)
THEOREM FaultsStopArms == SharedArmsSpec => []FaultStopsArms
<1>1. SharedArmsInit => ArmsInv
  BY DEF SharedArmsInit, ArmsInv, LoopInv, LatchInv
<1>2. ArmsInv => FaultStopsArms
  BY DEF ArmsInv, LoopInv, LatchInv, FaultStopsArms
<1> QED
  BY <1>1, <1>2, ArmsInvInductive, PTL DEF SharedArmsSpec

-----------------------------------------------------------------------------
(* SkillRuntime.  While a call is under way nobody else moves the arm, so    *)
(* what was observed for it is where the arm is.                             *)

Seen == [position : Int, revision : Nat, stop : BOOLEAN]
Requested == [at : {"propose"}, skill : Skills, seen : Seen, verdict : {"ALLOW", "DENY"},
              granted : Nat, expected : Nat]
Proposed(step) == [at : {step}, skill : Skills, seen : Seen, verdict : {"ALLOW", "DENY"},
                    granted : Nat, expected : Nat, delta : Int, scale : Nat, name : Skills]

CallInv ==
  /\ position \in Lower..Upper
  /\ present \in [revision : Nat, stop : BOOLEAN]
  /\ call \in {NoCall} \cup Requested \cup Proposed("supervise") \cup Proposed("apply")
  /\ call.at # "none" => call.seen.position = position
  /\ call.at = "apply" => ~Outside(call)

LEMMA ScaledInt == ASSUME NEW step, NEW c \in Proposed(step) PROVE Scaled(c) \in Int
<1>1. c.delta \in Int /\ c.scale \in Int
  BY DEF Proposed
<1>2. \A d, n \in Int : d * n \in Int
  OBVIOUS
<1> QED
  BY <1>1, <1>2 DEF Scaled

(* Any part of the way to a clamped displacement lies between here and where *)
(* the whole of it would end.                                                *)
LEMMA PartWay ==
  ASSUME NEW p \in Lower..Upper, NEW d \in Int, p + d \in Lower..Upper,
         NEW m \in IF Clamped(d) >= 0 THEN 0..Clamped(d) ELSE Clamped(d)..0
  PROVE  p + m \in Lower..Upper
  BY SkillAssumption DEF Clamped

LEMMA CallInvInductive == CallInv /\ [SkillNext]_skillVars => CallInv'
<1> SUFFICES ASSUME CallInv, [SkillNext]_skillVars PROVE CallInv'
  OBVIOUS
<1> USE DEF CallInv, NoCall
<1>1. ASSUME NEW k \in Skills, Register(k) \/ Promote(k) PROVE CallInv'
  BY <1>1 DEF Register, Promote, Outside, Scaled
<1>2. ASSUME NEW k \in Skills, Select(k) PROVE CallInv'
  <2>1. PICK verdict \in {"ALLOW", "DENY"}, granted, expected \in 0..present.revision :
          call' = [at |-> "propose", skill |-> k, seen |-> Observe, verdict |-> verdict,
                   granted |-> granted, expected |-> expected]
    BY <1>2 DEF Select
  <2>2. position \in Int
    BY SkillAssumption
  <2>3. Observe \in Seen /\ Observe.position = position
    BY <2>2 DEF Observe, Seen
  <2>4. granted \in Nat /\ expected \in Nat
    BY <2>1
  <2>5. call' \in Requested
    BY <2>1, <2>3, <2>4 DEF Requested
  <2> QED
    BY <1>2, <2>1, <2>3, <2>5 DEF Select
<1>3. CASE Propose
  <2>1. call \in Requested /\ call.at = "propose"
    BY <1>3 DEF Propose, Requested, Proposed
  <2>2. PICK d \in Proposals, scale \in 0..(MaxScale + 1), name \in Skills :
          call' = [at |-> "supervise", skill |-> call.skill, seen |-> call.seen,
                   verdict |-> call.verdict, granted |-> call.granted,
                   expected |-> call.expected, delta |-> d, scale |-> scale, name |-> name]
    BY <1>3 DEF Propose
  <2>3. d \in Int /\ scale \in Nat
    BY <2>2, SkillAssumption
  <2>4. call' \in Proposed("supervise")
    BY <2>1, <2>2, <2>3 DEF Requested, Proposed
  <2> QED
    BY <1>3, <2>1, <2>2, <2>4 DEF Propose
<1>4. CASE ControllerFails \/ Refuse
  BY <1>4 DEF ControllerFails, Refuse
<1>5. CASE Permit
  <2>1. call \in Proposed("supervise") /\ call.at = "supervise"
    BY <1>5 DEF Permit, Requested, Proposed
  <2>2. call' = [call EXCEPT !.at = "apply"] /\ ~Outside(call) /\ UNCHANGED <<position, present>>
    BY <1>5 DEF Permit
  <2>3. call' \in Proposed("apply")
    BY <2>1, <2>2 DEF Proposed
  <2>4. /\ call'.skill = call.skill /\ call'.seen = call.seen /\ call'.delta = call.delta
        /\ call'.scale = call.scale /\ call'.at = "apply"
    BY <2>1, <2>2 DEF Proposed
  <2>5. Outside(call') <=> Outside(call)
    BY <2>4 DEF Outside, Scaled
  <2>6. call.seen.position = position
    BY <2>1
  <2> QED
    BY <2>2, <2>3, <2>4, <2>5, <2>6
<1>6. CASE Apply
  <2>1. call \in Proposed("apply") /\ call.at = "apply"
    BY <1>6 DEF Apply, Requested, Proposed
  <2> DEFINE d == Scaled(call)
  <2>2. d \in Int
    BY <2>1, ScaledInt
  <2>3. position + d \in Lower..Upper
    BY <2>1 DEF Outside
  <2>4. PICK m \in IF Clamped(d) >= 0 THEN 0..Clamped(d) ELSE Clamped(d)..0 :
          position' = position + m
    BY <1>6 DEF Apply
  <2> HIDE DEF d
  <2>5. position' \in Lower..Upper
    BY <2>2, <2>3, <2>4, PartWay
  <2> QED
    BY <1>6, <2>5 DEF Apply
<1>7. CASE WorldMoves \/ SafetyStop
  <2>1. UNCHANGED <<position, call>>
    BY <1>7 DEF WorldMoves, SafetyStop
  <2>2. present' \in [revision : Nat, stop : BOOLEAN]
    <3>1. CASE WorldMoves
      BY <3>1 DEF WorldMoves
    <3>2. CASE SafetyStop
      BY <3>2 DEF SafetyStop
    <3> QED
      BY <1>7, <3>1, <3>2
  <2>3. Outside(call') <=> Outside(call)
    BY <2>1 DEF Outside, Scaled
  <2> QED
    BY <2>1, <2>2, <2>3
<1>8. CASE UNCHANGED skillVars
  BY <1>8 DEF skillVars, Outside, Scaled
<1> QED
  BY <1>1, <1>2, <1>3, <1>4, <1>5, <1>6, <1>7, <1>8 DEF SkillNext

(* However often controllers are followed, with any workspace, clamp, scale  *)
(* and proposals, the arm stays in the workspace (SkillSupervisor).          *)
THEOREM WorkspaceKept == SkillSpec => []StaysInWorkspace
<1>1. SkillInit => CallInv
  BY DEF SkillInit, CallInv, NoCall
<1>2. CallInv => StaysInWorkspace
  BY DEF CallInv, StaysInWorkspace
<1> QED
  BY <1>1, <1>2, CallInvInductive, PTL DEF SkillSpec
-----------------------------------------------------------------------------
(* ContactHandoff.  The cup comes to the right with the receiver's retreat,  *)
(* stays there while it is put down, and stands free when the last phase     *)
(* passes; after that nothing moves it, because a manipulator that has been  *)
(* attempted never starts again.                                             *)

Standing == [touch |-> {}, spot |-> "right", pose |-> "standing"]
Returning == {"right_place", "right_release", "final_settle", "done"}
CupType == [touch : SUBSET HandoffArms, spot : {"left", "shared", "right"},
            pose : {"held", "standing", "lying", "lost"}]

HandoffInv ==
  /\ cup \in CupType
  /\ at = "control" => attempted /\ (phase \in Returning => cup.spot = "right")
                              /\ (phase = "done" => cup = Standing)
  /\ at = "admit" => attempted /\ cup = Standing
  /\ zone = "right_table" => attempted /\ at # "control" /\ cup = Standing

(* Only the retreat leads to the phases after it.                            *)
LEMMA BeforeReturning ==
  ASSUME NEW p \in DOMAIN After, After[p] \in Returning
  PROVE  p \in {"right_retreat", "right_place", "right_release", "final_settle"}
         /\ (After[p] = "done" => p = "final_settle")
  BY DEF After, Returning

LEMMA AfterPhaseType ==
  ASSUME cup \in CupType, NEW p, NEW c \in AfterPhase(p)
  PROVE  /\ c \in CupType
         /\ p = "final_settle" => c.touch \subseteq cup.touch /\ c.spot = cup.spot
         /\ p \in {"right_place", "right_release"} => c.spot \in {cup.spot, "right"}
         /\ p = "right_retreat" /\ c.touch = {"right"} => c.spot = "right"
<1>1. Mover(p) \in {{}, {"left"}, {"right"}} /\ Place(p) \in {"left", "shared", "right"}
  BY DEF Mover, Place
<1>2. PICK t \in IF cup.pose = "lost" THEN {{}} ELSE SUBSET (cup.touch \cup Mover(p)),
           s \in {cup.spot} \cup (IF Mover(p) = {} THEN {} ELSE {Place(p)}),
           q \in IF cup.touch = {}
                  THEN IF Mover(p) = {} THEN {cup.pose} ELSE {cup.pose, "lying", "lost"}
                  ELSE {"standing", "lying", "lost"} :
        c = [touch |-> t, spot |-> IF t = Mover(p) /\ Mover(p) # {} THEN Place(p) ELSE s,
             pose |-> IF t # {} THEN "held" ELSE q]
  BY DEF AfterPhase
<1>3. t \in SUBSET HandoffArms /\ s \in {"left", "shared", "right"}
      /\ q \in {"held", "standing", "lying", "lost"}
  BY <1>1, <1>2 DEF CupType, HandoffArms
<1>4. c \in CupType
  BY <1>1, <1>2, <1>3 DEF CupType
<1>5. ASSUME p = "final_settle" PROVE c.touch \subseteq cup.touch /\ c.spot = cup.spot
  <2>1. Mover(p) = {}
    BY <1>5 DEF Mover
  <2> QED
    BY <1>2, <2>1
<1>6. ASSUME p \in {"right_place", "right_release"} PROVE c.spot \in {cup.spot, "right"}
  <2>1. Place(p) = "right"
    BY <1>6 DEF Place
  <2> QED
    BY <1>2, <2>1
<1>7. ASSUME p = "right_retreat", c.touch = {"right"} PROVE c.spot = "right"
  <2>1. Place(p) = "right" /\ Mover(p) = {"right"}
    BY <1>7 DEF Place, Mover
  <2> QED
    BY <1>2, <1>7, <2>1
<1> QED
  BY <1>4, <1>5, <1>6, <1>7

(* What the ownership required after a phase says of who touches the cup.    *)
LEMMA Owned ==
  ASSUME NEW c \in CupType
  PROVE  /\ Owner(c) = "none" => c.touch = {}
         /\ Owner(c) = "right" => c.touch = {"right"}
<1>1. c.touch \in SUBSET HandoffArms
  BY DEF CupType
<1>2. CASE c.touch = HandoffArms
  BY <1>2 DEF Owner, HandoffArms
<1>3. CASE c.touch = {}
  BY <1>3 DEF Owner, HandoffArms
<1>4. CASE c.touch # HandoffArms /\ c.touch # {}
  <2>1. Owner(c) = CHOOSE a \in HandoffArms : a \in c.touch
    BY <1>4 DEF Owner
  <2>2. Owner(c) \in HandoffArms /\ Owner(c) \in c.touch
    BY <1>1, <1>4, <2>1
  <2> QED
    BY <1>1, <1>4, <2>2 DEF HandoffArms
<1> QED
  BY <1>2, <1>3, <1>4

LEMMA PhaseKeepsCup ==
  ASSUME HandoffInv, RunPhase
  PROVE  HandoffInv'
<1> DEFINE p == phase
<1>1. PICK c \in AfterPhase(p) : Passes(p, c) /\ cup' = c
  BY DEF RunPhase
<1>2. /\ at = "control" /\ at' = "control" /\ p \in DOMAIN After /\ phase' = After[p]
      /\ zone' = zone /\ attempted' = attempted
  BY DEF RunPhase, world, loop
<1>3. cup \in CupType /\ attempted /\ zone # "right_table"
  BY <1>2 DEF HandoffInv
<1>4. /\ c \in CupType
      /\ p = "final_settle" => c.touch \subseteq cup.touch /\ c.spot = cup.spot
      /\ p \in {"right_place", "right_release"} => c.spot \in {cup.spot, "right"}
      /\ p = "right_retreat" /\ c.touch = {"right"} => c.spot = "right"
  BY <1>3, AfterPhaseType
<1>5. ASSUME After[p] \in Returning PROVE c.spot = "right"
  <2>1. CASE p = "right_retreat"
    <3>1. Owner(c) = "right"
      BY <1>1, <2>1 DEF Passes, RequiredOwner
    <3> QED
      BY <1>4, <2>1, <3>1, Owned
  <2>2. CASE p \in {"right_place", "right_release", "final_settle"}
    <3>1. cup.spot = "right"
      BY <1>2, <2>2 DEF HandoffInv, Returning
    <3> QED
      BY <1>4, <2>2, <3>1
  <2> QED
    BY <1>2, <1>5, <2>1, <2>2, BeforeReturning
<1>6. ASSUME After[p] = "done" PROVE c = Standing
  <2>1. p = "final_settle"
    BY <1>2, <1>6, BeforeReturning DEF Returning
  <2>2. Owner(c) = "none" /\ c.pose = "standing"
    BY <1>1, <2>1 DEF Passes, RequiredOwner
  <2>3. c.touch = {}
    BY <1>4, <2>2, Owned
  <2>4. c.spot = "right"
    BY <1>5, <1>6 DEF Returning
  <2> QED
    BY <1>4, <2>2, <2>3, <2>4 DEF CupType, Standing
<1> QED
  BY <1>1, <1>2, <1>3, <1>4, <1>5, <1>6 DEF HandoffInv

LEMMA HandoffInvInductive == HandoffInv /\ [HandoffNext]_handoffVars => HandoffInv'
<1> SUFFICES ASSUME HandoffInv, [HandoffNext]_handoffVars PROVE HandoffInv'
  OBVIOUS
<1> USE DEF world, controller, loop
<1>1. CASE RunPhase
  BY <1>1, PhaseKeepsCup
<1>2. CASE PresentAgain
  <2>1. PICK c \in AfterPhase(phase) : cup' = c
    BY <1>2 DEF PresentAgain
  <2>2. c \in CupType
    BY <2>1, AfterPhaseType DEF HandoffInv
  <2> QED
    BY <1>2, <2>1, <2>2 DEF PresentAgain, HandoffInv, Returning
<1>3. CASE ProposeReceipt
  BY <1>3 DEF ProposeReceipt, HandoffInv
<1>4. CASE RejectPhase
  <2>1. PICK c \in AfterPhase(phase) : cup' = c
    BY <1>4 DEF RejectPhase
  <2>2. c \in CupType
    BY <2>1, AfterPhaseType DEF HandoffInv
  <2>3. at = "control" /\ at' \in {"over", "plan"} /\ zone' = zone
    BY <1>4 DEF RejectPhase, FailStep
  <2> QED
    BY <2>1, <2>2, <2>3 DEF HandoffInv
<1>5. CASE SolverRaises
  <2>1. cup' \in CupType
    BY <1>5, AfterPhaseType DEF SolverRaises, HandoffInv
  <2> QED
    BY <1>5, <2>1 DEF SolverRaises, HandoffInv
<1>6. CASE StartMission \/ ApplyHandoffConstraint \/ PlanHandoff \/ AllowHandoff
           \/ DenyHandoff \/ RefuseHandoff \/ VerifyHandoff
  <2>1. UNCHANGED <<cup, phase, attempted, zone>> /\ at \notin {"control", "admit"}
        /\ at' \notin {"control", "admit"}
    BY <1>6 DEF StartMission, ApplyHandoffConstraint, PlanHandoff, AllowHandoff, DenyHandoff,
                RefuseHandoff, VerifyHandoff, FailStep
  <2> QED
    BY <2>1 DEF HandoffInv
<1>7. CASE BeginHandoff
  <2>1. zone # "right_table"
    BY <1>7 DEF BeginHandoff, RefuseAttempt, HandoffInv
  <2> QED
    BY <1>7, <2>1 DEF BeginHandoff, HandoffInv, Returning
<1>8. CASE AdmitReceipt
  BY <1>8 DEF AdmitReceipt, HandoffInv
<1>9. CASE UNCHANGED handoffVars
  BY <1>9 DEF handoffVars, HandoffInv
<1> QED
  BY <1>1, <1>2, <1>3, <1>4, <1>5, <1>6, <1>7, <1>8, <1>9 DEF HandoffNext

(* For any number of runs and replans the world claims the cup handed over   *)
(* only if it stands free on the receiver's side, and then for good          *)
(* (IntelContactHandoffWorld.apply_transition).                              *)
THEOREM HandedOverIsThere == HandoffSpec => []AdmittedIsThere
<1>1. HandoffInit => HandoffInv
  BY DEF HandoffInit, HandoffInv, CupType, HandoffArms
<1>2. HandoffInv => AdmittedIsThere
  BY DEF HandoffInv, AdmittedIsThere, Standing
<1> QED
  BY <1>1, <1>2, HandoffInvInductive, PTL DEF HandoffSpec

-----------------------------------------------------------------------------
(* Residency.                                                                *)

Tiers == 1..CoreOnly
Triggers == {"memory_change", "novel_task", "restore"}
SliderInv ==
  /\ tier \in Tiers /\ available \in Nat
  /\ changes \in Seq([from : Tiers, to : Tiers, trigger : Triggers])
  /\ BodyFits /\ LogLeads

(* The elements up to a least one are the fewest.                            *)
LEMMA LeastOf ==
  ASSUME NEW T \in SUBSET Nat, IsFiniteSet(T), T # {}
  PROVE  \E t \in T : \A u \in T : t <= u
<1> DEFINE upTo(t) == {u \in T : u <= t}
           lists == {upTo(t) : t \in T}
           less == StrictSubsetOrdering(T)
<1>1. IsWellFoundedOn(less, SUBSET T)
  <2>1. IsWellFoundedOn(StrictSubsetOrdering(T), FiniteSubsetsOf(T))
    BY FS_StrictSubsetOrderingWellFounded
  <2>2. FiniteSubsetsOf(T) = SUBSET T
    BY FS_FiniteSubsetsOfFinite
  <2> QED
    BY <2>1, <2>2
<1>2. lists \subseteq SUBSET T /\ lists # {}
  OBVIOUS
<1>3. ASSUME NEW t \in T, NEW u \in T, u < t PROVE <<upTo(u), upTo(t)>> \in less
  <2>0. t \in Nat /\ u \in Nat /\ \A v \in T : v \in Nat
    OBVIOUS
  <2>1. t \in upTo(t) /\ t \notin upTo(u)
    BY <1>3, <2>0
  <2>2. \A v \in T : v <= u => v <= t
    BY <1>3, <2>0
  <2>3. upTo(u) \subseteq upTo(t)
    BY <2>2
  <2> QED
    BY <2>1, <2>3 DEF StrictSubsetOrdering
<1>4. \A t \in T : upTo(t) \in lists
  OBVIOUS
<1>5. \A l \in lists : \E t \in T : l = upTo(t)
  OBVIOUS
<1> HIDE DEF less, lists, upTo
<1>6. PICK l \in lists : \A k \in lists : <<k, l>> \notin less
  <2>1. ASSUME NEW S, NEW R, IsWellFoundedOn(R, S), NEW C, C \subseteq S, C # {}
        PROVE  \E l \in C : \A k \in C : <<k, l>> \notin R
    BY <2>1, WFMin
  <2> QED
    BY <1>1, <1>2, <2>1
<1>7. PICK t \in T : l = upTo(t)
  BY <1>5
<1>8. \A u \in T : ~(u < t)
  BY <1>3, <1>4, <1>6, <1>7
<1> QED
  BY <1>8

(* Whatever memory there is, the best fit is a tier that fits, if it is not  *)
(* the core alone.                                                           *)
LEMMA BestFits ==
  ASSUME NEW bytes \in Nat
  PROVE  /\ BestFit(bytes) \in Tiers
         /\ BestFit(bytes) \in MX => Bytes[BestFit(bytes)] <= bytes
<1>0. Bytes \in Seq(Nat) /\ Len(Bytes) \in Nat /\ MX = 1..Len(Bytes) /\ CoreOnly \in Tiers /\ CoreOnly \notin MX
  BY ResidencyAssumption DEF MX, Tiers, CoreOnly
<1>1. CASE Fits(bytes) = {}
  BY <1>0, <1>1 DEF BestFit
<1>2. CASE Fits(bytes) # {}
  <2>1. Fits(bytes) \in SUBSET Nat /\ IsFiniteSet(Fits(bytes))
    <3>1. Fits(bytes) \subseteq 1..Len(Bytes) /\ 1 \in Int /\ Len(Bytes) \in Int
      BY <1>0 DEF Fits
    <3>2. IsFiniteSet(1..Len(Bytes))
      BY <3>1, FS_Interval
    <3> QED
      BY <3>1, <3>2, FS_Subset
  <2>2. \E t \in Fits(bytes) : \A u \in Fits(bytes) : t <= u
    BY <1>2, <2>1, LeastOf
  <2>3. BestFit(bytes) \in Fits(bytes)
    BY <1>2, <2>2 DEF BestFit
  <2> QED
    BY <1>0, <2>3 DEF Fits, Tiers, CoreOnly
<1> QED
  BY <1>1, <1>2

(* An entry that starts where the slider is leads to where it is then.       *)
LEMMA LogGrows ==
  ASSUME SliderInv, NEW entry \in [from : Tiers, to : Tiers, trigger : Triggers],
         changes' = Append(changes, entry), entry.from = tier, entry.to = tier'
  PROVE  LogLeads' /\ changes' \in Seq([from : Tiers, to : Tiers, trigger : Triggers])
<1>1. changes \in Seq([from : Tiers, to : Tiers, trigger : Triggers])
  BY DEF SliderInv
<1>2. /\ changes' \in Seq([from : Tiers, to : Tiers, trigger : Triggers])
      /\ Len(changes') = Len(changes) + 1 /\ changes'[Len(changes')] = entry
      /\ \A i \in 1..Len(changes) : changes'[i] = changes[i]
  BY <1>1
<1>3. changes' # <<>> => changes'[Len(changes')].to = tier'
  BY <1>2
<1>4. ASSUME NEW i \in 1..(Len(changes') - 1)
      PROVE  changes'[i].to = changes'[i + 1].from
  <2>1. CASE i = Len(changes)
    <3>1. changes # <<>> /\ changes[Len(changes)].to = tier
      BY <1>1, <1>2, <1>4, <2>1 DEF SliderInv, LogLeads
    <3> QED
      BY <1>1, <1>2, <1>4, <2>1, <3>1
  <2>2. CASE i # Len(changes)
    <3>1. i \in 1..(Len(changes) - 1) /\ i + 1 \in 1..Len(changes) /\ i \in 1..Len(changes)
      BY <1>1, <1>2, <1>4, <2>2
    <3> QED
      BY <1>2, <3>1 DEF SliderInv, LogLeads
  <2> QED
    BY <2>1, <2>2
<1> QED
  BY <1>2, <1>3, <1>4 DEF LogLeads

(* Going to a tier that fits keeps the books.                                *)
LEMMA ApplyKeeps ==
  ASSUME SliderInv, NEW t \in Tiers, NEW why \in Triggers, ApplyTier(t, why),
         available' \in Nat, t \in MX => Bytes[t] <= available' + Hysteresis
  PROVE  SliderInv'
<1>1. tier' = t /\ tier' \in Tiers /\ BodyFits'
  BY DEF ApplyTier, BodyFits
<1>2. CASE t = tier
  BY <1>1, <1>2 DEF ApplyTier, SliderInv, LogLeads
<1>3. CASE t # tier
  <2> DEFINE entry == [from |-> tier, to |-> t, trigger |-> why]
  <2>1. changes' = Append(changes, entry)
    BY <1>3 DEF ApplyTier
  <2>2. entry.from = tier /\ entry.to = tier' /\ entry \in [from : Tiers, to : Tiers, trigger : Triggers]
    BY <1>1 DEF SliderInv
  <2> HIDE DEF entry
  <2> QED
    BY <1>1, <2>1, <2>2, LogGrows DEF SliderInv
<1> QED
  BY <1>2, <1>3

LEMMA SliderInvInductive == SliderInv /\ [ResidencyNext]_slider => SliderInv'
<1> SUFFICES ASSUME SliderInv, [ResidencyNext]_slider PROVE SliderInv'
  OBVIOUS
<1>0. Envelopes \subseteq Nat /\ Hysteresis \in Nat /\ Bytes \in Seq(Nat) /\ tier \in Tiers
      /\ CoreOnly \in Tiers /\ CoreOnly \notin MX
      /\ \A t \in MX : Bytes[t] \in Nat
  BY ResidencyAssumption DEF SliderInv, MX, Tiers, CoreOnly
<1>6. {"memory_change", "novel_task", "restore"} \subseteq Triggers
  BY DEF Triggers
<1>1. CASE UpdateEnvelope
  <2>1. PICK bytes \in Nat : available' = bytes /\ ApplyTier(Chosen(bytes), "memory_change")
    BY <1>0, <1>1 DEF UpdateEnvelope
  <2>2. Chosen(bytes) \in Tiers /\ (Chosen(bytes) \in MX => Bytes[Chosen(bytes)] <= bytes + Hysteresis)
    <3>1. CASE Stays(bytes)
      BY <1>0, <3>1 DEF Chosen, Stays
    <3>2. CASE ~Stays(bytes)
      BY <1>0, <3>2, BestFits DEF Chosen
    <3> QED
      BY <3>1, <3>2
  <2> QED
    BY <1>6, <2>1, <2>2, ApplyKeeps
<1>2. CASE HoldNovelTask
  <2> DEFINE entry == [from |-> CoreOnly, to |-> CoreOnly, trigger |-> "novel_task"]
  <2>1. /\ changes' = Append(changes, entry) /\ tier = CoreOnly
        /\ tier' = tier /\ available' = available
    BY <1>2 DEF HoldNovelTask
  <2>2. entry.from = tier /\ entry.to = tier' /\ entry \in [from : Tiers, to : Tiers, trigger : Triggers]
    BY <1>0, <1>6, <2>1
  <2> HIDE DEF entry
  <2>3. BodyFits' /\ tier' \in Tiers /\ available' \in Nat
    BY <2>1 DEF SliderInv, BodyFits
  <2> QED
    BY <2>1, <2>2, <2>3, LogGrows DEF SliderInv
<1>3. CASE EvictReasoner
  <2>1. available' = 0 /\ ApplyTier(CoreOnly, "memory_change")
    BY <1>3 DEF EvictReasoner
  <2> QED
    BY <1>0, <1>6, <2>1, ApplyKeeps
<1>4. CASE RestoreReasoner
  <2>1. PICK bytes \in Nat : available' = bytes /\ ApplyTier(BestFit(bytes), "restore")
    BY <1>0, <1>4 DEF RestoreReasoner
  <2>2. BestFit(bytes) \in Tiers /\ (BestFit(bytes) \in MX => Bytes[BestFit(bytes)] <= bytes + Hysteresis)
    BY <1>0, BestFits
  <2> QED
    BY <1>6, <2>1, <2>2, ApplyKeeps
<1>5. CASE UNCHANGED slider
  BY <1>5 DEF slider, SliderInv, BodyFits, LogLeads
<1> QED
  BY <1>1, <1>2, <1>3, <1>4, <1>5 DEF ResidencyNext

(* However memory comes and goes, with any tiers and any hysteresis, what is *)
(* resident fits it but for the hysteresis, and the log leads from change to *)
(* change up to the tier it is in (ResidencyManager).                        *)
THEOREM ResidentFits == ResidencySpec => []SliderAccounted
<1>1. ResidencyInit => SliderInv
  <2> SUFFICES ASSUME ResidencyInit PROVE SliderInv
    OBVIOUS
  <2>1. PICK bytes \in Nat : available = bytes /\ tier = BestFit(bytes)
    BY ResidencyAssumption DEF ResidencyInit
  <2>2. BodyFits
    <3>1. tier \in MX => Bytes[tier] \in Nat /\ Bytes[tier] <= bytes /\ Hysteresis \in Nat
      BY <2>1, BestFits, ResidencyAssumption DEF MX
    <3> QED
      BY <2>1, <3>1 DEF BodyFits
  <2>3. changes = <<>> /\ LogLeads /\ changes \in Seq([from : Tiers, to : Tiers, trigger : Triggers])
    BY DEF ResidencyInit, LogLeads
  <2> QED
    BY <2>1, <2>2, <2>3, BestFits DEF SliderInv
<1>2. SliderInv => SliderAccounted
  BY DEF SliderInv, SliderAccounted
<1> QED
  BY <1>1, <1>2, SliderInvInductive, PTL DEF ResidencySpec

-----------------------------------------------------------------------------
(* Humanoid.  The counter decides when the policy is due: from one multiple  *)
(* of the period to the next its remainder rises with every step.            *)

LEMMA NextRemainder ==
  ASSUME NEW D \in Nat \ {0}, NEW t \in Nat, (t + 1) % D # 0
  PROVE  (t + 1) % D = (t % D) + 1
<1>. DEFINE q == t \div D
            r == t % D
            s == (t + 1) \div D
            u == (t + 1) % D
<1>1. q \in Nat /\ r \in 0..(D - 1) /\ t = D * q + r
  OBVIOUS
<1>2. s \in Nat /\ u \in 1..(D - 1) /\ t + 1 = D * s + u
  OBVIOUS
<1>. HIDE DEF q, r, s, u
<1>3. D * (s - q) = r + 1 - u
  BY <1>1, <1>2
<1>4. CASE s - q = 0
  BY <1>1, <1>2, <1>3, <1>4 DEF r, u
<1>5. CASE s - q >= 1
  <2>1. D * (s - q) >= D BY <1>5, <1>1, <1>2
  <2>. QED BY <2>1, <1>1, <1>2, <1>3
<1>6. CASE s - q <= -1
  <2>1. D * (s - q) <= -D BY <1>6, <1>1, <1>2
  <2>. QED BY <2>1, <1>1, <1>2, <1>3
<1>. QED BY <1>4, <1>5, <1>6, <1>1, <1>2

(* What a provider keeps: the artifact it was built from is sound, only its  *)
(* legs' actuators hold a torque, each that leg's, within the bounds; and as *)
(* long as the legs are driven to something else than what is asked, what is *)
(* asked is younger than the policy's last turn.                             *)
Driving(i) == torque[i] \in [leg : Legs, aim : Velocity] /\ torque[i].leg = g1.drives[i]
              /\ WithinBounds(torque[i].aim)
BuiltSound ==
  /\ g1 # Unbound => g1 \in Artifacts /\ Sound(g1) /\ DOMAIN torque = 1..g1.actuators
  /\ g1 = Unbound => ~online /\ torque = <<>> /\ command = AtRest /\ aim = AtRest
Moderate ==
  /\ command \in Velocity /\ WithinBounds(command)
  /\ aim \in Velocity /\ WithinBounds(aim)
LegsDriven == \A i \in DOMAIN torque : torque[i] # Unbound => i \in OfLegs(g1) /\ Driving(i)
Young == g1 # Unbound /\ aim # command => held <= ticks % g1.decimation
HumanoidInv ==
  /\ online \in BOOLEAN /\ ticks \in Nat /\ held \in Nat
  /\ BuiltSound /\ Moderate /\ LegsDriven /\ Young /\ OfflineIsStill

LEMMA RestIsModerate == AtRest \in Velocity /\ WithinBounds(AtRest)
BY HumanoidAssumption DEF AtRest, Velocity, WithinBounds, Axes

LEMMA ClippedIsModerate ==
  ASSUME NEW velocity \in Intents, \A i \in Axes : velocity[i] # NoNumber
  PROVE  LET clipped == [i \in Axes |-> Clip(velocity[i], Fastest[i])]
         IN  clipped \in Velocity /\ WithinBounds(clipped)
<1>1. \A i \in Axes : velocity[i] \in Int /\ Fastest[i] \in Nat
  BY HumanoidAssumption
<1>2. \A i \in Axes : Clip(velocity[i], Fastest[i]) \in -Fastest[i]..Fastest[i]
  BY <1>1 DEF Clip
<1>3. \A i \in Axes : Clip(velocity[i], Fastest[i]) \in Int
  BY <1>1 DEF Clip
<1>. QED BY <1>2, <1>3 DEF Velocity, WithinBounds

LEMMA ReleasedLegs ==
  ASSUME HumanoidInv, g1 # Unbound
  PROVE  \A i \in DOMAIN torque : Released[i] = Unbound
BY DEF HumanoidInv, LegsDriven, Released

LEMMA HumanoidStarts == HumanoidInit => HumanoidInv
<1>. SUFFICES ASSUME HumanoidInit PROVE HumanoidInv
  OBVIOUS
<1>1. DOMAIN torque = {}
  BY DEF HumanoidInit
<1>. QED BY <1>1, RestIsModerate
     DEF HumanoidInit, HumanoidInv, BuiltSound, Moderate, LegsDriven, Young, OfflineIsStill

LEMMA HumanoidStep == HumanoidInv /\ [HumanoidNext]_humanoid => HumanoidInv'
<1>. SUFFICES ASSUME HumanoidInv, [HumanoidNext]_humanoid PROVE HumanoidInv'
  OBVIOUS
<1>0. g1 # Unbound => g1 \in Artifacts /\ g1.decimation \in Nat \ {0}
  BY HumanoidAssumption DEF HumanoidInv, BuiltSound, Sound, Configured
<1>r. g1 # Unbound => ticks % g1.decimation \in Nat
  BY <1>0 DEF HumanoidInv
<1>1. ASSUME NEW a \in Artifacts, Build(a) PROVE HumanoidInv'
  <2>1. DOMAIN torque' = 1..a.actuators /\ \A i \in DOMAIN torque' : torque'[i] = Unbound
    BY <1>1 DEF Build, NoTorque
  <2>2. a # Unbound /\ command = AtRest /\ aim = AtRest
    BY <1>1, HumanoidAssumption DEF Build, HumanoidInv, BuiltSound
  <2>. QED BY <1>1, <2>1, <2>2, RestIsModerate
       DEF Build, HumanoidInv, BuiltSound, Moderate, LegsDriven, Young, OfflineIsStill
<1>2. ASSUME NEW velocity \in Intents, SetVelocity(velocity) PROVE HumanoidInv'
  <2>1. command' \in Velocity /\ WithinBounds(command')
    BY <1>2, ClippedIsModerate DEF SetVelocity, Intend
  <2>2. Young'
    BY <1>2, <1>r DEF SetVelocity, Intend, HumanoidInv, Young
  <2>. QED BY <1>2, <2>1, <2>2
       DEF SetVelocity, Intend, HumanoidInv, BuiltSound, Moderate, LegsDriven, Driving, OfflineIsStill,
           OfLegs
<1>3. CASE StopMoving
  <2>1. Young'
    BY <1>3, <1>r DEF StopMoving, Intend, HumanoidInv, Young
  <2>. QED BY <1>3, <2>1, RestIsModerate
       DEF StopMoving, Intend, HumanoidInv, BuiltSound, Moderate, LegsDriven, Driving, OfflineIsStill,
           OfLegs
<1>4. ASSUME NEW on \in BOOLEAN, SetOnline(on) PROVE HumanoidInv'
  <2>1. CASE on
    BY <1>4, <2>1
    DEF SetOnline, HumanoidInv, BuiltSound, Moderate, LegsDriven, Driving, Young, OfflineIsStill, OfLegs
  <2>2. CASE ~on
    <3>1. DOMAIN torque' = DOMAIN torque /\ \A i \in DOMAIN torque' : torque'[i] = Unbound
      BY <1>4, <2>2, ReleasedLegs DEF SetOnline, Released
    <3>2. Young'
      BY <1>4, <2>2, <1>r DEF SetOnline, Intend, HumanoidInv, Young
    <3>. QED BY <1>4, <2>2, <3>1, <3>2, RestIsModerate
         DEF SetOnline, Intend, HumanoidInv, BuiltSound, Moderate, LegsDriven, OfflineIsStill
  <2>. QED BY <2>1, <2>2
<1>5. CASE PhysicsStep
  <2>1. DOMAIN torque' = DOMAIN torque
    BY <1>5 DEF PhysicsStep, Pursued
  <2>2. LegsDriven'
    <3>. SUFFICES ASSUME NEW i \in DOMAIN torque, torque'[i] # Unbound
                  PROVE  i \in OfLegs(g1) /\ Driving(i)'
      BY <1>5, <2>1 DEF LegsDriven, PhysicsStep, OfLegs
    <3>1. CASE i \notin OfLegs(g1)
      BY <3>1, <1>5 DEF PhysicsStep, Pursued, HumanoidInv, LegsDriven
    <3>2. CASE i \in OfLegs(g1)
      <4>. DEFINE own == CHOOSE j \in Legs : g1.named[j] = i
      <4>1. own \in Legs /\ g1.named[own] = i
        BY <3>2 DEF OfLegs
      <4>2. g1.drives[i] = own
        BY <4>1, <1>5 DEF PhysicsStep, HumanoidInv, BuiltSound, Sound, ActuatorsBound
      <4>3. torque'[i] = [leg |-> own, aim |-> aim]
        BY <3>2, <1>5 DEF PhysicsStep, Pursued
      <4>. QED BY <3>2, <4>1, <4>2, <4>3, <1>5 DEF PhysicsStep, Driving, HumanoidInv, Moderate
    <3>. QED BY <3>1, <3>2
  <2>3. Moderate' /\ held' \in Nat /\ ticks' \in Nat
    BY <1>5 DEF PhysicsStep, PolicyUpdate, HumanoidInv, Moderate
  <2>4. Young'
    <3>. SUFFICES ASSUME aim' # command' PROVE held' <= ticks' % g1.decimation
      BY <1>5 DEF Young, PhysicsStep
    <3>1. CASE Due
      <4>1. held' = 0
        BY <3>1, <1>5 DEF PhysicsStep, PolicyUpdate
      <4>2. ticks' % g1.decimation \in Nat
        BY <1>0, <2>3, <1>5 DEF PhysicsStep
      <4>. QED BY <4>1, <4>2
    <3>2. CASE ~Due
      <4>1. ticks' = ticks + 1 /\ held' = held + 1 /\ aim # command
        BY <3>2, <1>5 DEF PhysicsStep
      <4>2. ticks' % g1.decimation = (ticks % g1.decimation) + 1
        BY <4>1, <3>2, <1>0, <1>5, NextRemainder DEF Due, PhysicsStep, HumanoidInv
      <4>. QED BY <4>1, <4>2, <1>5, <1>r DEF HumanoidInv, Young, PhysicsStep
    <3>. QED BY <3>1, <3>2
  <2>. QED BY <1>5, <2>1, <2>2, <2>3, <2>4
       DEF PhysicsStep, HumanoidInv, BuiltSound, OfflineIsStill
<1>6. CASE OfflineStep
  <2>1. DOMAIN torque' = DOMAIN torque /\ \A i \in DOMAIN torque' : torque'[i] = Unbound
    BY <1>6, ReleasedLegs DEF OfflineStep, Released
  <2>. QED BY <1>6, <2>1
       DEF OfflineStep, HumanoidInv, BuiltSound, Moderate, LegsDriven, Young, OfflineIsStill
<1>7. CASE UNCHANGED humanoid
  BY <1>7 DEF humanoid, HumanoidInv, BuiltSound, Moderate, LegsDriven, Driving, Young, OfflineIsStill,
              OfLegs
<1>. QED BY <1>1, <1>2, <1>3, <1>4, <1>5, <1>6, <1>7 DEF HumanoidNext

(* A provider that is offline is asked nothing and drives nothing; what it   *)
(* drives are its legs, each by its own actuator and within the bounds.      *)
THEOREM HumanoidStaysSafe == HumanoidSpec => []HumanoidSafe
<1>1. HumanoidInv => HumanoidSafe
  BY DEF HumanoidInv, HumanoidSafe, LegsDriven, Driving, OnlyLegsMove
<1>. QED BY HumanoidStarts, HumanoidStep, <1>1, PTL DEF HumanoidSpec

(* What is asked for a whole period of the policy is what the legs are       *)
(* driven to, unless the policy failed meanwhile.                            *)
THEOREM IntentReachesLegs == HumanoidSpec => []IntentTakesHold
<1>1. HumanoidInv => IntentTakesHold
  <2>. SUFFICES ASSUME HumanoidInv, g1 # Unbound, held >= g1.decimation PROVE aim = command
    BY DEF IntentTakesHold
  <2>1. g1.decimation \in Nat \ {0}
    BY HumanoidAssumption DEF HumanoidInv, BuiltSound, Sound, Configured
  <2>2. ticks % g1.decimation < g1.decimation
    BY <2>1 DEF HumanoidInv
  <2>. QED BY <2>1, <2>2 DEF HumanoidInv, Young
<1>. QED BY HumanoidStarts, HumanoidStep, <1>1, PTL DEF HumanoidSpec

(* The two together: it does nothing it must not, and what it is asked.      *)
THEOREM HumanoidStaysObedient == HumanoidSpec => []HumanoidObeys
<1>1. HumanoidSafe /\ IntentTakesHold => HumanoidObeys
  BY DEF HumanoidObeys
<1>. QED BY <1>1, HumanoidStaysSafe, IntentReachesLegs, PTL

-----------------------------------------------------------------------------
(* SessionServer.  A request that adds constraints is the only one to add    *)
(* those of its session's body, and the worker is not there before it is     *)
(* through; what a session has, and was told of it, it keeps.                *)

Of(q) == {q[i] : i \in DOMAIN q}
Views == [receipt : BOOLEAN, status : {"unseen", "queued", "running", "finished", "failed"}, error : BOOLEAN]
RequestForms == [at : {"free", "adding", "summary", "status", "error"}, id : SessionIds \cup {Nowhere},
             left : Seq(Posted), view : Views \cup {Nowhere}]
ServerTypes == sessions \in [SessionIds -> Stored \cup {Nowhere}] /\ requests \in [Handlers -> RequestForms]
Honest(id, view) == view.status = "finished" => sessions[id].receipt
BusyAlright == \A t \in Handlers : requests[t].at # "free" =>
  /\ requests[t].id \in SessionIds /\ Exists(requests[t].id)
  /\ requests[t].view \in Views /\ Honest(requests[t].id, requests[t].view)
AddsAlone == \A t, u \in Handlers :
  requests[t].at = "adding" /\ requests[u].at = "adding" /\ requests[t].id = requests[u].id => t = u
AddsAll == \A t \in Handlers : requests[t].at = "adding" =>
  LET s == sessions[requests[t].id]
  IN  /\ s.worker = "none"
      /\ AskedFor(s) \subseteq s.queue \cup s.named \cup Of(requests[t].left)
      /\ AskedFor(s) \subseteq Permissible \cup Of(requests[t].left)
RunAlright(s) ==
  /\ s.worker # "none" => /\ AskedFor(s) \subseteq Permissible
                          /\ AskedFor(s) \subseteq s.named \cup s.queue
  /\ s.worker = "loop" => AskedFor(s) \subseteq s.named
  /\ s.worker = "finishing" \/ s.status = "finished" => s.receipt
SessionsAlright == \A id \in SessionIds : Exists(id) => RunAlright(sessions[id])
ToldAlright == \A r \in told :
  /\ r.id \in SessionIds \cup {Nowhere}
  /\ r.id # Nowhere => Exists(r.id)
  /\ r.view # Nowhere => r.id \in SessionIds /\ Honest(r.id, r.view)
ServerInv == ServerTypes /\ BusyAlright /\ AddsAlone /\ AddsAll /\ SessionsAlright /\ ToldAlright

LEMMA OfFirst ==
  ASSUME NEW q \in Seq(Posted), q # <<>>
  PROVE  Head(q) \in Posted /\ Tail(q) \in Seq(Posted) /\ Of(q) = {Head(q)} \cup Of(Tail(q))
<1>1. Len(q) \in Nat /\ Len(q) >= 1 /\ DOMAIN q = 1..Len(q) /\ DOMAIN Tail(q) = 1..(Len(q) - 1)
  OBVIOUS
<1>2. \A i \in 1..(Len(q) - 1) : Tail(q)[i] = q[i + 1] /\ i + 1 \in DOMAIN q
  BY <1>1
<1>3. \A i \in DOMAIN q : i = 1 \/ (i - 1 \in DOMAIN Tail(q) /\ q[i] = Tail(q)[i - 1])
  BY <1>1, <1>2
<1>4. Head(q) = q[1] /\ 1 \in DOMAIN q
  BY <1>1
<1>5. Of(q) \subseteq {Head(q)} \cup Of(Tail(q))
  BY <1>3, <1>4 DEF Of
<1>6. {Head(q)} \cup Of(Tail(q)) \subseteq Of(q)
  BY <1>1, <1>2, <1>4 DEF Of
<1>. QED BY <1>5, <1>6

LEMMA OfBoth ==
  ASSUME NEW p \in Seq(Posted), NEW q \in Seq(Posted)
  PROVE  p \o q \in Seq(Posted) /\ Of(p) \cup Of(q) \subseteq Of(p \o q)
<1>1. p \o q \in Seq(Posted) /\ DOMAIN (p \o q) = 1..(Len(p) + Len(q))
      /\ DOMAIN p = 1..Len(p) /\ DOMAIN q = 1..Len(q) /\ Len(p) \in Nat /\ Len(q) \in Nat
  OBVIOUS
<1>2. \A i \in DOMAIN p : i \in DOMAIN (p \o q) /\ (p \o q)[i] = p[i]
  BY <1>1
<1>3. \A i \in DOMAIN q : Len(p) + i \in DOMAIN (p \o q) /\ (p \o q)[Len(p) + i] = q[i]
  BY <1>1
<1>. QED BY <1>1, <1>2, <1>3 DEF Of

LEMMA EngineTyped ==
  ASSUME NEW profile, EngineFor(profile) # Nowhere
  PROVE  EngineFor(profile) \in Engines
<1>1. profile \in Profiles \cup {Nowhere}
  BY DEF EngineFor
<1>2. Reasoner \in {"rules", "mock", "omni", Nowhere}
  BY DEF Reasoner
<1>3. CASE Runtime = "mock"
  BY <1>1, <1>2, <1>3 DEF EngineFor, MockEngine, Engines
<1>4. CASE Runtime # "mock"
  <2>1. IntelEngine # Nowhere /\ EngineFor(profile) = [IntelEngine EXCEPT !.profile = profile]
    BY <1>1, <1>4 DEF EngineFor
  <2>2. IntelEngine \in Engines
    BY <2>1, <1>2 DEF IntelEngine, Engines
  <2>. QED BY <2>1, <2>2, <1>1 DEF Engines
<1>. QED BY <1>3, <1>4

LEMMA ServerStarts == ServerInit => ServerInv
<1>1. <<>> \in Seq(Posted)
  OBVIOUS
<1>. QED BY <1>1 DEF ServerInit, ServerInv, ServerTypes, RequestForms, Free, BusyAlright, AddsAlone, AddsAll,
              SessionsAlright, ToldAlright, Exists

(* What a worker, a constraint or the start makes of a session leaves what   *)
(* was told of it, and what is being told, as true as it was.                *)
LEMMA SessionMovesOn ==
  ASSUME ServerInv, NEW id \in SessionIds, Exists(id), NEW s \in Stored,
         sessions' = [sessions EXCEPT ![id] = s], sessions[id].receipt => s.receipt, RunAlright(s)
  PROVE  /\ sessions' \in [SessionIds -> Stored \cup {Nowhere}]
         /\ \A i \in SessionIds : Exists(i)' = Exists(i)
         /\ \A view : \A i \in SessionIds : Exists(i) /\ Honest(i, view) => Honest(i, view)'
         /\ SessionsAlright' /\ (UNCHANGED told => ToldAlright')
         /\ (UNCHANGED requests => BusyAlright')
<1>1. s # Nowhere
  BY ServerAssumption
<1>2. sessions' \in [SessionIds -> Stored \cup {Nowhere}]
      /\ sessions'[id] = s /\ \A i \in SessionIds : i # id => sessions'[i] = sessions[i]
  BY DEF ServerInv, ServerTypes
<1>3. \A i \in SessionIds : Exists(i)' = Exists(i)
  BY <1>1, <1>2 DEF Exists
<1>4. \A view : \A i \in SessionIds : Exists(i) /\ Honest(i, view) => Honest(i, view)'
  BY <1>2 DEF Honest
<1>5. SessionsAlright'
  BY <1>2, <1>3 DEF ServerInv, SessionsAlright, Exists
<1>6. UNCHANGED told => ToldAlright'
  BY <1>3, <1>4, ServerAssumption DEF ServerInv, ToldAlright
<1>7. UNCHANGED requests => BusyAlright'
  BY <1>3, <1>4 DEF ServerInv, BusyAlright
<1>. QED BY <1>2, <1>3, <1>4, <1>5, <1>6, <1>7

LEMMA FreeIsRequest == Free \in RequestForms /\ Free.at = "free"
BY DEF Free, RequestForms

(* An answer that is true ends a request and disturbs nothing else.          *)
LEMMA AnswerIsTrue ==
  ASSUME ServerInv, NEW t \in Handlers, NEW code, NEW id \in SessionIds \cup {Nowhere}, NEW view,
         Respond(t, code, id, view), UNCHANGED sessions,
         id # Nowhere => Exists(id), view # Nowhere => id \in SessionIds /\ Honest(id, view)
  PROVE  ServerInv'
<1>1. requests' = [requests EXCEPT ![t] = Free] /\ told' = told \cup {[code |-> code, id |-> id, view |-> view]}
  BY DEF Respond
<1>2. \A u \in Handlers : requests'[u] = IF u = t THEN Free ELSE requests[u]
  BY <1>1 DEF ServerInv, ServerTypes
<1>3. ServerTypes'
  BY <1>1, FreeIsRequest DEF ServerInv, ServerTypes
<1>4. BusyAlright' /\ AddsAlone' /\ AddsAll'
  BY <1>2, FreeIsRequest DEF ServerInv, BusyAlright, AddsAlone, AddsAll, Exists, Honest
<1>5. ToldAlright'
  BY <1>1 DEF ServerInv, ToldAlright, Exists, Honest
<1>6. SessionsAlright'
  BY DEF ServerInv, SessionsAlright, Exists
<1>. QED BY <1>3, <1>4, <1>5, <1>6 DEF ServerInv

(* Looking at a session changes the request that looks alone.                *)
LEMMA LookIsTrue ==
  ASSUME ServerInv, NEW t \in Handlers, NEW r \in RequestForms, requests' = [requests EXCEPT ![t] = r],
         UNCHANGED <<sessions, told>>, r.at \in {"summary", "status", "error"},
         r.id \in SessionIds, Exists(r.id), r.view \in Views, Honest(r.id, r.view)
  PROVE  ServerInv'
<1>1. \A u \in Handlers : requests'[u] = IF u = t THEN r ELSE requests[u]
  BY DEF ServerInv, ServerTypes
<1>2. ServerTypes'
  BY DEF ServerInv, ServerTypes
<1>3. BusyAlright' /\ AddsAlone' /\ AddsAll'
  BY <1>1 DEF ServerInv, BusyAlright, AddsAlone, AddsAll, Exists, Honest
<1>4. ToldAlright' /\ SessionsAlright'
  BY DEF ServerInv, ToldAlright, SessionsAlright, Exists, Honest
<1>. QED BY <1>2, <1>3, <1>4 DEF ServerInv

LEMMA UnseenIsHonest == Unseen \in Views /\ \A id : Honest(id, Unseen)
BY DEF Unseen, Views, Honest

LEMMA CreateKeeps ==
  ASSUME ServerInv, NEW t \in Handlers, NEW body \in Bodies, NEW id \in SessionIds, CreateSession(t, body, id)
  PROVE  ServerInv'
<1> DEFINE s == sessions'[id]
           r == requests'[t]
<1>1. ~Exists(id) /\ EngineFor(body.profile) \in Engines
  BY EngineTyped DEF CreateSession
<1>2. body.spoken \in Seq(Posted) /\ body.listed \in Seq(Posted)
  BY ServerAssumption
<1>3. sessions' \in [SessionIds -> Stored \cup {Nowhere}] /\ s \in Stored /\ s # Nowhere
      /\ s.body = body /\ s.worker = "none" /\ s.status = "queued"
      /\ \A i \in SessionIds : i # id => sessions'[i] = sessions[i]
  <2> DEFINE new == [body |-> body, engine |-> EngineFor(body.profile), status |-> "queued", queue |-> {},
                     named |-> {}, receipt |-> FALSE, error |-> FALSE, worker |-> "none"]
  <2>1. new \in Stored
    BY <1>1 DEF Stored
  <2>2. sessions' = [sessions EXCEPT ![id] = new]
    BY DEF CreateSession
  <2>3. new # Nowhere /\ new.body = body /\ new.worker = "none" /\ new.status = "queued"
    BY <2>1, ServerAssumption
  <2>. HIDE DEF new
  <2>. QED BY <2>1, <2>2, <2>3 DEF ServerInv, ServerTypes
<1>4. requests' \in [Handlers -> RequestForms] /\ r.at = "adding" /\ r.id = id /\ r.view = Unseen
      /\ r.left = body.spoken \o body.listed
      /\ \A u \in Handlers : u # t => requests'[u] = requests[u]
  <2> DEFINE new == [at |-> "adding", id |-> id, left |-> body.spoken \o body.listed, view |-> Unseen]
  <2>1. new \in RequestForms
    BY <1>2, OfBoth, UnseenIsHonest DEF RequestForms
  <2>2. requests' = [requests EXCEPT ![t] = new]
    BY DEF CreateSession
  <2>. QED BY <2>1, <2>2 DEF ServerInv, ServerTypes
<1>5. AskedFor(s) = Of(body.spoken) \cup Of(body.listed) /\ AskedFor(s) \subseteq Of(r.left)
  <2>1. AskedFor(s) = Of(body.spoken) \cup Of(body.listed)
    BY <1>3 DEF AskedFor, Of
  <2>. QED BY <2>1, <1>2, <1>4, OfBoth
<1>6. \A u \in Handlers : requests[u].at # "free" => requests[u].id \in SessionIds /\ requests[u].id # id
  BY <1>1 DEF ServerInv, BusyAlright
<1>. HIDE DEF s, r
<1>7. \A i \in SessionIds : Exists(i) => i # id /\ Exists(i)' /\ sessions'[i] = sessions[i]
  BY <1>1, <1>3 DEF Exists
<1>8. Exists(id)'
  BY <1>3 DEF Exists, s
<1>9. BusyAlright'
  BY <1>4, <1>6, <1>7, <1>8, UnseenIsHonest DEF ServerInv, BusyAlright, Honest, r, Unseen
<1>10. AddsAlone'
  BY <1>4, <1>6 DEF ServerInv, AddsAlone, r
<1>11. AddsAll'
  <2>. SUFFICES ASSUME NEW u \in Handlers, requests'[u].at = "adding"
                PROVE  LET v == sessions'[requests'[u].id]
                       IN  /\ v.worker = "none"
                           /\ AskedFor(v) \subseteq v.queue \cup v.named \cup Of(requests'[u].left)
                           /\ AskedFor(v) \subseteq Permissible \cup Of(requests'[u].left)
    BY DEF AddsAll
  <2>1. CASE u = t
    BY <2>1, <1>3, <1>4, <1>5 DEF r, s
  <2>2. CASE u # t
    <3>1. requests'[u] = requests[u] /\ requests[u].at = "adding"
      BY <2>2, <1>4
    <3>2. sessions'[requests[u].id] = sessions[requests[u].id]
      BY <3>1, <1>3, <1>6
    <3>. QED BY <3>1, <3>2 DEF ServerInv, AddsAll
  <2>. QED BY <2>1, <2>2
<1>12. SessionsAlright'
  BY <1>3, <1>1 DEF ServerInv, SessionsAlright, RunAlright, Exists, s
<1>13. ToldAlright'
  BY <1>7, ServerAssumption DEF ServerInv, ToldAlright, CreateSession, Honest
<1>. QED BY <1>3, <1>4, <1>9, <1>10, <1>11, <1>12, <1>13 DEF ServerInv, ServerTypes

(* A constraint is queued, at the first place of the request that adds it,   *)
(* or of one that now looks at its session.                                  *)
LEMMA QueuedIsStored ==
  ASSUME ServerInv, NEW id \in SessionIds, Exists(id), NEW c \in Posted
  PROVE  LET s == [sessions[id] EXCEPT !.queue = @ \cup {c}]
         IN  /\ s \in Stored /\ RunAlright(s) /\ AskedFor(s) = AskedFor(sessions[id])
             /\ s.queue = sessions[id].queue \cup {c} /\ s.named = sessions[id].named
             /\ s.worker = sessions[id].worker /\ s.receipt = sessions[id].receipt
             /\ Queued(id, c) = [sessions EXCEPT ![id] = s]
<1>1. sessions[id] \in Stored
  BY DEF ServerInv, ServerTypes, Exists
<1> DEFINE s == [sessions[id] EXCEPT !.queue = @ \cup {c}]
<1>2. s \in Stored /\ s.queue = sessions[id].queue \cup {c} /\ s.named = sessions[id].named
      /\ s.worker = sessions[id].worker /\ s.receipt = sessions[id].receipt
      /\ s.status = sessions[id].status /\ s.body = sessions[id].body
  BY <1>1 DEF Stored
<1>3. Queued(id, c) = [sessions EXCEPT ![id] = s]
  BY DEF Queued, ServerInv, ServerTypes
<1>. HIDE DEF s
<1>4. AskedFor(s) = AskedFor(sessions[id])
  BY <1>2 DEF AskedFor
<1>5. RunAlright(sessions[id])
  BY DEF ServerInv, SessionsAlright
<1>6. RunAlright(s)
  BY <1>2, <1>4, <1>5 DEF RunAlright
<1>. QED BY <1>2, <1>3, <1>4, <1>6 DEF s

LEMMA AddKeeps ==
  ASSUME ServerInv, NEW t \in Handlers, AddNext(t)
  PROVE  ServerInv'
<1> DEFINE id == requests[t].id
           c == Head(requests[t].left)
<1>1. requests[t] \in RequestForms /\ requests[t].left \in Seq(Posted) /\ requests[t].left # <<>>
      /\ requests[t].at = "adding"
  BY DEF ServerInv, ServerTypes, RequestForms, AddNext
<1>2. id \in SessionIds /\ Exists(id) /\ c \in Posted
  BY <1>1, OfFirst DEF ServerInv, BusyAlright
<1>3. CASE ~(TakesConstraints(id) /\ c \in Permissible)
  <2>1. Respond(t, 400, id, Nowhere) /\ UNCHANGED sessions
    BY <1>3 DEF AddNext
  <2>. QED BY <2>1, <1>2, AnswerIsTrue
<1>4. CASE TakesConstraints(id) /\ c \in Permissible
  <2> DEFINE s == [sessions[id] EXCEPT !.queue = @ \cup {c}]
  <2>1. sessions' = Queued(id, c) /\ requests' = [requests EXCEPT ![t].left = Tail(@)] /\ UNCHANGED told
    BY <1>4 DEF AddNext
  <2>2. /\ s \in Stored /\ RunAlright(s) /\ AskedFor(s) = AskedFor(sessions[id])
        /\ s.queue = sessions[id].queue \cup {c} /\ s.named = sessions[id].named
        /\ s.worker = sessions[id].worker /\ s.receipt = sessions[id].receipt
        /\ sessions' = [sessions EXCEPT ![id] = s]
    BY <2>1, <1>2, QueuedIsStored
  <2>3. /\ requests' \in [Handlers -> RequestForms] /\ \A u \in Handlers : u # t => requests'[u] = requests[u]
        /\ requests'[t].at = "adding" /\ requests'[t].id = id /\ requests'[t].view = requests[t].view
        /\ requests'[t].left = Tail(requests[t].left)
    BY <2>1, <1>1, OfFirst DEF ServerInv, ServerTypes, RequestForms
  <2>4. Of(requests[t].left) = {c} \cup Of(requests'[t].left)
    BY <1>1, <2>3, OfFirst
  <2>. HIDE DEF s
  <2>5. /\ sessions' \in [SessionIds -> Stored \cup {Nowhere}]
        /\ \A i \in SessionIds : Exists(i)' = Exists(i)
        /\ \A view : \A i \in SessionIds : Exists(i) /\ Honest(i, view) => Honest(i, view)'
        /\ SessionsAlright' /\ ToldAlright'
    BY <2>1, <2>2, <1>2, SessionMovesOn
  <2>6. \A u \in Handlers : requests'[u].at = requests[u].at /\ requests'[u].id = requests[u].id
                            /\ requests'[u].view = requests[u].view
    BY <2>3, <1>1
  <2>7. BusyAlright' /\ AddsAlone'
    BY <2>5, <2>6 DEF ServerInv, BusyAlright, AddsAlone
  <2>8. AddsAll'
    <3>. SUFFICES ASSUME NEW u \in Handlers, requests'[u].at = "adding"
                  PROVE  LET v == sessions'[requests'[u].id]
                         IN  /\ v.worker = "none"
                             /\ AskedFor(v) \subseteq v.queue \cup v.named \cup Of(requests'[u].left)
                             /\ AskedFor(v) \subseteq Permissible \cup Of(requests'[u].left)
      BY DEF AddsAll
    <3>0. LET v == sessions[requests[u].id]
          IN  /\ v.worker = "none" /\ requests[u].id \in SessionIds
              /\ AskedFor(v) \subseteq v.queue \cup v.named \cup Of(requests[u].left)
              /\ AskedFor(v) \subseteq Permissible \cup Of(requests[u].left)
      BY <2>6 DEF ServerInv, AddsAll, BusyAlright
    <3>1. CASE u = t
      <4>1. sessions'[id] = s
        BY <2>2, <1>2 DEF ServerInv, ServerTypes
      <4>. QED BY <3>0, <3>1, <4>1, <2>2, <2>3, <2>4, <1>4
    <3>2. CASE u # t
      <4>1. requests[u].id # id
        BY <3>2, <2>6, <1>1 DEF ServerInv, AddsAlone
      <4>2. sessions'[requests[u].id] = sessions[requests[u].id]
        BY <4>1, <2>2, <3>0 DEF ServerInv, ServerTypes
      <4>. QED BY <3>0, <3>2, <4>2, <2>3
    <3>. QED BY <3>1, <3>2
  <2>. QED BY <2>3, <2>5, <2>7, <2>8 DEF ServerInv, ServerTypes
<1>. QED BY <1>3, <1>4

LEMMA StartKeeps ==
  ASSUME ServerInv, NEW t \in Handlers, StartSession(t)
  PROVE  ServerInv'
<1> DEFINE id == requests[t].id
           s == [sessions[id] EXCEPT !.status = "running", !.worker = "begin"]
<1>1. requests[t] \in RequestForms /\ requests[t].left = <<>> /\ requests[t].at = "adding"
  BY DEF ServerInv, ServerTypes, StartSession
<1>2. id \in SessionIds /\ Exists(id) /\ sessions[id] \in Stored
  BY <1>1 DEF ServerInv, BusyAlright, ServerTypes, Exists
<1>3. CASE sessions[id].status # "queued"
  <2>1. Respond(t, 400, id, Nowhere) /\ UNCHANGED sessions
    BY <1>3 DEF StartSession
  <2>. QED BY <2>1, <1>2, AnswerIsTrue
<1>4. CASE sessions[id].status = "queued"
  <2>1. sessions' = [sessions EXCEPT ![id].status = "running", ![id].worker = "begin"]
        /\ requests' = [requests EXCEPT ![t].at = "summary"] /\ UNCHANGED told
    BY <1>4 DEF StartSession
  <2>2. sessions' = [sessions EXCEPT ![id] = s]
    BY <2>1, <1>2 DEF ServerInv, ServerTypes
  <2>3. s \in Stored /\ s.worker = "begin" /\ s.status = "running" /\ s.receipt = sessions[id].receipt
        /\ s.queue = sessions[id].queue /\ s.named = sessions[id].named /\ s.body = sessions[id].body
    BY <1>2 DEF Stored
  <2>4. Of(requests[t].left) = {}
    BY <1>1 DEF Of
  <2>. HIDE DEF s
  <2>5. AskedFor(s) = AskedFor(sessions[id])
    BY <2>3 DEF AskedFor
  <2>6. RunAlright(s)
    BY <2>3, <2>4, <2>5, <1>1 DEF RunAlright, ServerInv, AddsAll
  <2>7. /\ sessions' \in [SessionIds -> Stored \cup {Nowhere}]
        /\ \A i \in SessionIds : Exists(i)' = Exists(i)
        /\ \A view : \A i \in SessionIds : Exists(i) /\ Honest(i, view) => Honest(i, view)'
        /\ SessionsAlright' /\ ToldAlright'
    BY <2>1, <2>2, <2>3, <2>6, <1>2, SessionMovesOn
  <2>8. /\ requests' \in [Handlers -> RequestForms] /\ \A u \in Handlers : u # t => requests'[u] = requests[u]
        /\ requests'[t].at = "summary" /\ requests'[t].id = id /\ requests'[t].view = requests[t].view
    BY <2>1, <1>1 DEF ServerInv, ServerTypes, RequestForms
  <2>9. BusyAlright' /\ AddsAlone'
    BY <2>7, <2>8, <1>1 DEF ServerInv, BusyAlright, AddsAlone
  <2>10. AddsAll'
    <3>. SUFFICES ASSUME NEW u \in Handlers, requests'[u].at = "adding"
                  PROVE  UNCHANGED requests[u] /\ UNCHANGED sessions[requests[u].id]
      BY DEF AddsAll, ServerInv
    <3>1. u # t /\ requests'[u] = requests[u]
      BY <2>8
    <3>2. requests[u].id # id /\ requests[u].id \in SessionIds
      BY <3>1, <1>1 DEF ServerInv, AddsAlone, BusyAlright
    <3>. QED BY <3>1, <3>2, <2>2 DEF ServerInv, ServerTypes
  <2>. QED BY <2>7, <2>8, <2>9, <2>10 DEF ServerInv, ServerTypes
<1>. QED BY <1>3, <1>4

LEMMA NamedExists ==
  ASSUME ServerInv, NEW id \in SessionIds, Named(id)
  PROVE  Exists(id)
BY ServerAssumption DEF ServerInv, ToldAlright, Named

LEMMA PostKeeps ==
  ASSUME ServerInv, NEW t \in Handlers, NEW id \in SessionIds, NEW c \in Posted, PostConstraint(t, id, c)
  PROVE  ServerInv'
<1>1. Exists(id) /\ requests[t] = Free
  BY NamedExists DEF PostConstraint, Arrives
<1>2. CASE ~(TakesConstraints(id) /\ c \in Permissible)
  <2>1. Respond(t, 400, id, Nowhere) /\ UNCHANGED sessions
    BY <1>1, <1>2 DEF PostConstraint
  <2>. QED BY <2>1, <1>1, AnswerIsTrue
<1>3. CASE TakesConstraints(id) /\ c \in Permissible
  <2> DEFINE s == [sessions[id] EXCEPT !.queue = @ \cup {c}]
             r == [at |-> "summary", id |-> id, left |-> <<>>, view |-> Unseen]
  <2>1. sessions' = Queued(id, c) /\ requests' = [requests EXCEPT ![t] = r] /\ UNCHANGED told
    BY <1>1, <1>3 DEF PostConstraint
  <2>2. /\ s \in Stored /\ RunAlright(s) /\ AskedFor(s) = AskedFor(sessions[id])
        /\ s.queue = sessions[id].queue \cup {c} /\ s.named = sessions[id].named
        /\ s.worker = sessions[id].worker /\ s.receipt = sessions[id].receipt
        /\ sessions' = [sessions EXCEPT ![id] = s]
    BY <2>1, <1>1, QueuedIsStored
  <2>3. <<>> \in Seq(Posted)
    OBVIOUS
  <2>4. r \in RequestForms /\ r.at = "summary" /\ r.id = id /\ r.view = Unseen
    BY <2>3, UnseenIsHonest DEF RequestForms
  <2>. HIDE DEF s, r
  <2>5. /\ sessions' \in [SessionIds -> Stored \cup {Nowhere}]
        /\ \A i \in SessionIds : Exists(i)' = Exists(i)
        /\ \A view : \A i \in SessionIds : Exists(i) /\ Honest(i, view) => Honest(i, view)'
        /\ SessionsAlright' /\ ToldAlright'
    BY <2>1, <2>2, <1>1, SessionMovesOn
  <2>6. \A u \in Handlers : requests'[u] = IF u = t THEN r ELSE requests[u]
    BY <2>1 DEF ServerInv, ServerTypes
  <2>7. BusyAlright'
    <3>1. Exists(id)' /\ Honest(id, Unseen)'
      BY <2>5, <1>1, UnseenIsHonest
    <3>. QED BY <2>4, <2>5, <2>6, <3>1, UnseenIsHonest DEF ServerInv, BusyAlright
  <2>8. AddsAlone'
    BY <2>4, <2>6 DEF ServerInv, AddsAlone
  <2>9. AddsAll'
    <3>. SUFFICES ASSUME NEW u \in Handlers, requests'[u].at = "adding"
                  PROVE  LET v == sessions'[requests'[u].id]
                         IN  /\ v.worker = "none"
                             /\ AskedFor(v) \subseteq v.queue \cup v.named \cup Of(requests'[u].left)
                             /\ AskedFor(v) \subseteq Permissible \cup Of(requests'[u].left)
      BY DEF AddsAll
    <3>1. requests'[u] = requests[u] /\ requests[u].id \in SessionIds
      BY <2>4, <2>6 DEF ServerInv, BusyAlright
    <3>2. LET v == sessions[requests[u].id]
          IN  /\ v.worker = "none"
              /\ AskedFor(v) \subseteq v.queue \cup v.named \cup Of(requests[u].left)
              /\ AskedFor(v) \subseteq Permissible \cup Of(requests[u].left)
      BY <3>1 DEF ServerInv, AddsAll
    <3>3. sessions'[requests[u].id] = IF requests[u].id = id THEN s ELSE sessions[requests[u].id]
      BY <3>1, <2>2 DEF ServerInv, ServerTypes
    <3>. QED BY <3>1, <3>2, <3>3, <2>2
  <2>10. requests' \in [Handlers -> RequestForms]
    BY <2>1, <2>4 DEF ServerInv, ServerTypes
  <2>. QED BY <2>5, <2>7, <2>8, <2>9, <2>10 DEF ServerInv, ServerTypes
<1>. QED BY <1>2, <1>3

LEMMA AskKeeps ==
  ASSUME ServerInv, NEW t \in Handlers, NEW id \in SessionIds, AskSummary(t, id) \/ AskReceipt(t, id)
  PROVE  ServerInv'
<1>1. Exists(id)
  BY NamedExists DEF AskSummary, AskReceipt
<1>2. CASE AskSummary(t, id)
  <2> DEFINE r == [at |-> "summary", id |-> id, left |-> <<>>, view |-> Unseen]
  <2>1. <<>> \in Seq(Posted)
    OBVIOUS
  <2>2. r \in RequestForms /\ r.at = "summary" /\ r.id = id /\ r.view = Unseen
    BY <2>1, UnseenIsHonest DEF RequestForms
  <2>3. requests' = [requests EXCEPT ![t] = r] /\ UNCHANGED <<sessions, told>>
    BY <1>2 DEF AskSummary
  <2>. HIDE DEF r
  <2>. QED BY <2>2, <2>3, <1>1, LookIsTrue, UnseenIsHonest
<1>3. CASE AskReceipt(t, id)
  <2>1. PICK code : Respond(t, code, id, Nowhere) /\ UNCHANGED sessions
    BY <1>3 DEF AskReceipt
  <2>. QED BY <2>1, <1>1, AnswerIsTrue
<1>. QED BY <1>2, <1>3

LEMMA SeeKeeps ==
  ASSUME ServerInv, NEW t \in Handlers, SeeReceipt(t) \/ SeeStatus(t) \/ SeeError(t)
  PROVE  ServerInv'
<1> DEFINE id == requests[t].id
           view == requests[t].view
<1>1. requests[t].at # "free" /\ requests[t] \in RequestForms
  BY DEF SeeReceipt, SeeStatus, SeeError, See, ServerInv, ServerTypes
<1>2. id \in SessionIds /\ Exists(id) /\ view \in Views /\ Honest(id, view)
  BY <1>1 DEF ServerInv, BusyAlright
<1>3. sessions[id] \in Stored /\ RunAlright(sessions[id])
  BY <1>2 DEF ServerInv, ServerTypes, SessionsAlright, Exists
<1>4. ASSUME NEW next \in {"status", "error"}, NEW seen \in Views, Honest(id, seen),
             requests' = [requests EXCEPT ![t].at = next, ![t].view = seen], UNCHANGED <<sessions, told>>
      PROVE  ServerInv'
  <2> DEFINE r == [requests[t] EXCEPT !.at = next, !.view = seen]
  <2>1. r \in RequestForms /\ r.at = next /\ r.id = id /\ r.view = seen
    BY <1>1 DEF RequestForms
  <2>2. requests' = [requests EXCEPT ![t] = r]
    BY <1>4 DEF ServerInv, ServerTypes
  <2>. HIDE DEF r
  <2>. QED BY <2>1, <2>2, <1>2, <1>4, LookIsTrue
<1>5. CASE SeeReceipt(t)
  <2> DEFINE seen == [view EXCEPT !.receipt = sessions[id].receipt]
  <2>1. seen \in Views /\ Honest(id, seen)
    BY <1>2, <1>3 DEF Views, Stored, Honest
  <2>. QED BY <2>1, <1>4, <1>5 DEF SeeReceipt, See
<1>6. CASE SeeStatus(t)
  <2> DEFINE seen == [view EXCEPT !.status = sessions[id].status]
  <2>1. seen \in Views /\ Honest(id, seen)
    BY <1>2, <1>3 DEF Views, Stored, Honest, RunAlright
  <2>. QED BY <2>1, <1>4, <1>6 DEF SeeStatus, See
<1>7. CASE SeeError(t)
  <2> DEFINE seen == [view EXCEPT !.error = sessions[id].error]
  <2>1. Honest(id, seen)
    BY <1>2 DEF Views, Honest
  <2>2. Respond(t, 202, id, seen) /\ UNCHANGED sessions
    BY <1>7 DEF SeeError
  <2>. QED BY <2>1, <2>2, <1>2, AnswerIsTrue
<1>. QED BY <1>5, <1>6, <1>7

LEMMA WorkKeeps ==
  ASSUME ServerInv, NEW id \in SessionIds, Works(id)
  PROVE  ServerInv'
<1> DEFINE old == sessions[id]
<1>1. ASSUME NEW to \in {"loop", "finishing", "failing", "over"}, NEW s \in Stored, s.body = old.body,
             old.receipt => s.receipt, RunAlright([s EXCEPT !.worker = to]),
             NEW from, from # "none", WorkerStep(id, from, to, s)
      PROVE  ServerInv'
  <2> DEFINE new == [s EXCEPT !.worker = to]
  <2>1. new \in Stored /\ new.receipt = s.receipt
    BY DEF Stored
  <2>2. sessions' = [sessions EXCEPT ![id] = new] /\ UNCHANGED <<requests, told>>
        /\ Exists(id) /\ old.worker # "none"
    BY <1>1 DEF WorkerStep
  <2>3. RunAlright(new)
    BY <1>1
  <2>. HIDE DEF new
  <2>4. /\ sessions' \in [SessionIds -> Stored \cup {Nowhere}]
        /\ SessionsAlright' /\ ToldAlright' /\ BusyAlright'
    BY <2>1, <2>2, <2>3, <1>1, SessionMovesOn
  <2>5. AddsAlone'
    BY <2>2 DEF ServerInv, AddsAlone
  <2>6. AddsAll'
    <3>. SUFFICES ASSUME NEW u \in Handlers, requests[u].at = "adding"
                  PROVE  UNCHANGED sessions[requests[u].id]
      BY <2>2 DEF AddsAll, ServerInv
    <3>1. requests[u].id # id /\ requests[u].id \in SessionIds
      BY <2>2 DEF ServerInv, AddsAll, BusyAlright
    <3>. QED BY <3>1, <2>2 DEF ServerInv, ServerTypes
  <2>. QED BY <2>2, <2>4, <2>5, <2>6 DEF ServerInv, ServerTypes
<1>2. Exists(id) /\ old \in Stored /\ RunAlright(old)
  BY DEF Works, NameRun, TakeQueued, GetReceipt, FinishSession, FailSession, StoreFailure, WorkerStep,
         ServerInv, ServerTypes, SessionsAlright, Exists
<1>3. CASE NameRun(id)
  <2> DEFINE s == [old EXCEPT !.named = @ \cup old.queue]
             new == [s EXCEPT !.worker = "loop"]
  <2>1. s \in Stored /\ s.body = old.body /\ s.receipt = old.receipt
    BY <1>2 DEF Stored
  <2>2. new.body = old.body /\ new.named = old.named \cup old.queue /\ new.queue = old.queue
        /\ new.worker = "loop" /\ new.status = old.status /\ new.receipt = old.receipt
    BY <1>2 DEF Stored
  <2>3. old.worker = "begin" /\ WorkerStep(id, "begin", "loop", s)
    BY <1>3 DEF NameRun, WorkerStep
  <2>4. AskedFor(new) = AskedFor(old)
    BY <2>2 DEF AskedFor
  <2>5. RunAlright(new)
    <3>. HIDE DEF new, s
    <3>. QED BY <1>2, <2>2, <2>3, <2>4 DEF RunAlright
  <2>. HIDE DEF s
  <2>. QED BY <1>1, <2>1, <2>3, <2>5
<1>4. CASE TakeQueued(id)
  <2> DEFINE s == [old EXCEPT !.queue = {}]
             new == [s EXCEPT !.worker = "loop"]
  <2>1. s \in Stored /\ s.body = old.body /\ s.receipt = old.receipt
    BY <1>2 DEF Stored
  <2>2. new.body = old.body /\ new.named = old.named /\ new.worker = "loop" /\ new.status = old.status
        /\ new.receipt = old.receipt
    BY <1>2 DEF Stored
  <2>3. old.worker = "loop" /\ WorkerStep(id, "loop", "loop", s)
    BY <1>4 DEF TakeQueued, WorkerStep
  <2>4. AskedFor(new) = AskedFor(old)
    BY <2>2 DEF AskedFor
  <2>5. RunAlright(new)
    <3>. HIDE DEF new, s
    <3>. QED BY <1>2, <2>2, <2>3, <2>4 DEF RunAlright
  <2>. HIDE DEF s
  <2>. QED BY <1>1, <2>1, <2>3, <2>5
<1>5. ASSUME NEW to \in {"finishing", "failing", "over"}, NEW from, from # "none", NEW s \in Stored,
             s.body = old.body, s.named = old.named, s.queue = old.queue, old.receipt => s.receipt,
             to = "finishing" \/ s.status = "finished" => s.receipt, WorkerStep(id, from, to, s)
      PROVE  ServerInv'
  <2> DEFINE new == [s EXCEPT !.worker = to]
  <2>1. new.body = old.body /\ new.named = old.named /\ new.queue = old.queue /\ new.worker = to
        /\ new.status = s.status /\ new.receipt = s.receipt
    BY <1>5 DEF Stored
  <2>2. old.worker # "none"
    BY <1>5 DEF WorkerStep
  <2>3. AskedFor(new) = AskedFor(old)
    BY <2>1 DEF AskedFor
  <2>4. RunAlright(new)
    <3>. HIDE DEF new
    <3>. QED BY <1>2, <1>5, <2>1, <2>2, <2>3 DEF RunAlright
  <2>. QED BY <1>1, <1>5, <2>4
<1>6. CASE GetReceipt(id)
  <2> DEFINE s == [old EXCEPT !.receipt = TRUE]
  <2>1. s \in Stored /\ s.body = old.body /\ s.named = old.named /\ s.queue = old.queue
        /\ (old.receipt => s.receipt) /\ ("finishing" = "finishing" \/ s.status = "finished" => s.receipt)
    BY <1>2 DEF Stored, RunAlright
  <2>2. WorkerStep(id, "loop", "finishing", s)
    BY <1>6 DEF GetReceipt
  <2>. HIDE DEF s
  <2>. QED BY <2>1, <2>2, <1>5
<1>7. CASE FinishSession(id)
  <2> DEFINE s == [old EXCEPT !.status = "finished"]
  <2>0. old.receipt
    BY <1>2, <1>7 DEF FinishSession, WorkerStep, RunAlright
  <2>1. s \in Stored /\ s.body = old.body /\ s.named = old.named /\ s.queue = old.queue
        /\ (old.receipt => s.receipt) /\ ("over" = "finishing" \/ s.status = "finished" => s.receipt)
    BY <1>2, <2>0 DEF Stored, RunAlright
  <2>2. WorkerStep(id, "finishing", "over", s)
    BY <1>7 DEF FinishSession
  <2>. HIDE DEF s
  <2>. QED BY <2>1, <2>2, <1>5
<1>8. CASE FailSession(id)
  <2> DEFINE s == [old EXCEPT !.status = "failed"]
  <2>1. s \in Stored /\ s.body = old.body /\ s.named = old.named /\ s.queue = old.queue
        /\ (old.receipt => s.receipt) /\ ("failing" = "finishing" \/ s.status = "finished" => s.receipt)
    BY <1>2 DEF Stored, RunAlright
  <2>2. PICK from : from # "none" /\ WorkerStep(id, from, "failing", s)
    BY <1>8 DEF FailSession
  <2>. HIDE DEF s
  <2>. QED BY <2>1, <2>2, <1>5
<1>9. CASE StoreFailure(id)
  <2> DEFINE s == [old EXCEPT !.error = TRUE]
  <2>1. s \in Stored /\ s.body = old.body /\ s.named = old.named /\ s.queue = old.queue
        /\ (old.receipt => s.receipt) /\ ("over" = "finishing" \/ s.status = "finished" => s.receipt)
    BY <1>2 DEF Stored, RunAlright
  <2>2. WorkerStep(id, "failing", "over", s)
    BY <1>9 DEF StoreFailure
  <2>. HIDE DEF s
  <2>. QED BY <2>1, <2>2, <1>5
<1>. QED BY <1>3, <1>4, <1>6, <1>7, <1>8, <1>9 DEF Works

LEMMA ServerStep == ServerInv /\ [ServerNext]_serving => ServerInv'
<1>. SUFFICES ASSUME ServerInv, [ServerNext]_serving PROVE ServerInv'
  OBVIOUS
<1>1. CASE UNCHANGED serving
  BY <1>1 DEF serving, ServerInv, ServerTypes, BusyAlright, AddsAlone, AddsAll, SessionsAlright, ToldAlright,
              Exists, Honest
<1>2. ASSUME NEW t \in Handlers, Serves(t) PROVE ServerInv'
  <2>1. CASE Health(t)
    <3>1. PICK code : Respond(t, code, Nowhere, Nowhere) /\ UNCHANGED sessions
      BY <2>1 DEF Health
    <3>. QED BY <3>1, AnswerIsTrue
  <2>2. ASSUME NEW body \in Bodies, RefuseSession(t, body) PROVE ServerInv'
    BY <2>2, AnswerIsTrue DEF RefuseSession
  <2>3. CASE Creates(t)
    BY <2>2, <2>3, CreateKeeps DEF Creates
  <2>4. CASE Asks(t)
    BY <2>4, AskKeeps, PostKeeps DEF Asks
  <2>. QED BY <1>2, <2>1, <2>3, <2>4, AddKeeps, StartKeeps, SeeKeeps DEF Serves
<1>. QED BY <1>1, <1>2, WorkKeeps DEF ServerNext

(* However requests and workers interleave, a run is under all its body      *)
(* asked for, and none that asked for what is refused is ever started.       *)
THEOREM SessionsRunAsPosted == ServerSpec => []RunsAsPosted
<1>1. ServerInv => RunsAsPosted
  BY DEF ServerInv, SessionsAlright, RunAlright, RunsAsPosted
<1>. QED BY ServerStarts, ServerStep, <1>1, PTL DEF ServerSpec

(* A session that is reported finished has its receipt, read without a lock  *)
(* or not: the receipt is there before the status, and read before it.       *)
THEOREM FinishedHasReceipt == ServerSpec => []ToldTruly
<1>1. ServerInv => ToldTruly
  BY DEF ServerInv, ToldAlright, ToldTruly, Honest
<1>. QED BY ServerStarts, ServerStep, <1>1, PTL DEF ServerSpec

(* The two together: what is asked for is run, and what is told of it is so. *)
THEOREM ServedAsAsked == ServerSpec => []ServedTruly
<1>1. RunsAsPosted /\ ToldTruly => ServedTruly
  BY DEF ServedTruly
<1>. QED BY <1>1, SessionsRunAsPosted, FinishedHasReceipt, PTL

-----------------------------------------------------------------------------
(* ExpressiveMotion.  A proposal's wave has a task step of an armed arm,     *)
(* which is taken first and moves the world on: when the proposal's turn     *)
(* comes its window's revision is past, and no later graph has proposals.    *)

Granted == window \in {w \in Asked : WellFormed(w)} \cup {NoWindow}
StepsSound(steps) ==
  \A s \in steps :
    /\ s.kind \in {"task", "express"} /\ s.wave \in Nat
    /\ s.kind = "express" =>
         /\ window # NoWindow /\ Permits(window, s.proposal)
         /\ \A u \in steps : u # s /\ u.wave = s.wave => u.arm \notin {s.arm, "none"}
         /\ \E u \in steps : u.kind = "task" /\ u.wave = s.wave
Proposes == \E s \in chart : s.kind = "express"
Begun == \E s \in chart, u \in taken : s.kind = "express" /\ u.kind = "task" /\ u.wave = s.wave
ExpressiveInv ==
  /\ Granted /\ worldAt \in Nat /\ DOMAIN chores \subseteq Nat
  /\ express \in {"compile", "loop", "act", "over"}
  /\ StepsSound(chart)
  /\ Proposes => worldAt >= window.base
  /\ Begun => worldAt > window.base
  /\ express = "act" => inHand \in chart /\ inHand.kind = "task"
  /\ lost \in {0, 1}
  /\ lost = 1 => /\ window # NoWindow /\ worldAt > window.base
                 /\ express \in {"loop", "act"} => ~Proposes

(* What is proposed at one time is proposed to different arms, left or right *)
(* (generate_expression_plan).                                               *)
LEMMA GesturesApart ==
  ASSUME Granted, window # NoWindow, Generates(window)
  PROVE  /\ \A p \in Gestures(window) : Permits(window, p) /\ p.arm \in {"left", "right"}
         /\ \A p, q \in Gestures(window) : p # q => p.arm # q.arm
<1>1. window \in Asked /\ ArmsOf(window) \subseteq {"left", "right"}
  BY DEF Granted, WellFormed
<1>2. /\ window.arms \in Seq(STRING)
      /\ \A i, j \in DOMAIN window.arms : window.arms[i] = window.arms[j] => i = j
  BY <1>1, ExpressiveAssumption
<1>3. \A p \in Gestures(window) : Permits(window, p) /\ p.arm \in {"left", "right"}
  BY <1>1 DEF Generates, Permits
<1>4. ASSUME NEW p \in Gestures(window), NEW q \in Gestures(window), p # q
      PROVE  p.arm # q.arm
  <2>1. CASE Paired(window)
    <3>1. 1 \in DOMAIN window.arms /\ 2 \in DOMAIN window.arms
      BY <1>2, <2>1 DEF Paired
    <3>2. Gestures(window) \subseteq {Proposal(window, 1, draw[1], 0), Proposal(window, 2, Other(draw[1]), 0)}
      BY <2>1 DEF Gestures
    <3>3. {p.arm, q.arm} = {window.arms[1], window.arms[2]}
      BY <1>4, <3>2 DEF Proposal
    <3>4. window.arms[1] # window.arms[2]
      BY <1>2, <3>1
    <3> QED
      BY <3>3, <3>4
  <2>2. CASE ~Paired(window)
    <3>1. PICK i \in DOMAIN window.arms : p = Proposal(window, i, draw[i], i)
      BY <2>2 DEF Gestures
    <3>2. PICK j \in DOMAIN window.arms : q = Proposal(window, j, draw[j], j)
      BY <2>2 DEF Gestures
    <3>3. i # j
      BY <1>4, <3>1, <3>2
    <3>4. p.arm = window.arms[i] /\ q.arm = window.arms[j]
      BY <3>1, <3>2 DEF Proposal
    <3> QED
      BY <1>2, <3>3, <3>4
  <2> QED
    BY <2>1, <2>2
<1> QED
  BY <1>3, <1>4

(* A graph as it is scheduled, with its proposals in idle waves or without   *)
(* any (_place_expression_plan, annotate, _apply).                           *)
LEMMA ScheduledSound ==
  ASSUME Granted, DOMAIN chores \subseteq Nat
  PROVE  /\ StepsSound(Scheduled(chores))
         /\ (\E s \in Scheduled(chores) : s.kind = "express") =>
              window # NoWindow /\ worldAt = window.base
<1> DEFINE plan == IF window # NoWindow /\ Generates(window) THEN Gestures(window) ELSE {}
           steps == TaskSteps(chores) \cup Extras(chores, plan)
<1>1. Scheduled(chores) = steps
  BY DEF Scheduled, ChartOf
<1>2. /\ \A p \in plan : Permits(window, p) /\ p.arm \in {"left", "right"}
      /\ \A p, q \in plan : p # q => p.arm # q.arm
      /\ plan # {} => window # NoWindow /\ worldAt = window.base
  BY GesturesApart DEF Generates
<1> HIDE DEF plan
<1>3. ASSUME NEW s \in TaskSteps(chores)
      PROVE  s.kind = "task" /\ s.wave \in Nat /\ s.wave \in DOMAIN chores /\ s.arm \in chores[s.wave]
  BY DEF TaskSteps, TaskStep
<1>4. ASSUME NEW s \in Extras(chores, plan)
      PROVE  /\ s.kind = "express" /\ s.wave \in Nat /\ s.wave \in DOMAIN chores
             /\ s.proposal \in plan /\ s.arm = s.proposal.arm
             /\ s = ExpressStep(s.wave, s.proposal)
             /\ s.wave \in IdleFor(chores, GroupArms(plan, s.proposal.group))
  <2>1. PICK i \in DOMAIN chores, p \in plan : s = ExpressStep(i, p)
    BY DEF Extras
  <2>2. s.kind = "express" /\ s.wave = i /\ s.proposal = p /\ s.arm = p.arm
    BY <2>1 DEF ExpressStep
  <2>3. IsSlot(chores, plan, s.proposal.group, s.wave)
    BY DEF Extras
  <2> QED
    BY <2>1, <2>2, <2>3 DEF IsSlot
<1>5. ASSUME NEW s \in Extras(chores, plan)
      PROVE  /\ chores[s.wave] # {} /\ "none" \notin chores[s.wave] /\ s.arm \notin chores[s.wave]
  <2>1. s.arm \in GroupArms(plan, s.proposal.group)
    BY <1>4 DEF GroupArms
  <2> QED
    BY <1>4, <2>1 DEF IdleFor
<1>6. ASSUME NEW s \in Extras(chores, plan), NEW u \in steps, u # s, u.wave = s.wave
      PROVE  u.arm \notin {s.arm, "none"}
  <2>1. CASE u \in TaskSteps(chores)
    BY <1>3, <1>5, <1>6, <2>1
  <2>2. CASE u \in Extras(chores, plan)
    <3>1. u.proposal # s.proposal
      BY <1>4, <1>6, <2>2
    <3> QED
      BY <1>2, <1>4, <2>2, <3>1
  <2> QED
    BY <2>1, <2>2
<1>7. ASSUME NEW s \in Extras(chores, plan)
      PROVE  \E u \in steps : u.kind = "task" /\ u.wave = s.wave
  <2>1. PICK arm \in chores[s.wave] : TRUE
    BY <1>5
  <2>2. TaskStep(s.wave, arm) \in TaskSteps(chores)
    BY <1>4 DEF TaskSteps
  <2> QED
    BY <2>2 DEF TaskStep
<1>8. StepsSound(steps)
  BY <1>2, <1>3, <1>4, <1>6, <1>7 DEF StepsSound
<1>9. (\E s \in steps : s.kind = "express") => plan # {}
  BY <1>3, <1>4
<1> QED
  BY <1>1, <1>2, <1>8, <1>9

(* A proposal never has its turn while its window is open: a task step of    *)
(* its wave was taken before.                                                *)
LEMMA ProposalComesLate ==
  ASSUME ExpressiveInv, NEW s \in chart, s.kind = "express", InTurn(s)
  PROVE  worldAt > window.base /\ ~Allowed(s)
<1>1. window \in Asked /\ window.base \in Nat
  BY ExpressiveAssumption DEF ExpressiveInv, Granted, StepsSound
<1>2. PICK u \in chart : u.kind = "task" /\ u.wave = s.wave
  BY DEF ExpressiveInv, StepsSound
<1>3. s.wave \in Nat
  BY DEF ExpressiveInv, StepsSound
<1>4. u \notin Waiting
  BY <1>2, <1>3 DEF InTurn
<1>5. Begun
  BY <1>2, <1>4 DEF Waiting, Begun
<1> QED
  BY <1>1, <1>5 DEF ExpressiveInv, Allowed

(* A failed step of a proposal is the run's first, and its window is past.   *)
LEMMA FailedKeeps ==
  ASSUME ExpressiveInv, NEW s \in chart, Failed(s), UNCHANGED <<window, draw>>,
         worldAt' \in {worldAt, worldAt + 1}, UNCHANGED chart,
         s.kind = "express" => lost = 0 /\ worldAt > window.base
  PROVE  ExpressiveInv'
<1>1. s.kind \in {"task", "express"}
  BY DEF ExpressiveInv, StepsSound
<1>2. express' \in {"compile", "over"} /\ UNCHANGED <<chores, taken>>
      /\ lost' = IF s.kind = "express" THEN lost + 1 ELSE lost
  BY DEF Failed
<1>3. Granted' /\ worldAt' \in Nat /\ DOMAIN chores' \subseteq Nat /\ StepsSound(chart)'
  BY <1>2 DEF ExpressiveInv, Granted, StepsSound
<1>4. Proposes' = Proposes /\ Begun' = Begun
  BY <1>2 DEF Proposes, Begun
<1>5. window # NoWindow => window.base \in Nat
  BY ExpressiveAssumption DEF ExpressiveInv, Granted
<1>6. (Proposes \/ Begun \/ s.kind = "express") => window # NoWindow
  BY DEF ExpressiveInv, StepsSound, Proposes, Begun
<1> QED
  BY <1>1, <1>2, <1>3, <1>4, <1>5, <1>6 DEF ExpressiveInv

LEMMA ExpressiveStep == ExpressiveInv /\ [ExpressiveNext]_expressive => ExpressiveInv'
<1> SUFFICES ASSUME ExpressiveInv, [ExpressiveNext]_expressive PROVE ExpressiveInv'
  OBVIOUS
<1>1. window # NoWindow => window.base \in Nat
  BY ExpressiveAssumption DEF ExpressiveInv, Granted
<1>2. (Proposes \/ Begun) => window # NoWindow
  BY DEF ExpressiveInv, StepsSound, Proposes, Begun
<1>3. ASSUME chart' = Scheduled(chores), taken' = {}, express' = "loop",
             UNCHANGED <<window, chores, worldAt, lost>>
      PROVE  ExpressiveInv'
  <2>1. StepsSound(chart') /\ (Proposes' => window # NoWindow /\ worldAt = window.base)
    BY <1>3, ScheduledSound DEF ExpressiveInv, Proposes
  <2>2. StepsSound(chart)' /\ ~Begun'
    BY <1>3, <2>1 DEF StepsSound, Begun
  <2>3. Granted'
    BY <1>3 DEF ExpressiveInv, Granted
  <2> QED
    BY <1>1, <1>3, <2>1, <2>2, <2>3 DEF ExpressiveInv
<1>4. CASE Compile
  BY <1>3, <1>4 DEF Compile
<1>5. CASE TakeTurn
  <2>1. PICK s \in chart :
          /\ InTurn(s) /\ UNCHANGED <<window, draw, worldAt, outside>>
          /\ IF Allowed(s)
             THEN /\ express' = "act" /\ seenAt' = worldAt /\ inHand' = s
                  /\ UNCHANGED <<chores, chart, taken, failures, lost>>
             ELSE Failed(s) /\ UNCHANGED seenAt
    BY <1>5 DEF TakeTurn
  <2>2. s.kind = "express" => worldAt > window.base /\ ~Allowed(s)
    BY <2>1, ProposalComesLate
  <2>3. s.kind = "express" => lost = 0
    BY <1>5 DEF TakeTurn, ExpressiveInv, Proposes
  <2>4. CASE Allowed(s)
    <3>1. s.kind = "task"
      BY <2>2, <2>4 DEF ExpressiveInv, StepsSound
    <3>2. UNCHANGED <<window, worldAt, chores, chart, taken, lost>> /\ express' = "act" /\ inHand' = s
      BY <2>1, <2>4
    <3>3. Granted' /\ StepsSound(chart)' /\ Proposes' = Proposes /\ Begun' = Begun
      BY <3>2 DEF ExpressiveInv, Granted, StepsSound, Proposes, Begun
    <3>4. express = "loop"
      BY <1>5 DEF TakeTurn
    <3> QED
      BY <3>1, <3>2, <3>3, <3>4 DEF ExpressiveInv
  <2>5. CASE ~Allowed(s)
    <3>1. Failed(s)
      BY <2>1, <2>5
    <3>2. UNCHANGED chart
      BY <3>1 DEF Failed
    <3> QED
      BY <2>1, <2>2, <2>3, <3>1, <3>2, FailedKeeps
  <2> QED
    BY <2>4, <2>5
<1>6. CASE Succeed
  <2>1. /\ express = "act" /\ express' = "loop" /\ inHand \in chart /\ inHand.kind = "task"
        /\ worldAt' = IF inHand.arm = "none" THEN worldAt ELSE worldAt + 1
        /\ taken' = taken \cup {inHand} /\ UNCHANGED <<window, chart, lost>>
    BY <1>6 DEF Succeed, ExpressiveInv
  <2>2. DOMAIN chores' = DOMAIN chores
    BY <1>6 DEF Succeed
  <2>3. Granted' /\ StepsSound(chart)' /\ Proposes' = Proposes
    BY <2>1 DEF ExpressiveInv, Granted, StepsSound, Proposes
  <2>4. worldAt \in Nat /\ worldAt' \in {worldAt, worldAt + 1}
    BY <2>1 DEF ExpressiveInv
  <2>5. ASSUME Begun' PROVE worldAt' > window.base
    <3>1. PICK s \in chart, u \in taken' : s.kind = "express" /\ u.kind = "task" /\ u.wave = s.wave
      BY <2>1, <2>5 DEF Begun
    <3>2. Proposes /\ worldAt >= window.base /\ window.base \in Nat
      BY <1>1, <1>2, <3>1 DEF Proposes, ExpressiveInv
    <3>3. CASE u \in taken
      BY <2>4, <3>1, <3>2, <3>3 DEF Begun, ExpressiveInv
    <3>4. CASE u = inHand
      <4>1. inHand.arm # "none"
        BY <2>1, <3>1, <3>4 DEF ExpressiveInv, StepsSound
      <4> QED
        BY <2>1, <2>4, <3>2, <4>1
    <3> QED
      BY <2>1, <3>1, <3>3, <3>4
  <2> QED
    BY <1>1, <1>2, <2>1, <2>2, <2>3, <2>4, <2>5 DEF ExpressiveInv
<1>7. CASE Miss
  <2>1. /\ express = "act" /\ Failed(inHand) /\ worldAt' \in {worldAt, worldAt + 1}
        /\ UNCHANGED <<window, draw, chart>>
    BY <1>7 DEF Miss, Failed
  <2>2. inHand \in chart /\ inHand.kind # "express"
    BY <2>1 DEF ExpressiveInv
  <2> QED
    BY <2>1, <2>2, FailedKeeps
<1>8. CASE Finish
  <2>1. UNCHANGED <<window, worldAt, chores, chart, taken, lost>> /\ express' = "over"
    BY <1>8 DEF Finish
  <2>2. Granted' /\ StepsSound(chart)' /\ Proposes' = Proposes /\ Begun' = Begun
    BY <2>1 DEF ExpressiveInv, Granted, StepsSound, Proposes, Begun
  <2> QED
    BY <2>1, <2>2 DEF ExpressiveInv
<1>9. CASE Disturb
  <2>1. /\ UNCHANGED <<window, chores, chart, taken, inHand, express, lost>>
        /\ worldAt' \in {worldAt, worldAt + 1}
    BY <1>9 DEF Disturb
  <2>2. Granted' /\ StepsSound(chart)' /\ Proposes' = Proposes /\ Begun' = Begun
    BY <2>1 DEF ExpressiveInv, Granted, StepsSound, Proposes, Begun
  <2> QED
    BY <1>1, <1>2, <2>1, <2>2 DEF ExpressiveInv
<1>10. CASE FleetFault
  <2>1. express = "loop" /\ UNCHANGED <<window, chores, worldAt, lost>> /\ taken' = {}
    BY <1>10 DEF FleetFault
  <2>2. CASE window = NoWindow \/ Generates(window)
    BY <1>3, <1>10, <2>1, <2>2 DEF FleetFault
  <2>3. CASE ~(window = NoWindow \/ Generates(window))
    <3>1. express' = "over" /\ chart' = {}
      BY <1>10, <2>3 DEF FleetFault
    <3>2. StepsSound(chart)' /\ ~Proposes' /\ ~Begun' /\ Granted'
      BY <2>1, <3>1 DEF ExpressiveInv, Granted, StepsSound, Proposes, Begun
    <3> QED
      BY <2>1, <3>1, <3>2 DEF ExpressiveInv
  <2> QED
    BY <2>2, <2>3
<1>11. CASE UNCHANGED expressive
  <2>1. UNCHANGED <<window, worldAt, chores, chart, taken, inHand, express, lost>>
    BY <1>11 DEF expressive
  <2>2. Granted' /\ StepsSound(chart)' /\ Proposes' = Proposes /\ Begun' = Begun
    BY <2>1 DEF ExpressiveInv, Granted, StepsSound, Proposes, Begun
  <2> QED
    BY <2>1, <2>2 DEF ExpressiveInv
<1> QED
  BY <1>4, <1>5, <1>6, <1>7, <1>8, <1>9, <1>10, <1>11 DEF ExpressiveNext

(* Whatever window is granted and whatever its generator draws, for any task *)
(* and any disturbances: a run loses at the most one graph to free motion,   *)
(* and what a graph proposes stays in its window and beside its wave's work  *)
(* (expressive.py, ScheduledPlanner).                                        *)
THEOREM MotionStaysBeside == ExpressiveSpec => []BesideTheTask
<1>1. ExpressiveInit => ExpressiveInv
  <2> SUFFICES ASSUME ExpressiveInit PROVE ExpressiveInv
    OBVIOUS
  <2>1. Granted /\ chart = {} /\ taken = {} /\ worldAt = 1 /\ express = "compile" /\ lost = 0
    BY DEF ExpressiveInit, Granted
  <2>2. DOMAIN chores \subseteq Nat
    BY ExpressiveAssumption DEF ExpressiveInit
  <2> QED
    BY <2>1, <2>2 DEF ExpressiveInv, StepsSound, Proposes, Begun
<1>2. ExpressiveInv => BesideTheTask
  BY DEF ExpressiveInv, StepsSound, BesideTheTask
<1> QED
  BY <1>1, <1>2, ExpressiveStep, PTL DEF ExpressiveSpec

===============================================================================
