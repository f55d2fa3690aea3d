---------------------------- MODULE EngineProofs ---------------------------
(***************************************************************************)
(* Proofs about the governed execution loop, for every set of objects,     *)
(* zones, arms and devices, every envelope, every bound on the             *)
(* surroundings and every planner whose graphs are sequences of steps.     *)
(***************************************************************************)
EXTENDS MissionProfile, RulePlanner, FiniteSetTheorems, SequenceLemmas

-----------------------------------------------------------------------------
(* Typing of the operators the actions are built from.                       *)

(* What a planner is shown of a well-typed world is a view.                  *)
LEMMA ViewTyped ==
  ASSUME NEW w \in WorldState
  PROVE  View(w) \in Views
<1> USE WorldAssumption
<1>1. w.zone \in [Objects -> Zones] /\ w.owner \in [Objects -> Devices \cup {None}]
  BY DEF WorldState
<1>2. \A i \in DOMAIN w.constraints : w.constraints[i] \in Constraint
  BY DEF WorldState
<1>3. \A i \in Said(w, "forbid_object") : w.constraints[i].value \in Objects
  BY <1>2 DEF Said, Constraint
<1>4. \A i \in Said(w, "prefer_arm") : w.constraints[i].value \in Arms
  BY <1>2 DEF Said, Constraint
<1>5. Forbidden(w) \subseteq Objects
  BY <1>3 DEF Forbidden, WorldForbids
<1>6. PreferredArms(w) \subseteq Arms
  BY <1>4 DEF PreferredArms
<1> QED
  BY <1>1, <1>5, <1>6 DEF View, Views

(* A world put together from well-typed fields is well typed.                *)
LEMMA WorldRecord ==
  ASSUME NEW z \in [Objects -> Zones], NEW o \in [Objects -> Devices \cup {None}],
         NEW cs \in Seq(Constraint), NEW r \in Nat
  PROVE  [zone |-> z, owner |-> o, constraints |-> cs, rev |-> r] \in WorldState
BY DEF WorldState

(* Starting a mission advances the revision and nothing else.                *)
LEMMA StartTyped ==
  ASSUME NEW w \in WorldState
  PROVE  /\ StartMission(w) \in WorldState
         /\ StartMission(w).constraints = w.constraints
<1>1. StartMission(w) = [zone |-> w.zone, owner |-> w.owner,
                         constraints |-> w.constraints, rev |-> w.rev + 1]
  <2>1. StartMission(w) = [w EXCEPT !.rev = w.rev + 1]
    BY DEF StartMission
  <2> QED
    BY <2>1 DEF WorldState
<1>2. /\ w.zone \in [Objects -> Zones] /\ w.owner \in [Objects -> Devices \cup {None}]
      /\ w.constraints \in Seq(Constraint) /\ w.rev + 1 \in Nat
  BY DEF WorldState
<1> QED
  BY <1>1, <1>2, WorldRecord

(* Adding a constraint keeps it too, and the world has one more.             *)
LEMMA AddConstraintTyped ==
  ASSUME NEW w \in WorldState, NEW c \in Constraint
  PROVE  /\ AddConstraint(w, c) \in WorldState
         /\ Len(AddConstraint(w, c).constraints) = Len(w.constraints) + 1
<1> DEFINE cs == w.constraints
<1>1. cs \in Seq(Constraint) /\ w.rev \in Nat
  BY DEF WorldState
<1>2. Append(cs, c) \in Seq(Constraint) /\ Len(Append(cs, c)) = Len(cs) + 1
  BY <1>1
<1>3. AddConstraint(w, c) = [zone |-> w.zone, owner |-> w.owner,
                             constraints |-> Append(cs, c), rev |-> w.rev + 1]
  <2>1. AddConstraint(w, c) = [w EXCEPT !.constraints = Append(w.constraints, c),
                                        !.rev = w.rev + 1]
    BY Zenon DEF AddConstraint
  <2> QED
    BY <2>1 DEF WorldState
<1>4. w.zone \in [Objects -> Zones] /\ w.owner \in [Objects -> Devices \cup {None}]
  BY DEF WorldState
<1>5. w.rev + 1 \in Nat
  BY <1>1
<1> HIDE DEF cs
<1>6. AddConstraint(w, c) \in WorldState
  BY <1>2, <1>3, <1>4, <1>5, WorldRecord
<1> QED
  BY <1>2, <1>3, <1>6 DEF cs

(* A transition the world accepts leaves a well-typed world that differs     *)
(* from the old one in the step's object and the revision only.              *)
LEMMA TransitionTyped ==
  ASSUME NEW w \in WorldState, NEW s \in Step, NEW d \in Devices, NEW r \in Nat,
         Accepts(w, s, d, r)
  PROVE  /\ ApplyTransition(w, s, d) \in WorldState
         /\ ApplyTransition(w, s, d).constraints = w.constraints
         /\ \A o \in Objects \ {s.obj} :
              /\ ApplyTransition(w, s, d).zone[o] = w.zone[o]
              /\ ApplyTransition(w, s, d).owner[o] = w.owner[o]
<1> DEFINE new == ApplyTransition(w, s, d)
<1>0. /\ w.zone \in [Objects -> Zones] /\ w.owner \in [Objects -> Devices \cup {None}]
      /\ w.constraints \in Seq(Constraint) /\ w.rev \in Nat
  BY DEF WorldState
<1>1. CASE s.op = "PICK"
  <2>1. s.obj \in Objects
    BY <1>1 DEF Accepts, HeldRight
  <2>2. new = [zone |-> w.zone, owner |-> [w.owner EXCEPT ![s.obj] = d],
                constraints |-> w.constraints, rev |-> w.rev + 1]
    BY <1>1 DEF ApplyTransition, WorldState
  <2>4. w.rev + 1 \in Nat
    BY <1>0
  <2>3. [w.owner EXCEPT ![s.obj] = d] \in [Objects -> Devices \cup {None}]
    BY <1>0, <2>1
  <2>5. new \in WorldState
    BY <1>0, <2>2, <2>3, <2>4, WorldRecord
  <2>6. /\ new.constraints = w.constraints
        /\ new.zone = w.zone
        /\ new.owner = [w.owner EXCEPT ![s.obj] = d]
    BY <2>2
  <2> QED
    BY <1>0, <2>1, <2>5, <2>6
<1>2. CASE s.op = "MOVE"
  <2>1. s.obj \in Objects /\ s.to \in Zones
    BY <1>2 DEF Accepts, HeldRight
  <2>2. new = [zone |-> [w.zone EXCEPT ![s.obj] = s.to],
                owner |-> [w.owner EXCEPT ![s.obj] = None],
                constraints |-> w.constraints, rev |-> w.rev + 1]
    BY <1>2 DEF ApplyTransition, WorldState
  <2>4. w.rev + 1 \in Nat
    BY <1>0
  <2>3. /\ [w.zone EXCEPT ![s.obj] = s.to] \in [Objects -> Zones]
        /\ [w.owner EXCEPT ![s.obj] = None] \in [Objects -> Devices \cup {None}]
    BY <1>0, <2>1
  <2>5. new \in WorldState
    BY <1>0, <2>2, <2>3, <2>4, WorldRecord
  <2>6. /\ new.constraints = w.constraints
        /\ new.zone = [w.zone EXCEPT ![s.obj] = s.to]
        /\ new.owner = [w.owner EXCEPT ![s.obj] = None]
    BY <2>2
  <2> QED
    BY <1>0, <2>1, <2>5, <2>6
<1>3. CASE s.op = "HANDOFF"
  <2>1. s.obj \in Objects /\ s.to \in Devices
    BY <1>3 DEF Accepts, HeldRight
  <2>2. new = [zone |-> w.zone, owner |-> [w.owner EXCEPT ![s.obj] = s.to],
                constraints |-> w.constraints, rev |-> w.rev + 1]
    BY <1>3 DEF ApplyTransition, WorldState
  <2>4. w.rev + 1 \in Nat
    BY <1>0
  <2>3. [w.owner EXCEPT ![s.obj] = s.to] \in [Objects -> Devices \cup {None}]
    BY <1>0, <2>1
  <2>5. new \in WorldState
    BY <1>0, <2>2, <2>3, <2>4, WorldRecord
  <2>6. /\ new.constraints = w.constraints
        /\ new.zone = w.zone
        /\ new.owner = [w.owner EXCEPT ![s.obj] = s.to]
    BY <2>2
  <2> QED
    BY <1>0, <2>1, <2>5, <2>6
<1>4. CASE s.op \notin {"PICK", "MOVE", "HANDOFF"}
  <2>1. new = [w EXCEPT !.rev = w.rev + 1]
    BY <1>4 DEF ApplyTransition
  <2> QED
    BY <1>0, <2>1 DEF WorldState
<1> QED
  BY <1>1, <1>2, <1>3, <1>4

(* So does someone's hand.                                                   *)
LEMMA PerturbTyped ==
  ASSUME NEW w \in WorldState, NEW o \in Objects, NEW z \in Zones
  PROVE  /\ MoveObject(w, o, z) \in WorldState
         /\ MoveObject(w, o, z).constraints = w.constraints
         /\ MoveObject(w, o, z).rev = w.rev + 1
<1>1. MoveObject(w, o, z) = [zone |-> [w.zone EXCEPT ![o] = z],
                             owner |-> [w.owner EXCEPT ![o] = None],
                             constraints |-> w.constraints, rev |-> w.rev + 1]
  <2>1. MoveObject(w, o, z) = [w EXCEPT !.zone = [w.zone EXCEPT ![o] = z],
                                        !.owner = [w.owner EXCEPT ![o] = None],
                                        !.rev = w.rev + 1]
    BY DEF MoveObject
  <2> QED
    BY <2>1 DEF WorldState
<1>2. /\ [w.zone EXCEPT ![o] = z] \in [Objects -> Zones]
      /\ [w.owner EXCEPT ![o] = None] \in [Objects -> Devices \cup {None}]
      /\ w.constraints \in Seq(Constraint) /\ w.rev + 1 \in Nat
  BY DEF WorldState
<1> QED
  BY <1>1, <1>2, WorldRecord

(* A compilation installs a well-typed graph and audits it.                  *)
LEMMA CompileTyped ==
  ASSUME TypeOK, NEW plans \in SUBSET Seq(Step), NEW rev \in Nat,
         NEW w \in WorldState, NEW f \in SUBSET Arms,
         Compile(plans, rev, w, f)
  PROVE  /\ graph' \in [rev : Nat, steps : Seq(Step)]
         /\ audit' \in [identity : Nat, constraints : Nat, failed : SUBSET Arms,
                        verified : BOOLEAN]
         /\ audit'.constraints = Len(w.constraints)
         /\ audit'.failed = f
         /\ audit'.identity = audit.identity
<1>1. Len(w.constraints) \in Nat
  BY DEF WorldState
<1>2. PICK steps \in plans :
        /\ graph' = [rev |-> rev, steps |-> steps]
        /\ audit' = [audit EXCEPT !.constraints = Len(w.constraints), !.failed = f,
                                  !.verified = FALSE]
  BY Zenon DEF Compile
<1>3. audit \in [identity : Nat, constraints : Nat, failed : SUBSET Arms, verified : BOOLEAN]
  BY DEF TypeOK
<1>4. audit' = [identity |-> audit.identity, constraints |-> Len(w.constraints),
                failed |-> f, verified |-> FALSE]
  BY <1>2, <1>3
<1> QED
  BY <1>1, <1>2, <1>3, <1>4

(* The graphs of both planner calls are sequences of steps.                  *)
LEMMA PlansTyped ==
  ASSUME NEW w \in WorldState, NEW f \in SUBSET Arms
  PROVE  /\ PlansFor(View(w), f) \in SUBSET Seq(Step)
         /\ StrictPlansFor(View(w), f) \in SUBSET Seq(Step)
BY ViewTyped, PlannerAssumption

LEMMA PlansHere ==
  ASSUME TypeOK
  PROVE  /\ PlansFor(View(world), failed) \in SUBSET Seq(Step)
         /\ graph.rev + 1 \in Nat
<1>1. world \in WorldState /\ failed \in SUBSET Arms /\ graph.rev \in Nat
  BY DEF TypeOK
<1>2. graph.rev + 1 \in Nat
  BY <1>1
<1> QED
  BY <1>1, <1>2, PlansTyped, Zenon

(* Severity orders the modes, and Merge is their maximum.                    *)
LEMMA MergeProps ==
  ASSUME NEW m \in Modes, NEW n \in Modes
  PROVE  /\ Merge(m, n) \in Modes
         /\ Severity(Merge(m, n)) >= Severity(m)
         /\ m = "HOLD" => Merge(m, n) = "HOLD"
         /\ Severity("HOLD") >= Severity(m)
<1>1. /\ Severity("NOMINAL") = 0 /\ Severity("DEGRADED") = 1
      /\ Severity("LOCAL_ONLY") = 2 /\ Severity("HOLD") = 3
  BY DEF Severity
<1>2. Severity(m) \in 0..3 /\ Severity(n) \in 0..3 /\ (Severity(n) = 3 => n = "HOLD")
  BY <1>1 DEF Modes
<1>3. CASE Severity(n) >= Severity(m)
  <2>1. Merge(m, n) = n
    BY <1>3 DEF Merge
  <2> QED
    BY <1>1, <1>2, <1>3, <2>1
<1>4. CASE ~(Severity(n) >= Severity(m))
  <2>1. Merge(m, n) = m
    BY <1>4 DEF Merge
  <2> QED
    BY <1>1, <1>2, <2>1
<1> QED
  BY <1>3, <1>4

(* A recompilation (or HOLD) keeps every type it touches.                    *)
LEMMA RecompileTyped ==
  ASSUME TypeOK, NEW e \in Modes, RecompileOrHold(e)
  PROVE  /\ mode' \in Modes /\ Severity(mode') >= Severity(mode)
         /\ graph' \in [rev : Nat, steps : Seq(Step)]
         /\ executed' \subseteq StepId /\ revisions' \in Nat
         /\ pc' \in {"apply", "finish"}
         /\ audit' \in [identity : Nat, constraints : Nat, failed : SUBSET Arms,
                        verified : BOOLEAN]
         /\ audit'.identity = audit.identity
         /\ \/ pc' = "finish" /\ audit' = audit
            \/ audit'.constraints = Len(world.constraints) /\ audit'.failed = failed
<1> USE DEF TypeOK
<1>0. mode \in Modes /\ revisions' \in Nat
  BY DEF RecompileOrHold
<1>1. CASE GiveUp
  BY <1>0, <1>1, MergeProps DEF GiveUp, Modes
<1>2. CASE Retry(e)
  <2>1. mode' = Merge(mode, e) /\ executed' = {} /\ pc' = "apply"
    BY <1>2 DEF Retry
  <2>2. Compile(PlansFor(View(world), failed), graph.rev + 1, world, failed)
    BY <1>2 DEF Retry
  <2>3. PlansFor(View(world), failed) \in SUBSET Seq(Step) /\ graph.rev + 1 \in Nat
    BY PlansHere
  <2>4. /\ graph' \in [rev : Nat, steps : Seq(Step)]
        /\ audit' \in [identity : Nat, constraints : Nat, failed : SUBSET Arms,
                       verified : BOOLEAN]
        /\ audit'.constraints = Len(world.constraints) /\ audit'.failed = failed
        /\ audit'.identity = audit.identity
    BY <2>2, <2>3, CompileTyped
  <2>5. mode' \in Modes /\ Severity(mode') >= Severity(mode)
    BY <1>0, <2>1, MergeProps
  <2> QED
    BY <1>0, <2>1, <2>4, <2>5
<1> QED
  BY <1>1, <1>2 DEF RecompileOrHold

-----------------------------------------------------------------------------
(* Type correctness.  The step in hand is a record while it is being run.    *)

FlightTyped == pc \in {"effect", "verify"} => flight \in Flight

LEMMA NextStepTyped ==
  ASSUME TypeOK, NEW s \in NextSteps
  PROVE  s \in Step
BY DEF NextSteps, TypeOK

LEMMA InitTyped == Init => TypeOK /\ FlightTyped
<1> SUFFICES ASSUME Init PROVE TypeOK /\ FlightTyped
  OBVIOUS
<1>1. world \in WorldState
  <2>1. InitialZone \in [Objects -> Zones] /\ <<>> \in Seq(Constraint) /\ 0 \in Nat
        /\ [o \in Objects |-> None] \in [Objects -> Devices \cup {None}]
    BY EngineAssumption
  <2> QED
    BY <2>1, WorldRecord DEF Init
<1>2. FlightTyped
  BY DEF Init, FlightTyped
<1> QED
  BY <1>1, <1>2 DEF Init, TypeOK, Modes, ManipulateOps

LEMMA TypeStep ==
  ASSUME TypeOK, FlightTyped, [Next]_vars
  PROVE  TypeOK' /\ FlightTyped'
<1> USE DEF TypeOK, FlightTyped
<1>1. CASE StartRun
  <2>1. world' \in WorldState
    BY <1>1, StartTyped DEF StartRun
  <2>2. Len(world.constraints) + Len(pending) \in Nat
    BY DEF WorldState
  <2>3. /\ audit' \in [identity : Nat, constraints : Nat, failed : SUBSET Arms,
                       verified : BOOLEAN]
        /\ spent' \in [{"runs", "queued", "reported", "perturbed", "toggled"} -> Nat]
    <3>1. /\ audit' = [audit EXCEPT !.identity = Len(world.constraints) + Len(pending)]
          /\ spent' = [spent EXCEPT !["runs"] = spent["runs"] + 1]
      BY <1>1 DEF StartRun
    <3>2. spent["runs"] + 1 \in Nat
      OBVIOUS
    <3> QED
      BY <2>2, <3>1, <3>2
  <2> QED
    BY <1>1, <2>1, <2>3 DEF StartRun, setup
<1>2. CASE ApplyOne
  <2>1. pending[cursor + 1] \in Constraint
    BY <1>2 DEF ApplyOne
  <2>2. world' \in WorldState
    BY <1>2, <2>1, AddConstraintTyped DEF ApplyOne
  <2>3. mode' \in Modes
    BY <1>2, MergeProps DEF ApplyOne, Modes
  <2> QED
    BY <1>2, <2>2, <2>3 DEF ApplyOne, setup
<1>3. CASE StopIterating
  BY <1>3 DEF StopIterating, setup, queues, control
<1>4. CASE NothingQueued
  BY <1>4 DEF NothingQueued, setup, queues, control
<1>5. CASE PlanRun
  <2>1. PlansFor(View(world), failed) \in SUBSET Seq(Step)
    BY PlansHere
  <2>2. revisions' \in Nat /\ pending' \in Seq(Constraint) /\ cursor' \in Nat
    <3>1. \/ revisions' = revisions /\ pending' = pending /\ cursor' = cursor
          \/ revisions' = 1 /\ pending' = <<>> /\ cursor' = 0
      BY <1>5 DEF PlanRun, CompileFirst, ClearQueue
    <3>2. <<>> \in Seq(Constraint)
      OBVIOUS
    <3>3. CASE revisions' = revisions /\ pending' = pending /\ cursor' = cursor
      BY <3>3
    <3>4. CASE revisions' = 1 /\ pending' = <<>> /\ cursor' = 0
      BY <3>2, <3>4
    <3> QED
      BY <3>1, <3>3, <3>4
  <2>3. /\ graph' \in [rev : Nat, steps : Seq(Step)]
        /\ audit' \in [identity : Nat, constraints : Nat, failed : SUBSET Arms,
                       verified : BOOLEAN]
    <3>1. CASE Compile(PlansFor(View(world), failed), 0, world, failed)
      BY <2>1, <3>1, CompileTyped
    <3>2. CASE Compile(PlansFor(View(world), failed), 1, world, failed)
      BY <2>1, <3>2, CompileTyped
    <3> QED
      BY <1>5, <3>1, <3>2 DEF PlanRun, CompileFirst
  <2> QED
    BY <1>5, <2>2, <2>3 DEF PlanRun, setup
<1>6. CASE Constrained
  <2>1. PlansFor(View(world), failed) \in SUBSET Seq(Step) /\ graph.rev + 1 \in Nat
    BY PlansHere
  <2>2. /\ graph' \in [rev : Nat, steps : Seq(Step)]
        /\ audit' \in [identity : Nat, constraints : Nat, failed : SUBSET Arms,
                       verified : BOOLEAN]
    BY <1>6, <2>1, CompileTyped DEF Constrained, CompileOnConstraints
  <2> QED
    BY <1>6, <2>2 DEF Constrained, CompileOnConstraints, ClearQueue, setup
<1>7. CASE NoFault
  BY <1>7 DEF NoFault, setup, queues, control
<1>8. ASSUME NEW f \in Faults, TakeFault(f)
      PROVE  faults' \in Seq(Faults) /\ seen' \subseteq Nat
  <2>1. faults # <<>> /\ faults' = Tail(faults) /\ seen' = seen \cup {f.id}
    BY <1>8 DEF TakeFault
  <2>2. f.id \in Nat
    BY EngineAssumption
  <2>3. Tail(faults) \in Seq(Faults)
    BY <2>1
  <2> QED
    BY <2>1, <2>2, <2>3
<1>9. CASE RejectFault
  BY <1>8, <1>9 DEF RejectFault, TakeFault
<1>10. CASE FaultHolds
  <2>1. PICK f \in Faults :
          /\ TakeFault(f) /\ EnterHold /\ revisions' = revisions + 1
          /\ failed' = failed \/ failed' = failed \cup {f.arm}
          /\ UNCHANGED <<graph, executed, audit>>
    BY <1>10 DEF FaultHolds
  <2>2. f.arm \in Arms
    BY EngineAssumption
  <2>3. failed' \subseteq Arms
    BY <2>1, <2>2
  <2> QED
    BY <1>8, <2>1, <2>3 DEF TakeFault, EnterHold, Modes
<1>11. CASE FaultReplans
  <2>1. PICK f \in Faults :
          /\ TakeFault(f)
          /\ failed' = failed \cup {f.arm}
          /\ mode' = Merge(mode, "DEGRADED")
          /\ Compile(StrictPlansFor(View(world), failed'), graph.rev + 1, world, failed')
          /\ executed' = {}
          /\ revisions' = revisions + 1
          /\ pc' = "apply"
    BY <1>11 DEF FaultReplans
  <2>2. failed' \in SUBSET Arms
    <3>1. f.arm \in Arms
      BY EngineAssumption
    <3> QED
      BY <2>1, <3>1
  <2>3. StrictPlansFor(View(world), failed') \in SUBSET Seq(Step) /\ graph.rev + 1 \in Nat
    <3>1. world \in WorldState
      OBVIOUS
    <3>2. StrictPlansFor(View(world), failed') \in SUBSET Seq(Step)
      BY <2>2, <3>1, PlansTyped, Zenon
    <3> QED
      BY <3>2, PlansHere
  <2>4. /\ graph' \in [rev : Nat, steps : Seq(Step)]
        /\ audit' \in [identity : Nat, constraints : Nat, failed : SUBSET Arms,
                       verified : BOOLEAN]
    BY <2>1, <2>2, <2>3, CompileTyped
  <2>5. mode' \in Modes
    BY <2>1, MergeProps DEF Modes
  <2> QED
    <3>1. faults' \in Seq(Faults) /\ seen' \subseteq Nat
      BY <1>8, <2>1
    <3> QED
      BY <2>1, <2>2, <2>4, <2>5, <3>1, SMTT(30) DEF TakeFault
<1>12. CASE NothingReady
  BY <1>12 DEF NothingReady, setup, queues, control
<1>13. CASE Reroute
  <2>1. "DEGRADED" \in Modes /\ RecompileOrHold("DEGRADED")
    BY <1>13 DEF Reroute, Modes
  <2> QED
    BY <1>13, <2>1, RecompileTyped DEF Reroute, setup, queues
<1>14. CASE Authorize
  <2>1. PICK s \in NextSteps, d \in Devices :
          /\ Place(s, d)
          /\ flight' = [step |-> s, device |-> d, rev |-> world.rev]
          /\ receipt' = <<Id(s), world.rev>>
          /\ pc' = "effect" /\ executed' = executed
    BY <1>14 DEF Authorize
  <2>2. s \in Step /\ world.rev \in Nat
    BY NextStepTyped DEF WorldState
  <2>3. flight' \in Flight /\ receipt' \in StepId \X Nat
    BY <2>1, <2>2 DEF Flight, Id, StepId, Step
  <2> QED
    BY <2>1, <2>3 DEF Place, setup, queues
<1>15. CASE Deny
  BY <1>15 DEF Deny, Place, setup, queues
<1>16. CASE Note
  <2>1. PICK s \in NextSteps, d \in Devices :
          /\ Place(s, d)
          /\ flight' = [step |-> s, device |-> d, rev |-> world.rev]
          /\ receipt' = receipt
          /\ pc' \in {"verify", "apply"} /\ executed' = executed \cup {Id(s)}
    BY <1>16 DEF Note
  <2>2. s \in Step /\ world.rev \in Nat
    BY NextStepTyped DEF WorldState
  <2>3. flight' \in Flight /\ executed' \subseteq StepId
    BY <2>1, <2>2 DEF Flight, Id, StepId, Step
  <2> QED
    BY <2>1, <2>3 DEF Place, setup, queues
<1>17. CASE Effect
  <2>1. flight.step \in Step /\ flight.device \in Devices /\ flight.rev \in Nat
    BY <1>17 DEF Effect, Flight
  <2>2. world' \in WorldState
    BY <1>17, <2>1, TransitionTyped DEF Effect
  <2>3. executed' \subseteq StepId
    BY <1>17, <2>1 DEF Effect, Id, StepId, Step
  <2> QED
    BY <1>17, <2>2, <2>3 DEF Effect, setup, queues
<1>18. CASE NoEffect
  BY <1>18 DEF NoEffect, setup, queues, control
<1>19. CASE VerifyOk
  <2>1. audit' \in [identity : Nat, constraints : Nat, failed : SUBSET Arms,
                   verified : BOOLEAN]
    BY <1>19 DEF VerifyOk
  <2> QED
    BY <1>19, <2>1 DEF VerifyOk, setup, queues
<1>20. CASE VerifyMismatch
  BY <1>20 DEF VerifyMismatch, setup, queues, control
<1>21. CASE Recover
  <2>1. "NOMINAL" \in Modes /\ RecompileOrHold("NOMINAL")
    BY <1>21 DEF Recover, Modes
  <2> QED
    BY <1>21, <2>1, RecompileTyped DEF Recover, setup, queues
<1>22. CASE Finish
  BY <1>22 DEF Finish, setup, queues, control
<1>23. ASSUME NEW what \in {"queued", "reported", "perturbed", "toggled"}, NEW bound,
              Spend(what, bound)
       PROVE  spent' \in [{"runs", "queued", "reported", "perturbed", "toggled"} -> Nat]
  BY <1>23 DEF Spend
<1>24. CASE QueueConstraint
  <2>1. pending' \in Seq(Constraint)
    BY <1>24, EngineAssumption DEF QueueConstraint
  <2> QED
    BY <1>23, <1>24, <2>1 DEF QueueConstraint, setup, control
<1>25. CASE ReportFault
  BY <1>23, <1>25 DEF ReportFault, setup, control
<1>26. CASE Perturb
  <2>1. world' \in WorldState
    BY <1>26, PerturbTyped DEF Perturb
  <2> QED
    BY <1>23, <1>26, <2>1 DEF Perturb, setup, queues, control
<1>27. CASE ToggleDevice
  BY <1>23, <1>27 DEF ToggleDevice, queues, control
<1>28. CASE LoseCapability
  BY <1>23, <1>28 DEF LoseCapability, queues, control
<1>29. CASE UNCHANGED vars
  BY <1>29 DEF vars
<1> QED
  BY <1>1, <1>2, <1>3, <1>4, <1>5, <1>6, <1>7, <1>9, <1>10, <1>11, <1>12, <1>13, <1>14, <1>15,
     <1>16, <1>17, <1>18, <1>19, <1>20, <1>21, <1>22, <1>24, <1>25, <1>26, <1>27, <1>28, <1>29
     DEF Next, Engine, Surroundings

(* Every variable keeps its type in every behaviour, whatever the planner    *)
(* returns and whoever disturbs the run.                                     *)
THEOREM TypeCorrect == Spec => []TypeOK
<1>1. Init => TypeOK /\ FlightTyped
  BY InitTyped
<1>2. TypeOK /\ FlightTyped /\ [Next]_vars => TypeOK' /\ FlightTyped'
  BY TypeStep
<1> QED
  BY <1>1, <1>2, PTL DEF Spec


-----------------------------------------------------------------------------
(* Degradation and HOLD.                                                     *)

(* In HOLD the engine is never in the middle of a step.                      *)
HoldInv == mode = "HOLD" => pc \notin {"effect", "verify", "recover"}

LEMMA HoldStopsSteps ==
  ASSUME mode = "HOLD" PROVE NextSteps = {}
BY DEF NextSteps, Ready

LEMMA HoldStep ==
  ASSUME TypeOK, HoldInv, [Next]_vars
  PROVE  HoldInv'
<1> USE DEF HoldInv
<1>1. CASE StartRun
  BY <1>1 DEF StartRun, setup
<1>2. CASE ApplyOne
  BY <1>2 DEF ApplyOne, setup
<1>3. CASE StopIterating
  BY <1>3 DEF StopIterating, setup, queues, control
<1>4. CASE NothingQueued
  BY <1>4 DEF NothingQueued, setup, queues, control
<1>5. CASE PlanRun
  BY <1>5 DEF PlanRun, setup
<1>6. CASE Constrained
  BY <1>6 DEF Constrained, setup
<1>7. CASE NoFault
  BY <1>7 DEF NoFault, setup, queues, control
<1>8. CASE RejectFault
  BY <1>8 DEF RejectFault, TakeFault
<1>9. CASE FaultHolds
  BY <1>9 DEF FaultHolds, TakeFault, EnterHold
<1>10. CASE FaultReplans
  BY <1>10 DEF FaultReplans, TakeFault
<1>11. CASE NothingReady
  BY <1>11 DEF NothingReady, setup, queues, control
<1>12. CASE Reroute
  BY <1>12, RecompileTyped DEF Reroute, Modes
<1>13. CASE Authorize
  BY <1>13, HoldStopsSteps DEF Authorize, Place, setup, queues
<1>14. CASE Deny
  BY <1>14, HoldStopsSteps DEF Deny, Place, setup, queues
<1>15. CASE Note
  BY <1>15, HoldStopsSteps DEF Note, Place, setup, queues
<1>16. CASE Effect
  BY <1>16 DEF Effect, setup, queues
<1>17. CASE NoEffect
  BY <1>17 DEF NoEffect, setup, queues, control
<1>18. CASE VerifyOk
  BY <1>18 DEF VerifyOk, setup, queues
<1>19. CASE VerifyMismatch
  BY <1>19 DEF VerifyMismatch, setup, queues, control
<1>20. CASE Recover
  BY <1>20, RecompileTyped DEF Recover, Modes
<1>21. CASE Finish
  BY <1>21 DEF Finish, setup, queues, control
<1>22. CASE QueueConstraint
  BY <1>22 DEF QueueConstraint, setup, control
<1>23. CASE ReportFault
  BY <1>23 DEF ReportFault, setup, control
<1>24. CASE Perturb
  BY <1>24 DEF Perturb, setup, queues, control
<1>25. CASE ToggleDevice
  BY <1>25 DEF ToggleDevice, queues, control
<1>26. CASE LoseCapability
  BY <1>26 DEF LoseCapability, queues, control
<1>27. CASE UNCHANGED vars
  BY <1>27 DEF vars
<1> QED
  BY <1>1, <1>2, <1>3, <1>4, <1>5, <1>6, <1>7, <1>8, <1>9, <1>10, <1>11, <1>12,
     <1>13, <1>14, <1>15, <1>16, <1>17, <1>18, <1>19, <1>20, <1>21, <1>22, <1>23,
     <1>24, <1>25, <1>26, <1>27
     DEF Next, Engine, Surroundings

LEMMA SeverityReflexive ==
  ASSUME TypeOK PROVE Severity(mode) >= Severity(mode)
BY DEF TypeOK, Severity, Modes

LEMMA ModeStep ==
  ASSUME TypeOK, [Next]_vars
  PROVE  Severity(mode') >= Severity(mode)
<1>0. mode \in Modes
  BY DEF TypeOK
<1>1. CASE StartRun
  BY <1>1, <1>0, SeverityReflexive DEF StartRun, setup
<1>2. CASE ApplyOne
  <2>1. mode' = Merge(mode, "LOCAL_ONLY") \/ mode' = mode
    BY <1>2 DEF ApplyOne
  <2>2. "LOCAL_ONLY" \in Modes
    BY DEF Modes
  <2> QED
    BY <1>0, <2>1, <2>2, MergeProps, SeverityReflexive
<1>3. CASE StopIterating
  BY <1>3, <1>0, SeverityReflexive DEF StopIterating, setup, queues, control
<1>4. CASE NothingQueued
  BY <1>4, <1>0, SeverityReflexive DEF NothingQueued, setup, queues, control
<1>5. CASE PlanRun
  BY <1>5, <1>0, SeverityReflexive DEF PlanRun, setup
<1>6. CASE Constrained
  BY <1>6, <1>0, SeverityReflexive DEF Constrained, setup
<1>7. CASE NoFault
  BY <1>7, <1>0, SeverityReflexive DEF NoFault, setup, queues, control
<1>8. CASE RejectFault
  BY <1>8, <1>0, SeverityReflexive DEF RejectFault, TakeFault
<1>9. CASE FaultHolds
  BY <1>9, <1>0, MergeProps DEF FaultHolds, EnterHold
<1>10. CASE FaultReplans
  BY <1>10, <1>0, MergeProps DEF FaultReplans, Modes
<1>11. CASE NothingReady
  BY <1>11, <1>0, SeverityReflexive DEF NothingReady, setup, queues, control
<1>12. CASE Reroute
  BY <1>12, <1>0, RecompileTyped DEF Reroute, Modes
<1>13. CASE Authorize
  BY <1>13, <1>0, SeverityReflexive DEF Authorize, Place, setup, queues
<1>14. CASE Deny
  BY <1>14, <1>0, SeverityReflexive DEF Deny, Place, setup, queues
<1>15. CASE Note
  BY <1>15, <1>0, SeverityReflexive DEF Note, Place, setup, queues
<1>16. CASE Effect
  BY <1>16, <1>0, SeverityReflexive DEF Effect, setup, queues
<1>17. CASE NoEffect
  BY <1>17, <1>0, SeverityReflexive DEF NoEffect, setup, queues, control
<1>18. CASE VerifyOk
  BY <1>18, <1>0, SeverityReflexive DEF VerifyOk, setup, queues
<1>19. CASE VerifyMismatch
  BY <1>19, <1>0, SeverityReflexive DEF VerifyMismatch, setup, queues, control
<1>20. CASE Recover
  BY <1>20, <1>0, RecompileTyped DEF Recover, Modes
<1>21. CASE Finish
  BY <1>21, <1>0, SeverityReflexive DEF Finish, setup, queues, control
<1>22. CASE QueueConstraint
  BY <1>22, <1>0, SeverityReflexive DEF QueueConstraint, setup, control
<1>23. CASE ReportFault
  BY <1>23, <1>0, SeverityReflexive DEF ReportFault, setup, control
<1>24. CASE Perturb
  BY <1>24, <1>0, SeverityReflexive DEF Perturb, setup, queues, control
<1>25. CASE ToggleDevice
  BY <1>25, <1>0, SeverityReflexive DEF ToggleDevice, queues, control
<1>26. CASE LoseCapability
  BY <1>26, <1>0, SeverityReflexive DEF LoseCapability, queues, control
<1>27. CASE UNCHANGED vars
  BY <1>27, <1>0, SeverityReflexive DEF vars
<1> QED
  BY <1>1, <1>2, <1>3, <1>4, <1>5, <1>6, <1>7, <1>8, <1>9, <1>10, <1>11, <1>12,
     <1>13, <1>14, <1>15, <1>16, <1>17, <1>18, <1>19, <1>20, <1>21, <1>22, <1>23,
     <1>24, <1>25, <1>26, <1>27
     DEF Next, Engine, Surroundings

(* Every step except authorizing and acting leaves receipts, and who holds   *)
(* what where, to others.                                                    *)
LEMMA Quiet ==
  ASSUME TypeOK, [Next]_vars
  PROVE  Authorize \/ Effect \/ (receipt' = receipt /\ ~EngineMovesParts)
<1>0. world \in WorldState
  BY DEF TypeOK
<1>1. CASE StartRun
  BY <1>1, <1>0 DEF StartRun, StartMission, EngineMovesParts, WorldState
<1>2. CASE ApplyOne
  BY <1>2, <1>0 DEF ApplyOne, EngineMovesParts
<1>3. CASE StopIterating
  BY <1>3, <1>0 DEF StopIterating, setup, queues, control, EngineMovesParts
<1>4. CASE NothingQueued
  BY <1>4, <1>0 DEF NothingQueued, setup, queues, control, EngineMovesParts
<1>5. CASE PlanRun
  BY <1>5, <1>0 DEF PlanRun, setup, EngineMovesParts
<1>6. CASE Constrained
  BY <1>6, <1>0 DEF Constrained, setup, EngineMovesParts
<1>7. CASE NoFault
  BY <1>7, <1>0 DEF NoFault, setup, queues, control, EngineMovesParts
<1>8. CASE RejectFault
  BY <1>8, <1>0 DEF RejectFault, TakeFault, EngineMovesParts
<1>9. CASE FaultHolds
  BY <1>9, <1>0 DEF FaultHolds, TakeFault, EnterHold, EngineMovesParts
<1>10. CASE FaultReplans
  BY <1>10, <1>0 DEF FaultReplans, TakeFault, EngineMovesParts
<1>11. CASE NothingReady
  BY <1>11, <1>0 DEF NothingReady, setup, queues, control, EngineMovesParts
<1>12. CASE Reroute
  BY <1>12, <1>0 DEF Reroute, setup, queues, EngineMovesParts
<1>13. CASE Authorize
  BY <1>13
<1>14. CASE Deny
  BY <1>14, <1>0 DEF Deny, Place, setup, queues, EngineMovesParts
<1>15. CASE Note
  BY <1>15, <1>0 DEF Note, Place, setup, queues, EngineMovesParts
<1>16. CASE Effect
  BY <1>16
<1>17. CASE NoEffect
  BY <1>17, <1>0 DEF NoEffect, setup, queues, control, EngineMovesParts
<1>18. CASE VerifyOk
  BY <1>18, <1>0 DEF VerifyOk, setup, queues, EngineMovesParts
<1>19. CASE VerifyMismatch
  BY <1>19, <1>0 DEF VerifyMismatch, setup, queues, control, EngineMovesParts
<1>20. CASE Recover
  BY <1>20, <1>0 DEF Recover, setup, queues, EngineMovesParts
<1>21. CASE Finish
  BY <1>21, <1>0 DEF Finish, setup, queues, control, EngineMovesParts
<1>22. CASE QueueConstraint
  BY <1>22, <1>0 DEF QueueConstraint, setup, control, EngineMovesParts
<1>23. CASE ReportFault
  BY <1>23, <1>0 DEF ReportFault, setup, control, EngineMovesParts
<1>24. CASE Perturb
  BY <1>24, <1>0 DEF Perturb, EngineMovesParts, control
<1>25. CASE ToggleDevice
  BY <1>25, <1>0 DEF ToggleDevice, queues, control, EngineMovesParts
<1>26. CASE LoseCapability
  BY <1>26, <1>0 DEF LoseCapability, queues, control, EngineMovesParts
<1>27. CASE UNCHANGED vars
  BY <1>27, <1>0 DEF vars, EngineMovesParts
<1> QED
  BY <1>1, <1>2, <1>3, <1>4, <1>5, <1>6, <1>7, <1>8, <1>9, <1>10, <1>11, <1>12,
     <1>13, <1>14, <1>15, <1>16, <1>17, <1>18, <1>19, <1>20, <1>21, <1>22, <1>23,
     <1>24, <1>25, <1>26, <1>27
     DEF Next, Engine, Surroundings

(* The mode's severity never falls, in any behaviour.                        *)
THEOREM ModeMonotone == Spec => ModeNeverRelaxes
<1>1. TypeOK /\ [Next]_vars => [Severity(mode') >= Severity(mode)]_vars
  BY ModeStep
<1> QED
  BY <1>1, TypeCorrect, PTL DEF Spec, ModeNeverRelaxes

(* HOLD is final: no authorization and no engine motion ever follows it.     *)
THEOREM HoldFinal == Spec => HoldIsFinal
<1>1. Init => HoldInv
  BY DEF Init, HoldInv
<1>2. TypeOK /\ HoldInv /\ [Next]_vars => HoldInv'
  BY HoldStep
<1>3. TypeOK /\ HoldInv /\ [Next]_vars
        => [mode = "HOLD" => receipt' = receipt /\ ~EngineMovesParts]_vars
  <2> SUFFICES ASSUME TypeOK, HoldInv, [Next]_vars, mode = "HOLD"
               PROVE  receipt' = receipt /\ ~EngineMovesParts
    OBVIOUS
  <2>1. ~Authorize
    BY HoldStopsSteps DEF Authorize
  <2>2. ~Effect
    BY DEF HoldInv, Effect
  <2> QED
    BY <2>1, <2>2, Quiet
<1> QED
  BY <1>1, <1>2, <1>3, TypeCorrect, PTL DEF Spec, HoldIsFinal

-----------------------------------------------------------------------------
(* Governed effects.                                                         *)

(* The step about to act was permitted in the world at the revision its      *)
(* receipt is bound to; if the world is still at that revision, it still is. *)
FlightInv ==
  pc = "effect" =>
    /\ receipt = <<Id(flight.step), flight.rev>>
    /\ flight.rev <= world.rev
    /\ flight.rev = world.rev => Permitted(flight.step, world)

LEMMA FlightStep ==
  ASSUME TypeOK, FlightTyped, FlightInv, [Next]_vars
  PROVE  FlightInv'
<1> USE DEF FlightInv
<1>0. world \in WorldState /\ (pc = "effect" => flight \in Flight)
  BY DEF TypeOK, FlightTyped
<1>1. CASE StartRun
  BY <1>1 DEF StartRun
<1>2. CASE ApplyOne
  BY <1>2 DEF ApplyOne
<1>3. CASE StopIterating
  BY <1>3 DEF StopIterating, setup, queues, control
<1>4. CASE NothingQueued
  BY <1>4 DEF NothingQueued, setup, queues, control
<1>5. CASE PlanRun
  BY <1>5 DEF PlanRun
<1>6. CASE Constrained
  BY <1>6 DEF Constrained
<1>7. CASE NoFault
  BY <1>7 DEF NoFault, setup, queues, control
<1>8. CASE RejectFault
  BY <1>8 DEF RejectFault
<1>9. CASE FaultHolds
  BY <1>9 DEF FaultHolds, EnterHold
<1>10. CASE FaultReplans
  BY <1>10 DEF FaultReplans
<1>11. CASE NothingReady
  BY <1>11 DEF NothingReady, setup, queues, control
<1>12. CASE Reroute
  BY <1>12, RecompileTyped DEF Reroute, Modes
<1>13. CASE Authorize
  <2>1. PICK t \in NextSteps, d \in Devices :
          /\ Permitted(t, world)
          /\ flight' = [step |-> t, device |-> d, rev |-> world.rev]
          /\ receipt' = <<Id(t), world.rev>>
          /\ world' = world
    BY <1>13 DEF Authorize, Place
  <2>2. world.rev \in Nat
    BY <1>0 DEF WorldState
  <2> QED
    BY <2>1, <2>2
<1>14. CASE Deny
  BY <1>14 DEF Deny
<1>15. CASE Note
  BY <1>15 DEF Note
<1>16. CASE Effect
  BY <1>16 DEF Effect, setup, queues
<1>17. CASE NoEffect
  BY <1>17 DEF NoEffect, setup, queues, control
<1>18. CASE VerifyOk
  BY <1>18 DEF VerifyOk, setup, queues
<1>19. CASE VerifyMismatch
  BY <1>19 DEF VerifyMismatch, setup, queues, control
<1>20. CASE Recover
  BY <1>20, RecompileTyped DEF Recover, Modes
<1>21. CASE Finish
  BY <1>21 DEF Finish, setup, queues, control
<1>22. CASE QueueConstraint
  BY <1>22 DEF QueueConstraint, setup, control
<1>23. CASE ReportFault
  BY <1>23 DEF ReportFault, setup, control
<1>24. CASE Perturb
  <2>1. world' \in WorldState /\ world'.rev = world.rev + 1
    BY <1>0, <1>24, PerturbTyped DEF Perturb
  <2>2. world.rev \in Nat
    BY <1>0 DEF WorldState
  <2>3. pc' = pc /\ flight' = flight /\ receipt' = receipt
    BY <1>24 DEF Perturb, control
  <2>4. CASE pc = "effect"
    <3>1. flight.rev \in Nat
      BY <1>0, <2>4 DEF Flight
    <3>2. flight.rev <= world'.rev /\ flight.rev # world'.rev
      BY <2>1, <2>2, <2>4, <3>1
    <3> QED
      BY <2>3, <2>4, <3>2
  <2> QED
    BY <2>3, <2>4
<1>25. CASE ToggleDevice
  BY <1>25 DEF ToggleDevice, queues, control
<1>26. CASE LoseCapability
  BY <1>26 DEF LoseCapability, queues, control
<1>27. CASE UNCHANGED vars
  BY <1>27 DEF vars
<1> QED
  BY <1>1, <1>2, <1>3, <1>4, <1>5, <1>6, <1>7, <1>8, <1>9, <1>10, <1>11, <1>12,
     <1>13, <1>14, <1>15, <1>16, <1>17, <1>18, <1>19, <1>20, <1>21, <1>22, <1>23,
     <1>24, <1>25, <1>26, <1>27
     DEF Next, Engine, Surroundings

(* The engine moves a part only under a receipt for this very step at this   *)
(* very revision, and only where the step is permitted now.                  *)
THEOREM EffectsGoverned == Spec => GovernedEffect
<1>1. Init => FlightInv
  BY DEF Init, FlightInv
<1>2. TypeOK /\ FlightTyped /\ FlightInv /\ [Next]_vars => FlightInv'
  BY FlightStep
<1>3. TypeOK /\ FlightTyped /\ FlightInv /\ [Next]_vars
        => [EngineMovesParts =>
              /\ receipt = <<Id(flight.step), world.rev>>
              /\ flight.step.op \in EnvelopeOps
              /\ flight.step.obj \notin EnvelopeForbidden \cup WorldForbids(world) \cup Fallback
              /\ \A o \in Objects \ {flight.step.obj} :
                   world'.zone[o] = world.zone[o] /\ world'.owner[o] = world.owner[o]]_vars
  <2> SUFFICES ASSUME TypeOK, FlightTyped, FlightInv, [Next]_vars, EngineMovesParts
               PROVE  /\ receipt = <<Id(flight.step), world.rev>>
                      /\ Permitted(flight.step, world)
                      /\ \A o \in Objects \ {flight.step.obj} :
                           world'.zone[o] = world.zone[o] /\ world'.owner[o] = world.owner[o]
    BY DEF Permitted, Forbidden
  <2>1. ~Authorize
    BY DEF Authorize, Place, EngineMovesParts
  <2>2. Effect
    BY <2>1, Quiet
  <2>3. flight.step \in Step /\ flight.device \in Devices /\ flight.rev \in Nat
    BY <2>2 DEF Effect, Flight, FlightTyped
  <2>4. Accepts(world, flight.step, flight.device, flight.rev) /\ flight.rev = world.rev
    BY <2>2 DEF Effect, Accepts
  <2>5. world' = ApplyTransition(world, flight.step, flight.device) /\ world \in WorldState
    BY <2>2 DEF Effect, TypeOK
  <2>6. \A o \in Objects \ {flight.step.obj} :
          world'.zone[o] = world.zone[o] /\ world'.owner[o] = world.owner[o]
    BY <2>3, <2>4, <2>5, TransitionTyped
  <2> QED
    BY <2>2, <2>4, <2>6 DEF Effect, FlightInv
<1>4. Init => TypeOK /\ FlightTyped
  BY InitTyped
<1>5. TypeOK /\ FlightTyped /\ [Next]_vars => TypeOK' /\ FlightTyped'
  BY TypeStep
<1> QED
  BY <1>1, <1>2, <1>3, <1>4, <1>5, PTL DEF Spec, GovernedEffect

-----------------------------------------------------------------------------
(* The graph in use is current.                                              *)

(* Constraints the world carries but the graph does not are exactly those    *)
(* being applied from the queue; when a step is chosen there are none.       *)
GraphInv ==
  /\ cursor <= Len(pending)
  /\ pc \in {"idle", "fault", "select", "effect", "verify", "recover", "finish"} => cursor = 0
  /\ pc \notin {"idle", "applyFirst", "clearFirst", "finish"} =>
       /\ audit.constraints + cursor = Len(world.constraints)
       /\ audit.failed = failed

LEMMA GraphStep ==
  ASSUME TypeOK, FlightTyped, GraphInv, [Next]_vars
  PROVE  GraphInv'
<1> USE DEF GraphInv
<1>0. /\ world \in WorldState /\ (pc \in {"effect", "verify"} => flight \in Flight)
      /\ pending \in Seq(Constraint) /\ cursor \in Nat /\ failed \subseteq Arms
      /\ audit \in [identity : Nat, constraints : Nat, failed : SUBSET Arms, verified : BOOLEAN]
  BY DEF TypeOK, FlightTyped
<1>1. CASE StartRun
  BY <1>1 DEF StartRun, setup
<1>2. CASE ApplyOne
  <2>1. pending[cursor + 1] \in Constraint /\ cursor' = cursor + 1 /\ cursor' <= Len(pending)
    BY <1>0, <1>2 DEF ApplyOne
  <2>2. Len(world'.constraints) = Len(world.constraints) + 1
    BY <1>0, <2>1, <1>2, AddConstraintTyped DEF ApplyOne
  <2>3. Len(world.constraints) \in Nat /\ audit.constraints \in Nat
    BY <1>0 DEF WorldState
  <2>4. /\ pc \in {"applyFirst", "apply"} /\ pc' = pc
        /\ pending' = pending /\ audit' = audit /\ failed' = failed
    BY <1>2 DEF ApplyOne, setup
  <2> QED
    BY <1>0, <2>1, <2>2, <2>3, <2>4
<1>3. CASE StopIterating
  BY <1>3 DEF StopIterating, setup, queues, control
<1>4. CASE NothingQueued
  <2>1. cursor = 0
    BY <1>0, <1>4 DEF NothingQueued
  <2> QED
    BY <2>1, <1>4 DEF NothingQueued, setup, queues, control
<1>5. CASE PlanRun
  <2>1. PlansFor(View(world), failed) \in SUBSET Seq(Step)
    BY PlansHere
  <2>2. PICK rev \in {0, 1} : Compile(PlansFor(View(world), failed), rev, world, failed)
    BY <1>5 DEF PlanRun, CompileFirst
  <2>3. audit'.constraints = Len(world.constraints) /\ audit'.failed = failed
    <3>1. rev \in Nat /\ failed \in SUBSET Arms /\ world \in WorldState
      BY <1>0
    <3> QED
      BY <2>1, <2>2, <3>1, CompileTyped
  <2>4. cursor' = 0 /\ Len(pending') = 0
    <3>1. \/ pending = <<>> /\ pending' = pending /\ cursor' = cursor
          \/ pending' = <<>> /\ cursor' = 0
      BY <1>5 DEF PlanRun, CompileFirst, ClearQueue
    <3> QED
      BY <1>0, <3>1
  <2>5. pc' = "apply" /\ world' = world /\ failed' = failed
    BY <1>5 DEF PlanRun, setup
  <2>6. Len(world.constraints) \in Nat
    BY <1>0 DEF WorldState
  <2> QED
    BY <2>3, <2>4, <2>5, <2>6
<1>6. CASE Constrained
  <2>1. audit'.constraints = Len(world.constraints) /\ audit'.failed = failed
    BY <1>0, <1>6, PlansHere, CompileTyped DEF Constrained, CompileOnConstraints
  <2>2. cursor' = 0 /\ pending' = <<>> /\ pc' = "fault" /\ world' = world /\ failed' = failed
    BY <1>6 DEF Constrained, ClearQueue, setup
  <2>3. Len(world.constraints) \in Nat
    BY <1>0 DEF WorldState
  <2> QED
    BY <2>1, <2>2, <2>3
<1>7. CASE NoFault
  BY <1>7 DEF NoFault, setup, queues, control
<1>8. CASE RejectFault
  BY <1>8 DEF RejectFault, TakeFault
<1>9. CASE FaultHolds
  BY <1>9 DEF FaultHolds, TakeFault, EnterHold
<1>10. CASE FaultReplans
  <2>1. PICK f \in Faults :
          /\ TakeFault(f)
          /\ failed' = failed \cup {f.arm}
          /\ Compile(StrictPlansFor(View(world), failed'), graph.rev + 1, world, failed')
    BY <1>10 DEF FaultReplans
  <2>2. failed' \in SUBSET Arms /\ world \in WorldState
    BY <1>0, <2>1, EngineAssumption
  <2>3. StrictPlansFor(View(world), failed') \in SUBSET Seq(Step)
    BY <2>2, PlansTyped, Zenon
  <2>4. audit'.constraints = Len(world.constraints) /\ audit'.failed = failed'
    BY <2>1, <2>2, <2>3, PlansHere, CompileTyped
  <2>5. pc' = "apply" /\ world' = world /\ cursor' = cursor /\ pending' = pending
    BY <2>1, <1>10 DEF FaultReplans, TakeFault
  <2>6. Len(world.constraints) \in Nat /\ cursor = 0
    BY <1>10 DEF WorldState, FaultReplans, TakeFault
  <2> QED
    BY <1>0, <2>4, <2>5, <2>6
<1>11. CASE NothingReady
  BY <1>11 DEF NothingReady, setup, queues, control
<1>12. CASE Reroute
  <2>1. \/ pc' = "finish"
        \/ pc' = "apply" /\ audit'.constraints = Len(world.constraints) /\ audit'.failed = failed
    BY <1>12, RecompileTyped DEF Reroute, Modes
  <2>2. world' = world /\ cursor' = cursor /\ pending' = pending /\ failed' = failed
    BY <1>12 DEF Reroute, setup, queues
  <2>3. Len(world.constraints) \in Nat /\ cursor = 0
    BY <1>0, <1>12 DEF WorldState, Reroute
  <2> QED
    BY <1>0, <2>1, <2>2, <2>3
<1>13. CASE Authorize
  BY <1>13 DEF Authorize, Place, setup, queues
<1>14. CASE Deny
  BY <1>14 DEF Deny, Place, setup, queues
<1>15. CASE Note
  BY <1>15 DEF Note, Place, setup, queues
<1>16. CASE Effect
  <2>1. flight.step \in Step /\ flight.device \in Devices /\ flight.rev \in Nat
    BY <1>0, <1>16 DEF Effect, Flight
  <2>2. world'.constraints = world.constraints
    BY <1>0, <1>16, <2>1, TransitionTyped DEF Effect
  <2> QED
    BY <1>16, <2>2 DEF Effect, setup, queues
<1>17. CASE NoEffect
  BY <1>17 DEF NoEffect, setup, queues, control
<1>18. CASE VerifyOk
  <2>1. audit'.constraints = audit.constraints /\ audit'.failed = audit.failed
    BY <1>0, <1>18 DEF VerifyOk
  <2> QED
    BY <1>18, <2>1 DEF VerifyOk, setup, queues
<1>19. CASE VerifyMismatch
  BY <1>19 DEF VerifyMismatch, setup, queues, control
<1>20. CASE Recover
  <2>1. \/ pc' = "finish"
        \/ pc' = "apply" /\ audit'.constraints = Len(world.constraints) /\ audit'.failed = failed
    BY <1>20, RecompileTyped DEF Recover, Modes
  <2>2. world' = world /\ cursor' = cursor /\ pending' = pending /\ failed' = failed
    BY <1>20 DEF Recover, setup, queues
  <2>3. Len(world.constraints) \in Nat /\ cursor = 0
    BY <1>0, <1>20 DEF WorldState, Recover
  <2> QED
    BY <1>0, <2>1, <2>2, <2>3
<1>21. CASE Finish
  BY <1>21 DEF Finish, setup, queues, control
<1>22. CASE QueueConstraint
  <2>1. Len(pending') >= Len(pending) /\ Len(pending) \in Nat
    BY <1>0, <1>22, EngineAssumption DEF QueueConstraint
  <2> QED
    BY <1>0, <1>22, <2>1 DEF QueueConstraint, setup, control
<1>23. CASE ReportFault
  BY <1>23 DEF ReportFault, setup, control
<1>24. CASE Perturb
  <2>1. world'.constraints = world.constraints
    BY <1>0, <1>24, PerturbTyped DEF Perturb
  <2> QED
    BY <1>24, <2>1 DEF Perturb, setup, queues, control
<1>25. CASE ToggleDevice
  BY <1>25 DEF ToggleDevice, queues, control
<1>26. CASE LoseCapability
  BY <1>26 DEF LoseCapability, queues, control
<1>27. CASE UNCHANGED vars
  BY <1>27 DEF vars
<1> QED
  BY <1>1, <1>2, <1>3, <1>4, <1>5, <1>6, <1>7, <1>8, <1>9, <1>10, <1>11, <1>12,
     <1>13, <1>14, <1>15, <1>16, <1>17, <1>18, <1>19, <1>20, <1>21, <1>22, <1>23,
     <1>24, <1>25, <1>26, <1>27
     DEF Next, Engine, Surroundings

(* While a step is chosen, run and verified, its graph knows every           *)
(* constraint of the world and every arm the fleet has lost.                 *)
THEOREM GraphStaysCurrent == Spec => []GraphCurrent
<1>1. Init => TypeOK /\ FlightTyped /\ GraphInv
  BY InitTyped DEF Init, GraphInv
<1>2. TypeOK /\ FlightTyped /\ GraphInv /\ [Next]_vars => TypeOK' /\ FlightTyped' /\ GraphInv'
  BY TypeStep, GraphStep
<1>3. TypeOK /\ GraphInv => GraphCurrent
  BY DEF TypeOK, GraphInv, GraphCurrent
<1> QED
  BY <1>1, <1>2, <1>3, PTL DEF Spec

-----------------------------------------------------------------------------
(* The identity of a run bounds what its graphs are compiled under.          *)

(* What the identity named is still to be applied, is in the world, or has   *)
(* been compiled: the queue may grow while it is being iterated.             *)
Covered(n) ==
  CASE pc = "idle"       -> TRUE
    [] pc = "applyFirst" -> Len(world.constraints) + Len(pending) >= n + cursor
    [] pc = "clearFirst" -> Len(world.constraints) >= n
    [] OTHER             -> audit.constraints >= n
IdentityInv == Covered(audit.identity)

(* A recompilation is under at least as many constraints as the last one.    *)
LEMMA RecompileCovers ==
  ASSUME TypeOK, GraphInv, IdentityInv, NEW e \in Modes, RecompileOrHold(e),
         pc \in {"select", "recover"}
  PROVE  IdentityInv'
<1>1. audit'.identity = audit.identity /\ pc' \in {"apply", "finish"}
  BY RecompileTyped
<1>2. \/ audit' = audit
      \/ audit'.constraints = Len(world.constraints)
  BY RecompileTyped
<1>3. audit.constraints >= audit.identity
  BY DEF IdentityInv, Covered
<1>4. audit.constraints = Len(world.constraints) + 0
  <2>1. Len(world.constraints) \in Nat /\ audit.constraints \in Nat
    BY DEF TypeOK, WorldState
  <2> QED
    BY <2>1 DEF GraphInv
<1> QED
  BY <1>1, <1>2, <1>3, <1>4 DEF IdentityInv, Covered

LEMMA IdentityStep ==
  ASSUME TypeOK, FlightTyped, GraphInv, IdentityInv, [Next]_vars
  PROVE  IdentityInv'
<1>0. /\ world \in WorldState /\ (pc \in {"effect", "verify"} => flight \in Flight)
      /\ pending \in Seq(Constraint) /\ cursor \in Nat /\ failed \in SUBSET Arms
      /\ audit \in [identity : Nat, constraints : Nat, failed : SUBSET Arms, verified : BOOLEAN]
      /\ Len(world.constraints) \in Nat /\ Len(pending) \in Nat
      /\ audit.constraints \in Nat /\ audit.identity \in Nat
  BY DEF TypeOK, FlightTyped, WorldState
<1>1. CASE StartRun
  <2>1. /\ audit'.identity = Len(world.constraints) + Len(pending)
        /\ pc' = "applyFirst" /\ pending' = pending /\ cursor' = cursor
    BY <1>0, <1>1 DEF StartRun
  <2>2. world'.constraints = world.constraints
    BY <1>0, <1>1, StartTyped DEF StartRun
  <2>3. cursor = 0
    BY <1>1 DEF StartRun, GraphInv
  <2> QED
    BY <1>0, <2>1, <2>2, <2>3 DEF IdentityInv, Covered
<1>2. CASE ApplyOne
  <2>1. pending[cursor + 1] \in Constraint /\ cursor' = cursor + 1
    BY <1>0, <1>2 DEF ApplyOne
  <2>2. Len(world'.constraints) = Len(world.constraints) + 1
    BY <1>0, <2>1, <1>2, AddConstraintTyped DEF ApplyOne
  <2>3. pc \in {"applyFirst", "apply"} /\ pc' = pc /\ pending' = pending /\ audit' = audit
    BY <1>2 DEF ApplyOne
  <2> QED
    BY <1>0, <2>1, <2>2, <2>3 DEF IdentityInv, Covered
<1>3. CASE StopIterating
  BY <1>0, <1>3 DEF StopIterating, queues, control, IdentityInv, Covered
<1>4. CASE NothingQueued
  BY <1>4 DEF NothingQueued, control, IdentityInv, Covered
<1>5. CASE PlanRun
  <2>1. PICK rev \in {0, 1} : Compile(PlansFor(View(world), failed), rev, world, failed)
    BY <1>5 DEF PlanRun, CompileFirst
  <2>2. audit'.constraints = Len(world.constraints) /\ audit'.identity = audit.identity
    <3>1. rev \in Nat /\ PlansFor(View(world), failed) \in SUBSET Seq(Step)
      BY PlansHere
    <3> QED
      BY <1>0, <2>1, <3>1, CompileTyped
  <2>3. Len(world.constraints) >= audit.identity
    <3>1. \/ pc = "applyFirst" /\ Len(pending) = 0
          \/ pc = "clearFirst"
      BY <1>5 DEF PlanRun, CompileFirst
    <3> QED
      BY <1>0, <3>1 DEF IdentityInv, Covered
  <2>4. pc' = "apply"
    BY <1>5 DEF PlanRun
  <2> QED
    BY <2>2, <2>3, <2>4 DEF IdentityInv, Covered
<1>6. CASE Constrained
  <2>1. audit'.constraints = Len(world.constraints) /\ audit'.identity = audit.identity
    BY <1>0, <1>6, PlansHere, CompileTyped DEF Constrained, CompileOnConstraints
  <2>2. pc = "clear" /\ pc' = "fault"
    BY <1>6 DEF Constrained
  <2>3. audit.constraints >= audit.identity /\ audit.constraints + cursor = Len(world.constraints)
    BY <2>2 DEF GraphInv, IdentityInv, Covered
  <2> QED
    BY <1>0, <2>1, <2>2, <2>3 DEF IdentityInv, Covered
<1>7. CASE NoFault
  BY <1>7 DEF NoFault, control, IdentityInv, Covered
<1>8. CASE RejectFault
  BY <1>8 DEF RejectFault, TakeFault, IdentityInv, Covered
<1>9. CASE FaultHolds
  BY <1>9 DEF FaultHolds, TakeFault, EnterHold, IdentityInv, Covered
<1>10. CASE FaultReplans
  <2>1. PICK f \in Faults :
          /\ TakeFault(f)
          /\ failed' = failed \cup {f.arm}
          /\ Compile(StrictPlansFor(View(world), failed'), graph.rev + 1, world, failed')
    BY <1>10 DEF FaultReplans
  <2>2. failed' \in SUBSET Arms
    BY <1>0, <2>1, EngineAssumption
  <2>3. StrictPlansFor(View(world), failed') \in SUBSET Seq(Step)
    BY <1>0, <2>2, PlansTyped, Zenon
  <2>4. audit'.constraints = Len(world.constraints) /\ audit'.identity = audit.identity
    BY <1>0, <2>1, <2>2, <2>3, PlansHere, CompileTyped
  <2>5. pc = "fault" /\ pc' = "apply"
    BY <1>10 DEF FaultReplans, TakeFault
  <2>6. audit.constraints >= audit.identity /\ audit.constraints + cursor = Len(world.constraints)
    BY <2>5 DEF GraphInv, IdentityInv, Covered
  <2> QED
    BY <1>0, <2>4, <2>5, <2>6 DEF IdentityInv, Covered
<1>11. CASE NothingReady
  BY <1>11 DEF NothingReady, control, IdentityInv, Covered
<1>12. CASE Reroute
  BY <1>12, RecompileCovers DEF Reroute, Modes
<1>13. CASE Authorize
  BY <1>13 DEF Authorize, Place, IdentityInv, Covered
<1>14. CASE Deny
  BY <1>14 DEF Deny, Place, IdentityInv, Covered
<1>15. CASE Note
  BY <1>15 DEF Note, Place, IdentityInv, Covered
<1>16. CASE Effect
  BY <1>16 DEF Effect, IdentityInv, Covered
<1>17. CASE NoEffect
  BY <1>17 DEF NoEffect, control, IdentityInv, Covered
<1>18. CASE VerifyOk
  <2>1. audit'.constraints = audit.constraints /\ audit'.identity = audit.identity
    BY <1>0, <1>18 DEF VerifyOk
  <2> QED
    BY <1>18, <2>1 DEF VerifyOk, IdentityInv, Covered
<1>19. CASE VerifyMismatch
  BY <1>19 DEF VerifyMismatch, control, IdentityInv, Covered
<1>20. CASE Recover
  BY <1>20, RecompileCovers DEF Recover, Modes
<1>21. CASE Finish
  BY <1>21 DEF Finish, IdentityInv, Covered
<1>22. CASE QueueConstraint
  <2>1. Len(pending') = Len(pending) + 1
    BY <1>0, <1>22, EngineAssumption DEF QueueConstraint
  <2>2. cursor' = cursor /\ pc' = pc /\ world' = world /\ audit' = audit
    BY <1>22 DEF QueueConstraint, control
  <2>3. CASE pc = "applyFirst"
    <3>1. Len(world.constraints) + Len(pending) >= audit.identity + cursor
      BY <2>3 DEF IdentityInv, Covered
    <3>2. Len(world'.constraints) + Len(pending') >= audit'.identity + cursor'
      <4>1. /\ Len(world.constraints) \in Nat /\ Len(pending) \in Nat
            /\ audit.identity \in Nat /\ cursor \in Nat
        BY <1>0
      <4>2. \A a, b, m, k \in Nat : a + b >= m + k => a + (b + 1) >= m + k
        OBVIOUS
      <4>3. Len(world.constraints) + (Len(pending) + 1) >= audit.identity + cursor
        BY <3>1, <4>1, <4>2
      <4> QED
        BY <2>1, <2>2, <4>3
    <3> QED
      BY <2>2, <2>3, <3>2 DEF IdentityInv, Covered
  <2>4. CASE pc # "applyFirst"
    BY <2>2, <2>4 DEF IdentityInv, Covered
  <2> QED
    BY <2>3, <2>4
<1>23. CASE ReportFault
  BY <1>23 DEF ReportFault, control, IdentityInv, Covered
<1>24. CASE Perturb
  <2>1. world'.constraints = world.constraints
    BY <1>0, <1>24, PerturbTyped DEF Perturb
  <2> QED
    BY <1>24, <2>1 DEF Perturb, queues, control, IdentityInv, Covered
<1>25. CASE ToggleDevice
  BY <1>25 DEF ToggleDevice, queues, control, IdentityInv, Covered
<1>26. CASE LoseCapability
  BY <1>26 DEF LoseCapability, queues, control, IdentityInv, Covered
<1>27. CASE UNCHANGED vars
  BY <1>27 DEF vars, IdentityInv, Covered
<1> QED
  BY <1>1, <1>2, <1>3, <1>4, <1>5, <1>6, <1>7, <1>8, <1>9, <1>10, <1>11, <1>12,
     <1>13, <1>14, <1>15, <1>16, <1>17, <1>18, <1>19, <1>20, <1>21, <1>22, <1>23,
     <1>24, <1>25, <1>26, <1>27
     DEF Next, Engine, Surroundings

(* However the queue grows while a run begins, and whatever is queued later, *)
(* no graph of the run is compiled under fewer constraints than the run's    *)
(* identity named (OmniQ.run, _run_config, _apply_constraints).              *)
THEOREM IdentityBounded == Spec => []IdentityBoundsAuthority
<1>1. Init => TypeOK /\ FlightTyped /\ GraphInv /\ IdentityInv
  BY InitTyped DEF Init, GraphInv, IdentityInv, Covered
<1>2. TypeOK /\ FlightTyped /\ GraphInv /\ IdentityInv /\ [Next]_vars
        => TypeOK' /\ FlightTyped' /\ GraphInv' /\ IdentityInv'
  BY TypeStep, GraphStep, IdentityStep
<1>3. IdentityInv => IdentityBoundsAuthority
  BY DEF IdentityInv, Covered, IdentityBoundsAuthority
<1> QED
  BY <1>1, <1>2, <1>3, PTL DEF Spec

-----------------------------------------------------------------------------
(* The report of a mission.  What is asked of a planner: a graph ends with   *)
(* its only check, and what a step waits for comes before it.                *)

Checked(g) ==
  /\ g # <<>> /\ g[Len(g)].op = "VERIFY"
  /\ \A i \in 1..Len(g) : i # Len(g) => g[i].op # "VERIFY"
  /\ \A i \in 1..Len(g) : \A d \in g[i].deps : \E j \in 1..(i - 1) : Id(g[j]) = d

CheckedPlans ==
  \A v \in Views, f \in SUBSET Arms :
    \A g \in PlansFor(v, f) \cup StrictPlansFor(v, f) : Checked(g)

Over(g, ex) == Id(g[Len(g)]) \in ex
AllDone(g, ex) == \A i \in 1..Len(g) : Id(g[i]) \in ex

(* The first step that was not executed is ready, outside HOLD.              *)
LEMMA LeastOpen ==
  ASSUME TypeOK, mode # "HOLD", Checked(graph.steps),
         NEW k \in 1..Len(graph.steps), Id(graph.steps[k]) \notin executed
  PROVE  \E m \in 1..k : /\ Ready(m)
                         /\ \A j \in 1..(m - 1) : Id(graph.steps[j]) \in executed
<1> DEFINE g == graph.steps
           F == {i \in 1..Len(g) : Id(g[i]) \notin executed}
<1>1. Len(g) \in Nat
  BY DEF TypeOK
<1>2. F \in SUBSET Nat /\ k \in F
  BY <1>1
<1>3. PICK m \in F : \A n \in F : m <= n
  BY <1>2, LeastOf
<1>4. m \in 1..k /\ m \in 1..Len(g) /\ Id(g[m]) \notin executed
  BY <1>1, <1>2, <1>3
<1>5. \A j \in 1..(m - 1) : Id(g[j]) \in executed
  <2> TAKE j \in 1..(m - 1)
  <2>1. j \in 1..Len(g) /\ ~(m <= j)
    BY <1>1, <1>4
  <2> QED
    BY <1>3, <2>1
<1>6. g[m].deps \subseteq executed
  <2> SUFFICES ASSUME NEW d \in g[m].deps PROVE d \in executed
    OBVIOUS
  <2>1. PICK j \in 1..(m - 1) : Id(g[j]) = d
    BY <1>4 DEF Checked
  <2> QED
    BY <1>5, <2>1
<1>7. Ready(m)
  BY <1>4, <1>6 DEF Ready
<1> QED
  BY <1>4, <1>5, <1>7

(* So the next step has all before it behind it, and is not the check again. *)
LEMMA NextInOrder ==
  ASSUME TypeOK, Checked(graph.steps), NEW s \in NextSteps
  PROVE  \E i \in 1..Len(graph.steps) :
           /\ s = graph.steps[i] /\ Id(s) \notin executed
           /\ \A j \in 1..(i - 1) : Id(graph.steps[j]) \in executed
<1>0. Len(graph.steps) \in Nat /\ DOMAIN graph.steps = 1..Len(graph.steps)
  BY DEF TypeOK
<1>1. PICK i \in 1..Len(graph.steps) :
        s = graph.steps[i] /\ Ready(i) /\ \A k \in 1..(i - 1) : ~Ready(k)
  BY <1>0 DEF NextSteps
<1>2. Id(s) \notin executed /\ mode # "HOLD"
  BY <1>1 DEF Ready
<1>3. ASSUME NEW j \in 1..(i - 1), Id(graph.steps[j]) \notin executed PROVE FALSE
  <2>1. j \in 1..Len(graph.steps)
    BY <1>0
  <2>2. PICK m \in 1..j : Ready(m)
    BY <1>2, <1>3, <2>1, LeastOpen
  <2>3. m \in 1..(i - 1)
    BY <1>0
  <2> QED
    BY <1>1, <2>2, <2>3
<1> QED
  BY <1>1, <1>2, <1>3

(* And when there is none, all is done.                                      *)
LEMMA NoneNext ==
  ASSUME TypeOK, mode # "HOLD", Checked(graph.steps), NextSteps = {}
  PROVE  AllDone(graph.steps, executed)
<1>0. Len(graph.steps) \in Nat /\ DOMAIN graph.steps = 1..Len(graph.steps)
  BY DEF TypeOK
<1> SUFFICES ASSUME NEW k \in 1..Len(graph.steps), Id(graph.steps[k]) \notin executed
             PROVE  FALSE
  BY DEF AllDone
<1>1. PICK m \in 1..k : Ready(m)
  BY LeastOpen
<1> DEFINE R == {j \in 1..Len(graph.steps) : Ready(j)}
<1>2. R \in SUBSET Nat /\ m \in R
  BY <1>0, <1>1
<1>3. PICK r \in R : \A j \in R : r <= j
  BY <1>2, LeastOf
<1>4. \A j \in 1..(r - 1) : ~Ready(j)
  <2> SUFFICES ASSUME NEW j \in 1..(r - 1), Ready(j) PROVE FALSE
    OBVIOUS
  <2>1. j \in R /\ ~(r <= j)
    BY <1>0, <1>3
  <2> QED
    BY <1>3, <2>1
<1>5. graph.steps[r] \in NextSteps
  BY <1>0, <1>3, <1>4 DEF NextSteps
<1> QED
  BY <1>5

-----------------------------------------------------------------------------
(* How far the check is: once it was run, everything was; it is believed     *)
(* only then; and as long as nobody touches the table, it stays true.        *)

Planned == pc \notin {"idle", "applyFirst", "clearFirst"}

WalkInv ==
  /\ pc \in {"applyFirst", "clearFirst"} => executed = {}
  /\ Planned => Checked(graph.steps)
  /\ Planned /\ Over(graph.steps, executed) => AllDone(graph.steps, executed)
  /\ pc \in {"apply", "clear", "fault", "select"} /\ Over(graph.steps, executed) => audit.verified
  /\ Planned /\ audit.verified => Over(graph.steps, executed)
  /\ pc = "effect" => ~Over(graph.steps, executed) /\ flight.step.op # "VERIFY"
  /\ pc = "verify" => (flight.step.op = "VERIFY" <=> Over(graph.steps, executed))
  /\ pc = "finish" /\ mode # "HOLD" => audit.verified
  /\ Planned /\ audit.verified /\ spent.perturbed = 0 => Misplaced(world) = {}

(* A graph just compiled has nothing behind it.                              *)
Fresh == Checked(graph.steps) /\ ~audit.verified /\ executed = {}

LEMMA FreshWalks ==
  ASSUME Fresh', pc' \in {"apply", "fault"}
  PROVE  WalkInv'
BY DEF Fresh, WalkInv, Planned, Over

LEMMA CompileChecks ==
  ASSUME TypeOK, NEW plans, NEW rev, NEW w, NEW f, Compile(plans, rev, w, f),
         \A g \in plans : Checked(g)
  PROVE  Checked(graph'.steps) /\ ~audit'.verified
<1>1. PICK g \in plans :
        /\ graph' = [rev |-> rev, steps |-> g]
        /\ audit' = [audit EXCEPT !.constraints = Len(w.constraints), !.failed = f,
                                  !.verified = FALSE]
  BY Zenon DEF Compile
<1>2. graph'.steps = g /\ audit'.verified = FALSE
  BY <1>1 DEF TypeOK
<1> QED
  BY <1>1, <1>2

LEMMA PlansChecked ==
  ASSUME TypeOK, CheckedPlans, NEW f \in SUBSET Arms
  PROVE  /\ \A g \in PlansFor(View(world), f) : Checked(g)
         /\ \A g \in StrictPlansFor(View(world), f) : Checked(g)
<1>1. View(world) \in Views
  BY ViewTyped DEF TypeOK
<1> QED
  BY <1>1 DEF CheckedPlans

LEMMA RecompileWalks ==
  ASSUME TypeOK, CheckedPlans, WalkInv, NEW e \in Modes, RecompileOrHold(e),
         pc \in {"select", "recover"}, world' = world, spent' = spent
  PROVE  WalkInv'
<1>1. CASE GiveUp
  BY <1>1 DEF GiveUp, WalkInv, Planned
<1>2. CASE Retry(e)
  <2>1. \A g \in PlansFor(View(world), failed) : Checked(g)
    BY PlansChecked DEF TypeOK
  <2>2. Checked(graph'.steps) /\ ~audit'.verified
    BY <1>2, <2>1, CompileChecks DEF Retry
  <2>3. executed' = {} /\ pc' = "apply"
    BY <1>2 DEF Retry
  <2> QED
    BY <2>2, <2>3, FreshWalks DEF Fresh
<1> QED
  BY <1>1, <1>2 DEF RecompileOrHold

(* A step is noted: the graph is over exactly when it was the check.         *)
LEMMA MarkStep ==
  ASSUME TypeOK, Checked(graph.steps), NEW i \in 1..Len(graph.steps), NEW s, s = graph.steps[i],
         Id(s) \notin executed, \A j \in 1..(i - 1) : Id(graph.steps[j]) \in executed,
         ~Over(graph.steps, executed)
  PROVE  /\ Over(graph.steps, executed \cup {Id(s)}) <=> s.op = "VERIFY"
         /\ s.op = "VERIFY" => AllDone(graph.steps, executed \cup {Id(s)})
<1> DEFINE g == graph.steps
<1>1. Len(g) \in Nat /\ Len(g) \in 1..Len(g)
  BY DEF TypeOK, Checked
<1>2. CASE i = Len(g)
  BY <1>1, <1>2 DEF Checked, Over, AllDone
<1>3. CASE i # Len(g)
  <2>1. s.op # "VERIFY" /\ g[Len(g)].op = "VERIFY"
    BY <1>3 DEF Checked
  <2>2. Id(g[Len(g)]) # Id(s)
    BY <2>1 DEF Id
  <2> QED
    BY <2>1, <2>2 DEF Over
<1> QED
  BY <1>2, <1>3

LEMMA WalkStep ==
  ASSUME TypeOK, CheckedPlans, WalkInv, [Next]_vars
  PROVE  WalkInv'
<1>0. TypeOK /\ Len(graph.steps) \in Nat
  BY DEF TypeOK
<1>1. CASE StartRun
  BY <1>1 DEF StartRun, WalkInv, Planned
<1>2. CASE ApplyOne
  <2>1. world'.zone = world.zone
    BY <1>2 DEF ApplyOne, AddConstraint, TypeOK, WorldState
  <2>2. Misplaced(world)' = Misplaced(world)
    BY <2>1 DEF Misplaced
  <2> QED
    BY <1>2, <2>2 DEF ApplyOne, WalkInv, Planned
<1>3. CASE StopIterating
  BY <1>3 DEF StopIterating, setup, queues, control, WalkInv, Planned
<1>4. CASE NothingQueued
  BY <1>4 DEF NothingQueued, setup, queues, control, WalkInv, Planned
<1>5. CASE PlanRun
  <2>1. \A g \in PlansFor(View(world), failed) : Checked(g)
    BY PlansChecked DEF TypeOK
  <2>2. /\ \E r \in {0, 1} : Compile(PlansFor(View(world), failed), r, world, failed)
        /\ pc \in {"applyFirst", "clearFirst"} /\ pc' = "apply" /\ executed' = executed
    BY <1>5 DEF PlanRun, CompileFirst
  <2>3. Checked(graph'.steps) /\ ~audit'.verified
    BY <2>1, <2>2, CompileChecks
  <2> QED
    BY <2>2, <2>3, FreshWalks DEF Fresh, WalkInv
<1>6. CASE Constrained
  <2>1. \A g \in PlansFor(View(world), failed) : Checked(g)
    BY PlansChecked DEF TypeOK
  <2>2. Checked(graph'.steps) /\ ~audit'.verified
    BY <1>6, <2>1, CompileChecks DEF Constrained, CompileOnConstraints
  <2>3. pc' = "fault" /\ executed' = {}
    BY <1>6 DEF Constrained, CompileOnConstraints
  <2> QED
    BY <2>2, <2>3, FreshWalks DEF Fresh
<1>7. CASE NoFault
  BY <1>7 DEF NoFault, setup, queues, control, WalkInv, Planned
<1>9. CASE RejectFault
  BY <1>9 DEF RejectFault, TakeFault, WalkInv, Planned
<1>10. CASE FaultHolds
  BY <1>10 DEF FaultHolds, TakeFault, EnterHold, WalkInv, Planned
<1>11. CASE FaultReplans
  <2>1. PICK f \in Faults :
          /\ failed' = failed \cup {f.arm}
          /\ Compile(StrictPlansFor(View(world), failed'), graph.rev + 1, world, failed')
          /\ executed' = {} /\ pc' = "apply"
    BY <1>11 DEF FaultReplans
  <2>2. failed' \in SUBSET Arms
    <3>1. f.arm \in Arms
      BY EngineAssumption
    <3> QED
      BY <2>1, <3>1 DEF TypeOK
  <2> DEFINE F == failed'
  <2>3. F \in SUBSET Arms /\ Compile(StrictPlansFor(View(world), F), graph.rev + 1, world, F)
    BY <2>1, <2>2
  <2> HIDE DEF F
  <2>4. \A g \in StrictPlansFor(View(world), F) : Checked(g)
    BY <2>3, PlansChecked
  <2>5. Checked(graph'.steps) /\ ~audit'.verified
    BY <2>3, <2>4, CompileChecks
  <2> QED
    BY <2>1, <2>5, FreshWalks DEF Fresh
<1>12. CASE NothingReady
  <2>1. pc = "select" /\ NextSteps = {} /\ pc' = "finish"
        /\ UNCHANGED <<world, mode, graph, executed, audit, spent, flight>>
    BY <1>12 DEF NothingReady, setup, queues, control
  <2>2. mode # "HOLD" => AllDone(graph.steps, executed)
    BY <2>1, NoneNext DEF WalkInv, Planned
  <2>3. mode # "HOLD" => Over(graph.steps, executed)
    <3>1. Len(graph.steps) \in 1..Len(graph.steps)
      BY <1>0, <2>1 DEF WalkInv, Planned, Checked
    <3> QED
      BY <2>2, <3>1 DEF AllDone, Over
  <2>4. mode # "HOLD" => audit.verified
    BY <2>1, <2>3 DEF WalkInv
  <2> QED
    BY <2>1, <2>4 DEF WalkInv, Planned
<1>13. CASE Reroute
  <2>1. pc = "select" /\ RecompileOrHold("DEGRADED") /\ UNCHANGED <<world, spent>>
        /\ "DEGRADED" \in Modes
    BY <1>13 DEF Reroute, Modes
  <2> QED
    BY <2>1, RecompileWalks
<1>14. ASSUME NEW s \in NextSteps, pc = "select"
       PROVE  /\ ~Over(graph.steps, executed)
              /\ Over(graph.steps, executed \cup {Id(s)}) <=> s.op = "VERIFY"
              /\ s.op = "VERIFY" => AllDone(graph.steps, executed \cup {Id(s)})
  <2>1. Checked(graph.steps)
    BY <1>14 DEF WalkInv, Planned
  <2>2. PICK i \in 1..Len(graph.steps) :
          /\ s = graph.steps[i] /\ Id(s) \notin executed
          /\ \A j \in 1..(i - 1) : Id(graph.steps[j]) \in executed
    BY <2>1, NextInOrder
  <2>3. ~Over(graph.steps, executed)
    BY <1>14, <2>2 DEF WalkInv, Planned, AllDone
  <2> QED
    BY <2>1, <2>2, <2>3, MarkStep
<1>15. CASE Authorize
  <2>1. PICK s \in NextSteps, d \in Devices :
          /\ Place(s, d) /\ s.op \in ManipulateOps
          /\ flight' = [step |-> s, device |-> d, rev |-> world.rev]
          /\ pc' = "effect" /\ executed' = executed
    BY <1>15 DEF Authorize
  <2>2. pc = "select" /\ UNCHANGED <<world, mode, graph, audit, spent>>
    BY <2>1 DEF Place
  <2>3. ~Over(graph.steps, executed)
    BY <1>14, <2>2
  <2>4. flight'.step.op # "VERIFY"
    BY <2>1 DEF ManipulateOps
  <2> QED
    BY <2>1, <2>2, <2>3, <2>4 DEF WalkInv, Planned
<1>16. CASE Deny
  <2>1. pc = "select" /\ pc' = "recover" /\ UNCHANGED <<world, mode, graph, audit, spent, executed>>
    BY <1>16 DEF Deny, Place
  <2> QED
    BY <2>1 DEF WalkInv, Planned
<1>17. CASE Note
  <2>1. PICK s \in NextSteps, d \in Devices :
          /\ Place(s, d)
          /\ flight' = [step |-> s, device |-> d, rev |-> world.rev]
          /\ executed' = executed \cup {Id(s)}
          /\ pc' = IF s.op = "VERIFY" THEN "verify" ELSE "apply"
    BY <1>17 DEF Note
  <2>2. pc = "select" /\ UNCHANGED <<world, mode, graph, audit, spent>>
    BY <2>1 DEF Place
  <2>3. /\ ~Over(graph.steps, executed)
        /\ Over(graph.steps, executed') <=> s.op = "VERIFY"
        /\ s.op = "VERIFY" => AllDone(graph.steps, executed')
    BY <1>14, <2>1, <2>2
  <2>4. flight'.step = s
    BY <2>1
  <2> QED
    BY <2>1, <2>2, <2>3, <2>4 DEF WalkInv, Planned
<1>18. CASE Effect
  <2>1. /\ pc = "effect" /\ pc' = "verify" /\ executed' = executed \cup {Id(flight.step)}
        /\ UNCHANGED <<mode, graph, flight, audit, spent>>
    BY <1>18 DEF Effect
  <2>2. ~Over(graph.steps, executed) /\ flight.step.op # "VERIFY" /\ Checked(graph.steps)
    BY <2>1 DEF WalkInv, Planned
  <2>3. ~Over(graph.steps, executed')
    BY <2>1, <2>2 DEF Over, Checked, Id
  <2> QED
    BY <2>1, <2>2, <2>3 DEF WalkInv, Planned
<1>19. CASE NoEffect
  BY <1>19 DEF NoEffect, setup, queues, control, WalkInv, Planned
<1>20. CASE VerifyOk
  <2>1. /\ pc = "verify" /\ pc' = "apply" /\ Verified(flight.step, world)
        /\ audit' = [audit EXCEPT !.verified = flight.step.op = "VERIFY"]
        /\ UNCHANGED <<world, mode, graph, executed, flight, spent>>
    BY <1>20 DEF VerifyOk
  <2>2. audit'.verified = (flight.step.op = "VERIFY")
    BY <2>1 DEF TypeOK
  <2>3. flight.step.op = "VERIFY" => Misplaced(world) = {}
    BY <2>1 DEF Verified
  <2> QED
    BY <2>1, <2>2, <2>3 DEF WalkInv, Planned
<1>21. CASE VerifyMismatch
  BY <1>21 DEF VerifyMismatch, setup, queues, control, WalkInv, Planned
<1>22. CASE Recover
  <2>1. pc = "recover" /\ RecompileOrHold("NOMINAL") /\ UNCHANGED <<world, spent>>
        /\ "NOMINAL" \in Modes
    BY <1>22 DEF Recover, Modes
  <2> QED
    BY <2>1, RecompileWalks
<1>23. CASE Finish
  BY <1>23 DEF Finish, setup, queues, control, WalkInv, Planned
<1>24. ASSUME NEW what \in {"queued", "reported", "perturbed", "toggled"}, NEW b, Spend(what, b)
       PROVE  spent'.perturbed = 0 => spent.perturbed = 0 /\ what # "perturbed"
  <2>1. spent' = [spent EXCEPT ![what] = spent[what] + 1]
    BY <1>24 DEF Spend
  <2>2. spent \in [{"runs", "queued", "reported", "perturbed", "toggled"} -> Nat]
    BY DEF TypeOK
  <2>3. CASE what = "perturbed"
    BY <2>1, <2>2, <2>3
  <2>4. CASE what # "perturbed"
    BY <2>1, <2>2, <2>4
  <2> QED
    BY <2>3, <2>4
<1>25. CASE QueueConstraint
  BY <1>24, <1>25 DEF QueueConstraint, setup, control, WalkInv, Planned
<1>26. CASE ReportFault
  BY <1>24, <1>26 DEF ReportFault, setup, control, WalkInv, Planned
<1>27. CASE Perturb
  <2>1. spent'.perturbed # 0
    BY <1>24, <1>27 DEF Perturb
  <2> QED
    BY <1>27, <2>1 DEF Perturb, setup, queues, control, WalkInv, Planned
<1>28. CASE ToggleDevice
  BY <1>24, <1>28 DEF ToggleDevice, queues, control, WalkInv, Planned
<1>29. CASE LoseCapability
  BY <1>24, <1>29 DEF LoseCapability, queues, control, WalkInv, Planned
<1>30. CASE UNCHANGED vars
  BY <1>30 DEF vars, WalkInv, Planned
<1> QED
  BY <1>1, <1>2, <1>3, <1>4, <1>5, <1>6, <1>7, <1>9, <1>10, <1>11, <1>12, <1>13, <1>15,
     <1>16, <1>17, <1>18, <1>19, <1>20, <1>21, <1>22, <1>23, <1>25, <1>26, <1>27,
     <1>28, <1>29, <1>30
     DEF Next, Engine, Surroundings

-----------------------------------------------------------------------------
(* What a run has put right: each placement that was not satisfied when the  *)
(* profile was loaded and is now has a thing the run carried, or one somebody*)
(* else moved, and different placements have different things.               *)

Standings == [Placements -> {"missing", "stale", "misplaced", "satisfied"}]
Resolved(opening, w) == {p \in Placements : opening[p] # "satisfied" /\ Standing(w, p) = "satisfied"}
Explained(opening, w, T) == \A p \in Resolved(opening, w) : IdOf[p] \in T
Helped(n) == \E S : /\ IsFiniteSet(S) /\ Cardinality(S) <= n
                    /\ Explained(mission.opening, world, mission.carried \cup S)

Earned ==
  /\ Profiled /\ mode # "HOLD" /\ spent.perturbed = 0 => mission.report.status = "COMPLETE"
  /\ mission.report.corrected \in Nat
  /\ mission.report.corrected <= Cardinality(mission.carried) + spent.perturbed
  /\ mission.report.graspRetries <= mission.report.replans

(* A failed action is in hand until the revision it costs is counted.        *)
Paid ==
  /\ mission.failures \in Nat
  /\ pc \in {"applyFirst", "clearFirst"} \/ (pc = "idle" /\ mission.loaded) => mission.failures = 0
  /\ pc # "idle" => mission.failures <= IF pc = "recover" THEN revisions + 1 ELSE revisions

MissionInv ==
  /\ mission = [loaded |-> mission.loaded, opening |-> mission.opening, report |-> mission.report,
                carried |-> mission.carried, failures |-> mission.failures]
  /\ IsFiniteSet(mission.carried) /\ Paid
  /\ pc # "idle" => mission.loaded
  /\ mission.loaded => mission.opening \in Standings /\ Helped(spent.perturbed)
  /\ pc = "idle" /\ mission.report # None => Earned

LEMMA UnionBound ==
  ASSUME NEW A, IsFiniteSet(A), NEW B, IsFiniteSet(B)
  PROVE  IsFiniteSet(A \cup B) /\ Cardinality(A \cup B) <= Cardinality(A) + Cardinality(B)
<1>1. A \cap B \in SUBSET A
  OBVIOUS
<1>2. IsFiniteSet(A \cap B)
  BY <1>1, FS_Subset
<1>3. /\ IsFiniteSet(A \cup B)
      /\ Cardinality(A \cup B) = Cardinality(A) + Cardinality(B) - Cardinality(A \cap B)
  BY FS_Union
<1>4. Cardinality(A) \in Nat /\ Cardinality(B) \in Nat /\ Cardinality(A \cap B) \in Nat
  BY <1>2, FS_CardinalityType
<1> QED
  BY <1>3, <1>4

LEMMA PlacementsFinite == IsFiniteSet(Placements)
<1>1. 1 \in Int /\ Guests \in Int /\ Items \in Int
  BY ProfileAssumption
<1>2. IsFiniteSet(1..Guests) /\ IsFiniteSet(1..Items)
  BY <1>1, FS_Interval
<1> QED
  BY <1>1, <1>2, FS_Product DEF Placements

LEMMA DiffTyped == ASSUME NEW w PROVE Diff(w) \in Standings
BY DEF Diff, Standings, Standing

(* More things explain as much, and what did not move needs no explanation.  *)
LEMMA StillExplained ==
  ASSUME NEW opening, NEW v, NEW w, NEW T, Explained(opening, v, T), NEW U, T \subseteq U,
         \A o \in Objects : w.zone[o] = v.zone[o] \/ o \in U
  PROVE  Explained(opening, w, U)
<1> SUFFICES ASSUME NEW p \in Resolved(opening, w) PROVE IdOf[p] \in U
  BY DEF Explained
<1>1. p \in Placements /\ opening[p] # "satisfied" /\ Standing(w, p) = "satisfied"
  BY DEF Resolved
<1>2. IdOf[p] \in Objects /\ IdOf[p] \notin Fallback /\ w.zone[IdOf[p]] = Setting(p)
  BY <1>1 DEF Standing
<1>3. CASE w.zone[IdOf[p]] = v.zone[IdOf[p]]
  <2>1. Standing(v, p) = "satisfied"
    BY <1>2, <1>3 DEF Standing
  <2> QED
    BY <1>1, <2>1 DEF Resolved, Explained
<1> QED
  BY <1>2, <1>3

(* At most as many placements are put right as things explain them.          *)
LEMMA CorrectedBounded ==
  ASSUME NEW opening \in Standings, NEW w, NEW T, IsFiniteSet(T), Explained(opening, w, T),
         NEW n, NEW m
  PROVE  /\ Report(opening, Diff(w), n, m).corrected \in Nat
         /\ Report(opening, Diff(w), n, m).corrected <= Cardinality(T)
<1> DEFINE A == {p \in Placements : opening[p] # "satisfied"}
           B == {p \in Placements : Diff(w)[p] # "satisfied"}
           R == Resolved(opening, w)
           f == [p \in R |-> IdOf[p]]
<1>1. IsFiniteSet(A) /\ IsFiniteSet(B) /\ IsFiniteSet(R)
  <2>1. A \in SUBSET Placements /\ B \in SUBSET Placements /\ R \in SUBSET Placements
    BY DEF Resolved
  <2> QED
    BY <2>1, PlacementsFinite, FS_Subset
<1>2. f \in Injection(R, T)
  <2>1. f \in [R -> T]
    BY DEF Explained
  <2>2. R \subseteq DOMAIN IdOf
    BY ProfileAssumption DEF Resolved, Placements
  <2>3. \A p, q \in R : f[p] = f[q] => p = q
    BY <2>2, ProfileAssumption
  <2> QED
    BY <2>1, <2>3 DEF Injection, IsInjective
<1>3. Cardinality(R) <= Cardinality(T)
  <2> HIDE DEF R, f
  <2> QED
    BY <1>2, FS_Injection
<1>4. A \subseteq B \cup R
  BY DEF Resolved, Diff
<1>5. Cardinality(A) <= Cardinality(B) + Cardinality(R)
  <2> HIDE DEF A, B, R
  <2>1. IsFiniteSet(B \cup R) /\ Cardinality(B \cup R) <= Cardinality(B) + Cardinality(R)
    BY <1>1, UnionBound
  <2>2. A \in SUBSET (B \cup R)
    BY <1>4
  <2>3. Cardinality(A) <= Cardinality(B \cup R)
    BY <2>1, <2>2, FS_Subset
  <2>5. /\ Cardinality(A) \in Nat /\ Cardinality(B) \in Nat /\ Cardinality(R) \in Nat
        /\ Cardinality(B \cup R) \in Nat
    BY <1>1, <2>1, FS_CardinalityType
  <2> QED
    BY <2>1, <2>3, <2>5
<1>6. Unresolved(opening) = Cardinality(A) /\ Unresolved(Diff(w)) = Cardinality(B)
  BY DEF Unresolved
<1>7. Report(opening, Diff(w), n, m).corrected =
        IF Unresolved(Diff(w)) < Unresolved(opening)
        THEN Unresolved(opening) - Unresolved(Diff(w)) ELSE 0
  BY DEF Report
<1>8. /\ Cardinality(A) \in Nat /\ Cardinality(B) \in Nat /\ Cardinality(R) \in Nat
      /\ Cardinality(T) \in Nat
  BY <1>1, FS_CardinalityType
<1> HIDE DEF A, B, R
<1> QED
  BY <1>3, <1>5, <1>6, <1>7, <1>8

LEMMA ReportCounts ==
  ASSUME NEW opening, NEW closing, NEW n, NEW m
  PROVE  /\ Report(opening, closing, n, m).replans = n
         /\ Report(opening, closing, n, m).graspRetries = m
BY DEF Report

(* With every part where it belongs, a profile that asks for that is met.    *)
LEMMA ProfileMet ==
  ASSUME NEW opening, NEW w, Profiled, Misplaced(w) = {}, NEW n, NEW m
  PROVE  Report(opening, Diff(w), n, m).status = "COMPLETE"
<1>1. \A p \in Placements : Standing(w, p) = "satisfied"
  BY DEF Profiled, Misplaced, Standing
<1>2. {p \in Placements : Diff(w)[p] # "satisfied"} = {}
  BY <1>1 DEF Diff
<1>3. Unresolved(Diff(w)) = 0
  BY <1>2, FS_EmptySet DEF Unresolved
<1> QED
  BY <1>3 DEF Report

(* The run moves nothing it has not noted.                                   *)
LEMMA EngineCarries ==
  ASSUME TypeOK, FlightTyped, Engine
  PROVE  /\ spent' = spent
         /\ \A o \in Objects : world'.zone[o] = world.zone[o] \/ o \in Carried
<1>1. CASE ApplyOne
  <2>1. spent' = spent /\ world'.zone = world.zone
    BY <1>1 DEF ApplyOne, AddConstraint, TypeOK, WorldState
  <2> QED
    BY <2>1
<1>2. CASE Effect
  <2>1. /\ pc = "effect" /\ pc' = "verify" /\ spent' = spent
        /\ Accepts(world, flight.step, flight.device, flight.rev)
        /\ world' = ApplyTransition(world, flight.step, flight.device)
    BY <1>2 DEF Effect
  <2>2. world \in WorldState /\ flight.step \in Step /\ flight.device \in Devices /\ flight.rev \in Nat
    BY <2>1 DEF TypeOK, FlightTyped, Flight
  <2>3. \A o \in Objects \ {flight.step.obj} : world'.zone[o] = world.zone[o]
    BY <2>1, <2>2, TransitionTyped
  <2>4. CASE flight.step.op = "MOVE"
    BY <2>1, <2>3, <2>4 DEF Carried
  <2>5. CASE flight.step.op # "MOVE"
    <3>1. world'.zone = world.zone
      BY <2>1, <2>2, <2>5 DEF ApplyTransition, WorldState
    <3> QED
      BY <2>1, <3>1
  <2> QED
    BY <2>4, <2>5
<1> QED
  BY <1>1, <1>2
     DEF Engine, StopIterating, NothingQueued, PlanRun, Constrained, NoFault, RejectFault,
         FaultHolds, FaultReplans, TakeFault, NothingReady, Reroute, Authorize, Deny, Note, Place,
         NoEffect, VerifyOk, VerifyMismatch, Recover, Finish

(* The surroundings may move one thing, and then it is counted.              *)
LEMMA SurroundingsMove ==
  ASSUME TypeOK, Surroundings
  PROVE  /\ pc' = pc /\ mode' = mode /\ spent.perturbed \in Nat
         /\ \/ world' = world /\ spent'.perturbed = spent.perturbed
            \/ /\ spent'.perturbed = spent.perturbed + 1
               /\ \E x \in Objects : \A o \in Objects \ {x} : world'.zone[o] = world.zone[o]
<1>1. spent \in [{"runs", "queued", "reported", "perturbed", "toggled"} -> Nat]
      /\ world \in WorldState
  BY DEF TypeOK
<1>2. ASSUME NEW what \in {"queued", "reported", "toggled"}, NEW b, Spend(what, b)
      PROVE  spent'.perturbed = spent.perturbed
  BY <1>1, <1>2 DEF Spend
<1>3. CASE Perturb
  <2>1. spent' = [spent EXCEPT !["perturbed"] = spent["perturbed"] + 1]
    BY <1>3 DEF Perturb, Spend
  <2>2. spent'.perturbed = spent.perturbed + 1
    BY <1>1, <2>1
  <2>3. PICK x \in Objects, z \in Zones : world' = MoveObject(world, x, z)
    BY <1>3 DEF Perturb
  <2>4. world'.zone = [world.zone EXCEPT ![x] = z]
    BY <1>1, <2>3 DEF MoveObject, WorldState
  <2>5. \A o \in Objects \ {x} : world'.zone[o] = world.zone[o]
    BY <1>1, <2>4 DEF WorldState
  <2>6. pc' = pc /\ mode' = mode
    BY <1>3 DEF Perturb, control
  <2> QED
    BY <1>1, <2>2, <2>5, <2>6
<1>4. CASE QueueConstraint
  BY <1>1, <1>2, <1>4 DEF QueueConstraint, control
<1>5. CASE ReportFault
  BY <1>1, <1>2, <1>5 DEF ReportFault, control
<1>6. CASE ToggleDevice
  BY <1>1, <1>2, <1>6 DEF ToggleDevice, control
<1>7. CASE LoseCapability
  BY <1>1, <1>2, <1>7 DEF LoseCapability, control
<1> QED
  BY <1>3, <1>4, <1>5, <1>6, <1>7 DEF Surroundings

(* A failed action is followed by the revision it costs, and no step but the *)
(* first graph's takes a revision back.                                      *)
Counts ==
  \/ /\ pc = "effect" /\ pc' = "recover" /\ revisions' = revisions
     /\ Failures = mission.failures + 1
  \/ /\ pc = "recover" /\ pc' \notin {"recover", "applyFirst", "clearFirst"}
     /\ revisions' = revisions + 1 /\ Failures = mission.failures
  \/ /\ pc \in {"applyFirst", "clearFirst"} /\ revisions' \in Nat
     /\ Failures = mission.failures /\ pc' # "recover"
  \/ /\ pc \notin {"applyFirst", "clearFirst", "recover"}
     /\ pc' \notin {"applyFirst", "clearFirst"}
     /\ revisions' \in Nat /\ revisions' >= revisions
     /\ Failures = mission.failures
LEMMA EngineCounts ==
  ASSUME Engine, revisions \in Nat
  PROVE  Counts
<1>1. CASE NoEffect
  BY <1>1 DEF NoEffect, Counts, Failures, control
<1>2. CASE Recover
  BY <1>2 DEF Recover, RecompileOrHold, GiveUp, Retry, Counts, Failures
<1>3. CASE Reroute
  BY <1>3 DEF Reroute, RecompileOrHold, GiveUp, Retry, Counts, Failures
<1>4. CASE ApplyOne \/ StopIterating \/ NothingQueued \/ NothingReady
  BY <1>4 DEF ApplyOne, StopIterating, NothingQueued, NothingReady, Counts, Failures, control
<1>5. CASE PlanRun
  BY <1>5 DEF PlanRun, CompileFirst, Counts, Failures
<1>6. CASE Constrained \/ NoFault
  BY <1>6 DEF Constrained, NoFault, Counts, Failures, control
<1>9. CASE RejectFault \/ FaultHolds \/ FaultReplans
  <2>1. /\ pc = "fault" /\ pc' \in {"select", "finish", "apply"}
        /\ revisions' = revisions \/ revisions' = revisions + 1
    BY <1>9 DEF RejectFault, FaultHolds, FaultReplans, TakeFault, EnterHold
  <2> QED
    BY <2>1 DEF Counts, Failures
<1>7. CASE Authorize \/ Deny \/ Note
  BY <1>7 DEF Authorize, Deny, Note, Place, Counts, Failures
<1>8. CASE Effect \/ VerifyOk \/ VerifyMismatch \/ Finish
  BY <1>8 DEF Effect, VerifyOk, VerifyMismatch, Finish, Counts, Failures, control
<1> QED
  BY <1>1, <1>2, <1>3, <1>4, <1>5, <1>6, <1>7, <1>8, <1>9 DEF Engine

LEMMA MissionStep ==
  ASSUME TypeOK, FlightTyped, WalkInv, MissionInv, [MissionNext]_missionVars
  PROVE  MissionInv'
<1>0. /\ mission = [loaded |-> mission.loaded, opening |-> mission.opening, report |-> mission.report,
                     carried |-> mission.carried, failures |-> mission.failures]
      /\ spent.perturbed \in Nat /\ revisions \in Nat
  BY DEF MissionInv, TypeOK
<1>1. CASE LoadProfile
  <2>1. pc = "idle" /\ UNCHANGED vars 
        /\ mission' = [NotLoaded EXCEPT !.loaded = TRUE, !.opening = Diff(world)]
    BY <1>1 DEF LoadProfile
  <2>2. mission' = [loaded |-> TRUE, opening |-> Diff(world), report |-> None, carried |-> {},
                    failures |-> 0]
    BY <2>1 DEF NotLoaded
  <2>3. Diff(world) \in Standings /\ Resolved(Diff(world), world) = {}
    BY DiffTyped DEF Resolved, Diff
  <2>4. mission'.opening \in Standings /\ Helped(spent.perturbed)'
    <3>1. IsFiniteSet({}) /\ Cardinality({}) = 0
      BY FS_EmptySet
    <3>2. Explained(mission'.opening, world', mission'.carried \cup {})
      BY <2>1, <2>2, <2>3 DEF Explained, vars
    <3>3. spent' = spent
      BY <2>1 DEF vars
    <3> QED
      BY <1>0, <2>2, <2>3, <3>1, <3>2, <3>3 DEF Helped
  <2>5. mission'.carried = {} /\ mission'.report = None /\ mission'.failures = 0
    BY <2>2
  <2>6. IsFiniteSet(mission'.carried) /\ pc' = "idle"
    BY <2>1, <2>5, FS_EmptySet DEF vars
  <2>7. Paid'
    BY <2>5, <2>6 DEF Paid
  <2> QED
    BY <2>2, <2>4, <2>5, <2>6, <2>7 DEF MissionInv
<1>2. CASE MissionStart
  <2>1. /\ pc = "idle" /\ mission.loaded /\ mission' = mission /\ pc' = "applyFirst" /\ revisions' = 0
        /\ world' = StartMission(world) /\ spent' = [spent EXCEPT !["runs"] = spent["runs"] + 1]
    BY <1>2 DEF MissionStart, StartRun
  <2>2. world'.zone = world.zone /\ spent'.perturbed = spent.perturbed
    BY <2>1 DEF TypeOK, WorldState, StartMission
  <2>3. PICK S : /\ IsFiniteSet(S) /\ Cardinality(S) <= spent.perturbed
                 /\ Explained(mission.opening, world, mission.carried \cup S)
    BY <2>1 DEF MissionInv, Helped
  <2>4. Explained(mission.opening, world', mission.carried \cup S)
    BY <2>2, <2>3, StillExplained
  <2>5. Helped(spent.perturbed)'
    BY <2>1, <2>2, <2>3, <2>4 DEF Helped
  <2>6. Paid'
    BY <2>1 DEF MissionInv, Paid
  <2> QED
    BY <2>1, <2>5, <2>6 DEF MissionInv
<1>3. CASE Proceed
  <2>1. Engine /\ pc # "finish" /\ mission' = [mission EXCEPT !.carried = Carried, !.failures = Failures]
    BY <1>3 DEF Proceed
  <2>2. mission' = [loaded |-> mission.loaded, opening |-> mission.opening, report |-> mission.report,
                    carried |-> Carried, failures |-> Failures]
    BY <1>0, <2>1
  <2>3. mission.carried \subseteq Carried /\ IsFiniteSet(Carried)
    <3>1. IsFiniteSet(mission.carried) /\ IsFiniteSet(mission.carried \cup {flight.step.obj})
      BY FS_AddElement DEF MissionInv
    <3> QED
      BY <3>1 DEF Carried
  <2>4. pc # "idle" /\ pc' # "idle"
    BY <2>1, RecompileTyped
       DEF Modes, Engine, ApplyOne, StopIterating, NothingQueued, PlanRun, CompileFirst, Constrained,
           NoFault, RejectFault, FaultHolds, FaultReplans, TakeFault, EnterHold, NothingReady,
           Reroute, Authorize, Deny, Note, Place, Effect, NoEffect, VerifyOk, VerifyMismatch,
           Recover, Finish
  <2>5. PICK S : /\ IsFiniteSet(S) /\ Cardinality(S) <= spent.perturbed
                 /\ Explained(mission.opening, world, mission.carried \cup S)
    BY <2>4 DEF MissionInv, Helped
  <2>6. /\ spent' = spent
        /\ \A o \in Objects : world'.zone[o] = world.zone[o] \/ o \in Carried
    BY <2>1, EngineCarries
  <2>7. Explained(mission.opening, world', Carried \cup S)
    <3>1. mission.carried \cup S \subseteq Carried \cup S
      BY <2>3
    <3>2. \A o \in Objects : world'.zone[o] = world.zone[o] \/ o \in Carried \cup S
      BY <2>6
    <3> QED
      BY <2>5, <3>1, <3>2, StillExplained
  <2>8. Helped(spent.perturbed)'
    BY <2>2, <2>5, <2>6, <2>7 DEF Helped
  <2>9. Paid'
    <3>1. mission.failures \in Nat /\ Paid
      BY DEF MissionInv, Paid
    <3>2. Counts
      BY <1>0, <2>1, EngineCounts
    <3> QED
      BY <1>0, <2>2, <2>4, <3>1, <3>2 DEF Paid, Counts
  <2> QED
    BY <2>2, <2>3, <2>4, <2>8, <2>9 DEF MissionInv
<1>4. CASE Seal
  <2>1. /\ pc = "finish" /\ pc' = "idle" /\ UNCHANGED <<world, mode, spent>>
        /\ mission' = [mission EXCEPT !.loaded = FALSE,
             !.report = Report(mission.opening, Diff(world), revisions, mission.failures)]
    BY <1>4 DEF Seal, Finish, control
  <2>2. mission' = [loaded |-> FALSE, opening |-> mission.opening,
                    report |-> Report(mission.opening, Diff(world), revisions, mission.failures),
                    carried |-> mission.carried, failures |-> mission.failures]
    BY <1>0, <2>1
  <2>3. PICK S : /\ IsFiniteSet(S) /\ Cardinality(S) <= spent.perturbed
                 /\ Explained(mission.opening, world, mission.carried \cup S)
    BY <2>1 DEF MissionInv, Helped
  <2>4. mission.opening \in Standings /\ IsFiniteSet(mission.carried)
    BY <2>1 DEF MissionInv
  <2>5. /\ IsFiniteSet(mission.carried \cup S)
        /\ Cardinality(mission.carried \cup S) <= Cardinality(mission.carried) + Cardinality(S)
    <3> DEFINE C == mission.carried
    <3>1. IsFiniteSet(C)
      BY <2>4
    <3> HIDE DEF C
    <3>2. IsFiniteSet(C \cup S) /\ Cardinality(C \cup S) <= Cardinality(C) + Cardinality(S)
      BY <2>3, <3>1, UnionBound
    <3> QED
      BY <3>2 DEF C
  <2>6. /\ mission'.report.corrected <= Cardinality(mission.carried \cup S)
        /\ mission'.report.corrected \in Nat
    BY <2>2, <2>3, <2>4, <2>5, CorrectedBounded
  <2>7. mission'.report.corrected <= Cardinality(mission.carried) + spent.perturbed
    <3>1. /\ Cardinality(mission.carried \cup S) \in Nat /\ Cardinality(S) \in Nat
          /\ Cardinality(mission.carried) \in Nat
      BY <2>3, <2>4, <2>5, FS_CardinalityType
    <3> QED
      BY <1>0, <2>3, <2>5, <2>6, <3>1
  <2>8. Profiled /\ mode # "HOLD" /\ spent.perturbed = 0 => mission'.report.status = "COMPLETE"
    <3> SUFFICES ASSUME Profiled, mode # "HOLD", spent.perturbed = 0
                 PROVE  mission'.report.status = "COMPLETE"
      OBVIOUS
    <3>1. Misplaced(world) = {}
      BY <2>1 DEF WalkInv, Planned
    <3> QED
      BY <2>2, <3>1, ProfileMet
  <2>9. mission'.report.graspRetries <= mission'.report.replans /\ Paid'
    <3>1. mission.failures \in Nat /\ mission.failures <= revisions
      BY <2>1 DEF MissionInv, Paid
    <3>2. mission'.report.graspRetries = mission.failures /\ mission'.report.replans = revisions
      <4>1. mission'.report = Report(mission.opening, Diff(world), revisions, mission.failures)
        BY <2>2
      <4> QED
        BY <4>1, ReportCounts
    <3>3. mission'.failures = mission.failures /\ ~mission'.loaded
      BY <2>2
    <3> QED
      BY <2>1, <3>1, <3>2, <3>3 DEF Paid
  <2> QED
    BY <2>1, <2>2, <2>4, <2>6, <2>7, <2>8, <2>9 DEF MissionInv, Earned
<1>5. CASE Surroundings /\ UNCHANGED mission
  <2>1. /\ pc' = pc /\ mode' = mode /\ mission' = mission
        /\ \/ world' = world /\ spent'.perturbed = spent.perturbed
           \/ /\ spent'.perturbed = spent.perturbed + 1
              /\ \E x \in Objects : \A o \in Objects \ {x} : world'.zone[o] = world.zone[o]
    BY <1>5, SurroundingsMove
  <2>2. mission.loaded => Helped(spent.perturbed)'
    <3> SUFFICES ASSUME mission.loaded PROVE Helped(spent.perturbed)'
      OBVIOUS
    <3>1. PICK S : /\ IsFiniteSet(S) /\ Cardinality(S) <= spent.perturbed
                   /\ Explained(mission.opening, world, mission.carried \cup S)
      BY DEF MissionInv, Helped
    <3>2. CASE world' = world /\ spent'.perturbed = spent.perturbed
      BY <2>1, <3>1, <3>2 DEF Helped
    <3>3. CASE /\ spent'.perturbed = spent.perturbed + 1
               /\ \E x \in Objects : \A o \in Objects \ {x} : world'.zone[o] = world.zone[o]
      <4>1. PICK x \in Objects : \A o \in Objects \ {x} : world'.zone[o] = world.zone[o]
        BY <3>3
      <4> DEFINE U == S \cup {x}
      <4>2. IsFiniteSet(U) /\ Cardinality(U) <= spent.perturbed + 1
        <5>1. Cardinality(S) \in Nat
          BY <3>1, FS_CardinalityType
        <5>2. /\ IsFiniteSet(U)
              /\ Cardinality(U) = IF x \in S THEN Cardinality(S) ELSE Cardinality(S) + 1
          BY <3>1, FS_AddElement
        <5> HIDE DEF U
        <5> QED
          BY <1>0, <3>1, <5>1, <5>2
      <4>3. Explained(mission.opening, world', mission.carried \cup U)
        <5>1. mission.carried \cup S \subseteq mission.carried \cup U
          OBVIOUS
        <5>2. \A o \in Objects : world'.zone[o] = world.zone[o] \/ o \in mission.carried \cup U
          BY <4>1
        <5> HIDE DEF U
        <5> QED
          BY <3>1, <5>1, <5>2, StillExplained
      <4> HIDE DEF U
      <4> QED
        BY <2>1, <3>3, <4>2, <4>3 DEF Helped
    <3> QED
      BY <2>1, <3>2, <3>3
  <2>3. mission.report # None /\ pc = "idle" => Earned'
    <3> SUFFICES ASSUME mission.report # None, pc = "idle" PROVE Earned'
      OBVIOUS
    <3>1. Earned
      BY DEF MissionInv
    <3>2. spent'.perturbed = 0 => spent.perturbed = 0
      BY <1>0, <2>1
    <3>3. Cardinality(mission.carried) \in Nat
      BY FS_CardinalityType DEF MissionInv
    <3>4. /\ Cardinality(mission.carried) + spent.perturbed
               <= Cardinality(mission.carried) + spent'.perturbed
      BY <1>0, <2>1, <3>3
    <3> QED
      BY <1>0, <2>1, <3>1, <3>2, <3>3, <3>4 DEF Earned
  <2>4. Paid'
    <3>1. revisions' = revisions
      BY <1>5 DEF Surroundings, QueueConstraint, ReportFault, Perturb, ToggleDevice, LoseCapability, control
    <3> QED
      BY <2>1, <3>1 DEF MissionInv, Paid
  <2> QED
    BY <2>1, <2>2, <2>3, <2>4 DEF MissionInv
<1>6. CASE UNCHANGED missionVars
  BY <1>6 DEF missionVars, vars, MissionInv, Helped, Earned, Paid
<1> QED
  BY <1>1, <1>2, <1>3, <1>4, <1>5, <1>6 DEF MissionNext, MissionEngine

(* Whoever nudges, whatever comes and goes, and however often the engine     *)
(* runs: with a planner that ends its graphs with their check, a run that    *)
(* ends outside HOLD ends on a check of its last graph, and the report it    *)
(* seals was earned (ProfileMission.run, ProfileRecorder.record).            *)
THEOREM ReportsEarned == CheckedPlans => (MissionSpec => []ReportEarned)
<1> SUFFICES ASSUME CheckedPlans PROVE MissionSpec => []ReportEarned
  OBVIOUS
<1> DEFINE I == TypeOK /\ FlightTyped /\ WalkInv /\ MissionInv
<1>1. MissionInit => I
  <2> SUFFICES ASSUME MissionInit PROVE I
    OBVIOUS
  <2>1. /\ Init
        /\ mission = [loaded |-> FALSE, opening |-> None, report |-> None, carried |-> {}, failures |-> 0]
    BY DEF MissionInit, NotLoaded
  <2>2. TypeOK /\ FlightTyped
    BY <2>1, InitTyped
  <2>3. WalkInv
    BY <2>1 DEF Init, WalkInv, Planned
  <2>4. MissionInv
    BY <2>1, FS_EmptySet DEF Init, MissionInv, Paid
  <2> QED
    BY <2>2, <2>3, <2>4
<1>2. I /\ [MissionNext]_missionVars => I'
  <2> SUFFICES ASSUME I, [MissionNext]_missionVars PROVE I'
    OBVIOUS
  <2>1. [Next]_vars
    BY DEF MissionNext, missionVars, LoadProfile, MissionStart, MissionEngine, Proceed, Seal,
           Next, Engine
  <2> QED
    BY <2>1, TypeStep, WalkStep, MissionStep
<1>3. I => ReportEarned
  BY DEF WalkInv, MissionInv, Earned, ReportEarned, FinishVerified
<1> HIDE DEF I
<1> QED
  BY <1>1, <1>2, <1>3, PTL DEF MissionSpec

-----------------------------------------------------------------------------
(* The rule planner's graphs are such graphs.                                *)

(* A stretch of steps that stands on its own: no check, and what a step      *)
(* waits for comes before it.                                                *)
Backs(g) ==
  \A i \in 1..Len(g) :
    /\ g[i].op # "VERIFY"
    /\ \A d \in g[i].deps : \E j \in 1..(i - 1) : Id(g[j]) = d

LEMMA PreferredTyped ==
  ASSUME NEW v \in Views
  PROVE  PreferredArm(v) \in Arms \cup {None}
BY DEF PreferredArm, Views

(* A chain: pick it unless it is held, carry it, and show it off if asked.   *)
LEMMA ChainBacks ==
  ASSUME NEW v \in Views, NEW o \in Objects
  PROVE  /\ ChainOf(v, o) \in Seq(Step) /\ Backs(ChainOf(v, o))
         /\ \E k \in 1..Len(ChainOf(v, o)) : Id(ChainOf(v, o)[k]) = <<"MOVE", o>>
<1> DEFINE arm == PreferredArm(v)
           held == v.owner[o] # None
           K == PickStep(o, arm)
           M == MoveStep(o, arm, held)
           P == PresentStep(o)
           A == IF held THEN <<>> ELSE <<K>>
           B == IF v.showOff THEN <<P>> ELSE <<>>
<1>1. /\ Target[o] \in Zones /\ arm \in Arms \cup {None}
      /\ {"PICK", "MOVE", "PRESENT"} \subseteq Ops
  BY PreferredTyped, WorldAssumption DEF Ops, ManipulateOps
<1>2. /\ K.op = "PICK" /\ K.deps = {} /\ Id(K) = <<"PICK", o>>
      /\ M.op = "MOVE" /\ M.deps = (IF held THEN {} ELSE {<<"PICK", o>>}) /\ Id(M) = <<"MOVE", o>>
      /\ P.op = "PRESENT" /\ P.deps = {<<"MOVE", o>>}
  BY DEF PickStep, MoveStep, PresentStep, Id
<1>3. K \in Step /\ M \in Step /\ P \in Step
  <2>1. {} \in SUBSET StepId /\ {<<"PICK", o>>} \in SUBSET StepId /\ {<<"MOVE", o>>} \in SUBSET StepId
    BY <1>1 DEF StepId
  <2>2. K \in Step
    BY <1>1, <2>1 DEF PickStep, Step
  <2>3. M \in Step
    BY <1>1, <2>1 DEF MoveStep, Step
  <2>4. P \in Step
    BY <1>1, <2>1 DEF PresentStep, Step
  <2> QED
    BY <2>2, <2>3, <2>4
<1>4. ChainOf(v, o) = (A \o <<M>>) \o B
  BY Zenon DEF ChainOf
<1>7. <<M>> \o <<P>> = <<M, P>> /\ <<K>> \o <<M>> = <<K, M>> /\ <<K, M>> \o <<P>> = <<K, M, P>>
  BY <1>3, PairOf, TripleOf
<1> HIDE DEF K, M, P
<1>5. CASE held
  <2>1. A \o <<M>> = <<M>>
    BY <1>5
  <2>2. CASE v.showOff
    <3>1. ChainOf(v, o) = <<M, P>>
      BY <1>4, <1>7, <2>1, <2>2
    <3> DEFINE c == <<M, P>>
    <3>2. c \in Seq(Step) /\ Len(c) = 2 /\ c[1] = M /\ c[2] = P
      BY <1>3
    <3> HIDE DEF c
    <3>3. Backs(c)
      BY <1>2, <1>5, <3>2 DEF Backs
    <3>4. \E k \in 1..Len(c) : Id(c[k]) = <<"MOVE", o>>
      BY <1>2, <3>2
    <3> QED
      BY <3>1, <3>2, <3>3, <3>4 DEF c
  <2>3. CASE ~v.showOff
    <3>1. ChainOf(v, o) = <<M>>
      BY <1>4, <1>7, <2>1, <2>3
    <3> DEFINE c == <<M>>
    <3>2. c \in Seq(Step) /\ Len(c) = 1 /\ c[1] = M
      BY <1>3
    <3> HIDE DEF c
    <3>3. Backs(c)
      BY <1>2, <1>5, <3>2 DEF Backs
    <3>4. \E k \in 1..Len(c) : Id(c[k]) = <<"MOVE", o>>
      BY <1>2, <3>2
    <3> QED
      BY <3>1, <3>2, <3>3, <3>4 DEF c
  <2> QED
    BY <2>2, <2>3
<1>6. CASE ~held
  <2>1. A \o <<M>> = <<K, M>>
    BY <1>6, <1>7
  <2>2. CASE v.showOff
    <3>1. ChainOf(v, o) = <<K, M, P>>
      BY <1>4, <1>7, <2>1, <2>2
    <3> DEFINE c == <<K, M, P>>
    <3>2. c \in Seq(Step) /\ Len(c) = 3 /\ c[1] = K /\ c[2] = M /\ c[3] = P
      BY <1>3
    <3> HIDE DEF c
    <3>3. Backs(c)
      <4>1. 1 \in 1..(2 - 1) /\ 2 \in 1..(3 - 1) /\ \A i \in 1..3 : i = 1 \/ i = 2 \/ i = 3
        OBVIOUS
      <4> QED
        BY <1>2, <1>6, <3>2, <4>1 DEF Backs
    <3>4. \E k \in 1..Len(c) : Id(c[k]) = <<"MOVE", o>>
      BY <1>2, <3>2
    <3> QED
      BY <3>1, <3>2, <3>3, <3>4 DEF c
  <2>3. CASE ~v.showOff
    <3>1. ChainOf(v, o) = <<K, M>>
      <4> DEFINE c == <<K, M>>
      <4>1. c \in Seq(Step)
        BY <1>3
      <4>2. ChainOf(v, o) = c \o <<>>
        BY <1>4, <2>1, <2>3
      <4> HIDE DEF c
      <4>3. c \o <<>> = c
        BY <4>1
      <4> QED
        BY <4>2, <4>3 DEF c
    <3> DEFINE c == <<K, M>>
    <3>2. c \in Seq(Step) /\ Len(c) = 2 /\ c[1] = K /\ c[2] = M
      BY <1>3
    <3> HIDE DEF c
    <3>3. Backs(c)
      BY <1>2, <1>6, <3>2 DEF Backs
    <3>4. \E k \in 1..Len(c) : Id(c[k]) = <<"MOVE", o>>
      BY <1>2, <3>2
    <3> QED
      BY <3>1, <3>2, <3>3, <3>4 DEF c
  <2> QED
    BY <2>2, <2>3
<1> QED
  BY <1>5, <1>6

LEMMA ChainsTyped ==
  ASSUME NEW v \in Views
  PROVE  /\ Chains(v) \in Seq(Seq(Step)) /\ Len(Chains(v)) = Len(ObjectOrder)
         /\ \A i \in 1..Len(Chains(v)) : Backs(Chains(v)[i])
<1> DEFINE W == Seq(Step)
           c == Chains(v)
           n == Len(ObjectOrder)
<1>1. n \in Nat /\ DOMAIN ObjectOrder = 1..n /\ \A i \in 1..n : ObjectOrder[i] \in Objects
  BY PlannerConstants
<1>2. c = [i \in 1..n |-> IF ObjectOrder[i] \in Feasible(v) THEN ChainOf(v, ObjectOrder[i]) ELSE <<>>]
  BY <1>1 DEF Chains
<1>3. Backs(<<>>) /\ <<>> \in W
  BY DEF Backs
<1>4. \A i \in 1..n : c[i] \in W /\ Backs(c[i])
  <2> TAKE i \in 1..n
  <2>1. ChainOf(v, ObjectOrder[i]) \in W /\ Backs(ChainOf(v, ObjectOrder[i]))
    BY <1>1, ChainBacks
  <2> QED
    BY <1>2, <1>3, <2>1
<1> HIDE DEF c, n, W
<1>5. c \in Seq(W) /\ Len(c) = n
  <2>1. c \in [1..n -> W]
    BY <1>2, <1>4
  <2> QED
    BY <1>1, <2>1
<1> QED
  BY <1>4, <1>5 DEF c, n, W

LEMMA PlanChecked ==
  ASSUME NEW v \in Views
  PROVE  Checked(Plan(v)) /\ Plan(v) \in Seq(Step)
<1> DEFINE f == FlattenSeq(Chains(v))
           V == VerifyStep(Feasible(v))
           s == Chains(v)
<1>1. /\ s \in Seq(Seq(Step)) /\ Len(s) = Len(ObjectOrder) /\ Len(s) \in Nat
      /\ \A i \in 1..Len(s) : s[i] \in Seq(Step) /\ Len(s[i]) \in Nat /\ Backs(s[i])
  <2>1. s \in Seq(Seq(Step)) /\ Len(s) = Len(ObjectOrder) /\ \A i \in 1..Len(s) : Backs(s[i])
    BY ChainsTyped
  <2> DEFINE W == Seq(Step)
  <2>2. s \in Seq(W) /\ \A x \in W : Len(x) \in Nat
    BY <2>1
  <2> HIDE DEF W, s
  <2>3. Len(s) \in Nat /\ \A i \in 1..Len(s) : s[i] \in W
    BY <2>2
  <2> QED
    BY <2>1, <2>2, <2>3 DEF W
<1>2. f \in Seq(Step) /\ Len(f) \in Nat
  BY <1>1, FlattenType
<1>3. /\ \A i \in 1..Len(s) : \E p \in Nat : Sits(f, s[i], p)
      /\ \A m \in 1..Len(f) : \E i \in 1..Len(s), p \in Nat : Sits(f, s[i], p) /\ m - p \in 1..Len(s[i])
  BY <1>1, FlattenPlaces
<1>4. V.op = "VERIFY" /\ V.deps = {<<"MOVE", o>> : o \in Feasible(v)} /\ V \in Step
  <2>1. {<<"MOVE", o>> : o \in Feasible(v)} \in SUBSET StepId
    BY DEF StepId, Feasible, Ops, ManipulateOps
  <2> QED
    BY <2>1 DEF VerifyStep, Step, Ops
<1>5. Plan(v) = f \o <<V>>
  BY DEF Plan
<1>6. \A o \in Feasible(v) : \E m \in 1..Len(f) : Id(f[m]) = <<"MOVE", o>>
  <2> SUFFICES ASSUME NEW o \in Feasible(v) PROVE \E m \in 1..Len(f) : Id(f[m]) = <<"MOVE", o>>
    OBVIOUS
  <2>1. o \in Objects
    BY DEF Feasible
  <2>2. PICK i \in 1..Len(ObjectOrder) : ObjectOrder[i] = o
    BY <2>1, PlannerConstants DEF ToSet
  <2>3. s[i] = ChainOf(v, o) /\ i \in 1..Len(s)
    BY <1>1, <2>2, PlannerConstants DEF Chains
  <2>4. PICK k \in 1..Len(s[i]) : Id(s[i][k]) = <<"MOVE", o>>
    BY <2>1, <2>3, ChainBacks
  <2>5. PICK p \in Nat : Sits(f, s[i], p)
    BY <1>3, <2>3
  <2> DEFINE y == s[i]
  <2>6. Len(y) \in Nat /\ k \in 1..Len(y) /\ Sits(f, y, p) /\ Id(y[k]) = <<"MOVE", o>>
    BY <1>1, <2>3, <2>4, <2>5
  <2> HIDE DEF y, f
  <2>7. p + k \in 1..Len(f) /\ f[p + k] = y[k]
    BY <1>2, <2>6 DEF Sits
  <2> QED
    BY <2>6, <2>7
<1>7. Backs(f)
  <2> SUFFICES ASSUME NEW m \in 1..Len(f)
               PROVE  /\ f[m].op # "VERIFY"
                      /\ \A d \in f[m].deps : \E j \in 1..(m - 1) : Id(f[j]) = d
    BY DEF Backs
  <2>1. PICK i \in 1..Len(s), p \in Nat : Sits(f, s[i], p) /\ m - p \in 1..Len(s[i])
    BY <1>3
  <2> DEFINE y == s[i]
             k == m - p
  <2>2. Len(y) \in Nat /\ k \in 1..Len(y) /\ Sits(f, y, p) /\ Backs(y) /\ m = p + k
    BY <1>1, <2>1
  <2> HIDE DEF y, f, k
  <2>3. f[m] = y[k] /\ \A j \in 1..Len(y) : f[p + j] = y[j]
    BY <2>2 DEF Sits
  <2>4. ASSUME NEW d \in y[k].deps PROVE \E j \in 1..(m - 1) : Id(f[j]) = d
    <3>1. PICK j \in 1..(k - 1) : Id(y[j]) = d
      BY <2>2, <2>4 DEF Backs
    <3>2. j \in 1..Len(y) /\ p + j \in 1..(m - 1)
      BY <2>2
    <3> QED
      BY <2>3, <3>1, <3>2
  <2> QED
    BY <2>2, <2>3, <2>4 DEF Backs
<1> DEFINE g == f \o <<V>>
           n == Len(f)
<1> HIDE DEF f, V, s
<1>8. /\ g \in Seq(Step) /\ Len(g) = n + 1 /\ n \in Nat /\ g[n + 1] = V
      /\ \A i \in 1..n : g[i] = f[i]
  BY <1>2, <1>4
<1> HIDE DEF g
<1>9. Checked(g)
  <2>1. g # <<>>
    BY <1>8
  <2>2. g[Len(g)].op = "VERIFY"
    BY <1>4, <1>8
  <2>3. \A i \in 1..Len(g) : i # Len(g) => g[i].op # "VERIFY"
    <3> SUFFICES ASSUME NEW i \in 1..Len(g), i # Len(g) PROVE g[i].op # "VERIFY"
      OBVIOUS
    <3>1. i \in 1..n /\ g[i] = f[i]
      BY <1>8
    <3> QED
      BY <1>7, <3>1 DEF Backs, n
  <2>4. ASSUME NEW i \in 1..Len(g), NEW d \in g[i].deps PROVE \E j \in 1..(i - 1) : Id(g[j]) = d
    <3>1. i \in 1..n \/ i = n + 1
      BY <1>8
    <3>2. CASE i \in 1..n
      <4>1. PICK j \in 1..(i - 1) : Id(f[j]) = d
        BY <1>7, <1>8, <2>4, <3>2 DEF Backs, n
      <4>2. g[j] = f[j]
        BY <1>8, <3>2
      <4> QED
        BY <4>1, <4>2
    <3>3. CASE i = n + 1
      <4>1. PICK o \in Feasible(v) : d = <<"MOVE", o>>
        BY <1>4, <1>8, <2>4, <3>3
      <4>2. PICK m \in 1..n : Id(f[m]) = d
        BY <1>6, <4>1 DEF n
      <4>3. m \in 1..(i - 1) /\ g[m] = f[m]
        BY <1>8, <3>3
      <4> QED
        BY <4>2, <4>3
    <3> QED
      BY <3>1, <3>2, <3>3
  <2> QED
    BY <2>1, <2>2, <2>3, <2>4 DEF Checked
<1> QED
  BY <1>5, <1>8, <1>9 DEF g

(* Naming an arm for every step changes neither steps nor their order.       *)
LEMMA AnnotatedChecked ==
  ASSUME NEW g \in Seq(Step), Checked(g), NEW a
  PROVE  Checked(Annotate(g, a))
<1> DEFINE h == Annotate(g, a)
<1>1. Len(g) \in Nat /\ DOMAIN g = 1..Len(g) /\ Len(g) \in 1..Len(g)
  <2> DEFINE S == Step
  <2>1. g \in Seq(S) /\ g # <<>>
    BY DEF Checked
  <2> HIDE DEF S
  <2> QED
    BY <2>1
<1>2. h = [i \in 1..Len(g) |-> IF g[i].op \in ManipulateOps
                                 THEN [g[i] EXCEPT !.arm = a[g[i].obj]] ELSE g[i]]
  BY <1>1 DEF Annotate
<1>3. Len(h) = Len(g) /\ \A i \in 1..Len(g) : h[i].op = g[i].op /\ h[i].deps = g[i].deps /\ Id(h[i]) = Id(g[i])
  <2>1. Len(h) = Len(g)
    BY <1>1, <1>2
  <2>2. ASSUME NEW i \in 1..Len(g)
        PROVE  h[i].op = g[i].op /\ h[i].deps = g[i].deps /\ h[i].obj = g[i].obj
    <3>1. g[i] \in Step
      BY <1>1
    <3> DEFINE x == g[i]
               y == a[x.obj]
    <3>2. h[i] = IF x.op \in ManipulateOps THEN [x EXCEPT !.arm = y] ELSE x
      BY <1>2
    <3> HIDE DEF x, y
    <3> QED
      BY <3>1, <3>2 DEF Step, x
  <2> QED
    BY <2>1, <2>2 DEF Id
<1> HIDE DEF h
<1>4. h # <<>>
  <2>1. Len(<<>>) = 0
    OBVIOUS
  <2> QED
    BY <1>1, <1>3, <2>1
<1>6. \A i \in 1..Len(g) : \A d \in g[i].deps : \E j \in 1..(i - 1) : Id(h[j]) = d
  <2> SUFFICES ASSUME NEW i \in 1..Len(g), NEW d \in g[i].deps PROVE \E j \in 1..(i - 1) : Id(h[j]) = d
    OBVIOUS
  <2>1. PICK j \in 1..(i - 1) : Id(g[j]) = d
    BY DEF Checked
  <2>2. j \in 1..Len(g)
    BY <1>1
  <2> QED
    BY <1>3, <2>1, <2>2
<1> QED
  BY <1>1, <1>3, <1>4, <1>6, ZenonT(40) DEF Checked, h

(* The rule planner, scheduled or not, ends each of its graphs with a check  *)
(* of all it moves, and lets nothing wait for what comes later: what         *)
(* ReportsEarned asks of a planner (RulePlanner.plan, ScheduledPlanner).     *)
THEOREM RulePlannerChecks ==
  \A v \in Views, f \in SUBSET Arms :
    \A g \in RulePlans(v, f) \cup ScheduledPlans(v, f) \cup ScheduledStrict(v, f) : Checked(g)
<1> TAKE v \in Views, f \in SUBSET Arms
<1>1. Checked(Plan(v)) /\ Plan(v) \in Seq(Step)
  BY PlanChecked
<1>2. \A g \in ScheduledStrict(v, f) : Checked(g)
  <2>1. \A a : Checked(Annotate(Plan(v), a))
    BY <1>1, AnnotatedChecked
  <2> QED
    BY <2>1 DEF ScheduledStrict
<1> QED
  BY <1>1, <1>2 DEF RulePlans, ScheduledPlans

(* So a mission planned by the rule planner, alone or behind the scheduler,  *)
(* with or without its strict replanning, only reports what it earned        *)
(* (ProfileMission.run with fakes.RulePlanner, ScheduledPlanner).            *)
COROLLARY RuleReportsEarned ==
  (\A v \in Views, f \in SUBSET Arms :
     /\ PlansFor(v, f) \subseteq RulePlans(v, f) \cup ScheduledPlans(v, f)
     /\ StrictPlansFor(v, f) \subseteq ScheduledStrict(v, f))
  => (MissionSpec => []ReportEarned)
<1> HAVE \A v \in Views, f \in SUBSET Arms :
           /\ PlansFor(v, f) \subseteq RulePlans(v, f) \cup ScheduledPlans(v, f)
           /\ StrictPlansFor(v, f) \subseteq ScheduledStrict(v, f)
<1>1. CheckedPlans
  BY RulePlannerChecks DEF CheckedPlans
<1> QED
  BY <1>1, ReportsEarned
=============================================================================
