---------------------------- MODULE OmniQEngine ----------------------------
(***************************************************************************)
(* The governed execution loop (omni_q.engine.OmniQ.run).  Three actors:   *)
(*   - the engine thread, one action per stretch of run() between two      *)
(*     points at which another actor's change can be seen;                 *)
(*   - operators (HTTP, voice and UI threads), who queue constraints and   *)
(*     report fleet faults at any moment, without a lock;                  *)
(*   - the surroundings: parts get nudged, devices and capabilities come   *)
(*     and go.                                                             *)
(* The planner is not trusted: PlansFor gives the graphs it may return for *)
(* a snapshot, StrictPlansFor those of its strict, fleet-aware replan      *)
(* (none: it raises).                                                      *)
(***************************************************************************)
EXTENDS World, FiniteSets

CONSTANTS
  PlansFor(_, _),       \* (view, failed arms) -> graphs plan/replan may return
  StrictPlansFor(_, _), \* (view, failed arms) -> graphs replan_strict may return
  FleetSeam,            \* the planner has reallocate_fleet and replan_strict
  Faults,               \* fleet faults that may be reported: [id, arm, org]
  Offered,              \* constraints operators may queue
  MaxRevisions,         \* MissionEnvelope.max_revisions
  InitialZone,          \* where the parts start
  \* bounds on the surroundings, per behaviour
  MaxRuns, MaxQueued, MaxReported, MaxPerturbed, MaxToggled,
  MaxDisturbed          \* bound on all they do but starting runs

VARIABLES
  world,     \* the authoritative world
  online,    \* devices the router sees online
  supported, \* operations the manipulator can run
  failed,    \* arms the planner's fleet snapshot has marked offline
  mode,      \* AutonomyMode
  graph,     \* the installed plan graph: [rev, steps]
  pending,   \* _pending_constraints
  cursor,    \* how far _apply_constraints has iterated over pending
  faults,    \* _pending_fleet_faults
  seen,      \* _fleet_fault_ids
  executed,  \* ids of the current graph's executed steps
  revisions, \* recompilations counted against MaxRevisions
  flight,    \* the step in hand: [step, device, rev], or None
  receipt,   \* the last ALLOW receipt the recorder persisted: <<id, rev>>
  pc,        \* where run() is
  spent,     \* how often the surroundings have acted
  audit      \* history: [identity, constraints, failed, verified]

control == <<mode, graph, executed, revisions, flight, receipt, audit>>
queues  == <<pending, cursor, faults, seen>>
setup   == <<online, supported, failed>>
vars    == <<world, online, supported, failed, mode, graph, pending, cursor, faults, seen,
             executed, revisions, flight, receipt, pc, spent, audit>>

ASSUME EngineAssumption ==
  /\ MaxRevisions \in Nat
  /\ InitialZone \in [Objects -> Zones]
  /\ Offered \subseteq Constraint
  /\ FleetSeam \in BOOLEAN
  /\ Faults \subseteq [id : Nat, arm : Arms, org : BOOLEAN]
  /\ {MaxRuns, MaxQueued, MaxReported, MaxPerturbed, MaxToggled, MaxDisturbed} \subseteq Nat

(* A plan call returns a graph of steps (a hostile one too): its steps are   *)
(* listed in the order topo_order yields them.                               *)
ASSUME PlannerAssumption ==
  \A v \in Views, f \in SUBSET Arms :
    /\ PlansFor(v, f) # {} /\ PlansFor(v, f) \subseteq Seq(Step)
    /\ StrictPlansFor(v, f) \subseteq Seq(Step)

-----------------------------------------------------------------------------
(* Helpers.                                                                  *)

Modes == {"NOMINAL", "DEGRADED", "LOCAL_ONLY", "HOLD"}
Severity(m) == CASE m = "NOMINAL" -> 0 [] m = "DEGRADED" -> 1
                 [] m = "LOCAL_ONLY" -> 2 [] m = "HOLD" -> 3

Merge(current, incoming) ==
  IF Severity(incoming) >= Severity(current) THEN incoming ELSE current

\* Mutant: a graph is walked on in HOLD too.
ReadyEvenInHold(i) ==
  /\ Id(graph.steps[i]) \notin executed
  /\ graph.steps[i].deps \subseteq executed
Ready(i) ==
  /\ mode # "HOLD"
  /\ Id(graph.steps[i]) \notin executed
  /\ graph.steps[i].deps \subseteq executed

(* The first ready step of the graph, if any.                                *)
NextSteps == {graph.steps[i] : i \in
  {j \in DOMAIN graph.steps : Ready(j) /\ \A k \in 1..(j - 1) : ~Ready(k)}}

(* What _authorize requires of a step in a snapshot.                         *)
Permitted(s, w) ==
  s.op \in EnvelopeOps /\ SameOrg /\ s.obj \notin Forbidden(w) /\ s.obj \notin Fallback

(* The postcondition FakeVerifier checks on a fresh observation.             *)
Verified(s, w) ==
  CASE s.op = "PICK"   -> s.obj \in Objects
    [] s.op = "MOVE"   -> s.obj \in Objects /\ w.zone[s.obj] = s.to
    [] s.op = "VERIFY" -> Misplaced(w) = {}
    [] OTHER           -> TRUE

(* The planner is asked for a graph from snapshot w, with the arms f failed. *)
Compile(plans, rev, w, f) ==
  \E steps \in plans :
    /\ graph' = [rev |-> rev, steps |-> steps]
    /\ audit' = [audit EXCEPT !.constraints = Len(w.constraints), !.failed = f,
                              !.verified = FALSE]

(* Something went wrong with the graph in hand: HOLD when the revision       *)
(* budget is used up, else escalate and recompile from snapshot w.           *)
GiveUp ==
  /\ revisions + 1 > MaxRevisions
  /\ mode' = "HOLD"
  /\ pc' = "finish"
  /\ UNCHANGED <<graph, executed, audit>>

Retry(escalation) ==
  /\ revisions + 1 <= MaxRevisions
  /\ mode' = Merge(mode, escalation)
  /\ Compile(PlansFor(View(world), failed), graph.rev + 1, world, failed)
  /\ executed' = {}
  /\ pc' = "apply"

\* Mutant: the revision budget is not enforced.
RecompileForever(escalation) ==
  /\ revisions' = IF revisions < MaxRevisions THEN revisions + 1 ELSE revisions
  /\ mode' = Merge(mode, escalation)
  /\ Compile(PlansFor(View(world), failed), graph.rev, world, failed)
  /\ executed' = {}
  /\ pc' = "apply"
\* Mutant: the executed set survives a recompilation.
RecompileKeepingExecuted(escalation) ==
  /\ revisions' = revisions + 1
  /\ \/ GiveUp
     \/ /\ revisions + 1 <= MaxRevisions
        /\ mode' = Merge(mode, escalation)
        /\ Compile(PlansFor(View(world), failed), graph.rev + 1, world, failed)
        /\ executed' = executed
        /\ pc' = "apply"
RecompileOrHold(escalation) ==
  /\ revisions' = revisions + 1
  /\ (GiveUp \/ Retry(escalation))

-----------------------------------------------------------------------------
(* A run starts, and queued constraints are applied.                         *)

Init ==
  /\ world = [zone |-> InitialZone, owner |-> [o \in Objects |-> None],
              constraints |-> <<>>, rev |-> 0]
  /\ online = Devices
  /\ supported = ManipulateOps
  /\ failed = {}
  /\ mode = "NOMINAL"
  /\ graph = [rev |-> 0, steps |-> <<>>]
  /\ pending = <<>> /\ cursor = 0
  /\ faults = <<>> /\ seen = {}
  /\ executed = {}
  /\ revisions = 0
  /\ flight = None /\ receipt = None
  /\ pc = "idle"
  /\ spent = [runs |-> 0, queued |-> 0, reported |-> 0, perturbed |-> 0, toggled |-> 0]
  /\ audit = [identity |-> 0, constraints |-> 0, failed |-> {}, verified |-> FALSE]

(* run(): the mission starts, the run's identity is computed over the        *)
(* world's constraints and the queued ones.  Mode and queued faults carry    *)
(* over from an earlier run.                                                 *)
StartRun ==
  /\ pc = "idle" /\ spent.runs < MaxRuns
  /\ world' = StartMission(world)
  /\ audit' = [audit EXCEPT !.identity = Len(world.constraints) + Len(pending)]
  /\ seen' = {} /\ executed' = {}
  /\ revisions' = 0
  /\ pc' = "applyFirst"
  /\ spent' = [spent EXCEPT !.runs = @ + 1]
  /\ UNCHANGED <<setup, mode, graph, pending, cursor, faults, flight, receipt>>

(* _apply_constraints: one constraint of the list being iterated.            *)
ApplyOne ==
  /\ pc \in {"applyFirst", "apply"}
  /\ cursor < Len(pending)
  /\ LET c == pending[cursor + 1] IN
       /\ world' = AddConstraint(world, c)
       /\ mode' = IF c.kind = "keep_local" THEN Merge(mode, "LOCAL_ONLY") ELSE mode
  /\ cursor' = cursor + 1
  /\ UNCHANGED <<setup, graph, pending, faults, seen, executed, revisions, flight, receipt,
                 pc, spent, audit>>

(* The iterator is exhausted; the clear() that follows is a step of its own. *)
StopIterating ==
  /\ pc \in {"applyFirst", "apply"}
  /\ cursor > 0 /\ cursor = Len(pending)
  /\ pc' = IF pc = "apply" THEN "clear" ELSE "clearFirst"
  /\ UNCHANGED <<world, setup, queues, control, spent>>

NothingQueued ==
  /\ pc = "apply" /\ pending = <<>>
  /\ pc' = "fault"
  /\ UNCHANGED <<world, setup, queues, control, spent>>

ClearQueue == pending' = <<>> /\ cursor' = 0

(* The first graph: plan(), and one replan() when constraints were queued.   *)
\* Mutant: the first graph is compiled before the queue is looked at.
CompileFirstUnconstrained ==
  /\ pc = "applyFirst" /\ cursor = 0
  /\ Compile(PlansFor(View(world), failed), 0, world, failed)
  /\ UNCHANGED <<revisions, pending, cursor>>
CompileFirst ==
  \/ /\ pc = "applyFirst" /\ pending = <<>>
     /\ Compile(PlansFor(View(world), failed), 0, world, failed)
     /\ UNCHANGED <<revisions, pending, cursor>>
  \/ /\ pc = "clearFirst"
     /\ ClearQueue
     /\ Compile(PlansFor(View(world), failed), 1, world, failed)
     /\ revisions' = 1

PlanRun ==
  /\ CompileFirst
  /\ pc' = "apply"
  /\ UNCHANGED <<world, setup, faults, seen, mode, executed, flight, receipt, spent>>

(* Constraints applied inside the loop recompile whatever the budget.        *)
\* Mutant: the graph in hand is kept.
KeepGraphOnConstraints ==
  /\ UNCHANGED <<graph, audit>>
  /\ executed' = executed
CompileOnConstraints ==
  /\ Compile(PlansFor(View(world), failed), graph.rev + 1, world, failed)
  /\ executed' = {}

Constrained ==
  /\ pc = "clear"
  /\ ClearQueue
  /\ revisions' = revisions + 1
  /\ CompileOnConstraints
  /\ pc' = "fault"
  /\ UNCHANGED <<world, setup, faults, seen, mode, flight, receipt, spent>>

-----------------------------------------------------------------------------
(* _apply_pending_fleet_fault: one queued fault per turn of the loop.        *)

NoFault ==
  /\ pc = "fault" /\ faults = <<>>
  /\ pc' = "select"
  /\ UNCHANGED <<world, setup, queues, control, spent>>

TakeFault(f) ==
  /\ pc = "fault" /\ faults # <<>>
  /\ f = Head(faults)
  /\ faults' = Tail(faults)
  /\ seen' = seen \cup {f.id}
  /\ UNCHANGED <<world, online, supported, pending, cursor, flight, receipt, spent>>

(* A duplicate, or a fault of another organization.                          *)
Authoritative(f) == f.id \notin seen /\ f.org

RejectFault ==
  \E f \in Faults :
    /\ TakeFault(f)
    /\ ~Authoritative(f)
    /\ pc' = "select"
    /\ UNCHANGED <<failed, mode, graph, executed, revisions, audit>>

(* No seam, or reallocation raises: the fleet keeps its snapshot.            *)
(* Or the strict replan raises, with the fleet already reallocated.          *)
EnterHold ==
  /\ mode' = "HOLD"
  /\ pc' = "finish"

FaultHolds ==
  \E f \in Faults :
    /\ TakeFault(f)
    /\ Authoritative(f)
    /\ \/ failed' = failed
       \/ /\ FleetSeam /\ StrictPlansFor(View(world), failed \cup {f.arm}) = {}
          /\ failed' = failed \cup {f.arm}
    /\ EnterHold
    /\ revisions' = revisions + 1
    /\ UNCHANGED <<graph, executed, audit>>

FaultReplans ==
  \E f \in Faults :
    /\ TakeFault(f)
    /\ Authoritative(f)
    /\ FleetSeam
    /\ failed' = failed \cup {f.arm}
    /\ mode' = Merge(mode, "DEGRADED")
    /\ Compile(StrictPlansFor(View(world), failed'), graph.rev + 1, world, failed')
    /\ executed' = {}
    /\ revisions' = revisions + 1
    /\ pc' = "apply"

-----------------------------------------------------------------------------
(* One step: choose, place, authorize, act, verify.                          *)

NothingReady ==
  /\ pc = "select" /\ NextSteps = {}
  /\ pc' = "finish"
  /\ UNCHANGED <<world, setup, queues, control, spent>>

CannotRun(s) == s.op \in ManipulateOps /\ s.op \notin supported

(* The capability is gone, or no device can host the step.                   *)
Reroute ==
  /\ pc = "select"
  /\ \E s \in NextSteps : CannotRun(s) \/ Route(s, world, online) = {}
  /\ RecompileOrHold("DEGRADED")
  /\ UNCHANGED <<world, setup, queues, flight, receipt, spent>>

Place(s, d) ==
  /\ pc = "select"
  /\ s \in NextSteps /\ ~CannotRun(s)
  /\ d \in Route(s, world, online)
  /\ UNCHANGED <<world, setup, queues, mode, graph, revisions, spent, audit>>

(* The verdict is ALLOW and its receipt is persisted, bound to the snapshot. *)
Authorize ==
  \E s \in NextSteps, d \in Devices :
    /\ Place(s, d)
    /\ s.op \in ManipulateOps
    /\ Permitted(s, world)
    /\ flight' = [step |-> s, device |-> d, rev |-> world.rev]
    /\ receipt' = <<Id(s), world.rev>>
    /\ pc' = "effect"
    /\ UNCHANGED executed

(* The verdict is not ALLOW, or the recorder could not persist it.           *)
Deny ==
  \E s \in NextSteps, d \in Devices :
    /\ Place(s, d)
    /\ s.op \in ManipulateOps
    /\ pc' = "recover"
    /\ UNCHANGED <<flight, receipt, executed>>

(* An observe or verify step has no effect; a verify step is then checked.   *)
Note ==
  \E s \in NextSteps, d \in Devices :
    /\ Place(s, d)
    /\ s.op \notin ManipulateOps
    /\ flight' = [step |-> s, device |-> d, rev |-> world.rev]
    /\ executed' = executed \cup {Id(s)}
    /\ pc' = IF s.op = "VERIFY" THEN "verify" ELSE "apply"
    /\ UNCHANGED receipt

(* The manipulator succeeds and the world takes the transition.              *)
Effect ==
  /\ pc = "effect"
  /\ Accepts(world, flight.step, flight.device, flight.rev)
  /\ world' = ApplyTransition(world, flight.step, flight.device)
  /\ executed' = executed \cup {Id(flight.step)}
  /\ pc' = "verify"
  /\ UNCHANGED <<setup, queues, mode, graph, revisions, flight, receipt, spent, audit>>

(* The driver reports failure, or the world rejects a request that is stale  *)
(* or contradicts who holds the object.                                      *)
NoEffect ==
  /\ pc = "effect"
  /\ pc' = "recover"
  /\ UNCHANGED <<world, setup, queues, control, spent>>

VerifyOk ==
  /\ pc = "verify" /\ Verified(flight.step, world)
  /\ audit' = [audit EXCEPT !.verified = flight.step.op = "VERIFY"]
  /\ pc' = "apply"
  /\ UNCHANGED <<world, setup, queues, mode, graph, executed, revisions, flight, receipt, spent>>

VerifyMismatch ==
  /\ pc = "verify" /\ ~Verified(flight.step, world)
  /\ pc' = "recover"
  /\ UNCHANGED <<world, setup, queues, control, spent>>

Recover ==
  /\ pc = "recover"
  /\ RecompileOrHold("NOMINAL")
  /\ UNCHANGED <<world, setup, queues, flight, receipt, spent>>

(* Metrics, the run's receipt and run.finished.                              *)
Finish ==
  /\ pc = "finish"
  /\ pc' = "idle"
  /\ UNCHANGED <<world, setup, queues, control, spent>>

-----------------------------------------------------------------------------
(* Operators and surroundings.                                               *)

Spend(what, bound) ==
  /\ spent[what] < bound
  /\ spent.queued + spent.reported + spent.perturbed + spent.toggled < MaxDisturbed
  /\ spent' = [spent EXCEPT ![what] = @ + 1]

QueueConstraint ==
  /\ Spend("queued", MaxQueued)
  /\ \E c \in Offered : pending' = Append(pending, c)
  /\ UNCHANGED <<world, setup, cursor, faults, seen, control, pc>>

ReportFault ==
  /\ Spend("reported", MaxReported)
  /\ \E f \in Faults : faults' = Append(faults, f)
  /\ UNCHANGED <<world, setup, pending, cursor, seen, control, pc>>

Perturb ==
  /\ Spend("perturbed", MaxPerturbed)
  /\ \E o \in Objects, z \in Zones : world' = MoveObject(world, o, z)
  /\ UNCHANGED <<setup, queues, control, pc>>

ToggleDevice ==
  /\ Spend("toggled", MaxToggled)
  /\ \E d \in Devices : online' = IF d \in online THEN online \ {d} ELSE online \cup {d}
  /\ UNCHANGED <<world, supported, failed, queues, control, pc>>

LoseCapability ==
  /\ Spend("toggled", MaxToggled)
  /\ \E op \in supported : supported' = supported \ {op}
  /\ UNCHANGED <<world, online, failed, queues, control, pc>>

Engine ==
  \/ ApplyOne \/ StopIterating \/ NothingQueued \/ PlanRun \/ Constrained
  \/ NoFault \/ RejectFault \/ FaultHolds \/ FaultReplans
  \/ NothingReady \/ Reroute \/ Authorize \/ Deny \/ Note
  \/ Effect \/ NoEffect \/ VerifyOk \/ VerifyMismatch \/ Recover \/ Finish

Surroundings == QueueConstraint \/ ReportFault \/ Perturb \/ ToggleDevice \/ LoseCapability

Next == StartRun \/ Engine \/ Surroundings

Spec == Init /\ [][Next]_vars
-----------------------------------------------------------------------------
(* Properties.                                                               *)

Flight == [step : Step, device : Devices, rev : Nat]

(* Every variable keeps its type: no graph, world or flight record the code  *)
(* builds is malformed, whatever the planner returned.                       *)
TypeOK ==
  /\ world \in WorldState
  /\ online \subseteq Devices /\ supported \subseteq ManipulateOps
  /\ failed \subseteq Arms
  /\ mode \in Modes
  /\ graph \in [rev : Nat, steps : Seq(Step)]
  /\ pending \in Seq(Constraint) /\ cursor \in Nat
  /\ faults \in Seq(Faults) /\ seen \subseteq Nat
  /\ executed \subseteq StepId
  /\ revisions \in Nat
  /\ flight \in Flight \cup {None}
  /\ receipt \in (StepId \X Nat) \cup {None}
  /\ pc \in {"idle", "applyFirst", "clearFirst", "apply", "clear", "fault", "select",
             "effect", "verify", "recover", "finish"}
  /\ spent \in [{"runs", "queued", "reported", "perturbed", "toggled"} -> Nat]
  /\ audit \in [identity : Nat, constraints : Nat, failed : SUBSET Arms, verified : BOOLEAN]

(* The engine moves a part or changes who holds it only under a receipt for  *)
(* exactly this step and this revision of the world, and only when the step  *)
(* is permitted in the world as it is NOW, not merely in the snapshot it was *)
(* authorized in; and only that step's object is touched.  (engine._run_step *)
(* between _authorize and world.apply_transition.)                           *)
EngineMovesParts == pc' # pc /\ <<world'.zone, world'.owner>> # <<world.zone, world.owner>>
GovernedEffect ==
  [][EngineMovesParts =>
       /\ receipt = <<Id(flight.step), world.rev>>
       /\ flight.step.op \in EnvelopeOps
       /\ flight.step.obj \notin EnvelopeForbidden \cup WorldForbids(world) \cup Fallback
       /\ \A o \in Objects \ {flight.step.obj} :
            world'.zone[o] = world.zone[o] /\ world'.owner[o] = world.owner[o]]_vars

(* Degradation is one way, over every run of the engine: whatever queues,    *)
(* faults and failures do, the mode's severity never falls.                  *)
ModeNeverRelaxes == [][Severity(mode') >= Severity(mode)]_vars

(* Once in HOLD the engine never again authorizes an action or moves a part: *)
(* not in this run, and not in a later one.                                  *)
HoldIsFinal == [][mode = "HOLD" => receipt' = receipt /\ ~EngineMovesParts]_vars

(* From the moment a step is chosen to the moment its outcome is known, the  *)
(* installed graph is one compiled from every constraint the world carries   *)
(* and every arm the fleet has lost.                                         *)
GraphCurrent ==
  pc \in {"select", "effect", "verify", "recover"} =>
    audit.constraints = Len(world.constraints) /\ audit.failed = failed

(* The run's identity is computed before its constraints are applied; still  *)
(* no graph of the run is compiled under fewer constraints than it names.    *)
IdentityBoundsAuthority ==
  pc \notin {"idle", "applyFirst", "clearFirst"} => audit.constraints >= audit.identity

(* A run that finishes without HOLD finishes on a successful workspace check *)
(* of the graph it ran last: nothing of an earlier graph counts for it.      *)
FinishVerified == pc = "finish" /\ mode # "HOLD" => audit.verified

(* With finitely many disturbances every run comes to its end: no failure,   *)
(* mismatch, lost capability or refusal makes it recompile for ever.         *)
RunTerminates == pc # "idle" ~> pc = "idle"

(* docs/runtime-mutation.md: a constraint queued mid-run is picked up on the *)
(* next step: every constraint ever queued is in the world or in the queue.  *)
NoConstraintLost == spent.queued = Len(world.constraints) + Len(pending) - cursor
=============================================================================
