# OMNI-Q: specifications, model checking and proofs

OMNI-Q is a governed control plane for manipulation: an operator states a
goal, a planner turns it into a graph of steps, and an engine walks the graph,
asking before each step whether it is permitted, letting a manipulator act,
applying the effect to the authoritative world and checking it. Constraints,
faults and failed steps make it recompile the graph or stop in HOLD. Around the
engine are planners of several kinds, a fleet of arms with leases, simulated
worlds with two arms, cameras and a memory of what they saw, speech that becomes
constraints, a durable ledger of evidence, a web session, and the tools that
build the datasets and train the packed weights the perception runs on.

These modules model it from its Python source (`src/src/omni_q`,
`src/integrations`, `src/perception`). TLC checks them on small instances; TLAPS
proves what matters most about the engine, the ledger, the fleet, the wave
scheduler and the parts around them for every instance.

## The system

| Component | State | Operations | Talks to |
|---|---|---|---|
| Engine (`engine.py`) | mode, graph, queues of constraints and faults, fault ids seen, decisions | `run`, `add_constraint`, `report_fleet_fault` | planner, router, recorder, manipulator, world, verifier, bus |
| World, router (`world.py`, `fakes.py`, `devices.py`) | objects' zones, who holds them, constraints, revision; devices online | `start_mission`, `apply_transition`, `add_constraint`, `move_object`; `route`, `set_online` | engine; anything that nudges a part |
| Rule planner, wave scheduler (`fakes.py`, `scheduler.py`) | the fleet snapshot, the last schedule | `plan`, `replan`, `replan_strict`, `schedule`, `annotate` | engine, fleet |
| Neural planner, rewriting (`omni_planner.py`, `rewrite.py`, `mutation.py`) | registered mutations, what a model advised | `plan`, `replan`, `register_mutation` | engine, language model |
| Table world (`intel_sim.py`, `engine.py`) | zones and owners; jaws, poses; the barrier of two threads | transitions with retries, `fail_arm`, `_run_steps_parallel` | engine, physics |
| Contact handoff (`intel_sim.py`) | controller phase, contact owner, attempt, receipt | `propose`, `apply_transition`, `plan` | engine, physics |
| Fleet, executor (`fleet.py`, `fleet_runtime.py`) | snapshots: online arms, leases, reserved spaces; the clock | `reserve`, `release`, `with_online`, `invalidate_resources`, `reallocate`; `execute` | scheduled planner, physical backend |
| Humanoid (`humanoid_g1.py`) | the intent, the policy's target, the torques; online or not | `set_velocity`, `stop`, `set_online`, `step` | a pretrained policy, physics |
| Fleet backend (`intel_fleet.py`) | one physics world for all arms, the fault latch | `prepare_run`, `execute_wave`, `report_fault` | executor, observers' threads |
| Skills (`skills/`) | registry with stages, the call under way | `register`, `promote`, `select`, `step` | controllers, engine |
| Residency slider (`residency.py`) | tier, envelope, log | `update_envelope`, `admit_task`, `evict_reasoner`, `restore_reasoner` | reasoner |
| Cameras (`vision.py`, `yolo_perception.py`, `frame_observer.py`) | tracks with names and misses | detect, fuse, `Tracker.update`, `observe` | engine |
| World memory, reactor (`ontology.py`, `reactor.py`) | entities with votes, sources and age; blocked or not | `ingest`, `observe`, HALT and RESUME | engine's constraint queue |
| Speech (`voice.py`, `language.py`, `nlu.py`, `integrations/speechmatics`) | fragment buffer, held utterances, sequence numbers, registry of speakers, arbiter, replies | fragments, partials, ticks, end of line; `ingest_final` | engine, dialogue, loudspeaker |
| Expressive motion (`expressive.py`) | the window granted | `generate_expression_plan`, `to_steps`, `validate_*` | scheduler, engine, world |
| Profiles (`profiles.py`) | the diff before a run | `run` | engine, recorder |
| Event bus, sessions, server, browser (`events.py`, `sessions.py`, `server.py`, `ui/app.js`) | numbers and parents; status, receipt, error; a cursor per stream | `publish`; `create`, `start`, `add_constraint`, `summary`; `GET /events`, reconnect | everything publishes |
| Ledger (`evidence.py`) | receipts, authorizations and manifest on disk; last hash in memory | open, `authorize`, `record` | engine |
| Evidence bundle (`evidence_bundle.py`) | a run's directory: manifest, artifacts, checksums | `write_run`, `validate_evidence_bundle` | residency receipts, disk |
| Dataset builders (`perception/*haul*`, `merge_*`, `pseudo_label`, `build_*`) | files, hard links, labels, manifests | each is run, killed, run again | network, disk |
| Packed training (`packed_optimizer.py`, `packed_compute.py`, `finetune.py`, `package_quant_weights.py`, `lowbit/`) | payload and scales, view, momentum, FP4 copies, checkpoint | update, save, resume, package | perception |

What is hard in it:

- `run()` holds no lock. Constraints and faults are appended by HTTP and voice
  threads between any two of its statements, parts are nudged between the
  snapshot a step is authorized in and the transition it causes, devices and
  capabilities come and go.
- Every failure recompiles, and what was authorized, executed or escalated for
  an earlier graph must neither count for the next one nor be undone by it.
- Plans are rewritten several times over: a model's lines are completed and
  reordered, an operator's spins and nudges rewire what others wired, a scheduler
  puts the steps into waves that the engine does not know of.
- Two arms' threads share one simulation; one may miss, freeze or be withdrawn
  while the other waits at a barrier. A fleet's arms share one physics loop, and
  any thread may report a fault between two of its statements.
- What is heard is cut into fragments, held, joined, corrected and interrupted by
  other speakers, while the world it speaks of moves on.
- What is seen is fused from cameras and detectors that disagree, and remembered
  for a while; a thing's name is what the plan refers to.
- The ledger's, the builders' and the trainer's promises hold on disk, across
  crashes between their writes, and everything may be run a second time.
- Fleet leases are kept in snapshots that several holders share, and a schedule
  can end in five ways, one of them a reallocation in mid-wave.
- A session is created, filled and started by one request while others add to it
  or ask about it and its worker writes what they read.
- The event bus is written by several threads without a lock, the SSE handler
  polls log and status one after the other, connections break.

What makes each component correct:

- engine: no effect without an authorization of exactly this step in exactly
  this world; HOLD is final; a step only from a graph compiled under everything
  known; every run ends; a report claims what the run earned; no constraint is lost;
- schedules: waves without conflicts, in the plan's order, one object per hand,
  every step executed;
- plans: a graph that can be walked, what is held is put down first;
- worlds: what the world claims is what physics did; every object is tried;
- fleet: exclusive leases and spaces, spaces backed by leases, nothing left
  behind, nobody else's lease taken; a fault stops every arm;
- skills and memory: within their bounds whatever is proposed or reported;
- people: nothing moves while a person is near; words arrive whole and in order,
  under the authority of who spoke them, about things that are there;
- names stay with their things;
- ledger: one chain, always verifiable, acts authorized on disk first;
- session: a run under everything its request asked for; a valid chain of events,
  delivered gaplessly; an end that is told, and told truly;
- humanoid: offline it drives nothing, online its legs alone, to what is asked of it;
- datasets: whole, distinct, labelled images; sources untouched; weights: every
  representation says what the packed master says.

`PROJECT.json` lists the hazards line by line, with the properties for each.

## The modules

### The engine and its planners

`World` - the authoritative world, the constraints it carries, and the router.
Pure operators named after their methods: `ApplyTransition` is what
`MockWorld.apply_transition` does, `Accepts` its checks (the optimistic
revision check and who holds the object), `Forbidden`, `LocalOnly` the effective
world of `OmniQ._effective_world`, `Route` the router. Payloads are reduced to
what somebody decides on: an object's zone, its holder, a constraint's kind and
value.

`OmniQEngine` - `OmniQ.run` and its entry points. One action per stretch of
`run()` between two points where another actor's change can be seen: `ApplyOne`,
`StopIterating`, `ClearQueue` are the loop over the queued constraints and its
`clear()`; `NoFault`, `RejectFault`, `FaultHolds`, `FaultReplans` the fleet
faults; `Reroute`, `Authorize`, `Deny`, `Note` the choice of a step up to its
authorization; `Effect`, `NoEffect` the manipulator and the transition;
`VerifyOk`, `VerifyMismatch`, `Recover` what follows. `pc` names the stretch.
Operators (`QueueConstraint`, `ReportFault`) and surroundings (`Perturb`,
`ToggleDevice`, `LoseCapability`) act between any two of them. The planner is a
constant operator from snapshots to the sets of graphs it may return, so that
the same engine is checked with the real rule planner and with one that cannot
be trusted. `audit` records what the properties ask about: how many constraints
the run's identity named, under how many and under which lost arms the graph was
compiled, and whether its workspace check succeeded.

`RulePlanner` - `RulePlanner.plan`/`replan` and `ScheduledPlanner` around it, as
functions of the snapshot, used with one object to move (the order that waves put
between the chains of several objects is `Scheduler`'s subject).

`MissionProfile` - a run for an event profile: where `ProfileWorld` puts things at
first (every fifth placement set), the diff of the table before and after it with
its metric gaps, and the report its receipt seals, with the run's revisions and
failed actions, while people touch the table. `LoadProfile` takes the first diff,
`Seal` the last one.

`Scheduler` - `schedule()`: chains get their arms, steps fill waves subject to
holds, regions, two-arm conflicts and the fleet's reservations, a step is forced
when none fits, flourishes fill the slack; `annotate()`; and the walk of the
annotated graph by an engine that looks at dependencies alone. A wave is a set of
placed steps, the steps that may be taken next are a set, and each of `Place`'s
cases has the code's condition as its guard; what runs when within a wave is left
open, as the parallel engine may choose.

`GraphRewrite`, `OmniPlanner`, `PlannedRun` - the rewrites of a step graph
(`Optimize`, `SpinObject`, `NudgeObject`); a model's lines validated one by one,
given arms, completed, with held objects first, linked into a chain; and a run
over such graphs with refusals, failures and replans. What the model writes is
every text of at most two lines of an alphabet.

`ExpressiveMotion` - the window an operator grants, what is proposed inside it,
its place beside the task's waves, the engine's authorization of an expressive
step and the world's own check.

### The worlds

`TableWorld`, `TableRun` - the table world's claims (zone, owner) beside its
physics (jaws, spots), primitive by primitive and phase by phase, with the
snapshot a failed primitive restores; the barrier at which two threads step one
simulation, as operators on a record; and the planner and the engine's
parallel path over them, with an arm withdrawn by the operator or frozen.

`ContactHandoff` - one cup handed from arm to arm by contact: the controller's
phases with their recoveries, contact ownership, the receipt and what the world
admits, under the engine's loop.

`SharedArms` - the fleet's physical backend: one loop drives all arms, a fault
latch that any thread may trip between two of its statements.

`Humanoid` - the G1 provider: what it demands of a checkout, its configuration and
its MJCF before it is built (`Build`, `Sound`), the velocity it takes, refuses or
clips (`SetVelocity`), the policy's turn every `control_decimation` physics steps
(`PolicyUpdate`, `PhysicsStep`), and what remains when it is taken offline between
two of them (`SetOnline`). A leg's target is the velocity the policy was shown
when it made it.

`SkillRuntime` - promotion of skills on evidence, and one step of a skill from
observation to application while the world moves on. `Residency` - the memory
slider with hysteresis, eviction and restore.

### The fleet

`Fleet`, `FleetExecutor` - a fleet snapshot as pure operators named after the
methods, and its life: the holder's calls, `reallocate` lease by lease
(`Replace`, `LeaveUnresolved`), and `FleetExecutor.execute` wave by wave. Methods
return new snapshots, so a call that raises leaves the old one: `fleet` is the
snapshot between calls, `working` the one the call has come to. The order in
which invalidated leases are taken and ties between candidates are left open.
A command's lease is named after its step alone (the code adds run and wave):
leases of a wave are given back before the next one starts, so names do not
meet.

### Seeing and hearing

`CameraObserver` - suppression of overlapping boxes, fusion of cameras, the
tracker's two passes and its ageing, `FrameObserver.observe`. `Ontology`,
`Reactor` - claims of several detectors reconciled into entities with votes and a
memory; the conflict between a person and an arm, HALT and RESUME through the
engine's queue, and the wait graph. Positions are cells of a line, distances stand
for the code's overlap and gates.

`VoicePipeline` - provider messages through the mapper's numbering, the
aggregator, the accumulator and the runtime to claims, and replies played by
another thread. `VoiceGrounding` - who speaks, under which authority, correcting
what, and which thing is meant in a moving world. Both work on phrases of small
alphabets and share the accumulator, seen once from the words' side and once
from the meaning's.

### What is kept

`SessionStream` - one UI session from bus to browser. `Number`, `AppendEvent`,
`LinkEvent` are the steps of `EventBus.publish` between which another thread may
run; `Read`, `Send`, `Poll` the SSE handler; `Receive`, `Break`, `Reconnect` the
browser, which resumes from the last id it received (EventSource) or the last
event it accepted (its own button). Constraints come while the session is queued
and while it runs, as `sessions.py:99` takes them, so the worker and a request's
thread publish in the middle of one another. `crossed` is a history variable:
how long the log was when that first began.

`SessionServer` - the other requests on sessions, each in the steps between which
another thread may come: `CreateSession`, `AddNext` for one constraint of the body
after the other, `StartSession`; `PostConstraint`; a summary's three reads
(`SeeReceipt`, `SeeStatus`, `SeeError`); and the worker from the run's name to the
receipt, the status, the error. `EngineFor` is the engine a session gets in the
environment the server was started in.

`HashChain`, `EvidenceLedger` - what a manifest promises, as a specification of
its own: a log that only grows, each run once, each naming the hash before it;
and the ledger with its files, its memory, failing writes and crashes, which
implements it (`ChainSpec`). A content hash covers everything it is computed
from, so it is modelled by the sequence of runs below it.

`EvidenceBundle` - `write_run` from the look at the directory to the checksums,
file by file, several callers and kills between any two; and what
`validate_evidence_bundle` accepts.

`DatasetBuilds` - the five dataset builders on one disk, file by file where a
crash can come between, with `.part` files, archives, hard links and manifests.

`PackedTraining` - the MXFP8 and MXFP4 formats as the codec, the
optimizer, the packed convolution, the packager and the loader each compute
them, and the life of a packed master over updates, saves, kills, resumes and
packages. A weight is an integer in units of the smallest magnitude. What the
library around the trainer does is external (ultralytics 8.3, by
`src/perception/requirements.txt`): it averages the floating-point parameters and
saves that average in half precision (`Follow`, `Half`); `package_quant_weights`
reads "model", which the trainer's own file leaves empty, so what is packaged
is what `strip_optimizer` makes of it, as the released weights are.

The `MC` modules give the constants their values. `EngineProofs`, `LedgerProofs`,
`FleetProofs`, `ServiceProofs`, `HumanProofs`, `ThreadProofs` and `TableProofs` hold the
theorems, `SequenceLemmas` what several of them need to know of sequences.

Parts that share no state are checked in one run, side by side: `MCStreams` and
`MCServices` add a variable `component`, chosen once; a behaviour is one of its
component's, and every other component stays in one fixed state (in `MCStreams`,
that of a scheduler that has scheduled the empty plan, `NoJob`). The
number of states is the sum of the parts', nothing is multiplied, and a property
of a part is checked in exactly the behaviours that part has. Parts do not
meet there; where they do in the code (engine and world, scheduler and engine,
planner, world and engine, ontology and engine, fleet and executor, accumulator
and runtime) they are composed in one module.

## The runs

| Run | Question | Bounds |
|---|---|---|
| `engine_rule` | Does a run for a profile end, verified or in HOLD, under all its constraints, with a report it earned? | two parts, one misplaced; three zones, two seats; two arms, a camera; one constraint, one nudge, one device or capability change, three of these in all; two revisions |
| `engine_hostile` | What does the engine allow a planner that ignores constraints, names unbacked objects or wrong devices, with faults repeated or from elsewhere? | two objects, one without live backing; six graphs; two missions; one constraint, two faults, one nudge, one device or capability change, three of these in all; no revision budget |
| `constraint_lost`* | Is every constraint applied or still queued? | one part, two constraints |
| `table` | Is what the world claims so, does physics wait for both threads, is everything tried, does the run end? | a two-arm plate, a cup, a fork in a drawer; two tries per pick, four revisions, one arm withdrawn or frozen |
| `withdrawn_arm`* | Is a two-arm plan given up with one of its arms? | as `table` |
| `streams` | What browser, listeners, cameras, the fleet's holders and the walk of a plan rely on | see below |
| `publishers_cross`* | Is the log of a session always a valid chain? | as the session in `streams` |
| `services` | What the fourteen parts around the engine promise | see below |
| `stale_reference`* | Is a reference acted on always to the world as it is? | two voices, three utterances, one move |
| `voice_stop_held`* | Is a safety word never held? | three fragments, a Spanish stop among them |
| `sources_overwritten`* | Are sources never written over? | as the builders in `services`, `oi` and `pseudo_label` only, the latter into a directory it has filled before |
| `rewrite_breaks_run`* | Can a rewrite break a run? | as planning in `services`, an object named twice |

Runs with * are expected to violate their property: they show where the code
does something else than its documentation, comments or tests say.

- `publishers_cross`: a constraint comes while the run publishes. `publish` has no
  lock, so two events name the same parent, or stand in the log out of order, and
  the stream guard rejects one of them, and what names it as its parent.
- `constraint_lost`: `add_constraint` from another thread between the end of
  `_apply_constraints`' loop and its `clear()` is dropped silently.
- `withdrawn_arm`: a two-arm step names the left arm alone, so withdrawing the
  right arm leaves it in the plan.
- `stale_reference`: a held instruction is completed with the world that came
  with its first half, whose lag is 0 by construction.
- `voice_stop_held`: the held text and the new fragment are canonicalized
  together, and a foreign stop is known by the whole utterance only.
- `sources_overwritten`: a rerun's hard link fails on an existing name, and the
  copy that follows writes through the old link into the downloaded image.
- `rewrite_breaks_run`: a second nudge of an object (or a spin and a nudge) makes
  the graph circular; the guard holds what `apply` raises, not what it returns.

What `streams` looks at:

| Part | Properties | Bounds |
|---|---|---|
| session | `BrowserFollows`, `StreamCloses` | one event of the loop, one constraint, before the start or at any moment of the run, two broken connections |
| voice | `SpeechIntact`, `SpeechSettles` | three fragments of eight, partials, silences, all ends of a line |
| cameras | `NamesStay` | two forks, two views, two ghosts, three frames |
| fleet | `SnapshotsSound`, `NothingLeaks`, `WaveIsExclusive`, `OthersKeepLeases`, `GivesUpOnlyWhenForced` | three arms, two regions, another holder with four possible leases, three schedules, one fault, seven calls |
| schedule | `WavesSound`, `OneObjectPerArm`, `PlanIsExecuted` | two objects with chains of six kinds, two arms or a fleet of three with units and regions, flourishes, freezes, expressive groups; single graphs with crossing grips, braces, a wave of flourishes before a look, a hand-over to a full hand, an arm that had something all along, a move before its pick |

`BrowserFollows` is about two different moments. Up to the first overlap of two
publications the log is a valid chain. And whatever was published how, as far as
the log is a valid chain the browser has its beginning, gapless and nothing twice,
over every way connections break and are resumed. That the log stays a valid chain
is not true of this code, and `publishers_cross` shows it.

What `services` looks at:

| Part | Property | Bounds |
|---|---|---|
| contact handoff | `AdmittedIsThere` | two runs, two revisions, every slip in every phase |
| skills | `StaysInWorkspace` | three cells, two skills, a proposal each way, scaled or not, one world revision in between |
| residency | `SliderAccounted` | three tiers of 6, 4, 2; envelopes 0 to 6; hysteresis 1; five changes |
| reactor and memory | `HeldForHuman` | three cells, a hand, four observations, two revisions |
| ledger | `LedgerHolds`, `ChainSpec` | three missions, four starts, two steps, two crashes |
| dataset builders | `DatasetsSound`, `NothingOverwritten` | one to three images per source with chains of near duplicates; three runs, one kill; the output of `pseudo_label` new each time |
| planning | `GraphWalks`, `HeldGoesFirst` | three objects, texts of two lines of ten, two requests about different objects, two revisions |
| packed training | `MasterRules` | a convolution of two blocks and a bias, two updates with two gradients, saves, resumes, runs begun with a checkpoint, one package |
| shared arms | `FaultStopsArms` | two arms and a third, three waves, three ticks, any number of reports |
| expressive motion | `BesideTheTask` | eight windows, three tasks, three revisions, two disturbances |
| grounding | `TakenAsMeant` | two voices, three utterances of twelve, two worlds and a third of another organization, one move |
| evidence bundles | `BundleSound` | two calls for one directory, three lists of artifacts, one log entry, one accident |
| humanoid | `HumanoidObeys` | artifacts that are sound and with one defect each; two legs and actuators of others; intents within the bounds, beyond them and no numbers; seven physics steps |
| session server | `ServedTruly` | two handlers, two sessions, five environments, five bodies, two requests |

Why the bounds are enough. A hazard needs one disturbance at the wrong
moment, at most two that meet (a constraint and a nudge, a fault and its
duplicate, a kill and a rerun); the runs have each kind, at every moment. Two runs
of one engine are what state carried from run to run needs. Two objects
distinguish "the step's object" from "another", a third is needed only where two
rewrites meet one that is forbidden. In the ledger two crashes allow a crash while
recovering from the first, four starts of three missions a repeated mission and a
new one after it. In the fleet seven calls allow two bookings, a schedule, a
fault, a repeated fault and another schedule, and three arms a pair with a spare.
For cameras, three frames let a thing be seen, hidden and seen again; things of a
class keep `KeptApart` = `Gate + (MaxMisses + 1) * Stride + 1` cells from each
other, and one cell less lets names change. Weights reach from below the
smallest scale to the largest one; blocks include a short one. Every property has
a mutant of the code that breaks it within these bounds; the comments `Mutant:` in
the modules say which plausible mistake it is.

Deadlock is not checked: a finished run waits for somebody to start another,
and the bounds stop the surroundings. That a run, a table run, a schedule, a
stream or an utterance does not hang is stated as liveness instead.

Fairness. Safety needs none. `MissionProfile` and `TableRun` assume weak fairness
of the engine's own actions (`MissionEngine`, `Engine`): `run()` is a
thread that waits for nobody, and nobody is assumed to start a run, queue a
constraint or nudge anything. `TableRun` assumes it of `Move` as well: the
simulation goes on with some primitive that can. `Scheduler` is one thread after
another, so weak fairness of `ScheduleNext`, until it has raised or nothing is
left that could be started. `MCStreams` assumes weak fairness of
publishing, of the session's worker, of the handler and of the browser (which
reads, and which EventSource makes reconnect), and in speech of the ticker, which
runs every 100 ms while the line is up, and of the drain after its end, unless the
socket breaks. Speech and schedules are written with the guards of their actions in
place of `ENABLED`.

## What is proved

For every set of objects, zones, arms, devices, missions, tiers, skills,
proposals, labels, every envelope, every bound and every planner whose graphs are
sequences of steps:

| Theorem | Says |
|---|---|
| `EngineProofs!TypeCorrect` | `Spec => []TypeOK` |
| `EngineProofs!ModeMonotone` | `Spec => ModeNeverRelaxes` |
| `EngineProofs!HoldFinal` | `Spec => HoldIsFinal` |
| `EngineProofs!EffectsGoverned` | `Spec => GovernedEffect` |
| `EngineProofs!GraphStaysCurrent` | `Spec => []GraphCurrent` |
| `EngineProofs!IdentityBounded` | `Spec => []IdentityBoundsAuthority` |
| `EngineProofs!ReportsEarned` | `CheckedPlans => (MissionSpec => []ReportEarned)` |
| `EngineProofs!RulePlannerChecks` | the rule planner's graphs, scheduled or not, are what `CheckedPlans` asks for |
| `EngineProofs!RuleReportsEarned` | hence `MissionSpec => []ReportEarned` with the rule planner |
| `LedgerProofs!TypeCorrect` | `Spec => []TypeOK` |
| `LedgerProofs!LedgerSound` | `Spec => []LedgerVerifies` |
| `LedgerProofs!ActsAuthorized` | `Spec => []ActedWasAuthorized` |
| `LedgerProofs!LedgerStaysTrue` | `Spec => []LedgerHolds`, the two together |
| `LedgerProofs!ReceiptsFinal` | `Spec => EvidenceNeverReplaced` |
| `LedgerProofs!ImplementsChain` | `Spec => ChainSpec` |
| `LedgerProofs!BundlesSound` | `BundleSpec => []BundleSound` |
| `FleetProofs!TypeCorrect` | `Spec => []TypeOK` |
| `FleetProofs!AlwaysExclusive` | `Spec => []SnapshotsExclusive` |
| `FleetProofs!AlwaysBacked` | `Spec => []SpacesBacked` |
| `FleetProofs!AlwaysOnline` | `Spec => []LeasesOnline` |
| `FleetProofs!SnapshotsStaySound` | `Spec => []SnapshotsSound`, the three together |
| `FleetProofs!NeverLeaks` | `Spec => []NothingLeaks` |
| `FleetProofs!OthersKeep` | `Spec => OthersKeepLeases` |
| `FleetProofs!AlwaysApart` | `Spec => []WaveIsExclusive` |
| `FleetProofs!NeverGivesUpEarly` | `Spec => GivesUpOnlyWhenForced` |
| `ServiceProofs!FaultsStopArms` | `SharedArmsSpec => []FaultStopsArms` |
| `ServiceProofs!WorkspaceKept` | `SkillSpec => []StaysInWorkspace` |
| `ServiceProofs!HandedOverIsThere` | `HandoffSpec => []AdmittedIsThere` |
| `ServiceProofs!ResidentFits` | `ResidencySpec => []SliderAccounted` |
| `ServiceProofs!HumanoidStaysSafe` | `HumanoidSpec => []HumanoidSafe` |
| `ServiceProofs!IntentReachesLegs` | `HumanoidSpec => []IntentTakesHold` |
| `ServiceProofs!HumanoidStaysObedient` | `HumanoidSpec => []HumanoidObeys`, the two together |
| `ServiceProofs!SessionsRunAsPosted` | `ServerSpec => []RunsAsPosted` |
| `ServiceProofs!FinishedHasReceipt` | `ServerSpec => []ToldTruly` |
| `ServiceProofs!ServedAsAsked` | `ServerSpec => []ServedTruly`, the two together |
| `ServiceProofs!MotionStaysBeside` | `ExpressiveSpec => []BesideTheTask` |
| `HumanProofs!WavesStaySound` | `ScheduleSpec => []WavesSound` |
| `HumanProofs!OneAtATime` | `ScheduleSpec => []OneObjectPerArm` |
| `HumanProofs!HumanKeepsObject` | `ReactorSpec => HeldForHuman`, with an engine given |
| `HumanProofs!MeantIsTaken` | `GroundingSpec => []TakenAsMeant` |
| `ThreadProofs!WholeStreams` | `SessionSpec => []BrowserFollows` |
| `ThreadProofs!SpeechStaysIntact` | `VoiceSpec => []SpeechIntact` |
| `TableProofs!GripHolds` | `~RealDrawers => (Spec => []GripMatchesClaim)` |
| `TableProofs!BarrierHolds` | `Spec => []StepWaitsForAll` |

They rest on the assumptions named in the modules: `WorldAssumption`,
`EngineAssumption`, `PlannerAssumption` (a planner returns at least one graph,
made of steps), `LedgerAssumption`, `FleetAssumption`, `ExecutorAssumption`,
`SharedArmsAssumption`, `TableAssumption` (two arms, an order that lists every
object, no object that is a drawer), `SkillAssumption`, `HandoffAssumption`,
`ResidencyAssumption`, `OntologyAssumption`, `ReactorAssumption`, `PlannerConstants`,
`ProfileAssumption` (an object id belongs to one placement, being made of class
and seat), `BundleAssumption`, `GroundingAssumption`, `SessionAssumption`,
`VoiceAssumption`, `HumanoidAssumption`, `ServerAssumption`,
`ExpressiveAssumption` (a window lists its arms once), `SchedulerAssumption` (a
graph's step ids differ, the arms are listed once); TLC evaluates each of them in a run.

Three theorems have a hypothesis of their own. `CheckedPlans` says of a planner
that its graphs end with their only check and let nothing wait for what comes
later; `RulePlannerChecks` shows that the rule planner's are such. With
`EngineGiven` the reactive observer has an engine to tell. `~RealDrawers` says that drawers are written
open, the default: the arm that really pulls one opens its jaws first, whatever it
holds.

The engine. Types come first: a lemma for each operator of `World` that a
well-typed world stays one, then one step per action. `HoldInv` says that in
HOLD no step is in hand, which holds because a step is chosen only in another
mode and every escalation to HOLD leaves the step behind. `FlightInv` ties the
step in hand to its receipt: while `pc` is at the effect, the receipt names the
step and the revision it was authorized in, and if the world is still at that
revision the step is permitted in it. That conditional is the heart of
`EffectsGoverned`: the world may have moved on, but then its revision has, and
`Accepts` refuses. `GraphInv` strengthens `GraphCurrent` over the control points
at which constraints have been applied and the graph is about to be compiled.
`IdentityInv` adds what the queue owes the identity: until the constraints of the
start are applied, those in the world and those still to be taken from the queue
are at least as many as it names (`Covered`); afterwards the world's alone are,
and they never become fewer.

Reports. `WalkInv` follows the graph of a run: once its check was executed all of it
was, the engine believes the goal only then, and while nobody has nudged
anything what it believes is true of the table.
`MissionInv` explains every placement put right since the mission's first look by
something the run carried or somebody nudged; that the count of corrected
placements is then bounded needs that no two placements share an object. The
rule planner's graph is a join of one chain per object (`ChainBacks`: a chain
waits only for itself) with the check behind them; `FlattenPlaces` says where in
the join a step of a chain lies, so what `CheckedPlans` asks holds (`PlanChecked`),
and giving arms to steps does not change it (`AnnotatedChecked`).

The ledger. `IInv == TypeOK /\ LinesInv /\ MemoryInv /\ ActsInv`. The property
`LedgerVerifies` is about the disk alone and not inductive: that the next line
fits depends on the memory. `MemoryInv` says what `_last_hash` is at each point of
`record`: the hash of the last line, except between the append and the
assignment, where it is the one before; and that a receipt about to be linked
names it as parent. `LinesInv` is the chain, `ActsInv` bounds acts by
authorizations, one less while an authorized act is still to come. `ChainStep`
maps `AppendManifest` to `Extend` and everything else to a stutter.

Bundles. `BundleInv`: no two calls got past the look at one directory; a writer
still at work finds in its own exactly what it has written so far, whole; and
whoever wrote checksums took them from whole files of its own, under a manifest
that lists what it was called with, so touching or killing leaves sums that no
longer fit.

The fleet. `Sound(f)` is what every snapshot promises: exclusive, backed, on
arms that are online. A lemma for each operation (`ReserveSound`,
`WithoutSound`, `SetOnlineSound`, `InvalidateExact`, `DegradedSound`) says that
it keeps a snapshot sound, so the theorems hold for the snapshots in the middle of
a call as well. `HeldInv` says that a lease in hand belongs to another holder or
is in `taken`, and so is every invalidated lease still to be replaced: a
replacement inherits the owner, and `Replace` adds it to `taken` exactly when the
old lease was there. That is what `NeverLeaks` needs, spaces following because
leases back them. `KeptInv` is the other direction: a lease the call found is
still there and not in `taken`, or an arm of it went down; it survives because
`Fleet!Free` refuses a name in use. `WaveInv` says what of a wave has been reserved, by
position: with every command's lease in one exclusive snapshot under different
owners, `AlwaysApart` follows. `OwedInv` is for `NeverGivesUpEarly`: between the leases of
one fault the snapshot changes, so the spaces a lease asks for are those of the
snapshot the fault was reported on, and every lease still to be replaced keeps
them until its turn; then `Candidates` looked at all that was free.

The parts around the engine (`ServiceProofs`). `ArmsInv`: if the physics made a
step after a fault came, the fault is still there and the loop is not about to
drive again; the next check trips the latch. `CallInv`: what a skill call
observed is where the arm is for as long as the call goes on, because one call
runs at a time and only its application moves the arm; so the supervisor's check
of the observed position is one of the real position, and moving part of the way
stays between two points of the workspace. `HandoffInv`: the cup
stands at the right from the retreat on, and the manipulator is used once, so
no later phase touches it. `HumanoidInv`: the torques are the policy's last
target on the legs' own actuators, both the target and what is asked are within
the bounds, and where they differ what is asked is younger than the policy's last
turn (`Young`), so it has been shown to it after a period. `ServerInv`: while a
body's constraints are being added nobody has started the session, and what was
asked for is in the queue, in the run's name or still to be added (`AddsAll`), so
it is in the name once the worker has made it, and a body with a refused constraint
never gets a worker. What a summary has read so far is true of its session
(`Honest`) because receipt and status are never taken back. `ExpressiveInv`: a
graph is planned with expressive steps only while its window is ahead of nothing,
and once the task has moved the world past it no later graph has any: so one graph
at the most is lost. `SliderInv`: the resident body fits but for the
hysteresis, where the best fit exists because a set of tiers has a least one,
which is proved from the well-foundedness of finite subsets rather than by induction.

People and waves (`HumanProofs`). `WaveInv` follows `schedule` and the walk: every
step has an arm its job allows, the waves filled so far are sound in themselves,
no step is in two of them, and what has been executed was executed with all its
needs, the members of the wave before among them. From there to the order of
*all* earlier waves is a descent over the waves, done by hand. `GripInv`
adds what hands hold for plans that are `Orderly`: the steps of one object go to
one arm, each placed step is done and the other way round, an arm whose `armHold`
is free has put down whatever it took in the waves before (`GripsKnown`), so
between two picks of an arm lies a wave with the first one's move (`LeftBefore`);
and in the walk what is in a hand was picked by it and not put down
(`HandsKnown`). Two things in a hand would be picked in two waves, with a move
between them that the order of waves has already executed. `HumanInv`: while a conflict is on and nothing is queued,
what is left of the graph neither picks nor moves; a conflict seen queues a
recompilation, which the loop takes before the next step, and the graph planned
while blocked is the wait graph. It needs `EngineGiven`: without an engine the
observer's HALT recompiles nothing. `GroundingInv` says that the
arbiter's latest intent of a voice is that voice's last one but for stops, and that
what is held is one voice's words with the scene of the first of them: what is
joined later is resolved in that scene, so `TakenAsMeant` holds for completed
instructions too.

Threads and streams (`ThreadProofs`). `StreamInv` keeps two facts apart. `BusInv`:
as long as no two publications have overlapped, at most one thread is in the
middle of one, and what it took, number and parent, fits the log; from the first
overlap on nothing is claimed but the part of the log from before. `Followed`: let
`n` be how far the log is a valid chain (`Sound`: the next event, if any, does not
fit); the events of the browser, the wire and the handler up to `n` are
neighbouring stretches of the log. Behind `n` they may be anything, so the
claim is only kept `OnTrack`, until the browser has all of the first `n`: an event
from behind `n` can neither be taken for one of them nor, as it does not link to
the last of them, be accepted in their place. Appending moves `n` by one if it stood at
the end of the log and the event fits, and leaves it alone otherwise.
`SpeechInv` relates the layers: claims, hold and buffer, in this order, spell what
was heard, each fragment in one place, a buffer is one speaker's, and a claim's
text, cut and canonicalized, still echoes the words it came from (`Echo`: a stop
at the end stays there, an order does not appear; by induction over the
fragments).

The table (`TableProofs`). `GripMatchesClaim` is far from inductive: a claim is made
before the primitive runs, a pair's after, and a bimanual pick opens both hands.
`GInv` is what keeps them together. Of the graph (`Arranged`, `Suits`, proved of
every plan by `PlanSuits`, which needs the sorted order to list each object once):
a step comes after what it waits for, and each pick is followed by its move. While
it is carried out (`Fits`, `Placing`, `Placed`): a pick that is left is of an
object nobody holds, a move that is left of one somebody holds or will. Of claims
(`Owners`): an arm holds one object, by default its own. `InOrder` is the heart: as
long as a two-arm object is to be placed, one step runs at a time and what an arm
holds is moved next, because a pair is only made when no two-arm step is left and
the pick and move of an object are neighbours; so nothing else is in a hand when
both are opened. `Match` and `Hand` relate jaws to claims, object by object, for
what is at rest and for what is moving; `PrimitivesAct` sums up each primitive in
one fact (only its own object leaves a jaw, or what its arm does not claim). `GripInv` supposes,
as `GripMatchesClaim` does, that an arm left alone by a withdrawal is not a two-arm
object's own (`Safe`); the run `withdrawn_arm` shows what happens then. `BarInv`:
the arms moving and parked are at most those the barrier counts as active, and
nobody was left behind when the physics stepped; it survives every step of a
transition because only `Step` lets physics go on, and only when all the active
are parked.

Only model-checked: liveness (`RunTerminates`, `PlanIsExecuted`, `TableRunEnds`,
`StreamCloses`, `SpeechSettles`), which is out of the prover's reach; and, of
safety, `EveryoneTried`, `NamesStay`, `GraphWalks`,
`HeldGoesFirst`, `DatasetsSound`, `NothingOverwritten`, `MasterRules`. The last one computes powers of two
by folds and rounds between them; names stay only while the table's things are far
enough apart for the frames that are looked at; the others fold over sequences,
sort sets and select from sequences: the library's
induction theorems take an operator, so induction over a sequence is done by hand,
over the set of lengths for which a fact fails (`SequenceLemmas!LeastOf`,
`Induction`), and `SelectSeq` cannot be expanded by the prover at all.

## What is not modelled

Parts left out: provenance and the layout evaluator (pure functions); skill controllers and verification numerics; the action
ontology's tables; training scripts and demos other than the packed optimizer and
the dataset builders; the perception broker; inference, projection, trajectories,
joint servos, OpenGL; the language model, the reasoner and their providers; audio
and response synthesis; the turn manager's endpoint (nothing reads it).

Inside modelled parts:

- Engine: residency-driven recompilation. Several sessions: they share a
  dictionary the manager's lock guards.
- Scheduler: the `participants` argument, metrics and remarks, capability
  declarations. It starts with no arm holding anything, as `schedule()` does;
  `OneObjectPerArm` therefore asks for empty hands. It also asks that the plan is
  orderly (a thing is picked once, put down once, and what is done with it in hand
  waits for what was done before), that nothing is handed over (the receiver's
  hand is not looked at), that no step was forced (a forced step ignores the
  conflict) and that no wave is one of flourishes alone: in each of these cases
  TLC finds two things in a hand.
- Waves of flourishes alone: `annotate` writes dependencies from each wave to the
  next and not from flourishes, so behind such a wave a step waits for nothing of
  the waves before, and a check that depends on one object only may come before
  another object's pick. `scheduler.py:180` and `docs/scheduler.md:28` say the
  engine executes the waves in order; `WavesSound` claims it where there is no
  such wave (TLC refutes `WavesInOrder` alone).
- Table world: `_do_pick_edge`, flourishes; `GripMatchesClaim` is for drawers that
  are written open, the default: with simulated drawers a replanned leading OPEN
  drops what the arm holds. `fail_arm` during a two-arm step is undone when the
  step restores its simulator.
- `intel_sim.py` has an identifier that is not one Python would find
  (`LEGACY_MAX_SETTLE_private transport prototype_M`, twice); it is read as the
  constant meant.
- Ledger and builders: writes that fail after their data is visible, or that a
  crash leaves partial other than the manifest's last line and an archive's
  member; directory entries lost after `os.replace`.
- Codecs: NaN, infinities, signed zero (the codec and the optimizer treat them
  differently); the expansion of the detection head. After a resume the first
  batch still computes with the base's FP4 copies, which `MasterRules` excepts.
- Profiles: `human_interventions` counts actions of a kind nothing appends, so it
  is always 0, and what people put right counts as corrected by the run;
  `ReportEarned` allows for it.
- Expressive steps: a window is valid at its base revision only, so none placed
  after the first transition is ever authorized: it is denied, and the denial
  costs the task a revision and its schedule, though `scheduler.py:217` calls the
  work non-blocking. `BesideTheTask` shows that it costs a run at most one graph;
  TLC finds runs it costs one (`lost = 0` fails).
- Event bus: subscribers; numbering an event and reading its parent is one step
  (the interpreter changes threads at the calls behind it).
- Training: the library's averaging is a step of half the way for any decay, and a
  number in half precision keeps eleven bits; rounding beyond its range is left out.
- Skills: one call at a time, as the arm's one caller makes them. A second caller
  or an operator who moves the arm between the observation and the application
  would have the workspace checked for where the arm was; nothing in the
  repository is one.
- Engine, repeated faults: that a duplicate is refused without a second
  recompilation or HOLD is one guard in `_apply_pending_fleet_fault`, translated and
  not claimed by a property.
- Sessions: `_run` writes the status `failed` before the error, without a lock, so
  a summary may tell of a failure without its error (`sessions.py:137` calls it
  surfaced truthfully). `ToldTruly` is about finished sessions.
- Cameras: votes count hits, not cameras; hidden tracks vanish from the
  observation, so a check can pass without the thing.
- Grounding: one world per utterance; the recipient of an instruction ("give him"),
  which no caller passes; confidence is of the last
  fragment, as in the code; overlap, once noted, stays (nothing calls
  `finish_turn`).
- Planning: no world implements SLIDE, NUDGE or SPIN; the runs let them succeed
  or fail. `GraphWalks` passes for requests that name different objects, and the
  run `rewrite_breaks_run` shows what the others do.
- Reactor: other relation rules and the typed catalogue; a hand over an object
  that is remembered may be taken for it.

## Plan

Done: everything above. Left:

1. Proofs: the safety properties named above as only model-checked.
2. Schedules of `Scheduler` composed with `FleetExecutor` in place of the fixed
   ones: that a wave it builds can always be reserved.
3. `finetune.py`'s head expansion, the perception broker.
