------------------------------- MODULE Humanoid -------------------------------
(* The Unitree G1 as OMNI drives it (humanoid_g1.G1Provider): OMNI gives a    *)
(* bounded velocity, a pretrained policy turns it into leg targets every      *)
(* control_decimation physics steps, and a PD law turns these into torques.   *)
(* A leg's target is the velocity the policy was shown when it made it; the   *)
(* pose, the gains and the policy's net are left out.                         *)
EXTENDS Integers, Sequences, FiniteSets

CONSTANTS
  Legs,       \* G1_LEG_JOINTS, the joints the policy moves
  Artifacts,  \* what a checkout, its configuration and its MJCF may be like
  Intents,    \* velocities that may be asked for: <<forward, lateral, yaw>>
  Fastest,    \* 0.8 m/s, 0.5 m/s and 1.57 rad/s
  NoNumber,   \* what is not a finite number
  Unbound,    \* no name, no index, no torque, no provider
  MaxPhysics    \* bound: physics steps

Axes == 1..3
Velocity == [Axes -> Int]
AtRest == [i \in Axes |-> 0]

(* An artifact: the modules and files that are there, what the configuration *)
(* says, and how the MJCF numbers and wires what it names.                   *)
ASSUME HumanoidAssumption ==
  /\ Fastest \in [Axes -> Nat] /\ NoNumber \notin Int
  /\ Intents \subseteq [Axes -> Int \cup {NoNumber}]
  /\ Unbound \notin Artifacts /\ Unbound \notin Legs
  /\ Unbound \notin [leg : Legs, aim : Velocity]
  /\ \A a \in Artifacts :
       /\ a.decimation \in Int /\ a.actuators \in Nat
       /\ DOMAIN a.named \subseteq Legs /\ DOMAIN a.drives = 1..a.actuators
       /\ \A j \in DOMAIN a.named : a.named[j] \in 1..a.actuators
  /\ MaxPhysics \in Nat

VARIABLES
  g1,       \* the artifact the provider was built from
  online,   \* _online
  command,  \* the velocity asked for
  aim,      \* action and target_q: the velocity they were made for
  ticks,    \* counter: physics steps taken
  torque,   \* data.ctrl: what each actuator of the MJCF is driven to
  held      \* a history: the steps since the command last changed, or the
            \* policy last failed
humanoid == <<g1, online, command, aim, ticks, torque, held>>

(* ------------------------- what a provider demands ----------------------- *)
(* _dependency_error: nothing optional is missing.                           *)
Installed(a) == a.missing = {}

(* _resolve_config_path: a relative name is looked for in the checkout, then *)
(* where Unitree keeps its configurations, as it is when none is given.      *)
ConfigFile(a) == IF a.given = "relative" /\ "checkout" \in a.files THEN "checkout"
                 ELSE IF a.given = "absolute" THEN "absolute" ELSE "deployed"

(* _resolve_asset: a path has to be named, and a file has to be there.       *)
AssetThere(a, path) == path # Unbound /\ path \in a.files

(* _as_vector: as many values as asked, all of them finite.                  *)
IsVector(values, n) == Len(values) = n /\ \A i \in DOMAIN values : values[i] # NoNumber

(* The configuration suits the policy: as many actions as legs, and it sees  *)
(* what _policy_update shows it.                                             *)
Configured(a) ==
  /\ a.mapping /\ a.dt > 0 /\ a.decimation > 0
  /\ a.actions = Cardinality(Legs)
  /\ a.observations = 3 + 3 + 3 + 3 * a.actions + 2
  /\ \A v \in {a.kps, a.kds, a.angles} : IsVector(v, a.actions)
  /\ IsVector(a.cmdScale, 3) /\ NoNumber \notin a.scales

(* _joint_qpos_index, _joint_qvel_index: every leg is a hinge the MJCF has.  *)
JointsBound(a) == \A j \in Legs : j \in a.hinges

(* _actuator_index: an actuator with a leg's name drives that leg.           *)
ActuatorsBound(a) == \A j \in Legs : j \in DOMAIN a.named /\ a.drives[a.named[j]] = j

(* __init__, in its order; the first thing amiss is raised as a G1Error and  *)
(* there is no provider.  A floating base needs seven positions, six speeds. *)
Sound(a) ==
  /\ Installed(a)
  /\ a.root = "directory" /\ ConfigFile(a) \in a.files
  /\ AssetThere(a, a.policy) /\ AssetThere(a, a.xml)
  /\ Configured(a)
  /\ a.positions >= 7 /\ a.speeds >= 6 /\ a.actuators >= a.actions
  /\ JointsBound(a) /\ ActuatorsBound(a)
  /\ a.loads

NoTorque(a) == [i \in 1..a.actuators |-> Unbound]
Build(a) ==
  /\ g1 = Unbound /\ Sound(a)
  /\ g1' = a /\ online' = TRUE
  /\ torque' = NoTorque(a)
  /\ UNCHANGED <<command, aim, ticks, held>>

(* -------------------------- the capability boundary ---------------------- *)
Clip(x, most) == IF x > most THEN most ELSE IF x < -most THEN -most ELSE x

(* The command changes; held starts again if it is another one.              *)
Intend(velocity) ==
  /\ command' = velocity
  /\ held' = IF velocity = command THEN held ELSE 0

(* set_velocity, and march and turn, which call it: refused offline, and     *)
(* when a component is not finite.                                           *)
\* Mutant: set_velocity forgets to ask whether the provider is online.
SetVelocityAnyway(velocity) ==
  /\ g1 # Unbound /\ \A i \in Axes : velocity[i] # NoNumber
  /\ Intend([i \in Axes |-> Clip(velocity[i], Fastest[i])])
  /\ UNCHANGED <<g1, online, aim, ticks, torque>>
SetVelocity(velocity) ==
  /\ g1 # Unbound /\ online /\ \A i \in Axes : velocity[i] # NoNumber
  /\ Intend([i \in Axes |-> Clip(velocity[i], Fastest[i])])
  /\ UNCHANGED <<g1, online, aim, ticks, torque>>

StopMoving ==
  /\ g1 # Unbound
  /\ Intend(AtRest)
  /\ UNCHANGED <<g1, online, aim, ticks, torque>>

(* data.ctrl at the policy's actuators.                                      *)
OfLegs(a) == {a.named[j] : j \in Legs}
Released == [i \in DOMAIN torque |-> IF i \in OfLegs(g1) THEN Unbound ELSE torque[i]]
Pursued == [i \in DOMAIN torque |->
             IF i \in OfLegs(g1) THEN [leg |-> CHOOSE j \in Legs : g1.named[j] = i, aim |-> aim]
             ELSE torque[i]]

(* set_online: going offline takes the intent and the torques back, but not  *)
(* the target, which is still there on the way back.                         *)
SetOnline(on) ==
  /\ g1 # Unbound
  /\ online' = on
  /\ IF on THEN UNCHANGED <<command, torque, held>>
     ELSE Intend(AtRest) /\ torque' = Released
  /\ UNCHANGED <<g1, aim, ticks>>

(* ---------------------------- the controller loop ------------------------ *)
(* _policy_update: a policy that fails leaves the last target, and its error *)
(* leaves step() after the physics has moved on.                             *)
\* Mutant: the policy is shown the velocity of its last action.
SeesLastAction(good) ==
  /\ aim' = aim
  /\ held' = IF good THEN held + 1 ELSE 0
PolicyUpdate(good) ==
  /\ aim' = IF good THEN command ELSE aim
  /\ held' = IF good THEN held + 1 ELSE 0

(* step(): torques toward the target there is, one physics step, and every   *)
(* control_decimation of them a new target.                                  *)
Due == (ticks + 1) % g1.decimation = 0
PhysicsStep ==
  /\ g1 # Unbound /\ online /\ ticks < MaxPhysics
  /\ torque' = Pursued
  /\ ticks' = ticks + 1
  /\ IF Due THEN \E good \in BOOLEAN : PolicyUpdate(good)
     ELSE held' = held + 1 /\ UNCHANGED aim
  /\ UNCHANGED <<g1, online, command>>
OfflineStep ==
  /\ g1 # Unbound /\ ~online
  /\ torque' = Released
  /\ UNCHANGED <<g1, online, command, aim, ticks, held>>

HumanoidInit ==
  /\ g1 = Unbound /\ online = FALSE
  /\ command = AtRest /\ aim = AtRest
  /\ ticks = 0 /\ torque = <<>> /\ held = 0
HumanoidNext ==
  \/ \E a \in Artifacts : Build(a)
  \/ \E velocity \in Intents : SetVelocity(velocity)
  \/ StopMoving \/ \E on \in BOOLEAN : SetOnline(on)
  \/ PhysicsStep \/ OfflineStep
HumanoidSpec == HumanoidInit /\ [][HumanoidNext]_humanoid

(* ------------------------------- properties ------------------------------ *)
(* A provider that is offline is asked nothing and drives nothing, whoever   *)
(* called it in the meantime ("going offline first removes intent").         *)
OfflineIsStill == ~online => command = AtRest /\ \A i \in DOMAIN torque : torque[i] = Unbound

(* No leg is driven as another joint is, and nothing else is ever driven;    *)
(* no leg is asked for more than the bounds.                                 *)
WithinBounds(velocity) == \A i \in Axes : velocity[i] \in -Fastest[i]..Fastest[i]
OnlyLegsMove == \A i \in DOMAIN torque : torque[i] # Unbound =>
                  torque[i].leg = g1.drives[i] /\ WithinBounds(torque[i].aim)

(* Both of them.                                                             *)
HumanoidSafe == OfflineIsStill /\ OnlyLegsMove

(* What has been asked for the length of a policy's period is what the legs  *)
(* are driven to: a stop takes hold within control_decimation physics steps, *)
(* whatever was asked before and though the last target outlives an absence, *)
(* unless the policy fails.                                                  *)
IntentTakesHold == g1 # Unbound /\ held >= g1.decimation => aim = command

(* It does nothing it must not, and it does what it is asked.                *)
HumanoidObeys == HumanoidSafe /\ IntentTakesHold
==============================================================================
