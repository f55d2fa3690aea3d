------------------------------- MODULE World -------------------------------
(***************************************************************************)
(* The authoritative world (MockWorld), the effective snapshot the engine  *)
(* works from, and the device router: pure operators, no variables.        *)
(*                                                                         *)
(* A world is a record: where each object is, which device holds it, the   *)
(* constraints operators have added, and the revision every change of the  *)
(* world advances.                                                         *)
(***************************************************************************)
EXTENDS Naturals, Sequences

CONSTANTS
  Objects,           \* the parts on the table
  Zones,             \* the named places
  Target,            \* [Objects -> Zones]: where each object belongs
  Fallback,          \* objects whose detection is not LIVE (never actionable)
  Arms,              \* arm names a plan may ask for
  Devices,           \* what the router can place a step on
  Hosts,             \* [Devices -> SUBSET kinds]: what a device can host
  ArmOf,             \* [Devices -> Arms \cup {None}]: the arm in its name
  Rank,              \* [Devices -> Nat]: declaration order
  Local,             \* the devices that are not in the cloud
  EnvelopeForbidden, \* MissionEnvelope.forbidden_objects
  EnvelopeOps,       \* MissionEnvelope's permitted operations
  EnvelopeLocalOnly, \* MissionEnvelope.local_only
  SameOrg,           \* the envelope's organization is the world's
  None

ManipulateOps == {"PICK", "MOVE", "HANDOFF", "PRESENT"}
Ops == ManipulateOps \cup {"VERIFY", "OBSERVE"}

(* A step is named by what it does to which object: pick_<oid>, move_<oid>. *)
StepId == Ops \X (Objects \cup {None})
Step == [op : Ops, obj : Objects \cup {None}, to : Zones \cup Devices \cup {None},
         deps : SUBSET StepId, arm : Arms \cup {None}]
Id(s) == <<s.op, s.obj>>

Constraint ==
  [kind : {"forbid_object"}, value : Objects] \cup [kind : {"prefer_arm"}, value : Arms]
    \cup [kind : {"keep_local", "show_off"}, value : {None}]

WorldState == [zone : [Objects -> Zones], owner : [Objects -> Devices \cup {None}],
               constraints : Seq(Constraint), rev : Nat]

ASSUME WorldAssumption ==
  /\ Target \in [Objects -> Zones]
  /\ Fallback \subseteq Objects
  /\ EnvelopeForbidden \subseteq Objects
  /\ EnvelopeOps \subseteq Ops
  /\ Local \subseteq Devices
  /\ Rank \in [Devices -> Nat]
  /\ EnvelopeLocalOnly \in BOOLEAN
  /\ SameOrg \in BOOLEAN
  /\ None \notin Objects \cup Devices \cup Zones \cup Arms
  /\ Devices \cap Zones = {}

-----------------------------------------------------------------------------
(* The effective snapshot: the world's constraints with the mission          *)
(* envelope's laid over them.                                                *)

Said(w, kind) == {i \in DOMAIN w.constraints : w.constraints[i].kind = kind}

WorldForbids(w) == {w.constraints[i].value : i \in Said(w, "forbid_object")}

Forbidden(w) == WorldForbids(w) \cup EnvelopeForbidden

LocalOnly(w) == EnvelopeLocalOnly \/ Said(w, "keep_local") # {}

Misplaced(w) == {o \in Objects : w.zone[o] # Target[o]}

(* The first prefer_arm ever added decides; later ones are never read.       *)
PreferredArms(w) == {w.constraints[i].value : i \in
  {j \in Said(w, "prefer_arm") : \A k \in Said(w, "prefer_arm") : j <= k}}

(* All a planner reads of a snapshot.                                        *)
View(w) == [zone |-> w.zone, owner |-> w.owner, forbidden |-> Forbidden(w),
            prefer |-> PreferredArms(w), showOff |-> Said(w, "show_off") # {}]
Views == [zone : [Objects -> Zones], owner : [Objects -> Devices \cup {None}],
          forbidden : SUBSET Objects, prefer : SUBSET Arms, showOff : BOOLEAN]

-----------------------------------------------------------------------------
(* What changes the world.                                                   *)

StartMission(w) == [w EXCEPT !.rev = @ + 1]

AddConstraint(w, c) == [w EXCEPT !.constraints = Append(@, c), !.rev = @ + 1]

(* Someone moves a part: it leaves whatever gripper it was in.               *)
MoveObject(w, o, z) == [w EXCEPT !.zone[o] = z, !.owner[o] = None, !.rev = @ + 1]

HeldRight(w, s, actor) ==
  CASE s.op = "PICK"    -> s.obj \in Objects /\ w.owner[s.obj] = None
    [] s.op = "MOVE"    -> s.obj \in Objects /\ s.to \in Zones
                             /\ w.owner[s.obj] \in {None, actor}
    [] s.op = "HANDOFF" -> s.obj \in Objects /\ s.to \in Devices /\ w.owner[s.obj] = actor
    [] OTHER            -> TRUE

\* Mutant: the world applies a request bound to an older revision.
AcceptsAnyRevision(w, s, actor, rev) == SameOrg /\ HeldRight(w, s, actor)
Accepts(w, s, actor, rev) == rev = w.rev /\ SameOrg /\ HeldRight(w, s, actor)

(* One accepted transition, by the device that ran it.                       *)
ApplyTransition(w, s, actor) ==
  CASE s.op = "PICK"    -> [w EXCEPT !.owner[s.obj] = actor, !.rev = @ + 1]
    [] s.op = "MOVE"    -> [w EXCEPT !.zone[s.obj] = s.to, !.owner[s.obj] = None, !.rev = @ + 1]
    [] s.op = "HANDOFF" -> [w EXCEPT !.owner[s.obj] = s.to, !.rev = @ + 1]
    [] OTHER            -> [w EXCEPT !.rev = @ + 1]

-----------------------------------------------------------------------------
(* DeviceRouter.route: online, local when it must be, able to host the step; *)
(* the named arm if any candidate has it, else ANY candidate; local first,   *)
(* then declaration order.                                                   *)

Kind(op) == IF op \in ManipulateOps THEN "arm" ELSE "perception"

Candidates(s, w, online) ==
  {d \in online : (d \in Local \/ ~LocalOnly(w)) /\ Kind(s.op) \in Hosts[d]}

Pool(s, w, online) ==
  LET armed == {d \in Candidates(s, w, online) : s.arm # None /\ ArmOf[d] = s.arm}
  IN  IF armed # {} THEN armed ELSE Candidates(s, w, online)

Before(d, e) == \/ d \in Local /\ e \notin Local
                \/ (d \in Local <=> e \in Local) /\ Rank[d] <= Rank[e]

(* At most one device; none when placement fails.                            *)
Route(s, w, online) ==
  {d \in Pool(s, w, online) : \A e \in Pool(s, w, online) : Before(d, e)}
=============================================================================
