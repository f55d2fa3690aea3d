---------------------------- MODULE RulePlanner ----------------------------
(***************************************************************************)
(* fakes.RulePlanner for an actionable goal ("tidy the table"), and        *)
(* scheduler.ScheduledPlanner around it: what they read of a snapshot and  *)
(* which graph they return.                                                *)
(***************************************************************************)
EXTENDS World, SequencesExt

CONSTANTS
  ObjectOrder, \* the objects, sorted by id
  Reach        \* [Arms -> SUBSET Zones]: the fleet's workspace regions

ASSUME PlannerConstants ==
  /\ ObjectOrder \in Seq(Objects) /\ ToSet(ObjectOrder) = Objects
  /\ Reach \in [Arms -> SUBSET Zones]

-----------------------------------------------------------------------------
PreferredArm(v) == IF v.prefer = {} THEN None ELSE CHOOSE a \in v.prefer : TRUE

(* The objects the planner acts on.                                          *)
Feasible(v) == {o \in Objects : v.zone[o] # Target[o] /\ o \notin v.forbidden \cup Fallback}

PickStep(o, arm) == [op |-> "PICK", obj |-> o, to |-> None, deps |-> {}, arm |-> arm]

(* An object already in a gripper is carried from there: no PICK.            *)
MoveStep(o, arm, held) == [op |-> "MOVE", obj |-> o, to |-> Target[o],
  deps |-> IF held THEN {} ELSE {<<"PICK", o>>}, arm |-> arm]

PresentStep(o) == [op |-> "PRESENT", obj |-> o, to |-> None,
                   deps |-> {<<"MOVE", o>>}, arm |-> None]

VerifyStep(objects) == [op |-> "VERIFY", obj |-> None, to |-> None,
                        deps |-> {<<"MOVE", o>> : o \in objects}, arm |-> None]

ChainOf(v, o) ==
  LET arm  == PreferredArm(v)
      held == v.owner[o] # None
  IN  (IF held THEN <<>> ELSE <<PickStep(o, arm)>>)
        \o <<MoveStep(o, arm, held)>>
        \o (IF v.showOff THEN <<PresentStep(o)>> ELSE <<>>)

Chains(v) == [i \in DOMAIN ObjectOrder |->
  IF ObjectOrder[i] \in Feasible(v) THEN ChainOf(v, ObjectOrder[i]) ELSE <<>>]

Plan(v) == FlattenSeq(Chains(v)) \o <<VerifyStep(Feasible(v))>>

(* The planner's graph is a function of the snapshot; it knows no fleet.     *)
RulePlans(v, failedArms) == {Plan(v)}
NoStrictPlans(v, failedArms) == {}

-----------------------------------------------------------------------------
(* schedule(): every chain gets one online arm that reaches all its regions; *)
(* a step's region is its destination, else where its object is.  Among the  *)
(* arms that fit, schedule() takes the least loaded; here it is any of them. *)
(* The waves order the steps of different chains and are not modelled: the   *)
(* scheduled graph is exact for snapshots with one object to move, the only  *)
(* ones it is used for here.                                                 *)

Regions(v, o) == {Target[o]} \cup (IF v.owner[o] = None \/ v.showOff THEN {v.zone[o]} ELSE {})

(* Who may take object o's chain: the arm the plan asks for if it is online, *)
(* else any online arm that reaches every region of the chain.               *)
Fit(v, failedArms, o) ==
  LET online    == Arms \ failedArms
      reaching  == {a \in online : Regions(v, o) \subseteq Reach[a]}
  IN  IF v.prefer \cap online # {} THEN v.prefer \cap reaching ELSE reaching

Assignments(v, failedArms) ==
  {f \in [Feasible(v) -> Arms] : \A o \in DOMAIN f : f[o] \in Fit(v, failedArms, o)}

Annotate(steps, f) ==
  [i \in DOMAIN steps |->
     IF steps[i].op \in ManipulateOps THEN [steps[i] EXCEPT !.arm = f[steps[i].obj]]
                                      ELSE steps[i]]

(* replan_strict: a scheduled graph or none.  No online arm at all raises    *)
(* too, whatever there is to do.                                             *)
ScheduledStrict(v, failedArms) ==
  IF Arms \subseteq failedArms THEN {}
  ELSE {Annotate(Plan(v), f) : f \in Assignments(v, failedArms)}

(* plan and replan: when scheduling raises, the inner graph is used as it is.*)
ScheduledPlans(v, failedArms) ==
  IF ScheduledStrict(v, failedArms) # {} THEN ScheduledStrict(v, failedArms) ELSE {Plan(v)}
=============================================================================
