--------------------------- MODULE ContactHandoff ----------------------------
(* One cup handed from the left arm to the right by contact alone            *)
(* (intel_sim.py): the controller's phases over a cup that may slip, tip or  *)
(* fall, the receipt it proposes, the world that admits it, the planner and  *)
(* the one-shot manipulator around it, driven by the engine's loop.          *)
EXTENDS Naturals

CONSTANTS HandoffRuns,   \* bound on calls of run() on one engine
          HandoffBudget  \* the engine's max_revisions

ASSUME HandoffAssumption == HandoffRuns \in Nat /\ HandoffBudget \in Nat

HandoffArms == {"left", "right"}
NoReceipt == [source |-> "no receipt"]

VARIABLES
  cup,        \* the physics: who touches it, where it is, how it lies
  zone,       \* the zone the world claims for it
  revision,   \* the world's state revision
  pending, admitted, \* the world's proposed and last admitted receipts
  attempted,  \* IntelContactHandoffManipulator._attempted
  phase,      \* the controller's phase
  carry,      \* _carry_required
  at,         \* where the engine's loop is
  replans,      \* revisions of this run
  calls       \* calls of run()

world == <<zone, revision, pending, admitted>>
controller == <<cup, phase, carry>>
loop == <<at, replans, calls>>
handoffVars == <<world, controller, attempted, loop>>

------------------------------------------------------------------------------
(* The controller.                                                           *)

(* The phase that follows each, the recovery's three among them.             *)
After ==
  [initial_settle |-> "left_approach", left_approach |-> "left_descend",
   left_descend |-> "left_grasp", left_grasp |-> "left_lift_transfer",
   left_lift_transfer |-> "right_approach", right_approach |-> "right_descend",
   right_descend |-> "right_grasp", right_grasp |-> "left_release",
   left_release |-> "right_retreat", right_retreat |-> "right_place",
   right_place |-> "right_release", right_release |-> "final_settle",
   final_settle |-> "done",
   left_represent |-> "right_approach_retry", right_approach_retry |-> "right_descend_retry",
   right_descend_retry |-> "right_grasp"]

Reach == {"right_approach", "right_descend"}

Mover(p) ==
  CASE p \in {"initial_settle", "final_settle"} -> {}
    [] p \in {"left_approach", "left_descend", "left_grasp", "left_lift_transfer",
              "left_represent", "left_release"} -> {"left"}
    [] OTHER -> {"right"}

Place(p) ==
  CASE p \in {"left_lift_transfer", "left_represent", "right_approach", "right_descend",
              "right_approach_retry", "right_descend_retry", "right_grasp"} -> "shared"
    [] p \in {"right_retreat", "right_place", "right_release", "final_settle"} -> "right"
    [] OTHER -> "left"

(* What a phase can do to the cup: only the arm that moves can come to touch *)
(* it, whatever touches it may lose it, and what is let go stands, lies or   *)
(* is gone.                                                                  *)
AfterPhase(p) ==
  LET a == Mover(p)
      between == {cup.spot} \cup (IF a = {} THEN {} ELSE {Place(p)})
      untouched == IF a = {} THEN {cup.pose} ELSE {cup.pose, "lying", "lost"}
  IN  {[touch |-> t, spot |-> IF t = a /\ a # {} THEN Place(p) ELSE s,
        pose |-> IF t # {} THEN "held" ELSE q]
         : t \in IF cup.pose = "lost" THEN {{}} ELSE SUBSET (cup.touch \cup a),
           s \in between,
           q \in IF cup.touch = {} THEN untouched ELSE {"standing", "lying", "lost"}}

Owner(c) == CASE c.touch = HandoffArms -> "dual"
              [] c.touch = {} -> "none"
              [] OTHER -> CHOOSE a \in HandoffArms : a \in c.touch

\* Mutant: the guard against a dropped cup is trusted on the way back.
OwnerRetreating(p) ==
  CASE p \in {"left_grasp", "left_lift_transfer", "left_represent"} -> {"left"}
    [] p = "right_grasp" -> {"dual"}
    [] p = "left_release" -> {"right"}
    [] p = "final_settle" -> {"none"}
    [] OTHER -> {"left", "right", "dual", "none"}
RequiredOwner(p) ==
  CASE p \in {"left_grasp", "left_lift_transfer", "left_represent"} -> {"left"}
    [] p = "right_grasp" -> {"dual"}
    [] p \in {"left_release", "right_retreat"} -> {"right"}
    [] p = "final_settle" -> {"none"}
    [] OTHER -> {"left", "right", "dual", "none"}

(* The guard during the phase, the ownership required after it, and what the *)
(* last phase asks of the cup.                                               *)
Passes(p, c) ==
  /\ carry => c.pose # "lost"
  /\ Owner(c) \in RequiredOwner(p)
  /\ p = "final_settle" => c.pose = "standing"

RunPhase ==
  LET p == phase IN
  /\ at = "control" /\ p \in DOMAIN After
  /\ \E c \in AfterPhase(p) :
       /\ Passes(p, c)
       /\ cup' = c
       /\ carry' = CASE p = "left_grasp" -> TRUE [] p = "right_retreat" -> FALSE [] OTHER -> carry
  /\ phase' = After[p]
  /\ UNCHANGED <<world, attempted, loop>>

(* The receiver's inverse kinematics fails: the giver, still the owner,      *)
(* presents the cup once more.                                               *)
PresentAgain ==
  /\ at = "control" /\ phase \in Reach
  /\ \E c \in AfterPhase(phase) :
       /\ c.pose # "lost" /\ Owner(c) = "left"
       /\ cup' = c
  /\ phase' = "left_represent"
  /\ UNCHANGED <<world, attempted, loop, carry>>

HandoffReceipt(success, c) ==
  [source |-> revision, success |-> success, stable |-> success, owner |-> Owner(c)]

(* The controller returns: every phase passed, or one was rejected.          *)
ProposeReceipt ==
  /\ at = "control" /\ phase = "done"
  /\ pending' = HandoffReceipt(TRUE, cup)
  /\ at' = "admit"
  /\ UNCHANGED <<zone, revision, admitted, cup, attempted, phase, carry, replans, calls>>

FailStep ==
  /\ replans' = replans + 1
  /\ at' = IF replans + 1 > HandoffBudget THEN "over" ELSE "plan"
  /\ UNCHANGED calls

RejectPhase ==
  /\ at = "control" /\ phase \in DOMAIN After
  /\ \E c \in AfterPhase(phase) : cup' = c /\ pending' = HandoffReceipt(FALSE, c)
  /\ phase' = "idle"
  /\ FailStep
  /\ UNCHANGED <<zone, revision, admitted, attempted, carry>>

(* The solver raises something else: run() ends with it.                     *)
SolverRaises ==
  /\ at = "control" /\ phase \in DOMAIN After
  /\ cup' \in AfterPhase(phase)
  /\ phase' = "idle" /\ at' = "over"
  /\ UNCHANGED <<world, attempted, carry, replans, calls>>

------------------------------------------------------------------------------
(* The world's boundary and the engine's loop around it.                     *)

StartMission ==
  /\ at = "over" /\ calls < HandoffRuns
  /\ revision' = revision + 1
  /\ at' = "plan" /\ replans' = 0 /\ calls' = calls + 1
  /\ UNCHANGED <<zone, pending, admitted, controller, attempted>>

(* A queued constraint is applied before the next plan.                      *)
ApplyHandoffConstraint ==
  /\ at = "plan" /\ replans < HandoffBudget
  /\ revision' = revision + 1 /\ replans' = replans + 1
  /\ UNCHANGED <<zone, pending, admitted, controller, attempted, at, calls>>

(* IntelContactHandoffPlanner: one HANDOFF, or nothing.                      *)
PlanHandoff ==
  /\ at = "plan"
  /\ \E live \in BOOLEAN :
       at' = IF live /\ zone # "right_table" /\ pending = NoReceipt /\ admitted = NoReceipt
                THEN "authorize" ELSE "over"
  /\ UNCHANGED <<world, controller, attempted, replans, calls>>

AllowHandoff == at = "authorize" /\ at' = "execute"
                /\ UNCHANGED <<world, controller, attempted, replans, calls>>
DenyHandoff == at = "authorize" /\ FailStep
               /\ UNCHANGED <<world, controller, attempted>>

RefuseAttempt == attempted

BeginHandoff ==
  /\ at = "execute" /\ ~RefuseAttempt
  /\ attempted' = TRUE
  /\ phase' = "initial_settle" /\ carry' = FALSE
  /\ at' = "control"
  /\ UNCHANGED <<world, cup, replans, calls>>

RefuseHandoff ==
  /\ at = "execute" /\ RefuseAttempt
  /\ FailStep
  /\ UNCHANGED <<world, controller, attempted>>

Admissible(r) ==
  r # NoReceipt /\ r.success /\ r.stable /\ r.owner = "none" /\ r.source = revision

AdmitReceipt ==
  /\ at = "admit" /\ Admissible(pending)
  /\ zone' = "right_table" /\ revision' = revision + 1
  /\ admitted' = pending /\ pending' = NoReceipt
  /\ at' = "verify"
  /\ UNCHANGED <<controller, attempted, replans, calls>>

(* The verifier reads the admitted receipt and the world; the graph's last   *)
(* step asks it once more.                                                   *)
VerifyHandoff ==
  /\ at = "verify"
  /\ admitted.success /\ admitted.stable /\ admitted.owner = "none" /\ zone = "right_table"
  /\ at' = "over"
  /\ UNCHANGED <<world, controller, attempted, replans, calls>>

HandoffInit ==
  /\ cup = [touch |-> {}, spot |-> "left", pose |-> "standing"]
  /\ zone = "left_table" /\ revision = 0 /\ pending = NoReceipt /\ admitted = NoReceipt
  /\ attempted = FALSE /\ phase = "idle" /\ carry = FALSE
  /\ at = "over" /\ replans = 0 /\ calls = 0

HandoffNext ==
  \/ RunPhase \/ PresentAgain \/ ProposeReceipt \/ RejectPhase \/ SolverRaises
  \/ StartMission \/ ApplyHandoffConstraint \/ PlanHandoff \/ AllowHandoff \/ DenyHandoff
  \/ BeginHandoff \/ RefuseHandoff \/ AdmitReceipt \/ VerifyHandoff

HandoffSpec == HandoffInit /\ [][HandoffNext]_handoffVars

------------------------------------------------------------------------------
(* The world claims the cup handed over only if it stands free on the right  *)
(* arm's side of the table, however often it slipped on the way, and for     *)
(* good: no later run or replan moves it again.                              *)
AdmittedIsThere ==
  zone = "right_table" => cup = [touch |-> {}, spot |-> "right", pose |-> "standing"]
=============================================================================
