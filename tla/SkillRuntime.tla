---------------------------- MODULE SkillRuntime -----------------------------
(* Learned skills (skills/): a registry that promotes them stage by stage on *)
(* evidence, and the runtime that lets a selected skill's controller propose,*)
(* supervises the proposal and only then moves the arm.  One arm on one axis *)
(* of its workspace; a proposal is a displacement.                           *)
EXTENDS Integers, Sequences

CONSTANTS Skills,      \* skill ids
          Residual,    \* those of type RESIDUAL_RL
          Bound,       \* those bound to this arm by arm_ids
          Lower, Upper,\* the workspace envelope
          MaxDelta,    \* max_delta_mm, by the interval too
          MaxScale,    \* residual_scale_max
          Proposals,   \* what a controller may ask for
          SkillRevisions \* bound on world revisions

ASSUME SkillAssumption ==
  /\ Lower \in Int /\ Upper \in Int /\ Lower <= Upper
  /\ MaxDelta \in Nat /\ MaxScale \in Nat
  /\ Proposals \subseteq Int /\ SkillRevisions \in Nat
  /\ Residual \subseteq Skills /\ Bound \subseteq Skills

Stages == <<"TRAINED", "SIM_EVAL", "DOMAIN_RANDOMIZATION", "SHADOW",
            "SUPERVISED_HARDWARE", "VALIDATED", "ACTIVE">>
Top == Len(Stages)

VARIABLES
  stage,     \* each registered skill's manifest stage, as an index; 0 before
  evidence,  \* its promotion history: how many, all about its artifact, the last one passed
  position,  \* of the arm
  present,   \* the world's revision and whether a safety stop is active
  call       \* the runtime call under way, or None: SkillRuntime.step

skillVars == <<stage, evidence, position, present, call>>

NoEvidence == [count |-> 0, matched |-> TRUE, passed |-> FALSE]
NoCall == [at |-> "none"]

------------------------------------------------------------------------------
(* SkillRegistry                                                             *)

\* Mutant: a new skill may come with the stage its manifest names.
EntersAnywhere == {1, Top}
Enters == {1}

Register(k) ==
  /\ stage[k] = 0
  /\ \E s \in Enters : stage' = [stage EXCEPT ![k] = s]
  /\ UNCHANGED <<evidence, position, present, call>>

Evidence == [artifact : {"same", "other"}, passed : BOOLEAN]

(* promote: one stage at a time, on evidence about this very artifact; all   *)
(* checks must have passed for the last stage only.                          *)
Grants(k, e) == e.artifact = "same" /\ (stage[k] + 1 = Top => e.passed)

Promote(k) ==
  /\ stage[k] \in 1..(Top - 1)
  /\ \E e \in Evidence :
       /\ Grants(k, e)
       /\ stage' = [stage EXCEPT ![k] = @ + 1]
       /\ evidence' = [evidence EXCEPT ![k] =
            [count |-> @.count + 1, matched |-> @.matched /\ e.artifact = "same",
             passed |-> e.passed]]
  /\ UNCHANGED <<position, present, call>>

(* select: the skill the request names, or any active one bound to the arm.  *)
Selectable(k) == stage[k] = Top /\ k \in Bound

------------------------------------------------------------------------------
(* SkillRuntime.step                                                         *)

Observe == [position |-> position, revision |-> present.revision, stop |-> present.stop]

(* A request comes with an authorization and an observation of now; only a   *)
(* selectable skill gets as far as its controller.                           *)
Select(k) ==
  /\ call = NoCall /\ Selectable(k)
  /\ \E verdict \in {"ALLOW", "DENY"}, granted, expected \in 0..present.revision :
       call' = [at |-> "propose", skill |-> k, seen |-> Observe, verdict |-> verdict,
                granted |-> granted, expected |-> expected]
  /\ UNCHANGED <<stage, evidence, position, present>>

(* The controller answers, as itself or in another's name, or fails.         *)
Propose ==
  /\ call.at = "propose"
  /\ \E d \in Proposals, scale \in 0..(MaxScale + 1), name \in Skills :
       call' = [at |-> "supervise", skill |-> call.skill, seen |-> call.seen,
                verdict |-> call.verdict, granted |-> call.granted, expected |-> call.expected,
                delta |-> d, scale |-> scale, name |-> name]
  /\ UNCHANGED <<stage, evidence, position, present>>

ControllerFails ==
  /\ call.at = "propose" /\ call' = NoCall
  /\ UNCHANGED <<stage, evidence, position, present>>

Scaled(c) == IF c.skill \in Residual THEN c.delta * c.scale ELSE c.delta

Denied(c) ==
  \/ c.verdict # "ALLOW"
  \/ c.granted # c.expected \/ c.seen.revision # c.expected
  \/ c.name # c.skill
  \/ IF c.skill \in Residual THEN c.scale > MaxScale ELSE c.scale # 1

\* Mutant: the workspace is checked for what the controller asked for.
OutsideAsked(c) == c.seen.position + c.delta \notin Lower..Upper
Outside(c) == c.seen.position + Scaled(c) \notin Lower..Upper

Clamped(d) == IF d > MaxDelta THEN MaxDelta ELSE IF d < -MaxDelta THEN -MaxDelta ELSE d

(* SkillSupervisor.evaluate: STOP and DENY end the call.                     *)
Refuse ==
  /\ call.at = "supervise"
  /\ call.seen.stop \/ Denied(call) \/ Outside(call)
  /\ call' = NoCall
  /\ UNCHANGED <<stage, evidence, position, present>>

Permit ==
  /\ call.at = "supervise"
  /\ ~call.seen.stop /\ ~Denied(call) /\ ~Outside(call)
  /\ call' = [call EXCEPT !.at = "apply"]
  /\ UNCHANGED <<stage, evidence, position, present>>

(* The actuator moves towards the displaced pose and may stop short, or fail *)
(* on the way.                                                               *)
Apply ==
  /\ call.at = "apply"
  /\ LET d == Clamped(Scaled(call)) IN
     \E moved \in (IF d >= 0 THEN 0..d ELSE d..0) : position' = position + moved
  /\ call' = NoCall
  /\ UNCHANGED <<stage, evidence, present>>

(* Meanwhile the world goes on.                                              *)
WorldMoves ==
  /\ present.revision < SkillRevisions
  /\ present' = [present EXCEPT !.revision = @ + 1]
  /\ UNCHANGED <<stage, evidence, position, call>>

SafetyStop ==
  /\ present' = [present EXCEPT !.stop = ~@]
  /\ UNCHANGED <<stage, evidence, position, call>>

SkillInit ==
  /\ stage = [k \in Skills |-> 0] /\ evidence = [k \in Skills |-> NoEvidence]
  /\ position \in Lower..Upper
  /\ present = [revision |-> 0, stop |-> FALSE]
  /\ call = NoCall

SkillNext ==
  \/ \E k \in Skills : Register(k) \/ Promote(k) \/ Select(k)
  \/ Propose \/ ControllerFails \/ Refuse \/ Permit \/ Apply \/ WorldMoves \/ SafetyStop

SkillSpec == SkillInit /\ [][SkillNext]_skillVars

------------------------------------------------------------------------------
(* However often controllers are followed, the arm stays in the workspace    *)
(* envelope of the skills (SkillSupervisor).                                 *)
StaysInWorkspace == position \in Lower..Upper
=============================================================================
