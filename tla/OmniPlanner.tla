---------------------------- MODULE OmniPlanner ----------------------------
(***************************************************************************)
(* A language model's advice turned into a graph (omni_planner.py): its    *)
(* lines are validated one by one, arms are assigned, what it left out is  *)
(* completed, held objects come first, and the steps are linked in a       *)
(* chain.  The deterministic planner underneath is fakes.RulePlanner, with *)
(* the roles, reach and precedence IntelTablePlanner adds to it.           *)
(***************************************************************************)
EXTENDS GraphRewrite, Integers

CONSTANTS
  Goal,         \* target_zone of each object
  Untouchable,  \* forbidden, or not authoritative
  RightThings,  \* _RIGHT_OBJECTS
  MustPrecede,  \* _MUST_PRECEDE, a sequence
  Preferred,    \* the prefer_arm constraint, or Nobody
  InReach,      \* <<arm, object>>: _arm_can_reach
  Tokens        \* how the tokenizer writes an object's name

(* With a vocabulary the decoder is fenced in: token by token only names     *)
(* that exist can be written, and a name is closed only when no other name   *)
(* goes on from it.  The last line may be cut off.                           *)
Writable == {o \in Things : \A p \in Things : p # o => ~IsStrictPrefix(Tokens[o], Tokens[p])}

InFence(text) == \A i \in 1..(Len(text) - 1) : text[i].op = "VERIFY" \/ text[i].obj \in Writable

(* A line STEP op object= arm= to= as _parse reads it.                       *)
Ask(op, o, arm, to) == [op |-> op, obj |-> o, arm |-> arm, to |-> to]
Has(steps, op, o) == \E i \in DOMAIN steps : steps[i].op = op /\ steps[i].obj = o

(* _validate, one line after the other: what is refused leaves no step.      *)
Redundant(l, spot, holder) ==
  \/ l.op = "PICK" /\ holder[l.obj] # Nobody
  \/ l.op \in {"PICK", "MOVE"} /\ spot[l.obj] = Goal[l.obj]
  \/ l.op = "MOVE" /\ l.to # Goal[l.obj]
Unfit(steps, l, spot, holder) ==
  \/ l.obj \notin Things \ Untouchable
  \/ l.arm \notin {Nobody, "left", "right"}
  \/ Redundant(l, spot, holder)
  \/ Has(steps, l.op, l.obj)

(* The arm that holds an object is a fact, not the model's choice.           *)
ArmOfLine(l, holder) == IF holder[l.obj] # Nobody THEN holder[l.obj] ELSE l.arm

(* A MOVE of what nobody holds gets its PICK.                                *)
Admit(steps, l, spot, holder) ==
  LET arm  == ArmOfLine(l, holder)
      pick == IF l.op = "MOVE" /\ holder[l.obj] = Nobody /\ ~Has(steps, "PICK", l.obj)
              THEN <<GStep("PICK", "PICK", l.obj, arm, Nobody, {})>> ELSE <<>>
  IN steps \o pick \o
       <<GStep(l.op, l.op, l.obj, arm, IF l.op = "MOVE" THEN l.to ELSE Nobody, {})>>

VerifyAfter(deps) == GStep("VERIFY", "VERIFY", Nobody, Nobody, Nobody, deps)
Validate(text, spot, holder) ==
  FoldLeft(LAMBDA steps, l :
             CASE l.op = "VERIFY" -> Append(steps, VerifyAfter({}))
               [] l.op # "VERIFY" /\ Unfit(steps, l, spot, holder) -> steps
               [] OTHER -> Admit(steps, l, spot, holder),
           <<>>, text)

(* Arms left open get the object's role; the operator's preference wins for  *)
(* what is in no hand, or the step goes if that arm cannot reach.            *)
Role(o) == IF o \in RightThings THEN "right" ELSE "left"
Overruled(s, holder, arm) == Preferred # Nobody /\ arm # Preferred /\ holder[s.obj] = Nobody
Assigned(steps, holder) ==
  LET Arm(s)  == IF s.arm = Nobody THEN Role(s.obj) ELSE s.arm
      Kept(s) == s.op # "VERIFY" /\ Overruled(s, holder, Arm(s)) => <<Preferred, s.obj>> \in InReach
      Set(s)  == IF s.op = "VERIFY" THEN s
                 ELSE [s EXCEPT !.arm = IF Overruled(s, holder, Arm(s)) THEN Preferred ELSE Arm(s)]
      kept    == SelectSeq(steps, Kept)
  IN [i \in DOMAIN kept |-> Set(kept[i])]

Working(steps) == SelectSeq(steps, LAMBDA s : s.op # "VERIFY")
Verifying(steps) == SelectSeq(steps, LAMBDA s : s.op = "VERIFY")

(* The rule planner's own steps for one object, and its graph.               *)
ToDo(spot) == SelectSeq(ThingOrder, LAMBDA o :
  /\ spot[o] # Goal[o] /\ o \notin Untouchable
  /\ Preferred \in {Nobody, Role(o)} \/ <<Preferred, o>> \in InReach)
RuleChain(o, holder, arm) ==
  LET pick == GStep("PICK", "PICK", o, arm, Nobody, {})
      Move(deps) == GStep("MOVE", "MOVE", o, arm, Goal[o], deps)
  IN IF holder[o] = Nobody THEN <<pick, Move({pick.id})>> ELSE <<Move({})>>
RuleArm(o) == IF Preferred # Nobody THEN Preferred ELSE Role(o)
RuleSteps(spot, holder) ==
  FlattenSeq([i \in DOMAIN ToDo(spot) |->
                RuleChain(ToDo(spot)[i], holder, RuleArm(ToDo(spot)[i]))])
RuleGraph(spot, holder) ==
  ToSet(RuleSteps(spot, holder))
    \cup {VerifyAfter({<<"MOVE", o>> : o \in ToSet(ToDo(spot))})}

(* Objects the model did not speak of.                                       *)
Completion(steps, spot, holder) ==
  SelectSeq(RuleSteps(spot, holder),
            LAMBDA s : \A i \in DOMAIN steps : steps[i].obj # s.obj)

\* Mutant: the model's order is kept.
AsSpoken(steps, spot, holder) == steps
(* What is in a gripper is carried first, then what must precede the rest.   *)
HeldFirst(steps, spot, holder) ==
  LET Held(s)    == s.obj \in Things /\ holder[s.obj] # Nobody
      early      == SelectSeq(MustPrecede, LAMBDA o : spot[o] # Goal[o])
      Early(s)   == ~Held(s) /\ s.obj \in ToSet(early)
      Of(o)      == SelectSeq(steps, LAMBDA s : Early(s) /\ s.obj = o)
  IN SelectSeq(steps, Held)
     \o FlattenSeq([i \in DOMAIN early |-> Of(early[i])])
     \o SelectSeq(steps, LAMBDA s : ~Held(s) /\ ~Early(s))

(* _link: each step waits for the one before it, the first verification for  *)
(* all of them, and of several verifications the first is the one that runs. *)
Chained(work, verify) ==
  {[work[i] EXCEPT !.deps = IF i = 1 THEN {} ELSE {work[i - 1].id}] : i \in DOMAIN work}
    \cup (IF verify = <<>> THEN {} ELSE {VerifyAfter({work[i].id : i \in DOMAIN work})})

(* _compile.                                                                 *)
Accepted(text, spot, holder) == Assigned(Validate(text, spot, holder), holder)
Usable(text, spot, holder) == Working(Accepted(text, spot, holder)) # <<>>
Advised(text, complete, spot, holder) ==
  LET said   == Accepted(text, spot, holder)
      work   == Working(said) \o (IF complete THEN Completion(Working(said), spot, holder) ELSE <<>>)
      verify == IF Verifying(said) = <<>> /\ complete THEN <<VerifyAfter({})>> ELSE Verifying(said)
  IN Chained(HeldFirst(work, spot, holder), verify)
=============================================================================
