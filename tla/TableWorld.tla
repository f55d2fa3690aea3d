----------------------------- MODULE TableWorld -----------------------------
(***************************************************************************)
(* The table world over a real simulation (IntelTableWorld): what the      *)
(* world claims (zone, owner) and what physics has done (jaws, spot), the  *)
(* transition of one arm and the composite transition of both.             *)
(*                                                                         *)
(* A contact primitive is a few phases, each ending in physics steps that  *)
(* go through the barrier at which two arms' threads step one simulation   *)
(* (_CoopStepper); a single transition is a worker alone at it.  Whether a *)
(* phase succeeds is up to the physics.                                    *)
(***************************************************************************)
EXTENDS Naturals, FiniteSets, Sequences

CONSTANTS
  Arms,         \* one worker thread per arm at most
  Objects,      \* the tableware
  Bimanual,     \* objects picked and placed by both arms (BIMANUAL_OBJECTS)
  Drawers, DrawerOf, DrawerArm,  \* where cutlery starts, and who opens it
  RealDrawers,  \* drawers are pulled open by the arm, not written open
  MaxTries,     \* attempts of one pick: 1 + the evidence-driven retries
  None

------------------------------------------------------------------------------
(* _CoopStepper.  Every call is made under its condition variable, so each   *)
(* operator is one step.  The generation counter is only ever compared with  *)
(* the value a parked thread took along: "parked" becomes "released" when it *)
(* has moved on.                                                             *)

Stepper == [active : 0..Cardinality(Arms), waiting : 0..Cardinality(Arms),
            at : [Arms -> {"idle", "out", "parked", "released"}],
            left : SUBSET Arms]  \* history: who was not in the barrier when physics advanced

NewStepper(workers) ==
  [active |-> Cardinality(workers), waiting |-> 0,
   at |-> [a \in Arms |-> IF a \in workers THEN "out" ELSE "idle"], left |-> {}]

Woken(b) == [a \in Arms |-> IF b.at[a] = "parked" THEN "released" ELSE b.at[a]]

(* _advance by arm a's thread: one physics step, and the barrier opens.      *)
Advance(b, a) ==
  [b EXCEPT !.waiting = 0,
            !.at = [Woken(b) EXCEPT ![a] = "out"],
            !.left = {c \in Arms \ {a} : b.at[c] = "out"}]

\* Mutant: whoever comes first advances the physics.
StepsAlone(b, a) == Advance([b EXCEPT !.waiting = @ + 1], a)
(* mj_step, up to where the thread parks.                                    *)
Step(b, a) ==
  LET asked == [b EXCEPT !.waiting = @ + 1]
  IN IF asked.waiting >= asked.active THEN Advance(asked, a)
     ELSE [asked EXCEPT !.at[a] = "parked"]

(* A parked thread looks again: its step was made, or its partner is gone.   *)
CanWake(b, a) == b.at[a] = "released" \/ (b.at[a] = "parked" /\ b.active <= 1)
Wake(b, a) == IF b.at[a] = "released" THEN [b EXCEPT !.at[a] = "out"] ELSE Advance(b, a)

\* Mutant: a primitive that ends does not tell the barrier.
StaysActive(b, a) == [b EXCEPT !.at[a] = "idle"]
(* finish(): a partner parked at the barrier is let go, without a step.      *)
Finish(b, a) ==
  LET gone == [b EXCEPT !.active = @ - 1, !.at[a] = "idle"]
  IN IF gone.waiting > 0 /\ gone.active > 0 /\ gone.waiting >= gone.active
     THEN [gone EXCEPT !.waiting = 0, !.at = Woken(gone)] ELSE gone

------------------------------------------------------------------------------
VARIABLES
  zone,    \* _objects[o].zone: "start" or "goal"
  owner,   \* _ownership
  jaws,    \* arm -> the objects between its jaws
  spot,    \* where an object lies once no jaw holds it
  opened,  \* drawers that are open
  frozen,  \* _failed_arms
  flight,  \* the transition requests under way, in order
  prim,    \* arm -> its primitive: [req, phase, tries, jaws, spot, ok], or None
  bar      \* the stepper

claim    == <<zone, owner>>
physics  == <<jaws, spot, opened>>
table    == <<zone, owner, jaws, spot, opened, frozen, flight, prim, bar>>

Tracked(r) == r.obj \in Objects
Spots == {"start", "goal", "astray"}

Steps == LET ops   == {"OPEN", "PICK", "MOVE", "VERIFY"}
             named == Objects \cup Drawers \cup {None}
         IN  [op : ops, obj : named, arm : Arms \cup {None}, deps : SUBSET (ops \X named)]
Progress == [req : Steps, phase : {"start", "grip", "again", "carry", "ended"}, tries : Nat,
             jaws : [Arms -> SUBSET Objects], spot : [Objects -> Spots],
             before : [zone : {"start", "goal", None}, owner : Arms \cup {None}], ok : BOOLEAN]

Idle == [a \in Arms |-> None]

TableInit ==
  /\ zone = [o \in Objects |-> "start"] /\ owner = [o \in Objects |-> None]
  /\ jaws = [a \in Arms |-> {}] /\ spot = [o \in Objects |-> "start"]
  /\ opened = {} /\ frozen = {}
  /\ flight = <<>> /\ prim = Idle /\ bar = NewStepper({})

------------------------------------------------------------------------------
(* MockWorld.apply_transition, as far as it can refuse one of these requests.*)
Accepts(r) ==
  CASE r.op = "PICK" -> owner[r.obj] = None
    [] r.op = "MOVE" -> owner[r.obj] \in {None, r.arm}
    [] OTHER -> TRUE

(* One object per gripper: refused before anything moves.                    *)
HoldsOther(r) == \E o \in Objects \ {r.obj} : owner[o] = r.arm
Refused(r) == r.op = "PICK" /\ HoldsOther(r)

Symbolic(r) ==
  /\ zone'  = IF r.op = "MOVE" THEN [zone EXCEPT ![r.obj] = "goal"] ELSE zone
  /\ owner' = CASE r.op = "PICK" -> [owner EXCEPT ![r.obj] = r.arm]
                [] r.op = "MOVE" -> [owner EXCEPT ![r.obj] = None]
                [] OTHER -> owner

(* The claim when the physics did not follow: a failed PICK takes it back, a *)
(* failed MOVE leaves the object where it was and nobody's.                  *)
TakenBack(r, before) ==
  /\ zone'  = IF r.op = "MOVE" THEN [zone EXCEPT ![r.obj] = before.zone] ELSE zone
  /\ owner' = CASE r.op = "PICK" -> [owner EXCEPT ![r.obj] = before.owner]
                [] r.op = "MOVE" -> [owner EXCEPT ![r.obj] = None]
                [] OTHER -> owner

Before(r) == IF Tracked(r) THEN [zone |-> zone[r.obj], owner |-> owner[r.obj]]
             ELSE [zone |-> None, owner |-> None]

Primitive(r) == [req |-> r, phase |-> "start", tries |-> 0, jaws |-> jaws, spot |-> spot,
                 before |-> Before(r), ok |-> FALSE]

(* apply_transition: checked, claimed at once, then carried out.             *)
BeginOne(r) ==
  /\ Accepts(r) /\ ~Refused(r)
  /\ Symbolic(r)
  /\ flight' = <<r>>
  /\ prim' = [prim EXCEPT ![r.arm] = Primitive(r)]
  /\ bar' = NewStepper({r.arm})
  /\ UNCHANGED <<physics, frozen>>

(* apply_transitions_parallel: one thread per request, claims come after.    *)
BeginPair(r, s) ==
  /\ flight' = <<r, s>>
  /\ prim' = [a \in Arms |-> CASE a = r.arm -> Primitive(r) [] a = s.arm -> Primitive(s)]
  /\ bar' = NewStepper({r.arm, s.arm})
  /\ UNCHANGED <<claim, physics, frozen>>

Paired == Len(flight) = 2

------------------------------------------------------------------------------
(* The primitives.  Between two phases the thread steps the physics.         *)
Running(a, phase) == prim[a] # None /\ prim[a].phase = phase /\ bar.at[a] = "out"

Goto(a, phase) == prim' = [prim EXCEPT ![a].phase = phase] /\ bar' = Step(bar, a)
Ends(a, ok) == prim' = [prim EXCEPT ![a].phase = "ended", ![a].ok = ok] /\ bar' = Finish(bar, a)

InAJaw(o, j) == \E a \in Arms : o \in j[a]

(* Arm a opens its jaws: what only it held falls.  A frozen arm does not.    *)
Opens(S) ==
  LET now == [a \in Arms |-> IF a \in S \ frozen THEN {} ELSE jaws[a]]
  IN /\ jaws' = now
     /\ spot' = [o \in Objects |->
          IF InAJaw(o, jaws) /\ ~InAJaw(o, now) THEN "astray" ELSE spot[o]]

\* Mutant: a retry rewinds the other arm too.
RestoreAll(a, o) == jaws' = prim[a].jaws /\ spot' = prim[a].spot
(* _restore_physics for one arm and its object: back to where they were when *)
(* the primitive began; the other arm is left alone.                         *)
RestoreArm(a, o) ==
  /\ jaws' = [jaws EXCEPT ![a] = (@ \ {o}) \cup (prim[a].jaws[a] \cap {o})]
  /\ spot' = [spot EXCEPT ![o] = prim[a].spot[o]]

Reachable(o) == DrawerOf[o] \in opened \cup {None} \/ spot[o] # "start"
CanLift(a, o) == a \notin frozen /\ Reachable(o)

(* _workspace_safety: the guard sees a hazard, and nothing moves.            *)
Unsafe(a) == Ends(a, FALSE) /\ UNCHANGED <<jaws, spot>>

(* _do_pick: over the object, jaws open.                                     *)
Approach(a) ==
  /\ Running(a, "start") /\ prim[a].req.op = "PICK" /\ prim[a].req.obj \notin Bimanual
  /\ \/ ~HoldsOther(prim[a].req) /\ Opens({a}) /\ Goto(a, "grip")
     \/ Unsafe(a)   \* or refused: the jaw is full
  /\ UNCHANGED <<claim, opened, frozen, flight>>

(* Close and lift.  Without a lift of LIFT_VERIFY_MIN it is another try, from*)
(* where the pick began, or the end.                                         *)
Lift(a) ==
  LET o == prim[a].req.obj
  IN /\ Running(a, "grip")
     /\ CanLift(a, o)
     /\ jaws' = [jaws EXCEPT ![a] = @ \cup {o}]
     /\ Ends(a, TRUE)
     /\ UNCHANGED <<claim, spot, opened, frozen, flight>>

TryAgain(a) ==
  /\ Running(a, "grip") /\ prim[a].tries + 1 < MaxTries
  /\ RestoreArm(a, prim[a].req.obj)
  /\ prim' = [prim EXCEPT ![a].tries = @ + 1, ![a].phase = "again"]
  /\ bar' = Step(bar, a)
  /\ UNCHANGED <<claim, opened, frozen, flight>>

OpenAgain(a) ==
  /\ Running(a, "again")
  /\ Opens({a}) /\ Goto(a, "grip")
  /\ UNCHANGED <<claim, opened, frozen, flight>>

(* The last try failed.  A single transition puts the arm and the object     *)
(* back; beside a partner the object stays where it came to lie, pinched     *)
(* perhaps, but not lifted.                                                  *)
MissPick(a) ==
  LET o == prim[a].req.obj
  IN /\ Running(a, "grip")
     /\ \/ ~Paired /\ RestoreArm(a, o)
        \/ Paired /\ UNCHANGED <<jaws, spot>>
        \/ Paired /\ CanLift(a, o) /\ spot' = [spot EXCEPT ![o] = "astray"] /\ UNCHANGED jaws
        \/ Paired /\ CanLift(a, o) /\ jaws' = [jaws EXCEPT ![a] = @ \cup {o}] /\ UNCHANGED spot
     /\ Ends(a, FALSE)
     /\ UNCHANGED <<claim, opened, frozen, flight>>

(* _do_pick_bimanual: both arms pinch the rim and lift together; a miss      *)
(* opens both and rewinds the whole simulation.                              *)
PickBimanual(a) ==
  LET o == prim[a].req.obj
      lifted == /\ frozen = {}
                /\ jaws' = [b \in Arms |-> {o}]
                /\ spot' = [p \in Objects |-> IF p # o /\ InAJaw(p, jaws) THEN "astray" ELSE spot[p]]
                /\ Ends(a, TRUE)
      missed == RestoreAll(a, o) /\ Ends(a, FALSE)
  IN /\ Running(a, "start") /\ prim[a].req.op = "PICK" /\ prim[a].req.obj \in Bimanual
     /\ Unsafe(a) \/ lifted \/ missed
     /\ UNCHANGED <<claim, opened, frozen, flight>>

(* _do_place.  The guard first: an object that has left the grip, a joint at *)
(* its limit or a shared target ends it before anything moves.               *)
Carry(a) ==
  LET o == prim[a].req.obj
  IN /\ Running(a, "start") /\ prim[a].req.op = "MOVE" /\ o \notin Bimanual
     /\ \/ Unsafe(a)
        \/ o \in jaws[a] /\ Goto(a, "carry") /\ UNCHANGED <<jaws, spot>>
     /\ UNCHANGED <<claim, opened, frozen, flight>>

(* Let go over the target, and see what became of the object.                *)
LetGo(a) ==
  LET o == prim[a].req.obj
  IN /\ Running(a, "carry")
     /\ IF a \in frozen THEN UNCHANGED <<jaws, spot>> /\ Ends(a, FALSE)
        ELSE /\ jaws' = [jaws EXCEPT ![a] = {}]
             /\ \E placed \in BOOLEAN, at \in {"goal", "astray"} :
                  /\ placed => at = "goal"
                  /\ spot' = [p \in Objects |-> CASE p = o -> at
                                [] p \in jaws[a] \ {o} -> "astray" [] OTHER -> spot[p]]
                  /\ Ends(a, placed)
     /\ UNCHANGED <<claim, opened, frozen, flight>>

(* _do_place_bimanual: no guard before, both let go.                         *)
PlaceBimanual(a) ==
  LET o == prim[a].req.obj
  IN /\ Running(a, "start") /\ prim[a].req.op = "MOVE" /\ o \in Bimanual
     /\ \E placed \in BOOLEAN, at \in {"goal", "astray"} :
          /\ placed => at = "goal" /\ frozen = {} /\ \A b \in Arms : o \in jaws[b]
          /\ jaws' = [b \in Arms |-> IF b \in frozen THEN jaws[b] ELSE {}]
          /\ spot' = [p \in Objects |-> CASE p = o -> at
                        [] p # o /\ InAJaw(p, jaws) /\ ~InAJaw(p, jaws') -> "astray"
                        [] OTHER -> spot[p]]
          /\ Ends(a, placed)
     /\ UNCHANGED <<claim, opened, frozen, flight>>

(* OPEN: a symbolic write, or _do_open_drawer, which opens the jaws first. A *)
(* single transition that fails rewinds the whole simulation.                *)
Pull(a) ==
  LET d == prim[a].req.obj
  IN /\ Running(a, "start") /\ prim[a].req.op = "OPEN"
     /\ \/ ~RealDrawers /\ opened' = opened \cup {d} /\ Ends(a, TRUE) /\ UNCHANGED <<jaws, spot>>
        \/ RealDrawers /\ a \notin frozen /\ opened' = opened \cup {d} /\ Ends(a, TRUE) /\ Opens({a})
        \/ /\ RealDrawers /\ Ends(a, FALSE) /\ UNCHANGED opened
           /\ IF Paired THEN Opens({a}) ELSE UNCHANGED <<jaws, spot>>
     /\ UNCHANGED <<claim, frozen, flight>>

(* A thread parked at the barrier looks again.                               *)
Unpark(a) ==
  /\ CanWake(bar, a)
  /\ bar' = Wake(bar, a)
  /\ UNCHANGED <<claim, physics, frozen, flight, prim>>

Primitives ==
  \E a \in Arms : \/ Approach(a) \/ Lift(a) \/ TryAgain(a) \/ OpenAgain(a) \/ MissPick(a)
                  \/ PickBimanual(a) \/ Carry(a) \/ LetGo(a) \/ PlaceBimanual(a) \/ Pull(a)
                  \/ Unpark(a)

------------------------------------------------------------------------------
AllEnded == flight # <<>> /\ \A a \in Arms : prim[a] # None => prim[a].phase = "ended"

(* The single transition's claim is kept or taken back.                      *)
ConcludeOne ==
  LET r == flight[1] IN
  /\ AllEnded /\ ~Paired
  /\ IF prim[r.arm].ok THEN UNCHANGED claim ELSE TakenBack(r, prim[r.arm].before)
  /\ flight' = <<>> /\ prim' = Idle /\ bar' = NewStepper({})
  /\ UNCHANGED <<physics, frozen>>

(* The pair's claims, made in the order of the requests; either is refused   *)
(* as a single one would be, which loses the rest.                           *)
Claimed(r, z, w) ==
  LET ok == prim[r.arm].ok
  IN [zone  |-> IF r.op = "MOVE" /\ ok THEN [z EXCEPT ![r.obj] = "goal"] ELSE z,
      owner |-> CASE r.op = "PICK" -> IF ok THEN [w EXCEPT ![r.obj] = r.arm] ELSE w
                  [] r.op = "MOVE" -> [w EXCEPT ![r.obj] = None]
                  [] OTHER -> w]
ConcludePair ==
  LET r == flight[1]
      s == flight[2]
      one == Claimed(r, zone, owner)
      two == Claimed(s, one.zone, one.owner)
  IN /\ AllEnded /\ Paired
     /\ CASE ~Accepts(r) -> UNCHANGED claim
          [] Accepts(r) /\ ~Accepts(s) -> zone' = one.zone /\ owner' = one.owner
          [] OTHER -> zone' = two.zone /\ owner' = two.owner
     /\ flight' = <<>> /\ prim' = Idle /\ bar' = NewStepper({})
     /\ UNCHANGED <<physics, frozen>>

Succeeded == \A i \in DOMAIN flight : prim[flight[i].arm].ok /\ (Paired => Accepts(flight[i]))

(* fail_arm, between two transitions: the arm no longer answers.             *)
FailArm(a) == frozen' = frozen \cup {a} /\ UNCHANGED <<claim, physics, flight, prim, bar>>

AtRest == flight = <<>>
=============================================================================
