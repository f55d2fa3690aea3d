------------------------------ MODULE MCEngine -----------------------------
(***************************************************************************)
(* The engine with the rule planner: two parts, two arms, one camera; and  *)
(* with a planner it cannot trust (as the injected planners of             *)
(* tests/test_governed_execution.py), where the cup has no live backing.   *)
(***************************************************************************)
EXTENDS MissionProfile, RulePlanner

CONSTANTS plate, cup, tray, place, bin, left, right, leftArm, rightArm, camera, cloudArm

MCOrder    == SelectSeq(<<cup, plate>>, LAMBDA o : o \in Objects)
MCTarget   == [o \in Objects |-> IF o = plate THEN place ELSE tray]
MCInitial  == [o \in Objects |-> tray]
MCBothAway == [o \in Objects |-> IF o = plate THEN tray ELSE bin]

MCRank  == [d \in Devices |->
  CASE d = leftArm -> 1 [] d = rightArm -> 2 [] d = camera -> 3 [] d = cloudArm -> 4]
MCHosts == [d \in Devices |->
  CASE d = camera -> {"perception"} [] d = cloudArm -> {"arm", "perception"} [] OTHER -> {"arm"}]
MCArmOf == [d \in Devices |->
  CASE d = leftArm -> left [] d = rightArm -> right [] OTHER -> None]
MCReach == [a \in Arms |-> Zones \cap (IF a = left THEN {tray, place, bin} ELSE {tray, place})]

\* Two seats, one thing at each, with a tolerance; the first one is set.
MCIdOf     == [p \in {1} \X (1..Cardinality(Objects)) |-> IF p[2] = 1 THEN plate ELSE cup]
MCSeatZone == [s \in 1..Cardinality(Objects) |-> IF s = 1 THEN place ELSE tray]
MCStaged   == [o \in Objects |-> StartsIn(CHOOSE p \in Placements : IdOf[p] = o)]

MCOps     == {"PICK", "MOVE", "PRESENT"}
Forbid(o) == [kind |-> "forbid_object", value |-> o]
Prefer(a) == [kind |-> "prefer_arm", value |-> a]
KeepLocal == [kind |-> "keep_local", value |-> None]
ShowOff   == [kind |-> "show_off", value |-> None]

MCOffered     == {Forbid(plate), Prefer(right), KeepLocal, ShowOff}
MCPreferRight == {Prefer(right)}
MCFaults      == {[id |-> 1, arm |-> left, org |-> TRUE], [id |-> 2, arm |-> left, org |-> FALSE]}

(* An untrusted planner: its graphs ignore constraints, name objects without *)
(* live backing, ask for operations outside the envelope, leave out          *)
(* arguments or hand objects to the wrong device.  The cloud's arm is the    *)
(* first choice.                                                             *)
HostileRank == [d \in Devices |->
  CASE d = cloudArm -> 1 [] d = leftArm -> 2 [] d = rightArm -> 3 [] d = camera -> 4]
HostileHosts   == [d \in Devices |-> IF d = camera THEN {"perception"} ELSE {"arm"}]
HostileOps     == {"PICK", "MOVE", "HANDOFF"}
HostileOffered == {Forbid(plate), KeepLocal}
HostileFaults  == {[id |-> 1, arm |-> left, org |-> TRUE], [id |-> 2, arm |-> right, org |-> FALSE]}

Ask(op, o, to, deps, arm) == [op |-> op, obj |-> o, to |-> to, deps |-> deps, arm |-> arm]

HostileGraphs ==
  { <<>>,
    << Ask("PICK", plate, None, {}, left),
       Ask("MOVE", plate, place, {<<"PICK", plate>>}, right) >>,
    << Ask("PICK", plate, None, {}, None),
       Ask("HANDOFF", plate, rightArm, {<<"PICK", plate>>}, None) >>,
    << Ask("MOVE", plate, place, {}, None), Ask("VERIFY", None, None, {}, None) >>,
    << Ask("MOVE", plate, None, {}, left), Ask("MOVE", cup, place, {}, right) >>,
    << Ask("PRESENT", plate, None, {}, right) >> }

HostilePlans(v, failedArms)  == HostileGraphs
(* The strict replan raises while an arm holds the plate.                    *)
HostileStrict(v, failedArms) == IF v.owner[plate] # None THEN {} ELSE HostileGraphs
=============================================================================
