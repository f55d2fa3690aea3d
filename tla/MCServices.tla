----------------------------- MODULE MCServices ------------------------------
(* The parts around the engine that share no state, checked side by side:    *)
(* a behaviour is one of its component's, the others staying as they began.  *)
EXTENDS ContactHandoff, SkillRuntime, Residency, Reactor, EvidenceLedger, DatasetBuilds,
        PlannedRun, PackedTraining, SharedArms, ExpressiveMotion, VoiceGrounding,
        EvidenceBundle, Humanoid, SessionServer

CONSTANTS r1, r2, r3
VARIABLE component
services == <<component, handoffVars, skillVars, slider, reactor, vars, datasets, planned, training,
              sharedArms, expressive, grounding, bundles, humanoid, serving>>

\* One arm at the end of a line of three cells, a cup at the other end, and a
\* tools detector that may take the cup for a knife.
MCKind == [l \in {"cup", "knife", "hand", "left_arm"} |-> IF l = "hand" THEN "human" ELSE l]
MCZoneAt == <<"arm_zone", "arm_zone", "arm_zone">>
MCObjectName == <<"cup", 7>>
MCArmLabels == {"left_arm"}
MCLabels == {"knife"}

MCProposals == {-2, 1}
MCBytes == <<6, 4, 2>>

\* Two arms and a third that comes later; a wave of both, one of one, one that
\* needs the third, and the empty one.
MCWaves == {<<>>, <<[step |-> "m1", arms |-> {"u", "v"}]>>,
            <<[step |-> "m1", arms |-> {"u"}], [step |-> "m2", arms |-> {"v"}]>>,
            <<[step |-> "m3", arms |-> {"w"}]>>}

\* One image in the validation archive, two in the training archive, and two
\* or three in every bucket; some are one bit apart, in chains.
MCMembers == ("val" :> <<"z1">>) @@ ("train" :> <<"t1", "t2">>)
MCBucket  == ("val" :> {"v1"}) @@ ("oi" :> {"o1", "o2", "o3"}) @@ ("context" :> {"c1", "c2"})
MCPrint   == [p \in Images |->
  CASE p \in {"z1", "t1", "o1"} -> {}
    [] p \in {"v1", "o2", "c1", "d1"} -> {1}
    [] p \in {"x1", "o3", "d2"} -> {1, 2}
    [] p = "t2" -> {2, 3}
    [] OTHER -> {1, 2, 3}]
MCRank == [p \in Images |->
  CASE p \in {"z1", "t1", "o1", "c1", "d1", "x1", "v1"} -> 1 [] p \in {"t2", "o2", "c2", "d2"} -> 2 [] OTHER -> 3]
MCBoxes == [p \in Images |->
  CASE p = "o1" -> [cup |-> 3, drawer |-> 0] [] p \in {"o3", "v2"} -> [cup |-> 0, drawer |-> 1]
    [] OTHER -> [cup |-> 2, drawer |-> 0]]

\* Windows for both arms or one, at the plan's revision or a later one, with a
\* LEAD alone, touching primitives, no time left, or not well formed; a task of
\* one arm then both, of the left arm, and of both at once.
Grant == [start |-> 0, deadline |-> 4, returnBy |-> NoWindow, margin |-> 1,
          arms |-> <<"left", "right">>, regions |-> <<"safe_free">>,
          primitives |-> {"ARC", "LEAD", "FOLLOW"}, touch |-> 0, together |-> TRUE, base |-> 1]
MCAsked == {Grant, [Grant EXCEPT !.together = FALSE, !.primitives = {"ARC", "LEAD"}],
            [Grant EXCEPT !.primitives = {"LEAD"}],
            [Grant EXCEPT !.arms = <<"right">>, !.primitives = {"ARC"}, !.base = 2], [Grant EXCEPT !.returnBy = 0],
            [Grant EXCEPT !.primitives = {"SOFT_CONTACT", "ARC"}, !.touch = 2, !.base = 3],
            [Grant EXCEPT !.arms = <<"right">>, !.margin = 5], [Grant EXCEPT !.arms = <<>>]}
MCWork == {<<{"left"}, {"left", "right"}, {"none"}>>, <<{"left"}, {"left"}, {"none"}>>,
           <<{"left", "right"}, {"right"}, {"left"}>>}
MCRequests == {[primitive |-> "ARC", region |-> "safe_free", duration |-> 4],
               [primitive |-> "SOFT_CONTACT", region |-> "safe_free", duration |-> 4]}

\* A convolution with two blocks, the second one short, a bias and a batch
\* normalization's counter; weights from below the floor to the top scale.
MCWeights == <<"conv", "bias">>
MCOrigins == {[weights |-> [conv |-> <<2000000, -5000, 7>>, bias |-> <<327680>>], count |-> 0],
              [weights |-> [conv |-> <<-1, 0, 229376>>, bias |-> <<0>>], count |-> 3]}
MCSteps == {[conv |-> <<1, -1, 1>>, bias |-> <<-1>>], [conv |-> <<-1, 0, -1>>, bias |-> Absent]}

\* The slider's receipt, a run that passes its log on as a file, and a name
\* that is not an artifact's.
MCParts == {ReceiptParts, <<[name |-> LogName, kept |-> "path"]>>,
            <<[name |-> "../x", kept |-> "bytes"]>>}

\* An operator and a bystander at a table of their own, or at another's.
MCScenes == {[things |-> {"cup", "fork"}, ours |-> TRUE], [things |-> {"cup"}, ours |-> FALSE]}
Utter(v, say, sure, pointed, tardy) ==
  [who |-> v, say |-> say, sure |-> sure, pointed |-> pointed, late |-> tardy]
MCUtterances ==
  {Utter(v, say, TRUE, Nil, FALSE) : v \in Voices, say \in {"no", "arm"}}
    \cup {Utter("S1", "that", TRUE, pointed, FALSE) : pointed \in {Nil, "fork"}}
    \cup {Utter("S1", "dont", TRUE, Nil, FALSE), Utter("S1", "that", FALSE, "fork", FALSE),
          Utter("S1", "ask", TRUE, Nil, FALSE), Utter("S2", "him", TRUE, "fork", FALSE),
          Utter("S1", "stop", FALSE, Nil, FALSE), Utter("S1", "arm", TRUE, Nil, TRUE)}

\* Three objects: a cup and a plate to be moved, the plate across the table and
\* before anything else, and a knife nobody may touch.
MCThings == {"cup", "knife", "plate"}
MCOrder == <<"cup", "knife", "plate">>
MCClass == [o \in MCThings |-> IF o = "knife" THEN "tool" ELSE "ware"]
MCGoal == [o \in MCThings |-> IF o = "plate" THEN "tray" ELSE "bin"]
MCBegins == {[cup |-> c, knife |-> "bin", plate |-> p] : c \in {"A", "bin"}, p \in {"A", "tray"}}
MCSurface == {<<"A", "bin">>}
MCTokens == [cup |-> <<1>>, knife |-> <<2>>, plate |-> <<1, 3>>]
MCLines == {Ask("PICK", "cup", Nobody, Nobody), Ask("PICK", "plate", "right", Nobody),
            Ask("MOVE", "cup", "left", "bin"), Ask("MOVE", "plate", Nobody, "tray"),
            Ask("MOVE", "plate", "left", "bin"), Ask("PLACE", "plate", "right", Nobody),
            Ask("PRESENT", "cup", Nobody, Nobody), Ask("PICK", "knife", "left", Nobody),
            Ask("VERIFY", Nobody, Nobody, Nobody), Ask("ROTATE", "fork", Nobody, Nobody)}
MCTexts == BoundedSeq(MCLines, 2)
MCMutations == {[kind |-> "spin", what |-> "cup"], [kind |-> "nudge", what |-> "cup"],
                [kind |-> "nudge", what |-> "plate"], [kind |-> "spin_on_place", what |-> "ware"]}
MCReach == {<<"right", "cup">>, <<"right", "plate">>}
MCPrecede == <<"plate">>

\* A checkout as it should be, with two legs and an arm whose actuator is the
\* first, and what may be wrong with one: among others an actuator that has a
\* leg's name and drives the arm.
GoodArtifact ==
  [missing |-> {}, root |-> "directory", given |-> "deployed", files |-> {"deployed", "motion", "scene"},
   mapping |-> TRUE, policy |-> "motion", xml |-> "scene", dt |-> 2, decimation |-> 2, actions |-> 2,
   observations |-> 17, kps |-> <<100, 40>>, kds |-> <<2, 2>>, angles |-> <<-1, 3>>,
   cmdScale |-> <<2, 2, 0>>, scales |-> {0, 1}, positions |-> 10, speeds |-> 9, actuators |-> 3,
   hinges |-> {"left", "right", "arm"}, named |-> [left |-> 2, right |-> 3],
   drives |-> <<"arm", "left", "right">>, loads |-> TRUE]
MCArtifacts ==
  {[GoodArtifact EXCEPT !.decimation = d] : d \in 0..3}
    \cup {[GoodArtifact EXCEPT !.drives = <<"left", "arm", "right">>],
          [GoodArtifact EXCEPT !.given = "relative"], [GoodArtifact EXCEPT !.policy = Unbound],
          [GoodArtifact EXCEPT !.kds = <<2, NoNumber>>], [GoodArtifact EXCEPT !.hinges = {"left"}]}
MCFastest == <<80, 50, 157>>
MCIntents == {<<50, 0, 0>>, <<300, -200, 400>>, <<0, NoNumber, 0>>}

\* The mock runtime, the simulator with a reasoner, with one that lacks its
\* checkpoint, without MuJoCo, and a runtime nobody knows; bodies with and
\* without a profile, with constraints spoken, listed, and one refused.
Plain == [runtime |-> "", reasoner |-> "off", checkpoint |-> FALSE, simulator |-> FALSE]
MCEnvironments ==
  {Plain, [Plain EXCEPT !.runtime = "intel", !.simulator = TRUE, !.reasoner = "mock"],
   [Plain EXCEPT !.reasoner = "omni"], [Plain EXCEPT !.runtime = "intel_sim"], [Plain EXCEPT !.runtime = "real"]}
Body == [json |-> TRUE, goal |-> "text", profile |-> Nowhere, spoken |-> <<>>, listed |-> <<>>]
MCBodies ==
  {[Body EXCEPT !.spoken = <<"local">>, !.listed = <<"left">>], [Body EXCEPT !.goal = "blank"],
   [Body EXCEPT !.listed = <<"left", "unjustified">>], [Body EXCEPT !.profile = "dinner"],
   [Body EXCEPT !.profile = "other"]}

Components == {"handoff", "skills", "residency", "reactor", "ledger", "datasets", "planning",
               "packing", "arms", "expression", "grounding", "bundles",
               "humanoid", "server"}
\* The initial states of a component that is not looked at are as one.
ServicesInit ==
  /\ component \in Components
  /\ HandoffInit /\ SkillInit /\ ResidencyInit /\ ReactorInit /\ Init /\ DatasetInit /\ PlannedInit
  /\ TrainingInit /\ SharedArmsInit /\ ExpressiveInit /\ GroundingInit /\ BundleInit
  /\ HumanoidInit /\ ServerInit
  /\ component # "server" => setting = Plain
  /\ component # "skills" => position = Lower
  /\ component # "residency" => available = 0
  /\ component # "planning" => planner = "rewriting" /\ \A o \in Things : spot[o] = Goal[o]
  /\ component # "expression" => window = NoWindow /\ chores = <<{"left"}, {"left"}, {"none"}>>
  /\ component # "grounding" => scene.things = Objects

HandoffStep == component = "handoff" /\ HandoffNext
SkillStep == component = "skills" /\ SkillNext
ResidencyStep == component = "residency" /\ ResidencyNext
ReactorStep == component = "reactor" /\ ReactorNext
LedgerStep == component = "ledger" /\ Next
DatasetStep == component = "datasets" /\ DatasetNext
PlanningStep == component = "planning" /\ PlannedNext
PackingStep == component = "packing" /\ TrainingNext
ArmsStep == component = "arms" /\ SharedArmsNext
ExpressionStep == component = "expression" /\ ExpressiveNext
GroundingStep == component = "grounding" /\ GroundingNext
BundleStep == component = "bundles" /\ BundleNext
ServerStep == component = "server" /\ ServerNext
HumanoidStep == component = "humanoid" /\ HumanoidNext

ServicesNext ==
  /\ \/ HandoffStep \/ SkillStep \/ ResidencyStep \/ ReactorStep \/ LedgerStep \/ DatasetStep
     \/ PlanningStep \/ PackingStep \/ ArmsStep \/ ExpressionStep \/ GroundingStep
     \/ BundleStep \/ HumanoidStep \/ ServerStep
  /\ component # "handoff" => UNCHANGED handoffVars
  /\ component # "skills" => UNCHANGED skillVars
  /\ component # "residency" => UNCHANGED slider
  /\ component # "reactor" => UNCHANGED reactor
  /\ component # "ledger" => UNCHANGED vars
  /\ component # "datasets" => UNCHANGED datasets
  /\ component # "planning" => UNCHANGED planned
  /\ component # "packing" => UNCHANGED training
  /\ component # "arms" => UNCHANGED sharedArms
  /\ component # "expression" => UNCHANGED expressive
  /\ component # "grounding" => UNCHANGED grounding
  /\ component # "bundles" => UNCHANGED bundles
  /\ component # "humanoid" => UNCHANGED humanoid
  /\ component # "server" => UNCHANGED serving
  /\ UNCHANGED component
ServicesSpec == ServicesInit /\ [][ServicesNext]_services

\* The builders alone, pseudo_label in a directory it has filled before too.
AgainStep ==
  /\ component = "datasets" /\ AgainNext
  /\ UNCHANGED <<component, handoffVars, skillVars, slider, reactor, vars, planned, training, sharedArms,
               expressive, grounding, bundles, humanoid, serving>>
ServicesAgainSpec == ServicesInit /\ component = "datasets" /\ [][AgainStep]_services
==============================================================================
