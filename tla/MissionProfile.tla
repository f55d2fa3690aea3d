--------------------------- MODULE MissionProfile ---------------------------
(***************************************************************************)
(* A run of the engine for an event profile (profiles.ProfileMission and   *)
(* ProfileRecorder): what the profile wants on the table, how far the      *)
(* table is from it before and after, and the report the receipt seals.    *)
(* The files' parsing, venues and items' attributes are left out.          *)
(***************************************************************************)
EXTENDS OmniQEngine

CONSTANTS
  Items,    \* how many items of place_setting are enabled, in the file's order
  Guests,   \* guest_count
  Exact,    \* those of 1..Items that name a tolerance
  Posed,    \* objects that are seen with a metric pose
  IdOf,     \* the object id of an item at a seat: fork_1
  SeatZone, \* the zone of a seat: setting_1
  Staging   \* where ProfileWorld leaves what is not set

ASSUME ProfileAssumption ==
  /\ Guests \in Nat \ {0} /\ Items \in Nat /\ Exact \subseteq 1..Items /\ Posed \subseteq Objects
  /\ SeatZone \in [1..Guests -> Zones] /\ DOMAIN IdOf = (1..Items) \X (1..Guests)
  /\ \A p, q \in DOMAIN IdOf : IdOf[p] = IdOf[q] => p = q

VARIABLE mission \* [loaded, opening, report: the two ends of a run; carried: what it moved; failures]
missionVars == <<vars, mission>>

-----------------------------------------------------------------------------
(* What the profile wants: every enabled item at every seat, seat by seat.   *)
Placements == (1..Items) \X (1..Guests)
Setting(p) == SeatZone[p[2]]

(* ProfileWorld: of the table it stands for, every fifth placement is set.   *)
Index(p) == (p[2] - 1) * Items + p[1] - 1
StartsIn(p) == IF Index(p) % 5 = 0 THEN Setting(p) ELSE Staging

(* EventProfile.diff: nothing is asked of an object that is not seen, or     *)
(* whose detection is not live, but it stays unresolved.                     *)
Standing(w, p) == IF IdOf[p] \notin Objects THEN "missing"
                  ELSE IF IdOf[p] \in Fallback THEN "stale"
                  ELSE IF w.zone[IdOf[p]] # Setting(p) THEN "misplaced" ELSE "satisfied"
Diff(w) == [p \in Placements |-> Standing(w, p)]
Unresolved(diff) == Cardinality({p \in Placements : diff[p] # "satisfied"})
MetricGaps(diff) == {p \in Placements : diff[p] = "satisfied" /\ p[1] \in Exact /\ IdOf[p] \notin Posed}

(* EventProfile.report.  No action of the engine is ever of the kind         *)
(* "human.intervention", which interventions counts.                         *)
Report(opening, closing, replans, failures) ==
  [status |-> IF Unresolved(closing) = 0 THEN "COMPLETE" ELSE "HUMAN ASSISTANCE REQUIRED",
   resolved |-> Unresolved(closing) = 0, required |-> Cardinality(Placements),
   firstPass |-> Cardinality(Placements) - Unresolved(opening),
   corrected |-> IF Unresolved(closing) < Unresolved(opening)
                 THEN Unresolved(opening) - Unresolved(closing) ELSE 0,
   interventions |-> 0, replans |-> replans, graspRetries |-> failures,
   unresolved |-> Unresolved(closing), compliant |-> Cardinality(Placements) - Unresolved(closing),
   scope |-> IF MetricGaps(closing) = {} THEN "metric" ELSE "symbolic-zone",
   gaps |-> MetricGaps(closing), opened |-> opening, closed |-> closing]

-----------------------------------------------------------------------------
NotLoaded == [loaded |-> FALSE, opening |-> None, report |-> None, carried |-> {}, failures |-> 0]
MissionInit == Init /\ mission = NotLoaded

(* ProfileMission.run: the profile's diff is taken and announced, and then   *)
(* the engine's own run begins, with whatever happened in between.           *)
LoadProfile ==
  /\ pc = "idle" /\ ~mission.loaded /\ spent.runs < MaxRuns
  /\ mission' = [NotLoaded EXCEPT !.loaded = TRUE, !.opening = Diff(world)]
  /\ UNCHANGED vars
MissionStart == StartRun /\ mission.loaded /\ UNCHANGED mission

\* Mutant: the report closes on the diff the run opened with.
SealOpening ==
  Finish /\ mission' = [mission EXCEPT !.loaded = FALSE,
    !.report = Report(mission.opening, mission.opening, revisions, mission.failures)]

(* ProfileRecorder.record: the diff is taken again and the report sealed     *)
(* before the receipt is hashed, with the run's revisions and failed actions.*)
(* The recorder keeps what the run opened with.                              *)
Seal ==
  Finish /\ mission' = [mission EXCEPT !.loaded = FALSE,
    !.report = Report(mission.opening, Diff(world), revisions, mission.failures)]

(* Any other step of the run is the engine's; what it carries is noted, and  *)
(* what it tries in vain.                                                    *)
Carried == IF pc = "effect" /\ pc' = "verify" /\ flight.step.op = "MOVE"
           THEN mission.carried \cup {flight.step.obj} ELSE mission.carried
Failures == IF pc = "effect" /\ pc' = "recover" THEN mission.failures + 1 ELSE mission.failures
Proceed ==
  Engine /\ pc # "finish" /\ mission' = [mission EXCEPT !.carried = Carried, !.failures = Failures]
MissionEngine == Proceed \/ Seal
MissionNext ==
  \/ LoadProfile \/ MissionStart \/ MissionEngine
  \/ Surroundings /\ UNCHANGED mission
MissionSpec == MissionInit /\ [][MissionNext]_missionVars

(* run() is one thread that never waits for anybody: it keeps taking steps.  *)
(* Nobody has to start a run, queue a constraint or nudge a part.            *)
FairMissionSpec == MissionSpec /\ WF_missionVars(MissionEngine)

-----------------------------------------------------------------------------
Profiled == \A p \in Placements : IdOf[p] \in Objects \ Fallback /\ Setting(p) = Target[IdOf[p]]

(* What the profile report claims was earned.  A run ends outside HOLD only  *)
(* on a workspace check of its last graph, and then, if nobody touched the   *)
(* table, every placement is where the profile wants it and the report says  *)
(* COMPLETE; what it says was corrected, the run itself carried there, but   *)
(* for what somebody else put right, which it counts as its own; and every   *)
(* failed action it owns up to has cost it a replan.                         *)
ReportEarned ==
  /\ FinishVerified
  /\ pc = "idle" /\ mission.report # None =>
       /\ Profiled /\ mode # "HOLD" /\ spent.perturbed = 0 => mission.report.status = "COMPLETE"
       /\ mission.report.corrected <= Cardinality(mission.carried) + spent.perturbed
       /\ mission.report.graspRetries <= mission.report.replans
=============================================================================
