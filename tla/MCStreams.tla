------------------------------ MODULE MCStreams ------------------------------
(* Five parts that others rely on, side by side: the event stream of a       *)
(* session, speech on its way to the engine, what the cameras see, the fleet *)
(* that is shared, and the waves a plan is compiled into.                    *)
EXTENDS VoicePipeline, SessionStream, FleetExecutor, CameraObserver, MCScheduler

CONSTANTS engineThread, httpThread
VARIABLE component
streams == <<component, voice, stream, vars, camera, scheduling>>

(* Three arms, two regions, one other holder, schedules good and bad.        *)
CONSTANTS a1, a2, a3, r1, r2, grip, lift, guest, s1, s2, s3, booking, f1

MCCan    == [a \in Manipulators |-> IF a = a3 THEN {grip} ELSE {grip, lift}]
MCCovers == [a \in Manipulators |-> IF a = a2 THEN {r1, r2} ELSE IF a = a1 THEN {r1} ELSE {r1, r2}]
MCPairs  == {{a1, a2}}

Ask(s, op, arms, where) == [step |-> s, op |-> op, arms |-> arms, region |-> where]

MCSchedules == {
  \* side by side, a barrier, then a lift by two
  << <<Ask(s1, grip, {a1}, r1), Ask(s2, grip, {a2}, r2)>>, <<>>,
     <<Ask(s3, lift, {a1, a2}, r1)>> >>,
  \* both commands of the wave in one region
  << <<Ask(s1, grip, {a2}, r1), Ask(s2, grip, {a3}, r1)>> >>,
  \* one arm in both commands of the wave
  << <<Ask(s1, grip, {a2}, Nil), Ask(s2, grip, {a2, a3}, r2)>> >> }

MCRequests == {[capability |-> grip, region |-> r2], [capability |-> lift, region |-> Nil]}

MCFailures == {{a1}, {a2}, {a3}, {a1, a2}}

Booking(arms, from, to) ==
  [id |-> <<booking>>, owner |-> guest, arms |-> arms, from |-> from, to |-> to]

MCClientLeases ==
  {Booking({a1}, 0, 2), Booking({a3}, 1, 3), Booking({a2, a3}, 1, 2)}
    \cup {[Booking({a2}, 0, 3) EXCEPT !.id = <<booking, booking>>]}

\* Two forks seen by two cameras, one of them askew and unsure; either may also
\* report what is not there, a fork or a spoon, still less surely.
MCItems == <<"f1", "f2">>
MCItemKind == [o \in {"f1", "f2"} |-> "fork"]
MCViews == <<[skew |-> 0, conf |-> 9], [skew |-> 1, conf |-> 6]>>
MCGhosts == {[view |-> 2, kind |-> "fork", at |-> 3, conf |-> 4, of |-> "ghost"],
             [view |-> 1, kind |-> "spoon", at |-> 5, conf |-> 4, of |-> "ghost"]}
MCZoneOf == [c \in 0..20 |-> IF c < 4 THEN "left" ELSE "right"]
MCHomeOf == [k \in {"fork", "spoon"} |-> IF k = "fork" THEN "left" ELSE "right"]

\* An operator S1 whose words a bystander S2 breaks into.
MCSpeech ==
  [who : {"S1"}, say : {"stop", "using", "dangle", "side", "dot", "ask"}, gap : {"none"}]
  \cup {[who |-> "S1", say |-> "side", gap |-> "long"], [who |-> "S2", say |-> "dangle", gap |-> "none"]}
\* With a Spanish stop.
MCSafetySpeech == [who : {"S1"}, say : {"stop", "alto", "goal"}, gap : {"none"}]

StreamsInit ==
  /\ component \in {"voice", "session", "fleet", "cameras", "schedule"}
  /\ ScheduleInit
  /\ component # "schedule" => job = NoJob
  /\ VoiceInit /\ SessionInit /\ Init /\ CameraInit
  /\ component # "cameras" => place = [o \in OnTable |-> IF o = Items[1] THEN 0 ELSE KeptApart]

(* Where no plan is scheduled the empty one is first.                        *)
ScheduleStep == ScheduleNext /\ UNCHANGED <<component, voice, stream, vars, camera>>

Turns(c) == component = c /\ stage = "run" /\ UNCHANGED <<component, scheduling>>
VoiceStep == Turns("voice") /\ VoiceNext /\ UNCHANGED <<stream, vars, camera>>
SessionStep == Turns("session") /\ SessionNext /\ UNCHANGED <<voice, vars, camera>>
FleetStep == Turns("fleet") /\ Next /\ UNCHANGED <<voice, stream, camera>>
CameraStep == Turns("cameras") /\ CameraNext /\ UNCHANGED <<voice, stream, vars>>
StreamsNext == ScheduleStep \/ VoiceStep \/ SessionStep \/ FleetStep \/ CameraStep

SessionFairness ==
  /\ WF_stream(component = "session" /\ Publishing) /\ WF_stream(component = "session" /\ Run)
  /\ WF_stream(component = "session" /\ Serve) /\ WF_stream(component = "session" /\ Browse)

(* schedule() and the walk go on until it raised or nothing can be started:  *)
(* weak fairness, with the guard for the ENABLED predicate.                  *)
ScheduleOver == stage = "raised" \/ (stage = "run" /\ Startable = {})
ScheduleFairness == []<>ScheduleOver \/ []<><<ScheduleNext>>_scheduling

StreamsSpec == StreamsInit /\ [][StreamsNext]_streams
                 /\ VoiceFairness /\ SessionFairness /\ ScheduleFairness
==============================================================================
