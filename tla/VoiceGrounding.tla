---------------------------- MODULE VoiceGrounding ----------------------------
(* What is heard, and who and what it is taken to mean: VoiceRuntime with    *)
(* its registry of speakers, arbiter, references to things and authority     *)
(* (voice.py), behind an IntentAccumulator that holds half an instruction,   *)
(* in a world that moves while people speak.  Words are phrases of a small   *)
(* alphabet; the caller hands the world over with every utterance.  What    *)
(* comes back to the transport is said aloud (response.py).                  *)
EXTENDS Naturals, Sequences, FiniteSets

CONSTANTS
  Voices,       \* diarization labels
  Trusted,      \* those registered as operators when first heard
  Objects,      \* object_candidates, what the world may hold
  Scenes,       \* worlds it moves between: [things, ours], ours of the session's organization
  Attached,     \* the handlers the runtime was given: {"interrupt", "dialogue"} or fewer
  Utterances,   \* what may be said: [who, say, sure, pointed, late]
  LongestHold,  \* max_utterances
  MaxUttered, MaxMoved, \* bounds
  Nil

\* "no, ", "don't touch", "that", "that is for him", "don't use the left arm",
\* "stop", "Omni, what is that?"
Sayings == {"no", "dont", "that", "him", "arm", "stop", "ask"}
ASSUME GroundingAssumption ==
  /\ Trusted \subseteq Voices
  /\ Utterances \subseteq [who : Voices, say : Sayings, sure : BOOLEAN, pointed : Objects \cup {Nil}, late : BOOLEAN]
  /\ Scenes \subseteq [things : SUBSET Objects, ours : BOOLEAN] /\ Attached \subseteq {"interrupt", "dialogue"}
  /\ LongestHold \in Nat \ {0}
  /\ Nil \notin [scene : [rev : Nat, things : SUBSET Objects, ours : BOOLEAN], observed : Nat,
                 pointed : Objects \cup {Nil}]

VARIABLES
  scene,     \* the world: [rev, things, ours]
  begun,     \* the utterance being said: [who, rev], the revision it began at
  hold,      \* _held and _held_kwargs: [said, given]
  speakers,  \* the registry: [voice -> unheard, unknown or operator]
  arbiter,   \* [mode, active, overlapping, latest: voice -> its last intent]
  intents,   \* what came of every final, in order
  uttered
grounding == <<scene, begun, hold, speakers, arbiter, intents, uttered>>

(* ------------------------ what the text asks for ------------------------- *)
Mentions(said, words) == \E i \in DOMAIN said : said[i].say \in words
\* "don't touch" and what follows it is an object nobody may touch.
Forbids(said) ==
  LET donts == {i \in DOMAIN said : said[i].say = "dont"}
  IN  donts # {} /\ Len(said) \notin donts
Question(said) == Head(said).say = "ask"
Wants(said) == IF Mentions(said, {"arm"}) \/ Forbids(said) THEN "graph_mutation"
               ELSE IF Mentions(said, {"ask"}) THEN "command" ELSE "none"
Whole(said) == Mentions(said, {"stop"}) \/ Question(said) \/ Wants(said) = "graph_mutation"
               \/ (Wants(said) = "command" /\ said[Len(said)].say = "ask")

(* ----------------------- registry and arbiter ---------------------------- *)
(* observe makes a voice known; the transport's on_final_speech hook grants  *)
(* it authority before its first words are judged.  finish_turn has no       *)
(* caller: a turn, once active, stays so.                                    *)
Heard(st, v) == [st EXCEPT !.speakers[v] = IF @ = "unheard" THEN "unknown" ELSE @]
Registered(v) == IF v \in Trusted THEN "operator" ELSE "unknown"
Overlaps(a, v) ==
  IF a.active \notin {Nil, v}
  THEN [a EXCEPT !.overlapping = @ \cup {a.active, v}, !.mode = "overlapping"]
  ELSE [a EXCEPT !.active = v, !.mode = "speaker_active"]
Finals(a, v) == [a EXCEPT !.active = v, !.overlapping = @ \ {v}, !.mode = "speaker_active"]
\* Mutant: a correction is of whatever was said last.
LatestOfAll(st, v) == CHOOSE n \in {st.arbiter.latest[w] : w \in Voices} :
                        \A w \in Voices : st.arbiter.latest[w] <= n
Latest(st, v) == st.arbiter.latest[v]

(* AuthorityResolver.resolve: by role and registration, never by name, and   *)
(* never over the world of another organization.                             *)
Granted(role, capability, given) == given.scene.ours /\ role = "operator" /\ capability # "none"

(* ReferenceResolver.resolve: what is pointed at, or the only candidate, and *)
(* nothing when the world moved since the utterance began.                   *)
Resolve(said, given) ==
  IF ~Mentions(said, {"that", "him", "ask"}) THEN Nil
  ELSE IF given.pointed \in given.scene.things THEN given.pointed
  ELSE IF Cardinality(given.scene.things) = 1 THEN CHOOSE o \in given.scene.things : TRUE
  ELSE Nil
Resolved(said, given) == IF given.scene.rev # given.observed THEN Nil ELSE Resolve(said, given)

NoHold == [said |-> <<>>, given |-> Nil, sure |-> TRUE]

(* What came of a final, before anybody is asked: VoiceDispatchResult.       *)
Observed(v, said, sure, given, taken) ==
  [who |-> v, said |-> said, sure |-> sure, given |-> given, now |-> scene.rev, wants |-> taken,
   means |-> Resolved(said, given), corrects |-> 0, status |-> "observed", told |-> "nothing"]

(* What is said aloud of it: only what its status claims, and of what was    *)
(* committed, what it was.                                                   *)
Committed(said) == IF Mentions(said, {"arm"}) THEN "arm_removed" ELSE "committed"
Reply(n, status) ==
  CASE status = "committed" -> Committed(n.said)
    [] status = "interrupted" -> "stopping"
    [] status = "observed" -> "nothing"
    [] status = "dialogue_failed" -> IF n.given.scene.ours THEN "dialogue_unavailable" ELSE "scope_unavailable"
    [] OTHER -> status

(* VoiceRuntime.ingest_final.  ok: the mutator or the handler, or else the   *)
(* dialogue backend, confirms.                                               *)
Outcome(allowed, ok) == IF ~allowed THEN "denied" ELSE IF ok THEN "committed" ELSE "authorized"
Interrupts(allowed) == IF allowed /\ "interrupt" \in Attached THEN "interrupted" ELSE "interrupt_denied"
Addressed(said) == "dialogue" \in Attached /\ Question(said)
Answers(given, ok) == IF given.scene.ours /\ ok THEN "answered" ELSE "dialogue_failed"
Concludes(n, status) == [n EXCEPT !.status = status, !.told = Reply(n, status)]
Ends(st, v, a, n) ==
  [hold |-> NoHold, speakers |-> [st.speakers EXCEPT ![v] = Registered(v)], arbiter |-> a,
   intents |-> Append(st.intents, n)]
Interpret(st, v, said, sure, given, ok) ==
  LET turn == Finals(st.arbiter, v)
      asked == IF Question(said) /\ Wants(said) = "command" THEN "none" ELSE Wants(said)
      taken == IF sure THEN asked ELSE "none"
      plain == Observed(v, said, sure, given, taken)
  IN  IF Mentions(said, {"stop"})
      THEN Ends(st, v, [turn EXCEPT !.mode = "interrupted"],
                Concludes([plain EXCEPT !.wants = "stop", !.means = Nil],
                          Interrupts(Granted(Registered(v), "stop", given))))
      ELSE Ends(st, v, [turn EXCEPT !.latest[v] = Len(st.intents) + 1],
                Concludes([plain EXCEPT !.corrects = IF Head(said).say = "no" THEN Latest(st, v) ELSE 0],
                          IF taken # "none" THEN Outcome(Granted(Registered(v), taken, given), ok)
                          ELSE IF asked = "none" /\ Addressed(said) THEN Answers(given, ok) ELSE "observed"))

(* ---------------------------- the accumulator ---------------------------- *)
Given(st, given) == IF st.hold.given = Nil THEN given ELSE st.hold.given
LastVoice(st) == st.hold.said[Len(st.hold.said)].who
Release(st, given, ok) ==
  Interpret(st, LastVoice(st), st.hold.said, st.hold.sure, Given(st, given), ok)
(* A result nobody hands on: nothing is said of it.                          *)
Unsaid(st) == [st EXCEPT !.intents[Len(st.intents)].told = "nothing"]
OutOfDate(st, u) == st.hold.said # <<>> /\ (u.late \/ LastVoice(st) # u.who)
Offer(st, u, given, ok) ==
  LET said == Append(st.hold.said, [who |-> u.who, say |-> u.say, rev |-> given.observed])
      kept == [st EXCEPT !.hold = [said |-> said, given |-> Given(st, given), sure |-> u.sure]]
  IN  IF Whole(said)
      THEN Interpret(st, u.who, said, u.sure, Given(st, given), ok)
      ELSE IF Len(said) >= LongestHold THEN Release(kept, given, ok) ELSE kept

------------------------------------------------------------------------------
Now == [hold |-> hold, speakers |-> speakers, arbiter |-> arbiter, intents |-> intents]
Becomes(st) == /\ hold' = st.hold /\ speakers' = st.speakers
               /\ arbiter' = st.arbiter /\ intents' = st.intents

(* Somebody begins to speak: the transport notes the world's revision with   *)
(* the first fragment and passes the partials on at once.                    *)
BeginToSpeak(v) ==
  /\ begun = Nil /\ uttered < MaxUttered
  /\ begun' = [who |-> v, rev |-> scene.rev]
  /\ Becomes([Heard(Now, v) EXCEPT !.arbiter = Overlaps(@, v)])
  /\ UNCHANGED <<scene, uttered>>

(* The utterance is over and comes to the accumulator, with the world as it  *)
(* is: an expired hold first, then what is said now.                         *)
Deliver(u) ==
  /\ begun # Nil /\ begun.who = u.who
  /\ \E first, second \in BOOLEAN :
       LET given == [scene |-> scene, observed |-> begun.rev, pointed |-> u.pointed]
           clear == IF OutOfDate(Now, u) THEN Unsaid(Release(Now, given, first)) ELSE Now
       IN  Becomes(Offer(clear, u, given, second))
  /\ begun' = Nil /\ uttered' = uttered + 1
  /\ UNCHANGED scene

(* The end of the turn as the provider sees it, or the ticker, which drops   *)
(* the result.                                                               *)
WindowEnds ==
  /\ hold.said # <<>>
  /\ \E ok, ticked \in BOOLEAN :
       LET released == Release(Now, hold.given, ok)
       IN  Becomes(IF ticked THEN Unsaid(released) ELSE released)
  /\ UNCHANGED <<scene, begun, uttered>>

WorldMovesOn ==
  /\ scene.rev < MaxMoved
  /\ \E s \in Scenes : scene' = [rev |-> scene.rev + 1, things |-> s.things, ours |-> s.ours]
  /\ UNCHANGED <<begun, hold, speakers, arbiter, intents, uttered>>

GroundingInit ==
  /\ scene \in {[rev |-> 0, things |-> s.things, ours |-> s.ours] : s \in Scenes} /\ begun = Nil /\ hold = NoHold
  /\ speakers = [v \in Voices |-> "unheard"]
  /\ arbiter = [mode |-> "open", active |-> Nil, overlapping |-> {}, latest |-> [v \in Voices |-> 0]]
  /\ intents = <<>> /\ uttered = 0
GroundingNext ==
  \/ \E v \in Voices : BeginToSpeak(v)
  \/ \E u \in Utterances : Deliver(u)
  \/ WindowEnds \/ WorldMovesOn
GroundingSpec == GroundingInit /\ [][GroundingNext]_grounding

(* ------------------------------- properties ------------------------------ *)

Acted(n) == n.status \in {"authorized", "committed", "interrupted"}

(* What is acted on was said by one voice from its first word to its last;   *)
(* a thing it means stood in the scene that came with it, unmoved since the  *)
(* first of these words began; and what it corrects is the speaker's own     *)
(* last intent, whoever spoke in between (ConversationArbiter: "without      *)
(* last-speaker-wins").  An arm is said to be gone only after its operator   *)
(* alone spoke of it, surely, and somebody confirmed (response.py: "Speak    *)
(* only state present in the real VoiceRuntime/OMNI result").                *)
TakenAsMeant == \A k \in DOMAIN intents :
  LET n == intents[k]
  IN  /\ Acted(n) => \A i \in DOMAIN n.said : n.said[i].who = n.who
      /\ n.means # Nil => n.means \in n.given.scene.things /\ n.said[1].rev = n.given.scene.rev
      /\ n.corrects # 0 =>
           /\ n.corrects < k /\ intents[n.corrects].who = n.who
           /\ \A j \in (n.corrects + 1)..(k - 1) : intents[j].who # n.who \/ intents[j].wants = "stop"
      /\ n.told = "arm_removed" =>
           /\ n.who \in Trusted /\ n.sure /\ n.status = "committed"
           /\ \E i \in DOMAIN n.said : n.said[i].who = n.who /\ n.said[i].say = "arm"

(* A reference that is acted on is to the world as it is when it is acted    *)
(* on: if it moved after the utterance began, nothing is meant               *)
(* (docs/evidence-lag-audit-2026-09-13.md, 2).                               *)
StaleNeverBinds == \A k \in DOMAIN intents :
  (Acted(intents[k]) /\ intents[k].means # Nil) => intents[k].now = intents[k].said[1].rev
==============================================================================
