---------------------------- MODULE VoicePipeline ----------------------------
(* Speech on its way to the graph: provider messages through the mapper and  *)
(* the UtteranceAggregator (transport.py), the IntentAccumulator and the     *)
(* VoiceRuntime (voice.py), and the responses a worker thread plays. Words   *)
(* are phrases of a small alphabet; confidence, references, the arbiter's    *)
(* mode and time are left out; a pause belongs to the fragment after it.     *)
EXTENDS Naturals, SequencesExt

CONSTANTS Speakers, Operators, \* diarization labels, those given authority
          Speech,              \* final fragments [who, say, gap]
          MaxHeard, MaxPartials,
          MaxSpan,             \* fragments that fill max_utterance_ms
          MaxUtterances,       \* of one hold
          InterruptHandled     \* an interrupt handler is registered

Phrases == {"stop", "alto", "using", "dangle", "side", "goal", "dot", "ask"}
ASSUME VoiceAssumption ==
  /\ Operators \subseteq Speakers /\ InterruptHandled \in BOOLEAN
  /\ Speech \subseteq [who : Speakers, say : Phrases, gap : {"none", "pause", "long"}]
  /\ MaxHeard \in Nat /\ MaxPartials \in Nat /\ MaxSpan \in Nat \ {0} /\ MaxUtterances \in Nat \ {0}

VARIABLES
  heard,    \* the final fragments received, in order, numbered by id
  pipe,     \* the layers' state, see PipeInit
  partials, \* how many were received
  line      \* the transport: open, ended, failed, drained, receipt, raised, broken
voice == <<heard, pipe, partials, line>>

PipeInit == [number  |-> 0,      \* the mapper's sequence counter
             buffer  |-> <<>>,   \* the aggregator's fragments
             partial |-> "none", \* its latest partial, urgent or other
             held    |-> <<>>,   \* the accumulator's utterances [said, number]
             last    |-> 0,      \* VoiceRuntime._last_sequence
             claims  |-> <<>>,   \* [said, status, effect]
             refused |-> <<>>,   \* fragments of rejected utterances
             replies |-> <<>>]   \* claims whose response waits for the worker

Fresh(v) == [v EXCEPT !.number = @ + 1]
VoiceInit == heard = <<>> /\ pipe = PipeInit /\ partials = 0 /\ line = "open"

(* ------------------------- nlu.py and language.py ------------------------ *)

Text(said) == [i \in DOMAIN said |-> said[i].say]
Has(say, text) == \E i \in DOMAIN text : text[i] = say
Adjacent(a, b, text) == \E i \in 1..(Len(text) - 1) : text[i] = a /\ text[i + 1] = b
WithoutDots(text) == SelectSeq(text, LAMBDA say : say # "dot")
WordCount(text) == FoldLeft(LAMBDA n, say :
  n + (CASE say = "dot" -> 0 [] say \in {"stop", "alto"} -> 1 [] say = "side" -> 2 [] OTHER -> 3),
  0, text)

(* canonicalize: a Spanish stop is known by its whole utterance only.        *)
Canonical(text) == IF WithoutDots(text) = <<"alto">>
                   THEN [i \in DOMAIN text |-> IF text[i] = "alto" THEN "stop" ELSE text[i]]
                   ELSE text

(* InterruptionGate: stop, but not stop using.                               *)
Urgent(text) == \E i \in DOMAIN text :
  text[i] = "stop" /\ ~(i < Len(text) /\ text[i + 1] = "using")

(* The arm an utterance asks for; a leading "using" is no order.             *)
Negated(text) == Adjacent("stop", "using", text) \/ Adjacent("dangle", "side", text)
\* Mutant: the rule reads a leading "using the left arm" as a preference.
PrefersFragment(text) == IF Negated(text) THEN "right"
                         ELSE IF Has("using", text) THEN "left" ELSE "none"
Prefers(text) == IF Negated(text) THEN "right"
                 ELSE IF Has("using", text) /\ Head(text) # "using" THEN "left" ELSE "none"

Addressed(text) == Head(text) = "ask"
Rewords(text) == \E say \in {"goal", "dangle", "ask"} : Has(say, text)
Capability(text) == IF Prefers(text) # "none" THEN "graph_mutation"
                    ELSE IF Rewords(text) THEN "command" ELSE "none"
EndsSentence(text) == text # <<>> /\ Last(text) = "dot"
EndsMidPhrase(text) == LET words == WithoutDots(text)
                       IN  words # <<>> /\ Last(words) = "dangle"

(* ------------------------- VoiceRuntime.ingest_final --------------------- *)

(* ok: the dialogue backend answers, the engine accepts the constraint.      *)
Status(text, who, ok) ==
  LET c == Canonical(text)
      capability == IF Addressed(c) /\ Capability(c) = "command" THEN "none" ELSE Capability(c)
  IN  IF Urgent(c) THEN IF who \in Operators /\ InterruptHandled
                        THEN "interrupted" ELSE "interrupt_denied"
      ELSE IF capability = "none"
           THEN IF ~Addressed(text) THEN "observed" ELSE IF ok THEN "answered" ELSE "dialogue_failed"
      ELSE IF who \notin Operators THEN "denied"
      ELSE IF capability = "graph_mutation" /\ ok THEN "committed" ELSE "authorized"

Claim(text, said, ok) ==
  LET status == Status(text, Last(said).who, ok)
  IN  [said |-> said, status |-> status,
       effect |-> IF status = "committed" THEN Prefers(Canonical(text)) ELSE "none"]

IngestFinal(v, u, text, ok) ==
  IF u.number <= v.last THEN [v EXCEPT !.refused = @ \o u.said]
  ELSE LET claim == Claim(text, u.said, ok)
       IN  [v EXCEPT !.last = u.number, !.claims = Append(@, claim)]

(* A result handed back to the sink is played unless it says nothing.        *)
Respond(v) == IF v.claims = <<>> \/ Last(v.claims).status = "observed" THEN v
              ELSE [v EXCEPT !.replies = Append(@, Len(v.claims))]

(* ---------------------------- IntentAccumulator -------------------------- *)

AllSaid(utterances) == FlattenSeq([i \in DOMAIN utterances |-> utterances[i].said])
Unstopped(text) ==
  LET n == CHOOSE n \in 0..Len(text) : /\ n = 0 \/ text[n] # "dot"
                                       /\ \A i \in (n + 1)..Len(text) : text[i] = "dot"
  IN  SubSeq(text, 1, n)
JoinedText(held, u) ==
  FlattenSeq([i \in DOMAIN held |-> Unstopped(Text(held[i].said))]) \o Text(u.said)

Complete(text) ==
  LET c == Canonical(text)
  IN  \/ Urgent(c)
      \/ ~EndsMidPhrase(c) /\ \/ Addressed(text)
                              \/ Capability(c) = "graph_mutation"
                              \/ Capability(c) = "command" /\ EndsSentence(c) /\ WordCount(c) >= 2

\* Mutant: a hold outlives a change of speaker.
ExpiresByGapOnly(held, u) == Head(u.said).gap = "long"
Expired(held, u) == \/ Head(u.said).who # Last(Last(held).said).who
                    \/ Head(u.said).gap = "long"

(* _release: what was held is dispatched as it was said, under a new number. *)
Release(v, ok) ==
  IF v.held = <<>> THEN v
  ELSE IngestFinal([Fresh(v) EXCEPT !.held = <<>>], [said |-> AllSaid(v.held), number |-> v.number + 1],
              Text(AllSaid(v.held)), ok)

AccumulatorFinal(v0, u, ok) ==
  LET v == IF v0.held # <<>> /\ Expired(v0.held, u) THEN Release(v0, ok) ELSE v0
      text == JoinedText(v.held, u)
      kept == [v EXCEPT !.held = Append(@, u)]
  IN  IF Complete(text)
      THEN Respond(IngestFinal([Fresh(v) EXCEPT !.held = <<>>],
                          [said |-> AllSaid(kept.held), number |-> v.number + 1], text, ok))
      ELSE IF Len(kept.held) >= MaxUtterances THEN Respond(Release(kept, ok)) ELSE kept

(* --------------------------- UtteranceAggregator ------------------------- *)

Flush(v, ok) ==
  IF v.buffer = <<>> THEN v
  ELSE AccumulatorFinal([Fresh(v) EXCEPT !.buffer = <<>>, !.partial = "none"],
                        [said |-> v.buffer, number |-> v.number + 1], ok)

ShouldClose(v, f) == v.buffer # <<>> /\ (f.who # Last(v.buffer).who \/ f.gap # "none")

(* The urgent predicate reads the words as transcribed, not canonicalized,   *)
(* and is silenced by a latest partial that is not urgent.                   *)
FlushesAtOnce(v, f) ==
  \/ Len(v.buffer) >= MaxSpan
  \/ Urgent(Text(v.buffer)) /\ v.partial # "other"
  \/ f.say = "dot" /\ WordCount(Text(v.buffer)) >= 3

Offer(v0, f, ok) ==
  LET v == IF ShouldClose(v0, f) THEN Flush(v0, ok) ELSE v0
      grown == [v EXCEPT !.buffer = Append(@, f)]
  IN  IF FlushesAtOnce(grown, f) THEN Flush(grown, ok) ELSE grown

(* -------------------------------- transport ------------------------------ *)

HearFinal == \E f \in Speech, ok \in BOOLEAN :
  /\ line = "open" /\ Len(heard) < MaxHeard
  /\ LET g == [id |-> Len(heard) + 1, who |-> f.who, say |-> f.say, gap |-> f.gap]
     IN  heard' = Append(heard, g) /\ pipe' = Offer(Fresh(pipe), g, ok)
  /\ UNCHANGED <<partials, line>>

(* A partial, of any speaker, goes straight through to the runtime.          *)
HearPartial == \E hypothesis \in {"urgent", "other"} :
  /\ line = "open" /\ partials < MaxPartials
  /\ partials' = partials + 1
  /\ pipe' = [Fresh(pipe) EXCEPT !.partial = hypothesis, !.last = pipe.number + 1]
  /\ UNCHANGED <<heard, line>>

(* An empty final far enough past the buffer, or the ticker, closes it.      *)
HearSilence == \E ok \in BOOLEAN :
  /\ line \in {"open", "ended"} /\ pipe.buffer # <<>>
  /\ pipe' = Flush(pipe, ok) /\ UNCHANGED <<heard, partials, line>>

(* The ticker drops the result: a hold released here gets no response.       *)
AccumulatorTick == \E ok \in BOOLEAN :
  /\ line \in {"open", "ended"} /\ pipe.held # <<>>
  /\ pipe' = Release(pipe, ok) /\ UNCHANGED <<heard, partials, line>>

(* EndOfTurn: the aggregator first, then a hold of the speaker named, if any.*)
TurnSignal == \E who \in Speakers \cup {"unnamed"}, ok \in BOOLEAN :
  /\ line = "open"
  /\ LET v == Flush(pipe, ok)
     IN  pipe' = IF v.held # <<>> /\ who \in {"unnamed", Last(Last(v.held).said).who}
                 THEN Respond(Release(v, ok)) ELSE v
  /\ UNCHANGED <<heard, partials, line>>

(* The last message: the transcript ends, or the provider gives up.          *)
EndOfTranscript == line = "open" /\ line' = "ended" /\ UNCHANGED <<heard, pipe, partials>>
ProviderFails == line = "open" /\ line' = "failed" /\ UNCHANGED <<heard, pipe, partials>>
(* The receiver dies with the socket: run() raises before anything is closed.*)
SocketBreaks == line \in {"open", "ended"} /\ line' = "broken" /\ UNCHANGED <<heard, pipe, partials>>

(* The aggregator feeds the accumulator, so it is closed first.              *)
\* Mutant: on_close runs before the aggregator is closed.
CloseReversed(v, ok) == Flush(Release(v, ok), ok)
\* Mutant: on_close is not given to the transport.
CloseAggregatorOnly(v, ok) == Flush(v, ok)
Close(v, ok) == Release(Flush(v, ok), ok)
Drain == \E ok \in BOOLEAN :
  /\ line \in {"ended", "failed"}
  /\ pipe' = Close(pipe, ok)
  /\ line' = IF line = "failed" THEN "raised" ELSE "drained"
  /\ UNCHANGED <<heard, partials>>

(* The response worker plays one at a time; a failure is only recorded.      *)
PlayReply == /\ pipe.replies # <<>>
             /\ pipe' = [pipe EXCEPT !.replies = Tail(@)] /\ UNCHANGED <<heard, partials, line>>

WriteReceipt == /\ line = "drained" /\ pipe.replies = <<>>
                /\ line' = "receipt" /\ UNCHANGED <<heard, pipe, partials>>

VoiceNext == HearFinal \/ HearPartial \/ HearSilence \/ AccumulatorTick \/ TurnSignal \/ EndOfTranscript
             \/ ProviderFails \/ SocketBreaks \/ Drain \/ PlayReply \/ WriteReceipt

(* The ticker runs every 100 ms while the line is up and the drain follows   *)
(* its end: weak fairness, with the guards for the ENABLED predicates.       *)
VoiceFairness ==
  /\ []<>(line \notin {"open", "ended"} \/ pipe.buffer = <<>>) \/ []<><<HearSilence>>_voice
  /\ []<>(line \notin {"open", "ended"} \/ pipe.held = <<>>) \/ []<><<AccumulatorTick>>_voice
  /\ []<>(line \notin {"ended", "failed"}) \/ []<><<Drain>>_voice
VoiceSpec == VoiceInit /\ [][VoiceNext]_voice /\ VoiceFairness

(* ------------------------------- properties ------------------------------ *)

(* "Stop" and "using the left arm" heard in a row from one speaker never end *)
(* up preferring the left arm, however the layers cut and join them.         *)
NeverInverted == \A i \in DOMAIN pipe.claims : pipe.claims[i].effect = "left" =>
  \E k \in DOMAIN pipe.claims[i].said :
    LET f == pipe.claims[i].said[k]
    IN  f.say = "using" /\ (f.id = 1 \/ heard[f.id - 1].say # "stop" \/ heard[f.id - 1].who # f.who)

(* No fragment is lost, repeated or overtaken on its way through the layers: *)
(* the claims, the held utterances and the buffer spell what was heard, and  *)
(* the runtime rejects none for its sequence number, although releases       *)
(* reorder dispatch against arrival and partials take numbers in between;    *)
(* and when the receipt is written, every word heard has become a claim.     *)
(* And authority is of the one who spoke every word: a claim that is acted   *)
(* on holds no fragment of a speaker who was given none; nor does what is    *)
(* heard turn into its contrary.                                             *)
SpeechIntact ==
  /\ AllSaid(pipe.claims) \o AllSaid(pipe.held) \o pipe.buffer = heard
  /\ line = "receipt" => AllSaid(pipe.claims) = heard /\ pipe.replies = <<>>
  /\ \A i \in DOMAIN pipe.claims :
       pipe.claims[i].status \in {"interrupted", "authorized", "committed"} =>
         \A k \in DOMAIN pipe.claims[i].said : pipe.claims[i].said[k].who \in Operators
  /\ NeverInverted

(* Whatever is buffered or held becomes a claim, unless the socket breaks.   *)
SpeechSettles == pipe.buffer \o pipe.held # <<>> ~> (pipe.buffer \o pipe.held = <<>> \/ line = "broken")

(* voice.py: a safety word is complete by definition and is never held.      *)
StopNeverHeld == \A i \in DOMAIN pipe.held : ~Urgent(Canonical(Text(pipe.held[i].said)))
==============================================================================
