----------------------------- MODULE HumanProofs -----------------------------
(***************************************************************************)
(* Theorems about the people around the engine and the wave scheduler, for *)
(* every value of the constants: whoever reaches in stops the object,      *)
(* whoever speaks is taken to mean what was said, of the thing that was    *)
(* there to be meant, and the arms that share a table keep apart, one      *)
(* thing in the hand of each.                                              *)
(***************************************************************************)
EXTENDS Reactor, VoiceGrounding, Scheduler, FiniteSetTheorems, SequenceLemmas

-----------------------------------------------------------------------------
(* Reactor.  While a conflict is on and nothing is queued that would have    *)
(* the graph planned again, what is left of the graph touches nothing.       *)

Idle(steps) == \A i \in DOMAIN steps : steps[i] \notin {"PICK", "MOVE"}
HumanInv ==
  /\ object \in {"waiting", "held", "placed"}
  /\ queued \in Nat /\ todo \in Seq({"STABILIZE", "VERIFY", "PICK", "MOVE"})
  /\ blocked = onto.conflict /\ blocked \in BOOLEAN
  /\ turn \in {"start", "loop", "check", "over"}
  /\ turn = "check" => todo # <<>>
  /\ turn \in {"loop", "check"} /\ queued = 0 /\ blocked => Idle(todo)

LEMMA PlanHalts ==
  ASSUME NEW halted \in BOOLEAN, NEW it \in {"waiting", "held", "placed"}
  PROVE  /\ Plan(halted, it) \in Seq({"STABILIZE", "VERIFY", "PICK", "MOVE"})
         /\ halted => Idle(Plan(halted, it))
<1>1. CASE halted
  <2>1. Plan(halted, it) = <<"STABILIZE", "VERIFY">>
    BY <1>1 DEF Plan
  <2> QED
    BY <2>1 DEF Idle
<1>2. CASE ~halted
  <2>1. \/ Plan(halted, it) = <<"PICK", "MOVE", "VERIFY">>
        \/ Plan(halted, it) = <<"MOVE", "VERIFY">>
        \/ Plan(halted, it) = <<"VERIFY">>
    BY <1>2 DEF Plan
  <2>2. /\ <<"PICK", "MOVE", "VERIFY">> \in Seq({"STABILIZE", "VERIFY", "PICK", "MOVE"})
        /\ <<"MOVE", "VERIFY">> \in Seq({"STABILIZE", "VERIFY", "PICK", "MOVE"})
        /\ <<"VERIFY">> \in Seq({"STABILIZE", "VERIFY", "PICK", "MOVE"})
    OBVIOUS
  <2> QED
    BY <1>2, <2>1, <2>2
<1> QED
  BY <1>1, <1>2

(* What an observation may show is left to the detectors: all that matters   *)
(* is that a change of the conflict is queued.                               *)
LEMMA LookTells ==
  ASSUME EngineGiven = TRUE, HumanInv, Look
  PROVE  /\ blocked' = onto'.conflict /\ blocked' \in BOOLEAN /\ queued' \in Nat
         /\ queued' = 0 => queued = 0 /\ blocked' = blocked
<1>1. PICK o : o.conflict \in BOOLEAN /\ onto' = o /\ blocked' = o.conflict
                 /\ queued' = queued + Nudge(o.conflict)
  <2>1. PICK c \in Claims :
          LET o == Ingest(onto, c, sights + 1)
          IN  onto' = o /\ blocked' = o.conflict /\ queued' = queued + Nudge(o.conflict)
    BY Zenon DEF Look
  <2>2. Ingest(onto, c, sights + 1).conflict \in BOOLEAN
    BY DEF Ingest, Judged, Intrudes
  <2> QED
    BY <2>1, <2>2
<1>2. Nudge(o.conflict) \in {0, 1} /\ (Nudge(o.conflict) = 0 => o.conflict = blocked)
  BY <1>1 DEF Nudge
<1> QED
  BY <1>1, <1>2 DEF HumanInv

LEMMA HumanInvInductive ==
  ASSUME EngineGiven = TRUE, HumanInv, [ReactorNext]_reactor
  PROVE  HumanInv' /\ (object' # object => ~onto.conflict)
<1>1. CASE BeginRun
  <2>1. /\ blocked' = onto'.conflict /\ blocked' \in BOOLEAN /\ queued' \in Nat
        /\ todo' = Plan(blocked', object) /\ turn' = "loop" /\ object' = object
    BY <1>1, LookTells DEF BeginRun
  <2>2. /\ todo' \in Seq({"STABILIZE", "VERIFY", "PICK", "MOVE"})
        /\ blocked' => Idle(todo')
    BY <2>1, PlanHalts DEF HumanInv
  <2> QED
    BY <2>1, <2>2 DEF HumanInv, Idle
<1>2. CASE ApplyQueued
  <2>1. /\ todo' = Plan(blocked, object) /\ queued' = 0 /\ turn' = turn /\ turn = "loop"
        /\ blocked' = blocked /\ onto' = onto /\ object' = object
    BY <1>2 DEF ApplyQueued
  <2>2. /\ todo' \in Seq({"STABILIZE", "VERIFY", "PICK", "MOVE"})
        /\ blocked => Idle(todo')
    BY <2>1, PlanHalts DEF HumanInv
  <2> QED
    BY <2>1, <2>2 DEF HumanInv, Idle
<1>3. CASE Dispatch
  <2>1. /\ turn = "loop" /\ queued = 0 /\ Len(todo) > 0 /\ turn' = "check" /\ todo' = todo
        /\ blocked' = blocked /\ onto' = onto /\ queued' = queued
    BY <1>3 DEF Dispatch, HumanInv
  <2>2. object' = CASE Head(todo) = "PICK" -> "held" [] Head(todo) = "MOVE" -> "placed"
                    [] OTHER -> object
    BY <1>3 DEF Dispatch
  <2>3. blocked => Head(todo) \notin {"PICK", "MOVE"}
    BY <2>1 DEF HumanInv, Idle
  <2> QED
    BY <2>1, <2>2, <2>3 DEF HumanInv, Idle
<1>4. CASE VerifyStep
  <2>1. /\ blocked' = onto'.conflict /\ blocked' \in BOOLEAN /\ queued' \in Nat
        /\ (queued' = 0 => queued = 0 /\ blocked' = blocked) /\ object' = object
    BY <1>4, LookTells DEF VerifyStep
  <2>2. turn = "check"
    BY <1>4 DEF VerifyStep
  <2>3. \/ turn' = "loop" /\ todo' = Tail(todo) /\ Len(todo) > 0
        \/ turn' = "over" /\ todo' = todo
        \/ turn' = "loop" /\ todo' = Plan(blocked', object)
    BY <1>4, <2>2 DEF VerifyStep, HumanInv
  <2>4. CASE turn' = "loop" /\ todo' = Tail(todo) /\ Len(todo) > 0
    <3>1. /\ todo' \in Seq({"STABILIZE", "VERIFY", "PICK", "MOVE"})
          /\ Idle(todo) => Idle(todo')
      BY <2>4 DEF HumanInv, Idle
    <3> QED
      BY <2>1, <2>2, <2>4, <3>1 DEF HumanInv, Idle
  <2>5. CASE turn' = "over" /\ todo' = todo
    BY <2>1, <2>5 DEF HumanInv
  <2>6. CASE turn' = "loop" /\ todo' = Plan(blocked', object)
    <3>1. /\ todo' \in Seq({"STABILIZE", "VERIFY", "PICK", "MOVE"})
          /\ blocked' => Idle(todo')
      BY <2>1, <2>6, PlanHalts DEF HumanInv
    <3> QED
      BY <2>1, <2>6, <3>1 DEF HumanInv, Idle
  <2> QED
    BY <2>3, <2>4, <2>5, <2>6
<1>5. CASE EndRun
  BY <1>5 DEF EndRun, HumanInv
<1>6. CASE HandMoves
  BY <1>6 DEF HandMoves, HumanInv, Idle
<1>7. CASE UNCHANGED reactor
  BY <1>7 DEF reactor, HumanInv, Idle
<1> QED
  BY <1>1, <1>2, <1>3, <1>4, <1>5, <1>6, <1>7 DEF ReactorNext

(* Given the engine, the reactive observer keeps the object where it is from *)
(* the observation that shows a person near an arm to the one that shows the *)
(* workspace clear, whatever the detectors report and however often the      *)
(* graph is planned again (ReactiveObserver.observe, ReactivePlanner).       *)
THEOREM HumanKeepsObject ==
  ASSUME EngineGiven = TRUE
  PROVE  ReactorSpec => HeldForHuman
<1>1. ReactorInit => HumanInv
  <2>1. NoOntology.conflict = FALSE
    BY DEF NoOntology
  <2>2. <<>> \in Seq({"STABILIZE", "VERIFY", "PICK", "MOVE"})
    OBVIOUS
  <2>3. ReactorInit => /\ object \in {"waiting", "held", "placed"} /\ turn = "start"
                       /\ queued \in Nat /\ todo = <<>>
    BY DEF ReactorInit
  <2>4. ReactorInit => blocked = FALSE /\ onto.conflict = FALSE
    BY <2>1 DEF ReactorInit
  <2>5. ReactorInit => blocked = onto.conflict /\ blocked \in BOOLEAN
    BY <2>4, Zenon
  <2> QED
    BY <2>2, <2>3, <2>5 DEF HumanInv
<1>2. HumanInv /\ [ReactorNext]_reactor => HumanInv'
  BY HumanInvInductive
<1>3. HumanInv /\ [ReactorNext]_reactor => [object' # object => ~onto.conflict]_reactor
  BY HumanInvInductive
<1> QED
  BY <1>1, <1>2, <1>3, PTL DEF ReactorSpec, HeldForHuman

-----------------------------------------------------------------------------
(* VoiceGrounding.  Every intent of the list is sound when it is taken down, *)
(* and nothing that happens later touches it but a correction of its own.    *)

Contexts == [scene : [rev : Nat, things : SUBSET Objects, ours : BOOLEAN], observed : Nat, pointed : Objects \cup {Nil}]
Words == [who : Voices, say : Sayings, rev : Nat]
Wanted == {"graph_mutation", "command", "none", "stop"}
Statuses == {"observed", "denied", "authorized", "committed", "interrupted", "interrupt_denied", "answered",
             "dialogue_failed", "dialogue_unavailable", "scope_unavailable", "nothing", "arm_removed", "stopping"}
Modes == {"open", "speaker_active", "overlapping", "interrupted"}
Intents == [who : Voices, said : Seq(Words), sure : BOOLEAN, given : Contexts, now : Nat, wants : Wanted,
            means : Objects \cup {Nil}, corrects : Nat, status : Statuses, told : Statuses]
Arbiters == [mode : Modes, active : Voices \cup {Nil}, overlapping : SUBSET (Voices \cup {Nil}),
             latest : [Voices -> Nat]]
Roles == {"unheard", "unknown", "operator"}
Holds == [said : Seq(Words), given : Contexts \cup {Nil}, sure : BOOLEAN]
Books == [hold : Holds, speakers : [Voices -> Roles], arbiter : Arbiters, intents : Seq(Intents)]

(* One voice's words, the first of them of the context's revision.           *)
Spoken(said, v, given) ==
  /\ said # <<>> /\ \A i \in DOMAIN said : said[i].who = v
  /\ said[1].rev = given.observed

HoldOne(h) ==
  /\ h.given = Nil <=> h.said = <<>>
  /\ h.said # <<>> => Spoken(h.said, h.said[Len(h.said)].who, h.given)

LatestOwn(a, list) == \A v \in Voices :
  /\ a.latest[v] \in 0..Len(list)
  /\ a.latest[v] # 0 => list[a.latest[v]].who = v
  /\ \A j \in (a.latest[v] + 1)..Len(list) : list[j].who # v \/ list[j].wants = "stop"

(* TakenAsMeant of one intent, what it corrects apart.                       *)
Meant(n) ==
  /\ \A i \in DOMAIN n.said : n.said[i].who = n.who
  /\ n.means # Nil => n.means \in n.given.scene.things /\ n.said[1].rev = n.given.scene.rev
  /\ n.told = "arm_removed" =>
       /\ n.who \in Trusted /\ n.sure /\ n.status = "committed"
       /\ \E i \in DOMAIN n.said : n.said[i].who = n.who /\ n.said[i].say = "arm"
Corrects(list, k) ==
  LET n == list[k] IN
  n.corrects # 0 =>
    /\ n.corrects < k /\ list[n.corrects].who = n.who
    /\ \A j \in (n.corrects + 1)..(k - 1) : list[j].who # n.who \/ list[j].wants = "stop"
ListSound(list) == \A k \in DOMAIN list : Meant(list[k]) /\ Corrects(list, k)

Sound(st) == /\ st \in Books /\ HoldOne(st.hold)
             /\ LatestOwn(st.arbiter, st.intents) /\ ListSound(st.intents)

GroundingInv ==
  /\ Sound(Now) /\ scene \in [rev : Nat, things : SUBSET Objects, ours : BOOLEAN]
  /\ begun = Nil \/ begun.rev \in Nat

(* What is meant is a thing of the scene, and the scene has not moved.       *)
LEMMA ResolvedThere ==
  ASSUME NEW said \in Seq(Words), NEW given \in Contexts
  PROVE  /\ Resolved(said, given) \in Objects \cup {Nil}
         /\ Resolved(said, given) # Nil =>
              Resolved(said, given) \in given.scene.things /\ given.scene.rev = given.observed
<1>1. Cardinality(given.scene.things) = 1 => given.scene.things # {}
  <2>1. \A S : S = {} => Cardinality(S) = 0
    BY FS_EmptySet
  <2> QED
    BY <2>1
<1>2. given.scene.things \subseteq Objects
  BY DEF Contexts
<1>3. Resolve(said, given) # Nil => Resolve(said, given) \in given.scene.things
  BY <1>1 DEF Resolve
<1>4. CASE given.scene.rev # given.observed
  BY <1>4 DEF Resolved
<1>5. CASE given.scene.rev = given.observed
  <2>1. Resolved(said, given) = Resolve(said, given)
    BY <1>5 DEF Resolved
  <2> QED
    BY <1>2, <1>3, <1>5, <2>1
<1> QED
  BY <1>4, <1>5

(* Another intent of v at the end of the list, its latest or a stop.         *)
LEMMA IntentAdded ==
  ASSUME NEW list \in Seq(Intents), NEW a \in Arbiters, NEW b \in Arbiters, NEW v \in Voices, NEW n \in Intents,
         LatestOwn(a, list), ListSound(list), Meant(n), n.who = v,
         n.corrects \in {0, a.latest[v]},
         \/ n.wants = "stop" /\ b.latest = a.latest
         \/ b.latest = [a.latest EXCEPT ![v] = Len(list) + 1]
  PROVE  LatestOwn(b, Append(list, n)) /\ ListSound(Append(list, n)) /\ Append(list, n) \in Seq(Intents)
<1> DEFINE longer == Append(list, n)
<1>1. /\ longer \in Seq(Intents) /\ Len(longer) = Len(list) + 1 /\ longer[Len(list) + 1] = n
      /\ \A i \in 1..Len(list) : longer[i] = list[i]
      /\ Len(list) \in Nat /\ DOMAIN longer = 1..(Len(list) + 1) /\ DOMAIN list = 1..Len(list)
  OBVIOUS
<1>2. \A w \in Voices : a.latest[w] \in Nat /\ b.latest[w] \in Nat
  BY DEF Arbiters
<1> HIDE DEF longer
<1>3. ASSUME NEW k \in 1..(Len(list) + 1) PROVE Meant(longer[k]) /\ Corrects(longer, k)
  <2>1. CASE k = Len(list) + 1
    <3>1. /\ a.latest[v] \in 0..Len(list)
          /\ a.latest[v] # 0 => list[a.latest[v]].who = v
          /\ \A j \in (a.latest[v] + 1)..Len(list) : list[j].who # v \/ list[j].wants = "stop"
      BY DEF LatestOwn
    <3>2. k - 1 = Len(list) /\ longer[k] = n
      BY <2>1, <1>1
    <3>3. ASSUME n.corrects # 0 PROVE n.corrects = a.latest[v] /\ n.corrects \in 1..Len(list)
      BY <1>1, <1>2, <3>1, <3>3
    <3>4. ASSUME n.corrects # 0
          PROVE  /\ n.corrects < k /\ longer[n.corrects].who = v
                 /\ \A j \in (n.corrects + 1)..(k - 1) : longer[j].who # v \/ longer[j].wants = "stop"
      BY <1>1, <2>1, <3>1, <3>2, <3>3, <3>4
    <3> QED
      BY <3>2, <3>4 DEF Corrects
  <2>2. CASE k # Len(list) + 1
    <3>1. k \in 1..Len(list) /\ longer[k] = list[k] /\ Meant(list[k]) /\ Corrects(list, k)
      BY <1>1, <2>2 DEF ListSound
    <3>2. ASSUME list[k].corrects # 0 PROVE list[k].corrects \in 1..Len(list)
      <4>0. list[k] \in Intents
        BY <3>1
      <4>1. list[k].corrects \in Nat
        BY <4>0 DEF Intents
      <4> QED
        BY <3>1, <3>2, <4>1, <1>1 DEF Corrects
    <3> QED
      BY <1>1, <3>1, <3>2 DEF Corrects
  <2> QED
    BY <2>1, <2>2
<1>4. LatestOwn(b, longer)
  <2> SUFFICES ASSUME NEW w \in Voices
               PROVE  /\ b.latest[w] \in 0..Len(longer)
                      /\ b.latest[w] # 0 => longer[b.latest[w]].who = w
                      /\ \A j \in (b.latest[w] + 1)..Len(longer) : longer[j].who # w \/ longer[j].wants = "stop"
    BY DEF LatestOwn
  <2>1. /\ a.latest[w] \in 0..Len(list)
        /\ a.latest[w] # 0 => list[a.latest[w]].who = w
        /\ \A j \in (a.latest[w] + 1)..Len(list) : list[j].who # w \/ list[j].wants = "stop"
    BY DEF LatestOwn
  <2>2. CASE n.wants = "stop" /\ b.latest = a.latest
    BY <1>1, <2>1, <2>2
  <2>3. CASE b.latest = [a.latest EXCEPT ![v] = Len(list) + 1] /\ w = v
    <3>1. b.latest[w] = Len(list) + 1
      BY <2>3 DEF Arbiters
    <3> QED
      BY <1>1, <3>1, <2>3
  <2>4. CASE b.latest = [a.latest EXCEPT ![v] = Len(list) + 1] /\ w # v
    <3>1. b.latest[w] = a.latest[w]
      BY <2>4 DEF Arbiters
    <3> QED
      BY <1>1, <2>1, <3>1, <2>4
  <2> QED
    BY <2>2, <2>3, <2>4
<1> QED
  BY <1>1, <1>3, <1>4 DEF ListSound, longer

(* What a final leaves behind.                                               *)
LEMMA Ended ==
  ASSUME NEW st, NEW v, NEW a \in Arbiters, NEW n, st.intents \in Seq(Intents),
         [st.speakers EXCEPT ![v] = Registered(v)] \in [Voices -> Roles],
         LatestOwn(a, Append(st.intents, n)), ListSound(Append(st.intents, n)), Append(st.intents, n) \in Seq(Intents)
  PROVE  Sound(Ends(st, v, a, n)) /\ Ends(st, v, a, n).intents # <<>>
<1> DEFINE longer == Append(st.intents, n)
           named == [st.speakers EXCEPT ![v] = Registered(v)]
<1>1. longer # <<>>
  OBVIOUS
<1>2. NoHold \in Holds /\ HoldOne(NoHold)
  BY DEF NoHold, Holds, HoldOne
<1>3. Ends(st, v, a, n) = [hold |-> NoHold, speakers |-> named, arbiter |-> a, intents |-> longer]
  BY DEF Ends
<1> HIDE DEF longer, named
<1>4. Ends(st, v, a, n) \in Books
  BY <1>2, <1>3 DEF Books, longer, named
<1> QED
  BY <1>1, <1>2, <1>3, <1>4 DEF Sound, longer

(* One final, said by v alone.                                               *)
LEMMA Interpreted ==
  ASSUME NEW st, Sound(st), NEW v \in Voices, NEW said \in Seq(Words), NEW sure \in BOOLEAN,
         NEW given \in Contexts, Spoken(said, v, given), NEW ok \in BOOLEAN, scene.rev \in Nat
  PROVE  /\ Sound(Interpret(st, v, said, sure, given, ok))
         /\ Interpret(st, v, said, sure, given, ok).intents # <<>>
<1> DEFINE floor == Finals(st.arbiter, v)
           asked == IF Question(said) /\ Wants(said) = "command" THEN "none" ELSE Wants(said)
           taken == IF sure THEN asked ELSE "none"
           plain == Observed(v, said, sure, given, taken)
           halts == [plain EXCEPT !.wants = "stop", !.means = Nil]
           fate == Interrupts(Granted(Registered(v), "stop", given))
           taught == [plain EXCEPT !.corrects = IF Head(said).say = "no" THEN Latest(st, v) ELSE 0]
           comes == IF taken # "none" THEN Outcome(Granted(Registered(v), taken, given), ok)
                    ELSE IF asked = "none" /\ Addressed(said) THEN Answers(given, ok) ELSE "observed"
<1>1. /\ st.arbiter \in Arbiters /\ st.intents \in Seq(Intents) /\ st.speakers \in [Voices -> Roles]
      /\ LatestOwn(st.arbiter, st.intents) /\ ListSound(st.intents)
  BY DEF Sound, Books
<1>2. [st.speakers EXCEPT ![v] = Registered(v)] \in [Voices -> Roles]
  BY <1>1 DEF Registered, Roles
<1>3. floor \in Arbiters /\ floor.latest = st.arbiter.latest
  BY <1>1 DEF Finals, Arbiters, Modes
<1>4. /\ taken \in Wanted /\ (taken # "none" => sure)
      /\ plain \in Intents /\ plain.who = v /\ plain.said = said /\ plain.sure = sure
      /\ plain.given = given /\ plain.corrects = 0 /\ plain.wants = taken
      /\ plain.means # Nil => plain.means \in given.scene.things /\ given.scene.rev = given.observed
  <2>1. asked \in Wanted
    BY DEF Wants, Wanted
  <2>2. taken \in Wanted /\ (taken # "none" => sure)
    BY <2>1 DEF Wanted
  <2> HIDE DEF taken
  <2> QED
    BY <2>2, ResolvedThere DEF Observed, Intents, Statuses
<1>5. ASSUME NEW n \in Intents, NEW status \in Statuses \ {"arm_removed"}, n.who = v, n.said = said, n.given = given,
             n.means \in {Nil, plain.means}, status = "committed" => n.who \in Trusted /\ n.sure
      PROVE  Concludes(n, status) \in Intents /\ Meant(Concludes(n, status))
  <2> DEFINE m == Concludes(n, status)
  <2>1. Reply(n, status) \in Statuses /\ (Reply(n, status) = "arm_removed" =>
          status = "committed" /\ \E i \in DOMAIN said : said[i].say = "arm")
    BY <1>5 DEF Reply, Committed, Statuses, Mentions
  <2>2. /\ m \in Intents /\ m.who = v /\ m.said = said /\ m.given = given /\ m.means = n.means
        /\ m.sure = n.sure /\ m.status = status /\ m.told = Reply(n, status)
    BY <1>5, <2>1 DEF Concludes, Intents
  <2> HIDE DEF m, plain
  <2>3. m.means # Nil => m.means \in m.given.scene.things /\ m.said[1].rev = m.given.scene.rev
    BY <1>4, <1>5, <2>2 DEF Spoken
  <2>4. \A i \in DOMAIN said : said[i].who = v
    BY DEF Spoken
  <2>5. Meant(m)
    BY <1>5, <2>1, <2>2, <2>3, <2>4 DEF Meant
  <2> QED
    BY <2>2, <2>5 DEF m
<1>6. CASE Mentions(said, {"stop"})
  <2> DEFINE n == Concludes(halts, fate)
             next == [floor EXCEPT !.mode = "interrupted"]
  <2>1. fate \in Statuses \ {"arm_removed", "committed"}
    BY DEF Interrupts, Statuses
  <2>2. halts \in Intents /\ halts.who = v /\ halts.said = said /\ halts.given = given /\ halts.means = Nil
        /\ halts.wants = "stop" /\ halts.corrects = 0
    BY <1>4 DEF Intents, Wanted
  <2> HIDE DEF halts, fate
  <2>3. n \in Intents /\ Meant(n)
    BY <1>5, <2>1, <2>2
  <2>4. n.who = v /\ n.wants = "stop" /\ n.corrects = 0
    BY <2>2 DEF Concludes, Intents
  <2>5. next \in Arbiters /\ next.latest = st.arbiter.latest
    BY <1>3 DEF Arbiters, Modes
  <2> HIDE DEF next, n
  <2>6. LatestOwn(next, Append(st.intents, n)) /\ ListSound(Append(st.intents, n)) /\ Append(st.intents, n) \in Seq(Intents)
    BY <1>1, <2>3, <2>4, <2>5, IntentAdded
  <2>7. Interpret(st, v, said, sure, given, ok) = Ends(st, v, next, n)
    BY <1>6 DEF Interpret, next, n, halts, fate
  <2> HIDE DEF floor
  <2>8. Sound(Ends(st, v, next, n)) /\ Ends(st, v, next, n).intents # <<>>
    BY <1>1, <1>2, <2>5, <2>6, Ended
  <2> QED
    BY <2>7, <2>8
<1>7. CASE ~Mentions(said, {"stop"})
  <2> DEFINE n == Concludes(taught, comes)
             next == [floor EXCEPT !.latest[v] = Len(st.intents) + 1]
  <2>1. comes \in Statuses \ {"arm_removed"} /\ (comes = "committed" => v \in Trusted /\ sure)
    <3> HIDE DEF asked
    <3> HIDE DEF taken
    <3> QED
      BY <1>4 DEF Outcome, Granted, Registered, Answers, Statuses
  <2>2. st.arbiter.latest[v] \in Nat /\ Len(st.intents) + 1 \in Nat
    BY <1>1 DEF Arbiters
  <2>3. taught \in Intents /\ taught.who = v /\ taught.said = said /\ taught.given = given /\ taught.sure = sure
        /\ taught.means = plain.means /\ taught.corrects \in {0, st.arbiter.latest[v]}
    BY <1>4, <2>2 DEF Intents, Latest
  <2> HIDE DEF taught, comes
  <2>4. n \in Intents /\ Meant(n)
    BY <1>5, <2>1, <2>3
  <2>5. n.who = v /\ n.corrects \in {0, st.arbiter.latest[v]}
    BY <2>3 DEF Concludes, Intents
  <2>6. next \in Arbiters /\ next.latest = [st.arbiter.latest EXCEPT ![v] = Len(st.intents) + 1]
    BY <1>3, <2>2 DEF Arbiters
  <2> HIDE DEF next, n
  <2>7. LatestOwn(next, Append(st.intents, n)) /\ ListSound(Append(st.intents, n)) /\ Append(st.intents, n) \in Seq(Intents)
    BY <1>1, <2>4, <2>5, <2>6, IntentAdded
  <2>8. Interpret(st, v, said, sure, given, ok) = Ends(st, v, next, n)
    BY <1>7 DEF Interpret, next, n, taught, comes
  <2> HIDE DEF floor
  <2>9. Sound(Ends(st, v, next, n)) /\ Ends(st, v, next, n).intents # <<>>
    BY <1>1, <1>2, <2>6, <2>7, Ended
  <2> QED
    BY <2>8, <2>9
<1> QED
  BY <1>6, <1>7

(* What is held is released whole, under the context it began in.            *)
LEMMA Released ==
  ASSUME NEW st, Sound(st), st.hold.said # <<>>, NEW given, NEW ok \in BOOLEAN, scene.rev \in Nat
  PROVE  Sound(Release(st, given, ok)) /\ Release(st, given, ok).intents # <<>>
<1> DEFINE said == st.hold.said
           v == said[Len(said)].who
<1>1. said \in Seq(Words) /\ st.hold.sure \in BOOLEAN /\ st.hold.given \in Contexts
      /\ Spoken(said, v, st.hold.given)
  BY DEF Sound, Books, Holds, HoldOne
<1>2. v \in Voices
  <2>1. Len(said) \in 1..Len(said)
    BY <1>1
  <2>2. said[Len(said)] \in Words
    BY <1>1, <2>1
  <2> QED
    BY <2>2 DEF Words
<1>3. Given(st, given) = st.hold.given
  BY <1>1, GroundingAssumption DEF Given, Contexts
<1>4. Release(st, given, ok) = Interpret(st, v, said, st.hold.sure, st.hold.given, ok)
  BY <1>3 DEF Release, LastVoice
<1> HIDE DEF said, v
<1> QED
  BY <1>1, <1>2, <1>4, Interpreted

(* Saying nothing of an intent takes nothing from it.                        *)
LEMMA UnsaidSound ==
  ASSUME NEW st, Sound(st), st.intents # <<>>
  PROVE  Sound(Unsaid(st)) /\ Unsaid(st).hold = st.hold
<1> DEFINE list == st.intents
           last == Len(list)
           quiet == [list EXCEPT ![last].told = "nothing"]
<1>1. list \in Seq(Intents) /\ last \in 1..Len(list) /\ last \in DOMAIN list
  BY DEF Sound, Books
<1>2. list[last] \in Intents
  BY <1>1
<1>3. [list[last] EXCEPT !.told = "nothing"] \in Intents
  BY <1>2 DEF Intents, Statuses
<1>4. /\ quiet \in Seq(Intents) /\ Len(quiet) = Len(list) /\ DOMAIN quiet = DOMAIN list
      /\ quiet[last] = [list[last] EXCEPT !.told = "nothing"]
      /\ \A i \in 1..Len(list) : i # last => quiet[i] = list[i]
  BY <1>1, <1>3
<1>5. /\ Unsaid(st).intents = quiet /\ Unsaid(st) \in Books
      /\ Unsaid(st).hold = st.hold /\ Unsaid(st).arbiter = st.arbiter
  <2> HIDE DEF quiet
  <2>1. Unsaid(st) = [st EXCEPT !.intents = quiet]
    BY DEF Unsaid, Sound, Books, quiet
  <2> QED
    BY <1>4, <2>1 DEF Sound, Books
<1> HIDE DEF quiet
<1>6. ASSUME NEW i \in 1..Len(list)
      PROVE  /\ quiet[i].who = list[i].who /\ quiet[i].wants = list[i].wants
             /\ quiet[i].corrects = list[i].corrects
             /\ Meant(list[i]) => Meant(quiet[i])
  <2>1. CASE i = last
    <3>1. /\ quiet[i].who = list[i].who /\ quiet[i].wants = list[i].wants /\ quiet[i].said = list[i].said
          /\ quiet[i].corrects = list[i].corrects /\ quiet[i].means = list[i].means
          /\ quiet[i].given = list[i].given /\ quiet[i].told = "nothing"
      BY <1>2, <1>4, <2>1 DEF Intents
    <3> QED
      BY <3>1 DEF Meant
  <2> QED
    BY <1>4, <2>1
<1>7. \A k \in 1..Len(list) : list[k].corrects \in Nat
  <2> SUFFICES ASSUME NEW k \in 1..Len(list) PROVE list[k].corrects \in Nat
    OBVIOUS
  <2>1. list[k] \in Intents
    BY <1>1
  <2> QED
    BY <2>1 DEF Intents
<1>8. ListSound(quiet)
  <2> SUFFICES ASSUME NEW k \in 1..Len(list) PROVE Meant(quiet[k]) /\ Corrects(quiet, k)
    BY <1>1, <1>4 DEF ListSound
  <2>1. Meant(list[k]) /\ Corrects(list, k)
    BY <1>1 DEF Sound, ListSound
  <2>2. Meant(quiet[k])
    BY <1>6, <2>1
  <2>3. ASSUME quiet[k].corrects # 0
        PROVE  /\ quiet[k].corrects < k /\ quiet[quiet[k].corrects].who = quiet[k].who
               /\ \A j \in (quiet[k].corrects + 1)..(k - 1) :
                    quiet[j].who # quiet[k].who \/ quiet[j].wants = "stop"
    <3> DEFINE c == list[k].corrects
    <3>1. quiet[k].corrects = c /\ quiet[k].who = list[k].who
      BY <1>6
    <3>2. c < k /\ c \in Nat /\ list[c].who = list[k].who
          /\ \A j \in (c + 1)..(k - 1) : list[j].who # list[k].who \/ list[j].wants = "stop"
      BY <1>7, <2>1, <2>3, <3>1 DEF Corrects
    <3>3. c \in 1..Len(list) /\ \A j \in (c + 1)..(k - 1) : j \in 1..Len(list)
      BY <1>1, <2>3, <3>1, <3>2
    <3> QED
      BY <1>6, <3>1, <3>2, <3>3
  <2> QED
    BY <2>2, <2>3 DEF Corrects
<1>9. LatestOwn(st.arbiter, quiet)
  BY <1>1, <1>4, <1>6 DEF LatestOwn, Sound, Books, Arbiters
<1> QED
  BY <1>5, <1>8, <1>9 DEF Sound

(* An utterance of the voice that is held, or of anyone when nothing is.     *)
LEMMA Offered ==
  ASSUME NEW st, Sound(st), NEW u \in Utterances, NEW given \in Contexts, NEW ok \in BOOLEAN,
         scene.rev \in Nat, st.hold.said # <<>> => st.hold.said[Len(st.hold.said)].who = u.who
  PROVE  Sound(Offer(st, u, given, ok))
<1> DEFINE word == [who |-> u.who, say |-> u.say, rev |-> given.observed]
           said == Append(st.hold.said, word)
           since == Given(st, given)
           h == [said |-> said, given |-> since, sure |-> u.sure]
           kept == [st EXCEPT !.hold = h]
<1>1. u.who \in Voices /\ u.sure \in BOOLEAN /\ word \in Words
  BY GroundingAssumption DEF Words, Contexts
<1>2. st.hold.said \in Seq(Words) /\ st.hold.given \in Contexts \cup {Nil} /\ HoldOne(st.hold)
  BY DEF Sound, Books, Holds
<1>3. /\ said \in Seq(Words) /\ said # <<>> /\ said[Len(said)] = word /\ DOMAIN said = 1..Len(st.hold.said) + 1
      /\ \A i \in 1..Len(st.hold.said) : said[i] = st.hold.said[i]
      /\ said[Len(st.hold.said) + 1] = word
  BY <1>1, <1>2
<1>4. since \in Contexts /\ since # Nil /\ Spoken(said, u.who, since)
  <2>1. CASE st.hold.said = <<>>
    <3>1. since = given /\ since # Nil /\ since \in Contexts
      BY <1>2, <2>1, GroundingAssumption DEF Given, HoldOne, Contexts
    <3> QED
      BY <1>2, <1>3, <2>1, <3>1 DEF Spoken
  <2>2. CASE st.hold.said # <<>>
    <3>1. since = st.hold.given /\ since # Nil /\ since \in Contexts
      BY <1>2, <2>2 DEF Given, HoldOne
    <3>2. Spoken(st.hold.said, u.who, since) /\ Len(st.hold.said) >= 1
      BY <1>2, <2>2, <3>1 DEF HoldOne
    <3> HIDE DEF said, since
    <3>3. \A i \in DOMAIN st.hold.said : st.hold.said[i].who = u.who
      BY <3>2 DEF Spoken
    <3>4. \A i \in DOMAIN said : said[i].who = u.who
      BY <1>2, <1>3, <3>3
    <3> QED
      BY <1>2, <1>3, <3>1, <3>2, <3>4 DEF Spoken
  <2> QED
    BY <2>1, <2>2
<1>5. h \in Holds /\ HoldOne(h)
  <2> HIDE DEF said, since
  <2>1. said[Len(said)].who = u.who
    BY <1>3
  <2> QED
    BY <1>1, <1>3, <1>4, <2>1 DEF Holds, HoldOne
<1>6. Sound(kept) /\ kept.hold = h /\ kept.hold.said # <<>>
  <2> HIDE DEF h
  <2>1. kept.hold = h /\ kept \in Books /\ kept.arbiter = st.arbiter /\ kept.intents = st.intents
    BY <1>5 DEF Sound, Books
  <2>2. h.said # <<>>
    BY <1>3 DEF h
  <2> QED
    BY <1>5, <2>1, <2>2 DEF Sound
<1>7. Sound(Interpret(st, u.who, said, u.sure, since, ok))
  <2> HIDE DEF said, since
  <2> QED
    BY <1>1, <1>3, <1>4, Interpreted
<1>8. Sound(Release(kept, given, ok))
  <2> HIDE DEF kept
  <2> QED
    BY <1>6, Released
<1>9. Offer(st, u, given, ok) \in {Interpret(st, u.who, said, u.sure, since, ok), Release(kept, given, ok), kept}
  BY DEF Offer
<1> QED
  BY <1>6, <1>7, <1>8, <1>9

(* A state taken over whole.                                                 *)
LEMMA Become ==
  ASSUME NEW st, Sound(st), Becomes(st)
  PROVE  Sound(Now)'
<1>1. hold' = st.hold /\ speakers' = st.speakers /\ arbiter' = st.arbiter /\ intents' = st.intents
  BY DEF Becomes
<1>2. /\ Now' \in Books /\ Now'.hold = st.hold /\ Now'.arbiter = st.arbiter /\ Now'.intents = st.intents
  BY <1>1 DEF Now, Sound, Books
<1>3. Sound(Now')
  BY <1>2 DEF Sound
<1> QED
  BY <1>3 DEF Sound, Books, Holds, Now, HoldOne, LatestOwn, ListSound, Meant, Corrects, Spoken

LEMMA GroundingInductive == GroundingInv /\ [GroundingNext]_grounding => GroundingInv'
<1> SUFFICES ASSUME GroundingInv, [GroundingNext]_grounding PROVE GroundingInv'
  OBVIOUS
<1>1. Sound(Now) /\ scene.rev \in Nat /\ scene \in [rev : Nat, things : SUBSET Objects, ours : BOOLEAN]
  BY DEF GroundingInv
<1>2. ASSUME NEW v \in Voices, BeginToSpeak(v) PROVE GroundingInv'
  <2> DEFINE a == Overlaps(arbiter, v)
             st == [Heard(Now, v) EXCEPT !.arbiter = Overlaps(@, v)]
  <2>1. Now \in Books /\ arbiter \in Arbiters /\ speakers \in [Voices -> Roles] /\ Now.arbiter = arbiter
    BY <1>1 DEF Sound, Now, Books
  <2>2. a \in Arbiters /\ a.latest = arbiter.latest
    BY <2>1 DEF Overlaps, Arbiters, Modes
  <2>3. [speakers EXCEPT ![v] = IF @ = "unheard" THEN "unknown" ELSE @] \in [Voices -> Roles]
    BY <2>1 DEF Roles
  <2>4. st = [hold |-> hold, speakers |-> [speakers EXCEPT ![v] = IF @ = "unheard" THEN "unknown" ELSE @],
              arbiter |-> a, intents |-> intents]
    <3> DEFINE seen == Heard(Now, v)
    <3>1. seen = [hold |-> hold, speakers |-> [speakers EXCEPT ![v] = IF @ = "unheard" THEN "unknown" ELSE @],
                  arbiter |-> arbiter, intents |-> intents]
      BY DEF Heard, Now
    <3>2. st = [seen EXCEPT !.arbiter = Overlaps(@, v)]
      OBVIOUS
    <3> HIDE DEF seen
    <3> QED
      BY <3>1, <3>2
  <2> HIDE DEF a, st
  <2>5. st \in Books /\ st.hold = hold /\ st.arbiter = a /\ st.intents = intents
    BY <1>1, <2>2, <2>3, <2>4 DEF Sound, Now, Books
  <2>6. Sound(st)
    BY <1>1, <2>2, <2>5 DEF Sound, Now, LatestOwn
  <2>7. Becomes(st) /\ begun' = [who |-> v, rev |-> scene.rev] /\ scene' = scene
    BY <1>2 DEF BeginToSpeak, st
  <2> QED
    BY <1>1, <2>6, <2>7, Become DEF GroundingInv
<1>3. ASSUME NEW u \in Utterances, Deliver(u) PROVE GroundingInv'
  <2> DEFINE given == [scene |-> scene, observed |-> begun.rev, pointed |-> u.pointed]
  <2>1. given \in Contexts
    BY <1>1, <1>3, GroundingAssumption DEF GroundingInv, Deliver, Contexts
  <2>2. PICK first \in BOOLEAN, second \in BOOLEAN :
          Becomes(Offer(IF OutOfDate(Now, u) THEN Unsaid(Release(Now, given, first)) ELSE Now, u, given, second))
    BY <1>3 DEF Deliver
  <2> DEFINE clear == IF OutOfDate(Now, u) THEN Unsaid(Release(Now, given, first)) ELSE Now
  <2> HIDE DEF given
  <2>3. Sound(clear) /\ (clear.hold.said # <<>> => clear.hold.said[Len(clear.hold.said)].who = u.who)
    <3>1. CASE OutOfDate(Now, u)
      <4>1. Now.hold.said # <<>>
        BY <3>1 DEF OutOfDate
      <4>2. Sound(Release(Now, given, first)) /\ Release(Now, given, first).intents # <<>>
        BY <1>1, <4>1, Released
      <4>3. Release(Now, given, first).hold = NoHold
        BY DEF Release, Interpret, Ends
      <4>4. Sound(clear) /\ clear.hold = NoHold
        BY <3>1, <4>2, <4>3, UnsaidSound
      <4> QED
        BY <4>4 DEF NoHold
    <3>2. CASE ~OutOfDate(Now, u)
      BY <1>1, <3>2 DEF OutOfDate, LastVoice
    <3> QED
      BY <3>1, <3>2
  <2>4. Becomes(Offer(clear, u, given, second))
    BY <2>2
  <2> HIDE DEF clear
  <2>5. Sound(Offer(clear, u, given, second))
    BY <1>1, <2>1, <2>3, Offered
  <2>6. begun' = Nil /\ scene' = scene
    BY <1>3 DEF Deliver
  <2> QED
    BY <1>1, <2>4, <2>5, <2>6, Become DEF GroundingInv
<1>4. CASE WindowEnds
  <2>1. PICK ok \in BOOLEAN, ticked \in BOOLEAN :
          Becomes(IF ticked THEN Unsaid(Release(Now, hold.given, ok)) ELSE Release(Now, hold.given, ok))
    BY <1>4 DEF WindowEnds
  <2>2. Now.hold.said # <<>>
    BY <1>4 DEF WindowEnds, Now
  <2>3. Sound(Release(Now, hold.given, ok)) /\ Release(Now, hold.given, ok).intents # <<>>
    BY <1>1, <2>2, Released
  <2>4. Sound(Unsaid(Release(Now, hold.given, ok)))
    BY <2>3, UnsaidSound
  <2>5. scene' = scene /\ begun' = begun
    BY <1>4 DEF WindowEnds
  <2> QED
    BY <1>1, <2>1, <2>3, <2>4, <2>5, Become DEF GroundingInv
<1>5. CASE WorldMovesOn
  <2>1. scene' \in [rev : Nat, things : SUBSET Objects, ours : BOOLEAN] /\ begun' = begun
    BY <1>1, <1>5, GroundingAssumption DEF WorldMovesOn
  <2>2. Becomes(Now)
    BY <1>5 DEF WorldMovesOn, Becomes, Now
  <2> QED
    BY <1>1, <2>1, <2>2, Become DEF GroundingInv
<1>6. CASE UNCHANGED grounding
  <2>1. Becomes(Now) /\ scene' = scene /\ begun' = begun
    BY <1>6 DEF grounding, Becomes, Now
  <2> QED
    BY <1>1, <2>1, Become DEF GroundingInv
<1> QED
  BY <1>2, <1>3, <1>4, <1>5, <1>6 DEF GroundingNext

(* Whatever several voices say over each other, about a scene that changes   *)
(* under them, with answers that come late: an intent names the one object   *)
(* its words can mean in the scene it was given, a correction takes the      *)
(* speaker's own last intent, and what is acted on is what an operator said  *)
(* (VoiceRuntime.ingest_final, ReferenceResolver.resolve).                   *)
THEOREM MeantIsTaken == GroundingSpec => []TakenAsMeant
<1>1. GroundingInit => GroundingInv
  <2> SUFFICES ASSUME GroundingInit PROVE GroundingInv
    OBVIOUS
  <2>1. scene \in [rev : Nat, things : SUBSET Objects, ours : BOOLEAN] /\ begun = Nil
    BY GroundingAssumption DEF GroundingInit
  <2>2. hold \in Holds /\ HoldOne(hold)
    BY DEF GroundingInit, NoHold, Holds, HoldOne
  <2>3. speakers \in [Voices -> Roles] /\ arbiter \in Arbiters /\ intents = <<>> /\ intents \in Seq(Intents)
        /\ \A v \in Voices : arbiter.latest[v] = 0
    BY DEF GroundingInit, Roles, Arbiters, Modes
  <2>4. LatestOwn(arbiter, intents) /\ ListSound(intents)
    BY <2>3 DEF LatestOwn, ListSound
  <2>5. Now \in Books /\ Now.hold = hold /\ Now.arbiter = arbiter /\ Now.intents = intents
    BY <2>2, <2>3 DEF Now, Books
  <2> QED
    BY <2>1, <2>2, <2>4, <2>5 DEF GroundingInv, Sound
<1>2. GroundingInv => TakenAsMeant
  <2> SUFFICES ASSUME GroundingInv, NEW k \in DOMAIN intents
               PROVE  Meant(intents[k]) /\ Corrects(intents, k)
    BY DEF TakenAsMeant, Meant, Corrects
  <2> QED
    BY DEF GroundingInv, Sound, Now, ListSound
<1> QED
  BY <1>1, <1>2, GroundingInductive, PTL DEF GroundingSpec

-----------------------------------------------------------------------------
(* Scheduler.  What is in a wave never shares an arm or a stretch of table;  *)
(* no step is in two waves, so each waits for the wave before its own.       *)

StepIds == IdsOf(Places)
Placements ==
  [id : StepIds \cup GeneratedNames, arm : Arms \cup {None}, region : Zones \cup {None},
   parts : SUBSET Arms, kind : {"work", "flourish", "idle", "express"}]

ArmsGiven ==
  /\ chains \subseteq ObjectChains
  /\ assignment \in [StepIds -> Arms \cup {None}]
  /\ load \in [Arms -> Nat]
  /\ resources \in [StepIds -> SUBSET Arms]
  /\ stage = "assign" => \A i \in Places :
       Manipulates(job.graph[i]) /\ First(Chain(i)) \notin chains => assignment[job.graph[i].id] \in Online
  /\ stage \notin {"assign", "raised"} => \A i \in Places :
       Manipulates(job.graph[i]) => assignment[job.graph[i].id] \in Online

SoundWave(w) ==
  \A m, n \in Work(w) : m # n =>
    /\ m.arm # None /\ n.arm # None
    /\ m.parts \cap n.parts = {}
    /\ ~Conflict(m.region, n.region)

WavesTyped ==
  /\ waves \in Seq(SUBSET Placements) /\ wave \in SUBSET Placements
  /\ \A i \in DOMAIN waves : SoundWave(waves[i])
  /\ SoundWave(wave)

WavesFilled ==
  /\ stage \notin {"place", "extra"} => wave = {}
  /\ stage = "place" =>
       /\ queue \subseteq Mandatory
       /\ \A k \in queue : Manipulates(job.graph[k]) /\ job.graph[k].id \notin done
       /\ \A m \in wave : m.arm # None /\ m.region \in Zones
       /\ wave = {} => Ready # {}
  /\ stage = "extra" => \A m \in wave : m.kind = "flourish"

NamedIn(i) == {"idle", "express"} \X {i} \X Arms
AllIn(ws) == UNION {ws[i] : i \in DOMAIN ws}
NamesIn(ws, w) == {m.id : m \in AllIn(ws) \cup w}
UsedIds == NamesIn(waves, wave)
Planning == stage \in {"assign", "ready", "place"}
Decorating == stage \in {"flourish", "extra"}

NamesApart ==
  /\ \A i, k \in DOMAIN waves : \A m \in waves[i], n \in waves[k] : m.id = n.id => i = k
  /\ \A i \in DOMAIN waves : \A m \in waves[i], n \in wave : m.id # n.id
  /\ \A i \in DOMAIN waves : \A m \in waves[i] : m.id \in StepIds \cup NamedIn(i)

NamesUsed ==
  /\ Planning \/ Decorating => UsedIds \subseteq StepIds
  /\ Planning => UsedIds \subseteq done /\ done \subseteq IdsOf(Mandatory) /\ leftovers = {}
  /\ Decorating =>
       /\ queue \cup leftovers \subseteq Places
       /\ queue \cap leftovers = {}
       /\ IdsOf(queue \cup leftovers) \cap UsedIds = {}

RunInOrder ==
  /\ stage # "run" => executed = {}
  /\ stage = "run" => \A i \in DOMAIN waves : \A id \in Members(i) :
       id \in DOMAIN needs /\ Members(i - 1) \subseteq needs[id]
  /\ \A id \in executed : id \in DOMAIN needs /\ needs[id] \subseteq executed

WavesGood == WavesTyped /\ WavesFilled /\ NamesApart /\ NamesUsed

WaveInv == job \in Jobs /\ ArmsGiven /\ WavesGood /\ RunInOrder

LEMMA FirstIn ==
  ASSUME NEW S \in SUBSET Nat, S # {}
  PROVE  First(S) \in S /\ \A k \in S : First(S) <= k
<1>1. \E m \in S : \A k \in S : m <= k
  BY LeastOf
<1> QED
  BY <1>1 DEF First

LEMMA LastIn ==
  ASSUME NEW n \in Nat, NEW S \in SUBSET (1..n), S # {}
  PROVE  \E k \in S : \A i \in S : i <= k
<1> DEFINE T == {n - i : i \in S}
<1>1. T \in SUBSET Nat /\ T # {}
  <2>1. \A i \in 1..n : n - i \in Nat
    OBVIOUS
  <2> QED
    BY <2>1
<1>2. PICK m \in T : \A t \in T : m <= t
  BY <1>1, LeastOf
<1>3. PICK k \in S : m = n - k
  BY <1>2
<1>4. \A i \in S : n - k <= n - i
  BY <1>2, <1>3
<1> QED
  BY <1>4

LEMMA JobShape ==
  ASSUME job \in Jobs
  PROVE  /\ Len(job.graph) \in Nat /\ Places = 1..Len(job.graph)
         /\ Places \in SUBSET Nat /\ IsFiniteSet(Places)
         /\ PlanSteps = {job.graph[i] : i \in Places}
         /\ \A i, k \in Places : job.graph[i].id = job.graph[k].id => i = k
         /\ \A i \in Places : job.graph[i].id \in StepIds \ GeneratedNames
         /\ \A i \in Places : Region(job.graph[i]) \in Zones
         /\ \A i \in Places : StepOf(job.graph[i].id) = job.graph[i]
<1>1. Len(job.graph) \in Nat /\ Places = 1..Len(job.graph)
  BY SchedulerAssumption DEF Places
<1>2. Places \in SUBSET Nat /\ IsFiniteSet(Places)
  BY <1>1, FS_Interval
<1>3. PlanSteps = {job.graph[i] : i \in Places}
  BY DEF PlanSteps, ToSet, Places
<1>4. \A i, k \in Places : job.graph[i].id = job.graph[k].id => i = k
  BY SchedulerAssumption DEF Places
<1>5. \A i \in Places : job.graph[i].id \in StepIds \ GeneratedNames
  BY SchedulerAssumption DEF Places, StepIds, IdsOf
<1>6. \A i \in Places : Region(job.graph[i]) \in Zones
  BY SchedulerAssumption DEF Places, Region
<1>7. ASSUME NEW i \in Places PROVE StepOf(job.graph[i].id) = job.graph[i]
  <2>1. \A s \in PlanSteps : s.id = job.graph[i].id => s = job.graph[i]
    BY <1>3, <1>4
  <2> QED
    BY <1>3, <2>1 DEF StepOf
<1> QED
  BY <1>1, <1>2, <1>3, <1>4, <1>5, <1>6, <1>7

LEMMA ArmsOnline ==
  ASSUME job \in Jobs
  PROVE  /\ Online \subseteq Arms /\ Online # {} /\ None \notin Arms
         /\ \A a \in Online : Index(a) \in Nat /\ job.arms[Index(a)] = a
         /\ ~(Len(job.arms) < 2) => \A a : Other(a) \in Online
<1>1. /\ Len(job.arms) \in Nat \ {0} /\ DOMAIN job.arms = 1..Len(job.arms)
      /\ \A i \in DOMAIN job.arms : job.arms[i] \in Arms
      /\ \A i, k \in DOMAIN job.arms : job.arms[i] = job.arms[k] => i = k
  BY SchedulerAssumption
<1>2. Online = {job.arms[i] : i \in DOMAIN job.arms}
  BY DEF Online, ToSet
<1>3. ASSUME NEW a \in Online PROVE Index(a) \in Nat /\ job.arms[Index(a)] = a
  <2>1. \E i \in DOMAIN job.arms : job.arms[i] = a
    BY <1>2
  <2>2. Index(a) \in DOMAIN job.arms /\ job.arms[Index(a)] = a
    BY <2>1 DEF Index
  <2> QED
    BY <1>1, <2>2
<1>4. ASSUME ~(Len(job.arms) < 2), NEW a PROVE Other(a) \in Online
  <2> DEFINE S == {i \in DOMAIN job.arms : job.arms[i] # a}
  <2>1. 1 \in DOMAIN job.arms /\ 2 \in DOMAIN job.arms /\ job.arms[1] # job.arms[2]
    BY <1>1, <1>4
  <2>2. S # {} /\ S \in SUBSET Nat
    BY <1>1, <2>1
  <2>3. First(S) \in S
    BY <2>2, FirstIn
  <2> QED
    BY <1>2, <2>3 DEF Other
<1>5. None \notin Arms
  BY SchedulerAssumption
<1>6. job.arms[1] \in Online
  BY <1>1, <1>2
<1>7. Online \subseteq Arms
  BY <1>1, <1>2
<1> QED
  BY <1>3, <1>4, <1>5, <1>6, <1>7

(* Someone of least load, and of them the first in the list.                 *)
LEMMA LeastLoaded ==
  ASSUME job \in Jobs, load \in [Arms -> Nat], NEW fit \in SUBSET Online, fit # {}
  PROVE  \E a \in fit : \A b \in fit :
           load[a] < load[b] \/ (load[a] = load[b] /\ Index(a) <= Index(b))
<1>1. fit \subseteq Arms /\ \A a \in fit : load[a] \in Nat /\ Index(a) \in Nat
  BY ArmsOnline
<1> DEFINE L == {load[a] : a \in fit}
<1>2. PICK m \in L : \A n \in L : m <= n
  <2>1. L \in SUBSET Nat /\ L # {}
    BY <1>1
  <2> QED
    BY <2>1, LeastOf
<1> DEFINE I == {Index(a) : a \in {b \in fit : load[b] = m}}
<1>3. PICK i \in I : \A k \in I : i <= k
  <2>1. I \in SUBSET Nat /\ I # {}
    BY <1>1, <1>2
  <2> QED
    BY <2>1, LeastOf
<1>4. PICK a \in fit : load[a] = m /\ Index(a) = i
  BY <1>3
<1>5. ASSUME NEW b \in fit
      PROVE  load[a] < load[b] \/ (load[a] = load[b] /\ Index(a) <= Index(b))
  <2>1. m <= load[b]
    BY <1>2
  <2>2. load[b] = m => i <= Index(b)
    BY <1>3
  <2> QED
    BY <1>1, <1>4, <2>1, <2>2
<1> QED
  BY <1>5

LEMMA ChosenOnline ==
  ASSUME job \in Jobs, load \in [Arms -> Nat], NEW S, NEW explicit \in Online \cup {None}
  PROVE  ChooseArm(S, explicit) \in Online
<1> DEFINE able == {a \in Online : \A i \in S : ArmReaches(a, job.graph[i])}
           fit == IF able = {} THEN Online ELSE able
           least == CHOOSE a \in fit : \A b \in fit :
                      load[a] < load[b] \/ (load[a] = load[b] /\ Index(a) <= Index(b))
<1>1. fit \in SUBSET Online /\ fit # {}
  BY ArmsOnline
<1>2. least \in fit
  <2> HIDE DEF fit
  <2> QED
    BY <1>1, LeastLoaded
<1>3. ChooseArm(S, explicit) = IF explicit # None THEN explicit
                               ELSE IF job.prefer \in able THEN job.prefer ELSE least
  BY DEF ChooseArm
<1> HIDE DEF fit, least
<1> QED
  BY <1>1, <1>2, <1>3

LEMMA NamedOnline ==
  ASSUME job \in Jobs, NEW S \in SUBSET Places
  PROVE  Explicit(S) \in Online \cup {None}
<1> DEFINE named == {i \in S : job.graph[i].arm \in Online}
<1>1. CASE named = {}
  BY <1>1 DEF Explicit
<1>2. CASE named # {}
  <2>1. named \in SUBSET Nat
    BY JobShape
  <2>2. First(named) \in named
    BY <1>2, <2>1, FirstIn
  <2> QED
    BY <1>2, <2>2 DEF Explicit
<1> QED
  BY <1>1, <1>2

(* Every step of a plan that manipulates is in the chain its first is for.   *)
LEMMA ChainsCover ==
  ASSUME job \in Jobs
  PROVE  /\ ObjectChains \subseteq Places
         /\ \A i \in ObjectChains : Chain(i) \subseteq Places /\ i \in Chain(i)
              /\ \A k \in Chain(i) : Manipulates(job.graph[k])
         /\ \A i \in Places : Manipulates(job.graph[i]) =>
              i \in Chain(First(Chain(i))) /\ First(Chain(i)) \in ObjectChains
<1>1. ASSUME NEW i \in Places, Manipulates(job.graph[i])
      PROVE  /\ Chain(i) \subseteq Places /\ i \in Chain(i)
             /\ \A k \in Chain(i) : Manipulates(job.graph[k])
             /\ i \in Chain(First(Chain(i))) /\ First(Chain(i)) \in ObjectChains
  <2>1. /\ Chain(i) \subseteq Places /\ i \in Chain(i)
        /\ \A k \in Chain(i) : Manipulates(job.graph[k])
    BY <1>1 DEF Chain
  <2>2. First(Chain(i)) \in Chain(i)
    <3>1. Chain(i) \in SUBSET Nat /\ Chain(i) # {}
      BY <2>1, JobShape
    <3> QED
      BY <3>1, FirstIn
  <2>3. Chain(First(Chain(i))) = Chain(i)
    BY <2>2 DEF Chain
  <2> QED
    BY <2>1, <2>2, <2>3 DEF ObjectChains
<1> QED
  BY <1>1 DEF ObjectChains

LEMMA SameJob ==
  ASSUME job' = job
  PROVE  /\ Places' = Places /\ StepIds' = StepIds /\ PlanSteps' = PlanSteps
         /\ Mandatory' = Mandatory /\ Flourishes' = Flourishes
         /\ ObjectChains' = ObjectChains /\ Online' = Online /\ Placements' = Placements
         /\ \A i : Chain(i)' = Chain(i)
         /\ \A S : IdsOf(S)' = IdsOf(S)
<1>1. Places' = Places
  BY DEF Places
<1>2. \A S : IdsOf(S)' = IdsOf(S)
  BY DEF IdsOf
<1>3. StepIds' = StepIds
  BY <1>1 DEF StepIds, IdsOf
<1>4. PlanSteps' = PlanSteps
  BY DEF PlanSteps
<1>5. Flourishes' = Flourishes
  BY <1>1, <1>4 DEF Flourishes, IsFlourish, DependedOn
<1>6. Mandatory' = Mandatory
  BY <1>1, <1>5 DEF Mandatory
<1>7. \A i : Chain(i)' = Chain(i)
  BY <1>1 DEF Chain
<1>8. ObjectChains' = ObjectChains
  BY <1>1, <1>7 DEF ObjectChains
<1>9. Online' = Online
  BY DEF Online
<1>10. Placements' = Placements
  BY <1>3 DEF Placements
<1> QED
  BY <1>1, <1>2, <1>3, <1>4, <1>5, <1>6, <1>7, <1>8, <1>9, <1>10

(* What the wave loop, and all that follows it, leaves alone.                *)
Later ==
  \/ StartWave \/ Place \/ EndWave \/ ForceWave
  \/ BeginFlourishes \/ PlaceFlourish \/ BeginExtraWave \/ PlaceExtra \/ EndExtraWave
  \/ FillSlack \/ BeginExpression \/ PlaceGroup \/ EndExpression
  \/ Annotate \/ Execute \/ UNCHANGED scheduling

LEMMA LaterKeeps ==
  ASSUME Later
  PROVE  /\ UNCHANGED <<job, chains, assignment, load, resources>>
         /\ stage' = "assign" => stage = "assign"
         /\ stage' \notin {"assign", "raised"} => stage \notin {"assign", "raised"}
<1>1. CASE StartWave \/ Place \/ EndWave \/ ForceWave
  BY <1>1 DEF StartWave, Place, EndWave, ForceWave, RaiseError, building
<1>2. CASE BeginFlourishes \/ PlaceFlourish \/ BeginExtraWave \/ PlaceExtra \/ EndExtraWave
  BY <1>2 DEF BeginFlourishes, PlaceFlourish, BeginExtraWave, PlaceExtra, EndExtraWave
<1>3. CASE FillSlack \/ BeginExpression \/ PlaceGroup \/ EndExpression
  BY <1>3 DEF FillSlack, BeginExpression, PlaceGroup, EndExpression, building
<1>4. CASE Annotate \/ Execute \/ UNCHANGED scheduling
  BY <1>4 DEF Annotate, Execute, building, scheduling
<1> QED
  BY <1>1, <1>2, <1>3, <1>4 DEF Later

(* A chain's arms are online, the giver's as well as the receiver's.         *)
LEMMA NextIsLeft ==
  ASSUME job \in Jobs, ArmsGiven, chains # {}
  PROVE  NextChain \in chains
<1> DEFINE objects == {i \in chains : job.graph[i].obj # None}
           S == IF objects # {} THEN objects ELSE chains
<1>1. S \in SUBSET Nat /\ S # {} /\ S \subseteq chains
  BY JobShape, ChainsCover DEF ArmsGiven
<1>2. First(S) \in S
  <2> HIDE DEF S
  <2> QED
    BY <1>1, FirstIn
<1>3. NextChain = First(S)
  BY DEF NextChain
<1> HIDE DEF S
<1> QED
  BY <1>1, <1>2, <1>3

LEMMA ChainServed ==
  ASSUME job \in Jobs, ArmsGiven, AssignChain
  PROVE  ArmsGiven'
<1> DEFINE chain == Chain(NextChain)
           cuts  == {i \in chain : job.graph[i].op = "HANDOFF"}
           cut   == First(cuts)
           pre   == IF cuts = {} THEN chain ELSE {i \in chain : i <= cut}
           judged == IF cuts = {} \/ pre = {cut} THEN pre ELSE pre \ {cut}
           giver == ChooseArm(judged, Explicit(pre))
           taker == IF cuts = {} THEN giver
                    ELSE IF job.graph[cut].recv \in Online THEN job.graph[cut].recv ELSE Other(giver)
           of(i) == IF i \in pre THEN giver ELSE taker
<1>1. /\ assignment' = [id \in DOMAIN assignment |->
           IF id \in IdsOf(chain) THEN of(CHOOSE i \in chain : job.graph[i].id = id)
           ELSE assignment[id]]
      /\ load' = [a \in Arms |-> load[a] + Cardinality({i \in chain : of(i) = a})]
      /\ chains' = chains \ {NextChain} /\ resources' = resources
      /\ job' = job /\ stage = "assign" /\ stage' = "assign" /\ chains # {} /\ ~TooFewArms
  BY DEF AssignChain
<1>2. NextChain \in chains
  BY <1>1, NextIsLeft
<1>3. chain \in SUBSET Places /\ IsFiniteSet(chain)
      /\ \A k \in chain : Manipulates(job.graph[k])
  <2>1. chain \in SUBSET Places /\ \A k \in chain : Manipulates(job.graph[k])
    BY <1>2, ChainsCover DEF ArmsGiven
  <2> QED
    BY <2>1, JobShape, FS_Subset
<1>4. giver \in Online
  <2>1. pre \in SUBSET Places
    BY <1>3
  <2> HIDE DEF pre, judged
  <2>2. Explicit(pre) \in Online \cup {None}
    BY <2>1, NamedOnline
  <2> QED
    BY <2>2, ChosenOnline DEF ArmsGiven
<1>5. taker \in Online
  <2>1. CASE cuts = {}
    BY <2>1, <1>4
  <2>2. CASE cuts # {}
    <3>1. PICK i \in cuts : TRUE
      BY <2>2
    <3>2. job.graph[i] \in PlanSteps /\ Manipulates(job.graph[i]) /\ job.graph[i].op \in BothArms
      BY <1>3, JobShape DEF BothArms
    <3>3. ~(Len(job.arms) < 2)
      BY <1>1, <3>2 DEF TooFewArms
    <3> HIDE DEF giver
    <3>4. Other(giver) \in Online
      BY <3>3, ArmsOnline
    <3> QED
      BY <2>2, <3>4
  <2> QED
    BY <2>1, <2>2
<1>6. \A i : of(i) \in Online
  BY <1>4, <1>5
<1> HIDE DEF of, chain
<1>7. /\ assignment' \in [StepIds -> Arms \cup {None}]
      /\ \A id \in StepIds : id \in IdsOf(chain) \/ assignment[id] \in Online => assignment'[id] \in Online
  BY <1>1, <1>6, ArmsOnline DEF ArmsGiven
<1>8. load' \in [Arms -> Nat]
  <2>1. \A a \in Arms : Cardinality({i \in chain : of(i) = a}) \in Nat
    BY <1>3, FS_Subset, FS_CardinalityType
  <2> QED
    BY <1>1, <2>1 DEF ArmsGiven
<1>9. ASSUME NEW i \in Places, Manipulates(job.graph[i]), First(Chain(i)) \notin chains'
      PROVE  assignment'[job.graph[i].id] \in Online
  <2>1. job.graph[i].id \in StepIds
    BY JobShape
  <2>2. CASE First(Chain(i)) \in chains
    <3>1. First(Chain(i)) = NextChain
      BY <1>1, <1>9, <2>2
    <3>2. i \in chain
      BY <1>9, <3>1, ChainsCover DEF chain
    <3> QED
      BY <1>7, <2>1, <3>2 DEF IdsOf
  <2>3. CASE First(Chain(i)) \notin chains
    BY <1>1, <1>7, <1>9, <2>1, <2>3 DEF ArmsGiven
  <2> QED
    BY <2>2, <2>3
<1> QED
  BY <1>1, <1>7, <1>8, <1>9, SameJob DEF ArmsGiven

(* The arms that a step takes are the scheduler's own.                       *)
LEMMA TakesArms ==
  ASSUME job \in Jobs, ArmsGiven, stage = "assign", chains = {}, ~TooFewArms,
         NEW s \in PlanSteps, Manipulates(s) => Takes(s) # {}
  PROVE  /\ Takes(s) \subseteq Arms
         /\ Manipulates(s) => Primary(s) \in Online
         /\ Primary(s) \in Arms \cup {None}
<1> DEFINE arm == assignment[s.id]
<1>1. Manipulates(s) => arm \in Online
  BY JobShape DEF ArmsGiven
<1>2. arm \in Arms \cup {None}
  BY JobShape DEF ArmsGiven
<1>3. \A S : Servable(S, s) \in {S, {}}
  BY DEF Servable
<1>4. CASE ~Manipulates(s)
  BY <1>2, <1>4 DEF Takes, Primary, BothArms
<1>5. CASE Manipulates(s) /\ s.op \notin BothArms
  <2>1. Takes(s) = Servable({arm}, s) /\ Primary(s) = arm
    BY <1>5 DEF Takes, Primary, BothArms
  <2> QED
    BY <1>1, <1>3, <1>5, <2>1, ArmsOnline
<1>6. CASE Manipulates(s) /\ s.op \in BothArms /\ s.op = "HANDOFF"
  <2> DEFINE recv == IF s.recv \in Online THEN s.recv ELSE Other(arm)
  <2>1. recv \in Online
    BY <1>6, ArmsOnline DEF TooFewArms
  <2>2. Takes(s) = Servable({arm, recv}, s) /\ Primary(s) = arm
    BY <1>6 DEF Takes, Primary
  <2> HIDE DEF recv
  <2> QED
    BY <1>1, <1>3, <1>6, <2>1, <2>2, ArmsOnline
<1>7. CASE Manipulates(s) /\ s.op \in BothArms /\ s.op # "HANDOFF" /\ job.fleet = None
  BY <1>1, <1>7, ArmsOnline DEF Takes, Primary
<1>8. CASE Manipulates(s) /\ s.op \in BothArms /\ s.op # "HANDOFF" /\ job.fleet # None
  <2>1. Takes(s) = IF Units(s) = {} THEN {} ELSE ToSet(Unit(s))
    BY <1>8 DEF Takes
  <2>2. Primary(s) = IF s.arm \in Online THEN s.arm ELSE Unit(s)[1]
    BY <1>8 DEF Primary
  <2>3. CASE Units(s) # {}
    <3>1. Units(s) \in SUBSET Nat
      BY <1>8, SchedulerAssumption DEF Units
    <3>2. First(Units(s)) \in Units(s)
      BY <2>3, <3>1, FirstIn
    <3>3. /\ ToSet(Unit(s)) \subseteq Online /\ ToSet(Unit(s)) # {}
          /\ Len(Unit(s)) \in Nat /\ DOMAIN Unit(s) = 1..Len(Unit(s))
      BY <1>3, <1>8, <3>2, SchedulerAssumption DEF Units, Unit
    <3>4. Unit(s)[1] \in ToSet(Unit(s))
      BY <3>3 DEF ToSet
    <3> QED
      BY <2>1, <2>2, <2>3, <3>3, <3>4, ArmsOnline
  <2>4. CASE Units(s) = {}
    BY <1>8, <2>1, <2>4
  <2> QED
    BY <2>3, <2>4
<1> QED
  BY <1>4, <1>5, <1>6, <1>7, <1>8

LEMMA ArmsStep ==
  ASSUME job \in Jobs, ArmsGiven, [ScheduleNext]_scheduling
  PROVE  job' = job /\ ArmsGiven'
<1>1. CASE AssignChain
  BY <1>1, ChainServed DEF AssignChain
<1>2. CASE TakeResources /\ stage' = "raised"
  <2>1. UNCHANGED <<job, chains, assignment, load, resources>>
    BY <1>2 DEF TakeResources, RaiseError, building
  <2> QED
    BY <1>2, <2>1, SameJob DEF ArmsGiven
<1>3. CASE TakeResources /\ stage' # "raised"
  <2>1. /\ stage = "assign" /\ ~Unservable /\ stage' = "ready"
        /\ chains = {} \/ TooFewArms
        /\ resources' = [id \in DOMAIN assignment |-> Takes(StepOf(id))]
        /\ assignment' = [id \in DOMAIN assignment |-> Primary(StepOf(id))]
        /\ UNCHANGED <<job, chains, load>>
    BY <1>3 DEF TakeResources, RaiseError
  <2>2. /\ chains = {} /\ ~TooFewArms
        /\ \A s \in PlanSteps : Manipulates(s) => Takes(s) # {}
    BY <2>1 DEF Unservable
  <2>3. ASSUME NEW i \in Places
        PROVE  /\ assignment'[job.graph[i].id] \in Arms \cup {None}
               /\ resources'[job.graph[i].id] \subseteq Arms
               /\ Manipulates(job.graph[i]) => assignment'[job.graph[i].id] \in Online
    <3>1. /\ job.graph[i].id \in StepIds /\ job.graph[i] \in PlanSteps
          /\ StepOf(job.graph[i].id) = job.graph[i]
      BY JobShape
    <3>2. /\ assignment'[job.graph[i].id] = Primary(job.graph[i])
          /\ resources'[job.graph[i].id] = Takes(job.graph[i])
      BY <2>1, <3>1 DEF ArmsGiven
    <3> QED
      BY <2>1, <2>2, <3>1, <3>2, TakesArms
  <2>4. /\ assignment' \in [StepIds -> Arms \cup {None}]
        /\ resources' \in [StepIds -> SUBSET Arms]
    <3>1. \A id \in StepIds : \E i \in Places : id = job.graph[i].id
      BY DEF StepIds, IdsOf
    <3>2. assignment' = [id \in StepIds |-> assignment'[id]]
      BY <2>1 DEF ArmsGiven
    <3>3. resources' = [id \in StepIds |-> resources'[id]]
      BY <2>1 DEF ArmsGiven
    <3>4. \A id \in StepIds : assignment'[id] \in Arms \cup {None} /\ resources'[id] \in SUBSET Arms
      BY <2>3, <3>1
    <3>5. assignment' \in [StepIds -> Arms \cup {None}]
      BY <3>2, <3>4
    <3>6. resources' \in [StepIds -> SUBSET Arms]
      BY <3>3, <3>4
    <3> QED
      BY <3>5, <3>6
  <2> QED
    BY <2>1, <2>3, <2>4, SameJob DEF ArmsGiven
<1>4. CASE Later
  BY <1>4, LaterKeeps, SameJob DEF ArmsGiven
<1> QED
  BY <1>1, <1>2, <1>3, <1>4 DEF ScheduleNext, Later

LEMMA OrderStep ==
  ASSUME RunInOrder, NamesApart, job' = job, [ScheduleNext]_scheduling
  PROVE  RunInOrder'
<1>1. CASE Annotate
  <2>1. /\ stage = "annotate" /\ stage' = "run" /\ executed' = executed /\ waves' = waves /\ executed = {}
        /\ needs' = [id \in {m.id : m \in {n \in AllPlaced : n.kind # "idle"}} |-> Needs(id)]
    BY <1>1 DEF Annotate, building, RunInOrder
  <2>2. ASSUME NEW i \in DOMAIN waves, NEW id \in Members(i)
        PROVE  id \in DOMAIN needs' /\ Members(i - 1) \subseteq needs'[id]
    <3>1. PICK m \in waves[i] : m.kind = "work" /\ m.id = id
      BY <2>2 DEF Members
    <3>2. id \in DOMAIN needs'
      BY <2>1, <3>1 DEF AllPlaced
    <3>3. WaveOf(id) = i
      BY <3>1 DEF WaveOf, NamesApart
    <3> QED
      BY <2>1, <3>2, <3>3 DEF Needs
  <2>3. \A i : Members(i)' = Members(i)
    BY <2>1 DEF Members
  <2> QED
    BY <2>1, <2>2, <2>3 DEF RunInOrder
<1>2. CASE Execute
  <2>1. PICK id \in Startable : executed' = executed \cup {id}
    BY <1>2 DEF Execute
  <2>2. UNCHANGED <<waves, needs, stage>> /\ stage = "run"
    BY <1>2 DEF Execute, building
  <2>3. \A i : Members(i)' = Members(i)
    BY <2>2 DEF Members
  <2> QED
    BY <2>1, <2>2, <2>3 DEF RunInOrder, Startable
<1>3. CASE UNCHANGED scheduling
  <2>1. \A i : Members(i)' = Members(i)
    BY <1>3 DEF Members, scheduling, building
  <2> QED
    BY <1>3, <2>1 DEF RunInOrder, scheduling, building, running
<1>4. CASE ~Annotate /\ ~Execute /\ ScheduleNext
  <2>1. stage # "run" /\ stage' # "run" /\ executed' = executed
    <3>1. CASE AssignChain
      BY <3>1 DEF AssignChain, running
    <3>6. CASE Place \/ EndWave \/ ForceWave
      BY <3>6 DEF Place, EndWave, ForceWave, running
    <3>4. CASE TakeResources
      BY <3>4 DEF TakeResources, RaiseError, running
    <3>5. CASE StartWave
      BY <3>5 DEF StartWave, RaiseError, running
    <3>2. CASE BeginFlourishes \/ PlaceFlourish \/ BeginExtraWave \/ PlaceExtra \/ EndExtraWave
      BY <3>2 DEF BeginFlourishes, PlaceFlourish, BeginExtraWave, PlaceExtra, EndExtraWave, running
    <3>3. CASE FillSlack \/ BeginExpression \/ PlaceGroup \/ EndExpression
      BY <3>3 DEF FillSlack, BeginExpression, PlaceGroup, EndExpression, running
    <3> QED
      BY <1>4, <3>1, <3>2, <3>3, <3>4, <3>5, <3>6 DEF ScheduleNext
  <2> QED
    BY <2>1 DEF RunInOrder
<1> QED
  BY <1>1, <1>2, <1>3, <1>4

(* What is put into a wave.                                                  *)
LEMMA PlacedStep ==
  ASSUME job \in Jobs, ArmsGiven, NEW k \in Places, NEW kind \in {"work", "flourish"}
  PROVE  /\ Placed(job.graph[k], kind) \in Placements
         /\ Placed(job.graph[k], kind).id = job.graph[k].id
         /\ Placed(job.graph[k], kind).arm = assignment[job.graph[k].id]
         /\ Placed(job.graph[k], kind).kind = kind
         /\ kind = "work" => Placed(job.graph[k], kind).parts = resources[job.graph[k].id]
         /\ Manipulates(job.graph[k]) => Placed(job.graph[k], kind).region = Region(job.graph[k])
<1>1. /\ job.graph[k].id \in StepIds /\ Region(job.graph[k]) \in Zones
      /\ assignment[job.graph[k].id] \in Arms \cup {None}
      /\ resources[job.graph[k].id] \in SUBSET Arms
  BY JobShape DEF ArmsGiven
<1> QED
  BY <1>1 DEF Placed, Placements

LEMMA Added ==
  ASSUME NEW w, NEW v, SoundWave(w), \A m \in v : m.kind # "work"
  PROVE  SoundWave(w \cup v)
<1>1. Work(w \cup v) = Work(w)
  BY DEF Work
<1> QED
  BY <1>1 DEF SoundWave

LEMMA Alone ==
  ASSUME NEW m
  PROVE  SoundWave({m}) /\ SoundWave({})
BY DEF SoundWave, Work

LEMMA GeneratedStep ==
  ASSUME job \in Jobs, NEW i \in Nat, NEW kind \in {"idle", "express"}, NEW S \in SUBSET Arms
  PROVE  /\ GeneratedFor(kind, i, S) \in SUBSET Placements
         /\ \A m \in GeneratedFor(kind, i, S) : m.kind # "work" /\ m.id \in NamedIn(i)
<1>1. ASSUME NEW a \in S
      PROVE  /\ Generated(kind, i, a) \in Placements
             /\ Generated(kind, i, a).kind # "work" /\ Generated(kind, i, a).id \in NamedIn(i)
  <2>1. <<kind, i, a>> \in GeneratedNames /\ <<kind, i, a>> \in NamedIn(i)
    BY DEF GeneratedNames, NamedIn
  <2> QED
    BY <2>1 DEF Generated, Placements
<1> QED
  BY <1>1 DEF GeneratedFor

LEMMA Inserted ==
  ASSUME NEW S, NEW s \in Seq(S), NEW e \in S, NEW n \in 1..(Len(s) + 1)
  PROVE  /\ InsertAt(s, n, e) \in Seq(S) /\ Len(InsertAt(s, n, e)) = Len(s) + 1
         /\ \A i \in 1..(Len(s) + 1) :
              InsertAt(s, n, e)[i] = IF i < n THEN s[i] ELSE IF i = n THEN e ELSE s[i - 1]
<1> DEFINE a == SubSeq(s, 1, n - 1)
           b == SubSeq(s, n, Len(s))
<1>1. a \in Seq(S) /\ Len(a) = n - 1 /\ \A i \in 1..(n - 1) : a[i] = s[i]
  OBVIOUS
<1>2. b \in Seq(S) /\ Len(b) = Len(s) + 1 - n /\ \A i \in 1..(Len(s) + 1 - n) : b[i] = s[n - 1 + i]
  OBVIOUS
<1>3. <<e>> \in Seq(S) /\ Len(<<e>>) = 1 /\ <<e>>[1] = e
  OBVIOUS
<1>4. InsertAt(s, n, e) = (a \o <<e>>) \o b
  BY DEF InsertAt
<1> HIDE DEF a, b
<1>5. /\ a \o <<e>> \in Seq(S) /\ Len(a \o <<e>>) = n
      /\ \A i \in 1..(n - 1) : (a \o <<e>>)[i] = s[i]
      /\ (a \o <<e>>)[n] = e
  BY <1>1, <1>3
<1> DEFINE c == a \o <<e>>
<1> HIDE DEF c
<1>6. /\ c \o b \in Seq(S) /\ Len(c \o b) = Len(s) + 1
      /\ \A i \in 1..n : (c \o b)[i] = c[i]
      /\ \A i \in 1..(Len(s) + 1 - n) : (c \o b)[n + i] = b[i]
  <2>1. c \in Seq(S) /\ Len(c) = n
    BY <1>5 DEF c
  <2>2. /\ c \o b \in Seq(S) /\ Len(c \o b) = Len(c) + Len(b)
        /\ \A i \in 1..Len(c) : (c \o b)[i] = c[i]
        /\ \A i \in 1..Len(b) : (c \o b)[Len(c) + i] = b[i]
    BY <1>2, <2>1, Behind
  <2> QED
    BY <1>2, <2>1, <2>2
<1>7. ASSUME NEW i \in 1..(Len(s) + 1), i > n PROVE (c \o b)[i] = s[i - 1]
  <2>1. i - n \in 1..(Len(s) + 1 - n) /\ n + (i - n) = i /\ n - 1 + (i - n) = i - 1
    BY <1>7
  <2>2. (c \o b)[n + (i - n)] = b[i - n] /\ b[i - n] = s[n - 1 + (i - n)]
    BY <2>1, <1>2, <1>6
  <2> QED
    BY <2>1, <2>2
<1>8. \A i \in 1..(n - 1) : (c \o b)[i] = s[i]
  <2>1. \A i \in 1..(n - 1) : i \in 1..n
    OBVIOUS
  <2>2. \A i \in 1..(n - 1) : c[i] = s[i]
    BY <1>5 DEF c
  <2> QED
    BY <1>6, <2>1, <2>2
<1>9. (c \o b)[n] = e
  <2>1. n \in 1..n /\ c[n] = e
    BY <1>5 DEF c
  <2> QED
    BY <1>6, <2>1
<1>10. ASSUME NEW i \in 1..(Len(s) + 1)
       PROVE  (i \in 1..(n - 1) /\ i < n) \/ i = n \/ (i > n /\ ~(i < n) /\ i # n)
  OBVIOUS
<1> DEFINE d == c \o b
<1>11. /\ \A i \in 1..(n - 1) : d[i] = s[i]
       /\ d[n] = e
       /\ \A i \in 1..(Len(s) + 1) : i > n => d[i] = s[i - 1]
       /\ d \in Seq(S) /\ Len(d) = Len(s) + 1 /\ InsertAt(s, n, e) = d
  BY <1>4, <1>6, <1>7, <1>8, <1>9 DEF c
<1> HIDE DEF d
<1>12. \A i \in 1..(Len(s) + 1) : d[i] = IF i < n THEN s[i] ELSE IF i = n THEN e ELSE s[i - 1]
  BY <1>10, <1>11
<1> QED
  BY <1>11, <1>12


LEMMA NamesMean ==
  ASSUME NEW ws, NEW w
  PROVE  \A id : id \in NamesIn(ws, w) <=>
           (\E i \in DOMAIN ws : \E m \in ws[i] : m.id = id) \/ \E m \in w : m.id = id
<1>1. \A m : m \in AllIn(ws) <=> \E i \in DOMAIN ws : m \in ws[i]
  <2>1. ASSUME NEW m, m \in AllIn(ws) PROVE \E i \in DOMAIN ws : m \in ws[i]
    <3>1. PICK T \in {ws[i] : i \in DOMAIN ws} : m \in T
      BY <2>1 DEF AllIn
    <3> QED
      BY <3>1
  <2>2. ASSUME NEW i \in DOMAIN ws, NEW m \in ws[i] PROVE m \in AllIn(ws)
    <3>1. ws[i] \in {ws[k] : k \in DOMAIN ws}
      OBVIOUS
    <3> QED
      BY <3>1 DEF AllIn
  <2> QED
    BY <2>1, <2>2
<1>2. \A id : id \in NamesIn(ws, w) <=> \E m \in AllIn(ws) \cup w : m.id = id
  BY DEF NamesIn
<1>3. \A m : m \in AllIn(ws) \cup w <=> m \in AllIn(ws) \/ m \in w
  OBVIOUS
<1> QED
  BY <1>1, <1>2, <1>3

(* A wave is added at the end.                                               *)
LEMMA Appended ==
  ASSUME job \in Jobs, WavesTyped, NamesApart, job' = job,
         NEW w \in SUBSET Placements, SoundWave(w),
         \A m \in w : m.id \in StepIds,
         \A i \in DOMAIN waves : \A m \in waves[i], n \in w : m.id # n.id,
         waves' = Append(waves, w), wave' = {}
  PROVE  /\ WavesTyped' /\ NamesApart'
         /\ UsedIds' = NamesIn(waves, {}) \cup {m.id : m \in w}
<1>1. /\ waves \in Seq(SUBSET Placements) /\ Len(waves) \in Nat /\ DOMAIN waves = 1..Len(waves)
      /\ waves' \in Seq(SUBSET Placements) /\ DOMAIN waves' = 1..(Len(waves) + 1)
      /\ waves'[Len(waves) + 1] = w
      /\ \A i \in DOMAIN waves : waves'[i] = waves[i]
  BY DEF WavesTyped
<1>2. \A i \in DOMAIN waves' : i \in DOMAIN waves \/ i = Len(waves) + 1
  BY <1>1
<1>3. WavesTyped'
  <2>1. \A i \in DOMAIN waves' : SoundWave(waves'[i])
    BY <1>1, <1>2 DEF WavesTyped
  <2>2. SoundWave(wave')
    BY Alone
  <2> QED
    BY <1>1, <2>1, <2>2, SameJob DEF WavesTyped
<1>4. NamesApart'
  <2>1. ASSUME NEW i \in DOMAIN waves', NEW k \in DOMAIN waves', NEW m \in waves'[i], NEW n \in waves'[k],
               m.id = n.id
        PROVE  i = k
    <3>1. CASE i \in DOMAIN waves /\ k \in DOMAIN waves
      BY <1>1, <2>1, <3>1 DEF NamesApart
    <3>2. CASE i \in DOMAIN waves /\ k = Len(waves) + 1
      BY <1>1, <2>1, <3>2
    <3>3. CASE i = Len(waves) + 1 /\ k \in DOMAIN waves
      BY <1>1, <2>1, <3>3
    <3> QED
      BY <1>2, <3>1, <3>2, <3>3
  <2>2. \A i \in DOMAIN waves' : \A m \in waves'[i] : m.id \in StepIds \cup NamedIn(i)
    BY <1>1, <1>2 DEF NamesApart
  <2> QED
    BY <2>1, <2>2, SameJob DEF NamesApart, NamedIn
<1>5. UsedIds' = NamesIn(waves, {}) \cup {m.id : m \in w}
  <2> DEFINE ws == waves'
  <2> HIDE DEF ws
  <2>1. \A id : id \in NamesIn(ws, {}) <=> \E i \in DOMAIN ws : \E m \in ws[i] : m.id = id
    BY NamesMean
  <2>2. \A id : id \in NamesIn(waves, {}) <=> \E i \in DOMAIN waves : \E m \in waves[i] : m.id = id
    BY NamesMean
  <2>3. Len(waves) + 1 \in DOMAIN waves' /\ \A i \in DOMAIN waves : i \in DOMAIN waves'
    BY <1>1
  <2>4. \A id : id \in NamesIn(ws, {}) <=> id \in NamesIn(waves, {}) \/ \E m \in w : m.id = id
    BY <1>1, <1>2, <2>1, <2>2, <2>3 DEF ws
  <2>5. UsedIds' = NamesIn(ws, {})
    BY DEF UsedIds, ws
  <2> QED
    BY <2>4, <2>5
<1> QED
  BY <1>3, <1>4, <1>5

(* A flourish joins a wave of the plan.                                      *)
LEMMA Adorned ==
  ASSUME job \in Jobs, WavesTyped, NamesApart, job' = job, wave' = wave,
         NEW x \in Placements, x.kind # "work", x.id \in StepIds, x.id \notin UsedIds,
         NEW j \in DOMAIN waves, waves' = [waves EXCEPT ![j] = @ \cup {x}]
  PROVE  WavesTyped' /\ NamesApart' /\ UsedIds' = UsedIds \cup {x.id}
<1>1. /\ waves \in Seq(SUBSET Placements) /\ DOMAIN waves' = DOMAIN waves
      /\ waves' \in Seq(SUBSET Placements)
      /\ \A i \in DOMAIN waves : waves'[i] = IF i = j THEN waves[i] \cup {x} ELSE waves[i]
  <2>1. waves \in [1..Len(waves) -> SUBSET Placements] /\ Len(waves) \in Nat
    BY DEF WavesTyped
  <2>2. waves[j] \cup {x} \in SUBSET Placements
    BY <2>1
  <2>3. waves' \in [1..Len(waves) -> SUBSET Placements]
    BY <2>1, <2>2
  <2>4. DOMAIN waves = 1..Len(waves) /\ DOMAIN waves' = 1..Len(waves) /\ waves' \in Seq(SUBSET Placements)
    BY <2>1, <2>3
  <2>5. \A i \in DOMAIN waves : waves'[i] = IF i = j THEN waves[i] \cup {x} ELSE waves[i]
    BY <2>1
  <2> QED
    BY <2>4, <2>5 DEF WavesTyped
<1>2. WavesTyped'
  <2>1. SoundWave(waves[j] \cup {x})
    BY Added DEF WavesTyped
  <2>2. \A i \in DOMAIN waves' : SoundWave(waves'[i])
    BY <1>1, <2>1 DEF WavesTyped
  <2> QED
    BY <1>1, <2>2, SameJob DEF WavesTyped
<1>3. \A i \in DOMAIN waves : \A m \in waves[i] : m.id # x.id
  BY NamesMean DEF UsedIds
<1>4. \A m \in wave : m.id # x.id
  BY NamesMean DEF UsedIds
<1>5. NamesApart'
  <2>1. ASSUME NEW i \in DOMAIN waves', NEW k \in DOMAIN waves', NEW m \in waves'[i], NEW n \in waves'[k],
               m.id = n.id
        PROVE  i = k
    <3>1. (m \in waves[i] \/ (m = x /\ i = j)) /\ (n \in waves[k] \/ (n = x /\ k = j))
      BY <1>1
    <3> QED
      BY <1>1, <1>3, <2>1, <3>1 DEF NamesApart
  <2>2. \A i \in DOMAIN waves' : \A m \in waves'[i], n \in wave' : m.id # n.id
    BY <1>1, <1>4 DEF NamesApart
  <2>3. \A i \in DOMAIN waves' : \A m \in waves'[i] : m.id \in StepIds \cup NamedIn(i)
    BY <1>1 DEF NamesApart
  <2> QED
    BY <2>1, <2>2, <2>3, SameJob DEF NamesApart, NamedIn
<1>6. UsedIds' = UsedIds \cup {x.id}
  <2> DEFINE ws == waves'
  <2> HIDE DEF ws
  <2>1. \A id : id \in NamesIn(ws, wave) <=>
          (\E i \in DOMAIN ws : \E m \in ws[i] : m.id = id) \/ \E m \in wave : m.id = id
    BY NamesMean
  <2>2. \A id : id \in NamesIn(waves, wave) <=>
          (\E i \in DOMAIN waves : \E m \in waves[i] : m.id = id) \/ \E m \in wave : m.id = id
    BY NamesMean
  <2>3. x \in waves'[j] /\ \A i \in DOMAIN waves : \A m \in waves'[i] : m \in waves[i] \/ m = x
    BY <1>1
  <2>4. \A i \in DOMAIN waves : waves[i] \subseteq waves'[i]
    BY <1>1
  <2>5. \A id : id \in NamesIn(ws, wave) <=> id \in NamesIn(waves, wave) \/ id = x.id
    BY <1>1, <2>1, <2>2, <2>3, <2>4 DEF ws
  <2>6. UsedIds' = NamesIn(ws, wave)
    BY DEF UsedIds, ws
  <2> QED
    BY <2>5, <2>6 DEF UsedIds
<1> QED
  BY <1>2, <1>5, <1>6

(* Waves are given motions that no step of the plan asked for.               *)
LEMMA Filled ==
  ASSUME job \in Jobs, WavesTyped, NamesApart, job' = job, wave = {}, wave' = {},
         NEW v, DOMAIN v = DOMAIN waves,
         \A i \in DOMAIN waves : v[i] \in SUBSET Placements
            /\ \A m \in v[i] : m.kind # "work" /\ m.id \in NamedIn(i),
         waves' = [i \in DOMAIN waves |-> waves[i] \cup v[i]]
  PROVE  WavesTyped' /\ NamesApart'
<1>1. /\ waves \in Seq(SUBSET Placements) /\ DOMAIN waves' = DOMAIN waves
      /\ DOMAIN waves = 1..Len(waves) /\ Len(waves) \in Nat
      /\ \A i \in DOMAIN waves : waves'[i] = waves[i] \cup v[i]
  BY DEF WavesTyped
<1>2. waves' \in Seq(SUBSET Placements)
  <2>1. \A i \in DOMAIN waves : waves[i] \cup v[i] \in SUBSET Placements
    BY <1>1
  <2>2. waves' \in [1..Len(waves) -> SUBSET Placements]
    BY <1>1, <2>1
  <2> QED
    BY <1>1, <2>2
<1>3. WavesTyped'
  <2>1. ASSUME NEW i \in DOMAIN waves PROVE SoundWave(waves[i] \cup v[i])
    BY <2>1, Added DEF WavesTyped
  <2>2. SoundWave(wave')
    BY Alone
  <2> QED
    BY <1>1, <1>2, <2>1, <2>2, SameJob DEF WavesTyped
<1>4. NamesApart'
  <2>1. \A i \in DOMAIN waves : NamedIn(i) \cap StepIds = {}
    <3>1. \A i \in DOMAIN waves : NamedIn(i) \subseteq GeneratedNames
      BY <1>1 DEF NamedIn, GeneratedNames
    <3>2. StepIds \cap GeneratedNames = {}
      BY JobShape DEF StepIds, IdsOf
    <3> QED
      BY <3>1, <3>2
  <2>2. \A i, k : i # k => NamedIn(i) \cap NamedIn(k) = {}
    BY DEF NamedIn
  <2>3. \A i \in DOMAIN waves' : \A m \in waves'[i] : m.id \in StepIds \cup NamedIn(i)
    BY <1>1 DEF NamesApart
  <2>4. \A i \in DOMAIN waves : \A m \in waves'[i] : m \in waves[i] \/ m.id \in NamedIn(i)
    BY <1>1
  <2>5. ASSUME NEW i \in DOMAIN waves', NEW k \in DOMAIN waves', NEW m \in waves'[i], NEW n \in waves'[k],
               m.id = n.id
        PROVE  i = k
    <3>1. CASE m \in waves[i] /\ n \in waves[k]
      BY <1>1, <2>5, <3>1 DEF NamesApart
    <3>2. CASE m.id \in NamedIn(i) \/ n.id \in NamedIn(k)
      BY <1>1, <2>1, <2>2, <2>3, <2>5, <3>2
    <3> QED
      BY <1>1, <2>4, <3>1, <3>2
  <2> QED
    BY <2>3, <2>5, SameJob DEF NamesApart, NamedIn
<1> QED
  BY <1>3, <1>4

LEMMA WavesStay ==
  ASSUME WavesTyped, NamesApart, UNCHANGED <<job, waves, wave>>
  PROVE  WavesTyped' /\ NamesApart' /\ UsedIds' = UsedIds
<1>1. WavesTyped'
  BY SameJob DEF WavesTyped
<1>2. NamesApart'
  BY SameJob DEF NamesApart, NamedIn
<1>3. UsedIds' = UsedIds
  BY DEF UsedIds
<1> QED
  BY <1>1, <1>2, <1>3

LEMMA WorthReady ==
  ASSUME job \in Jobs
  PROVE  /\ Ready \in SUBSET Mandatory /\ Mandatory \in SUBSET Places /\ Flourishes = Places \ Mandatory
         /\ \A i \in Ready : job.graph[i].id \notin done
         /\ \A i \in Places : job.graph[i].id \in IdsOf(Mandatory) => i \in Mandatory
<1>1. Flourishes \subseteq Places
  BY DEF Flourishes
<1> QED
  BY <1>1, JobShape DEF Ready, Mandatory, IdsOf

LEMMA StartWaveStep ==
  ASSUME job \in Jobs, ArmsGiven, WavesGood, StartWave
  PROVE  WavesGood'
<1>1. /\ stage = "ready" /\ wave = {} /\ job' = job /\ wave' = {} /\ leftovers' = leftovers
      /\ leftovers = {} /\ UsedIds \subseteq StepIds /\ UsedIds \subseteq done
      /\ done \subseteq IdsOf(Mandatory)
  BY DEF StartWave, RaiseError, building, WavesGood, WavesFilled, NamesUsed, Planning
<1>2. CASE stage' = "raised"
  <2>1. UNCHANGED <<job, waves, wave>>
    BY <1>2, <1>1 DEF StartWave, RaiseError, building
  <2> QED
    BY <1>1, <1>2, <2>1, WavesStay DEF WavesGood, WavesFilled, NamesUsed, Planning, Decorating
<1>3. CASE stage' # "raised" /\ Barriers # {}
  <2> DEFINE b == First(Barriers)
             x == Placed(job.graph[b], "work")
  <2>1. /\ waves' = Append(waves, {x}) /\ done' = done \cup {job.graph[b].id} /\ stage' = "ready"
    BY <1>1, <1>3 DEF StartWave, RaiseError
  <2>2. b \in Ready
    <3>1. Barriers \in SUBSET Nat /\ Barriers \subseteq Ready
      BY WorthReady, JobShape DEF Barriers
    <3> QED
      BY <1>3, <3>1, FirstIn
  <2>3. b \in Mandatory /\ b \in Places /\ job.graph[b].id \notin done /\ job.graph[b].id \in StepIds
        /\ job.graph[b].id \in IdsOf(Mandatory)
    BY <2>2, WorthReady, JobShape DEF IdsOf
  <2>4. x \in Placements /\ x.id = job.graph[b].id
    BY <2>3, PlacedStep
  <2> HIDE DEF b, x
  <2>5. \A i \in DOMAIN waves : \A m \in waves[i] : m.id \in UsedIds
    BY NamesMean DEF UsedIds
  <2>6. WavesTyped' /\ NamesApart' /\ UsedIds' = NamesIn(waves, {}) \cup {m.id : m \in {x}}
    BY <1>1, <2>1, <2>3, <2>4, <2>5, Appended, Alone DEF WavesGood
  <2>7. NamesIn(waves, {}) \subseteq UsedIds
    BY <1>1, NamesMean DEF UsedIds
  <2>8. UsedIds' \subseteq UsedIds \cup {job.graph[b].id}
    BY <2>4, <2>6, <2>7
  <2>9. IdsOf(Mandatory)' = IdsOf(Mandatory) /\ StepIds' = StepIds
    BY <1>1, SameJob DEF IdsOf
  <2> QED
    BY <1>1, <2>1, <2>3, <2>6, <2>8, <2>9 DEF WavesGood, WavesFilled, NamesUsed, Planning, Decorating
<1>4. CASE stage' # "raised" /\ Barriers = {}
  <2>1. UNCHANGED <<job, waves, wave, done>> /\ stage' = "place" /\ queue' = Ready /\ Ready # {}
    BY <1>1, <1>4 DEF StartWave, RaiseError
  <2>2. WavesTyped' /\ NamesApart' /\ UsedIds' = UsedIds
    BY <2>1, WavesStay DEF WavesGood
  <2>3. IdsOf(Mandatory)' = IdsOf(Mandatory) /\ StepIds' = StepIds /\ Mandatory' = Mandatory
    BY <1>1, SameJob DEF IdsOf
  <2>4. Ready' = Ready
    BY <1>1, <2>1, <2>3 DEF Ready
  <2>5. \A k \in Ready : k \in Mandatory /\ Manipulates(job.graph[k]) /\ job.graph[k].id \notin done
    BY <1>4, WorthReady DEF Barriers
  <2>6. WavesFilled'
    BY <1>1, <2>1, <2>3, <2>4, <2>5 DEF WavesFilled
  <2>7. NamesUsed'
    BY <1>1, <2>1, <2>2, <2>3 DEF NamesUsed, Planning, Decorating
  <2> QED
    BY <2>2, <2>6, <2>7 DEF WavesGood
<1> QED
  BY <1>2, <1>3, <1>4

LEMMA ConflictBoth ==
  ASSUME NEW y \in Zones, NEW z \in Zones, Conflict(y, z)
  PROVE  Conflict(z, y)
<1>1. X[y] \in Int /\ X[z] \in Int
  BY SchedulerAssumption
<1>2. Apart(X[y] - X[z]) = Apart(X[z] - X[y])
  BY <1>1 DEF Apart
<1> QED
  BY <1>2 DEF Conflict

(* Something joins the wave that is being filled.                            *)
LEMMA Joined ==
  ASSUME WavesTyped, NamesApart, UNCHANGED <<job, waves>>,
         NEW x \in Placements, x.id \in StepIds, x.id \notin UsedIds,
         wave' = wave \cup {x}, SoundWave(wave \cup {x})
  PROVE  WavesTyped' /\ NamesApart' /\ UsedIds' = UsedIds \cup {x.id}
<1>1. WavesTyped'
  BY SameJob DEF WavesTyped
<1>2. \A i \in DOMAIN waves : \A m \in waves[i] : m.id # x.id
  BY NamesMean DEF UsedIds
<1>3. NamesApart'
  BY <1>2, SameJob DEF NamesApart, NamedIn
<1>4. UsedIds' = UsedIds \cup {x.id}
  <2>1. NamesIn(waves, wave \cup {x}) = NamesIn(waves, wave) \cup {x.id}
    BY DEF NamesIn
  <2> QED
    BY <2>1 DEF UsedIds
<1> QED
  BY <1>1, <1>3, <1>4

LEMMA PlaceStep ==
  ASSUME job \in Jobs, ArmsGiven, WavesGood, Place
  PROVE  WavesGood'
<1> DEFINE k == First(queue)
           s == job.graph[k]
           x == Placed(s, "work")
<1>1. /\ stage = "place" /\ stage' = "place" /\ UNCHANGED <<job, waves, leftovers>>
      /\ queue # {} /\ queue \subseteq Mandatory /\ queue' = queue \ {k}
      /\ \A i \in queue : Manipulates(job.graph[i]) /\ job.graph[i].id \notin done
      /\ \A m \in wave : m.arm # None /\ m.region \in Zones
      /\ wave = {} => Ready # {}
      /\ leftovers = {} /\ UsedIds \subseteq StepIds /\ UsedIds \subseteq done
      /\ done \subseteq IdsOf(Mandatory)
  BY DEF Place, WavesGood, WavesFilled, NamesUsed, Planning
<1>2. k \in queue
  <2>1. queue \in SUBSET Nat
    BY <1>1, WorthReady, JobShape
  <2> QED
    BY <1>1, <2>1, FirstIn
<1>3. k \in Mandatory /\ k \in Places /\ Manipulates(s) /\ s.id \notin done /\ s.id \in StepIds
      /\ s.id \in IdsOf(Mandatory) /\ Region(s) \in Zones
  BY <1>1, <1>2, WorthReady, JobShape DEF IdsOf
<1>4. /\ x \in Placements /\ x.id = s.id /\ x.arm = assignment[s.id] /\ x.parts = resources[s.id]
      /\ x.region = Region(s) /\ x.kind = "work"
  BY <1>3, PlacedStep
<1>5. x.arm # None
  <2>1. assignment[s.id] \in Online
    BY <1>1, <1>3 DEF ArmsGiven
  <2> QED
    BY <1>4, <2>1, ArmsOnline
<1>6. IdsOf(Mandatory)' = IdsOf(Mandatory) /\ StepIds' = StepIds /\ Mandatory' = Mandatory
  BY <1>1, SameJob DEF IdsOf
<1>7. CASE FreeIn(s, wave) /\ HandAllows(s)
  <2>1. wave' = wave \cup {x} /\ done' = done \cup {s.id}
    BY <1>7 DEF Place
  <2>2. \A m \in wave : m.parts \cap x.parts = {} /\ ~Conflict(m.region, x.region)
    BY <1>4, <1>7 DEF FreeIn
  <2>3. \A m \in wave : ~Conflict(x.region, m.region)
    BY <1>1, <1>3, <1>4, <2>2, ConflictBoth
  <2> HIDE DEF x, s, k
  <2>4. SoundWave(wave \cup {x})
    <3>1. ASSUME NEW m \in Work(wave \cup {x}), NEW n \in Work(wave \cup {x}), m # n
          PROVE  m.arm # None /\ n.arm # None /\ m.parts \cap n.parts = {} /\ ~Conflict(m.region, n.region)
      <4>1. (m \in wave \/ m = x) /\ (n \in wave \/ n = x)
        BY <3>1 DEF Work
      <4>2. CASE m \in wave /\ n \in wave
        <5>1. m \in Work(wave) /\ n \in Work(wave)
          BY <3>1, <4>2 DEF Work
        <5> QED
          BY <3>1, <5>1 DEF SoundWave, WavesTyped, WavesGood
      <4> QED
        BY <1>1, <1>5, <2>2, <2>3, <3>1, <4>1, <4>2
    <3> QED
      BY <3>1 DEF SoundWave
  <2>5. x.id \notin UsedIds
    BY <1>1, <1>3, <1>4
  <2>6. WavesTyped' /\ NamesApart' /\ UsedIds' = UsedIds \cup {x.id}
    BY <1>1, <1>3, <1>4, <2>1, <2>4, <2>5, Joined DEF WavesGood
  <2>7. \A i \in queue' : Manipulates(job.graph[i]) /\ job.graph[i].id \notin done'
    <3>1. \A i \in queue' : i \in queue /\ i \in Places /\ i # k
      BY <1>1, WorthReady
    <3>2. \A i \in queue' : job.graph[i].id # s.id
      BY <1>3, <3>1, JobShape DEF s
    <3> QED
      BY <1>1, <2>1, <3>1, <3>2
  <2>8. wave' # {} /\ \A m \in wave' : m.arm # None /\ m.region \in Zones
    BY <1>1, <1>3, <1>4, <1>5, <2>1
  <2>9. WavesFilled'
    BY <1>1, <1>6, <2>7, <2>8 DEF WavesFilled
  <2>10. NamesUsed'
    BY <1>1, <1>3, <1>4, <1>6, <2>1, <2>6 DEF NamesUsed, Planning, Decorating
  <2> QED
    BY <2>6, <2>9, <2>10 DEF WavesGood
<1>8. CASE ~(FreeIn(s, wave) /\ HandAllows(s))
  <2>1. UNCHANGED <<wave, done>>
    BY <1>8 DEF Place
  <2>2. WavesTyped' /\ NamesApart' /\ UsedIds' = UsedIds
    BY <1>1, <2>1, WavesStay DEF WavesGood
  <2>3. Ready' = Ready
    BY <1>1, <1>6, <2>1 DEF Ready
  <2> HIDE DEF x, s, k
  <2>4. WavesFilled'
    BY <1>1, <1>6, <2>1, <2>3 DEF WavesFilled
  <2>5. NamesUsed'
    BY <1>1, <1>6, <2>1, <2>2 DEF NamesUsed, Planning, Decorating
  <2> QED
    BY <2>2, <2>4, <2>5 DEF WavesGood
<1> QED
  BY <1>7, <1>8

LEMMA EndWaveStep ==
  ASSUME job \in Jobs, ArmsGiven, WavesGood, EndWave
  PROVE  WavesGood'
<1>1. /\ stage = "place" /\ stage' = "ready" /\ UNCHANGED <<job, done, leftovers>>
      /\ waves' = Append(waves, wave) /\ wave' = {}
      /\ leftovers = {} /\ UsedIds \subseteq StepIds /\ UsedIds \subseteq done
      /\ done \subseteq IdsOf(Mandatory)
      /\ wave \in SUBSET Placements /\ SoundWave(wave)
  BY DEF EndWave, WavesGood, WavesFilled, WavesTyped, NamesUsed, Planning
<1>2. /\ \A m \in wave : m.id \in UsedIds
      /\ \A i \in DOMAIN waves : \A m \in waves[i], n \in wave : m.id # n.id
  BY NamesMean DEF UsedIds, NamesApart, WavesGood
<1>3. WavesTyped' /\ NamesApart' /\ UsedIds' = NamesIn(waves, {}) \cup {m.id : m \in wave}
  BY <1>1, <1>2, Appended DEF WavesGood
<1>4. NamesIn(waves, {}) \subseteq UsedIds
  BY NamesMean DEF UsedIds
<1>5. UsedIds' \subseteq UsedIds
  BY <1>2, <1>3, <1>4
<1>6. IdsOf(Mandatory)' = IdsOf(Mandatory) /\ StepIds' = StepIds
  BY <1>1, SameJob DEF IdsOf
<1> QED
  BY <1>1, <1>3, <1>5, <1>6 DEF WavesGood, WavesFilled, NamesUsed, Planning, Decorating

LEMMA ForceWaveStep ==
  ASSUME job \in Jobs, ArmsGiven, WavesGood, ForceWave
  PROVE  WavesGood'
<1> DEFINE b == First(Ready)
           x == Placed(job.graph[b], "work")
<1>1. /\ stage = "place" /\ stage' = "ready" /\ UNCHANGED <<job, leftovers>> /\ wave = {} /\ wave' = {}
      /\ leftovers = {} /\ UsedIds \subseteq StepIds /\ UsedIds \subseteq done
      /\ done \subseteq IdsOf(Mandatory) /\ Ready # {}
      /\ waves' = Append(waves, {x}) /\ done' = done \cup {job.graph[b].id}
  BY DEF ForceWave, WavesGood, WavesFilled, NamesUsed, Planning
<1>2. b \in Ready
  <2>1. Ready \in SUBSET Nat
    BY WorthReady, JobShape
  <2> QED
    BY <1>1, <2>1, FirstIn
<1>3. b \in Mandatory /\ b \in Places /\ job.graph[b].id \notin done /\ job.graph[b].id \in StepIds
      /\ job.graph[b].id \in IdsOf(Mandatory)
  BY <1>2, WorthReady, JobShape DEF IdsOf
<1>4. x \in Placements /\ x.id = job.graph[b].id
  BY <1>3, PlacedStep
<1> HIDE DEF b, x
<1>5. \A i \in DOMAIN waves : \A m \in waves[i] : m.id \in UsedIds
  BY NamesMean DEF UsedIds
<1>6. WavesTyped' /\ NamesApart' /\ UsedIds' = NamesIn(waves, {}) \cup {m.id : m \in {x}}
  BY <1>1, <1>3, <1>4, <1>5, Appended, Alone DEF WavesGood
<1>7. NamesIn(waves, {}) \subseteq UsedIds
  BY <1>1, NamesMean DEF UsedIds
<1>8. UsedIds' \subseteq UsedIds \cup {job.graph[b].id}
  BY <1>4, <1>6, <1>7
<1>9. IdsOf(Mandatory)' = IdsOf(Mandatory) /\ StepIds' = StepIds
  BY <1>1, SameJob DEF IdsOf
<1> QED
  BY <1>1, <1>3, <1>6, <1>8, <1>9 DEF WavesGood, WavesFilled, NamesUsed, Planning, Decorating

LEMMA BeginFlourishesStep ==
  ASSUME job \in Jobs, ArmsGiven, WavesGood, BeginFlourishes
  PROVE  WavesGood'
<1>1. /\ stage = "ready" /\ stage' \in {"slack", "flourish"} /\ UNCHANGED <<job, waves, wave>> /\ wave = {}
      /\ stage' = "flourish" => queue' = Flourishes /\ leftovers' = {}
      /\ UsedIds \subseteq StepIds /\ UsedIds \subseteq IdsOf(Mandatory)
  BY DEF BeginFlourishes, WavesGood, WavesFilled, NamesUsed, Planning
<1>2. WavesTyped' /\ NamesApart' /\ UsedIds' = UsedIds
  BY <1>1, WavesStay DEF WavesGood
<1>3. Flourishes \subseteq Places /\ \A i \in Flourishes : job.graph[i].id \notin UsedIds
  BY <1>1, WorthReady
<1>4. stage' = "flourish" => IdsOf(queue' \cup leftovers') \cap UsedIds = {}
  BY <1>1, <1>3 DEF IdsOf
<1>5. StepIds' = StepIds /\ Places' = Places /\ \A S : IdsOf(S)' = IdsOf(S)
  BY <1>1, SameJob
<1>6. IdsOf(queue \cup leftovers)' = IdsOf(queue' \cup leftovers')
  BY <1>1 DEF IdsOf
<1>7. NamesUsed'
  BY <1>1, <1>2, <1>3, <1>4, <1>5, <1>6 DEF NamesUsed, Planning, Decorating
<1> QED
  BY <1>1, <1>2, <1>7 DEF WavesGood, WavesFilled

(* A flourish that is looked at leaves the queue, for a wave or for those    *)
(* that are left over.                                                       *)
LEMMA Looked ==
  ASSUME job \in Jobs, job' = job, stage' = stage, Decorating, NamesUsed,
         NEW k \in queue, queue' = queue \ {k},
         \/ leftovers' = leftovers \cup {k} /\ UsedIds' = UsedIds
         \/ leftovers' = leftovers /\ UsedIds' = UsedIds \cup {job.graph[k].id}
  PROVE  NamesUsed'
<1>1. /\ UsedIds \subseteq StepIds /\ queue \cup leftovers \subseteq Places
      /\ queue \cap leftovers = {}
      /\ \A i \in queue \cup leftovers : job.graph[i].id \notin UsedIds
      /\ ~Planning /\ ~Planning' /\ Decorating'
  BY DEF NamesUsed, Decorating, Planning, IdsOf
<1>2. /\ queue' \cup leftovers' \subseteq Places /\ queue' \cap leftovers' = {}
  BY <1>1
<1>3. \A i \in queue' \cup leftovers' : job.graph[i].id \notin UsedIds'
  <2>1. CASE leftovers' = leftovers \cup {k} /\ UsedIds' = UsedIds
    BY <1>1, <2>1
  <2>2. CASE leftovers' = leftovers /\ UsedIds' = UsedIds \cup {job.graph[k].id}
    <3>1. \A i \in queue' \cup leftovers' : i \in queue \cup leftovers /\ i # k /\ i \in Places
      BY <1>1, <2>2
    <3>2. \A i \in queue' \cup leftovers' : job.graph[i].id # job.graph[k].id
      BY <1>1, <3>1, JobShape
    <3> QED
      BY <1>1, <2>2, <3>1, <3>2
  <2> QED
    BY <2>1, <2>2
<1>4. UsedIds' \subseteq StepIds
  BY <1>1, JobShape
<1>5. IdsOf(queue \cup leftovers)' \cap UsedIds' = {}
  BY <1>3 DEF IdsOf
<1>6. StepIds' = StepIds /\ Places' = Places
  BY SameJob
<1> QED
  BY <1>1, <1>2, <1>4, <1>5, <1>6 DEF NamesUsed

LEMMA PlaceFlourishStep ==
  ASSUME job \in Jobs, ArmsGiven, WavesGood, PlaceFlourish
  PROVE  WavesGood'
<1> DEFINE k == First(queue)
           f == job.graph[k]
           x == Placed(f, "flourish")
           slots == {i \in DOMAIN waves : Slack(f, i)}
<1>1. /\ stage = "flourish" /\ stage' = "flourish" /\ UNCHANGED <<job, wave>> /\ wave = {}
      /\ queue # {} /\ queue' = queue \ {k} /\ Decorating
      /\ IF slots # {}
         THEN waves' = [waves EXCEPT ![First(slots)] = @ \cup {x}] /\ leftovers' = leftovers
         ELSE leftovers' = leftovers \cup {k} /\ waves' = waves
      /\ queue \subseteq Places /\ \A i \in queue : job.graph[i].id \notin UsedIds
  BY DEF PlaceFlourish, WavesGood, WavesFilled, NamesUsed, Decorating, IdsOf
<1>2. k \in queue
  <2>1. queue \in SUBSET Nat
    BY <1>1, JobShape
  <2> QED
    BY <1>1, <2>1, FirstIn
<1>3. /\ x \in Placements /\ x.id = f.id /\ x.kind = "flourish" /\ f.id \in StepIds /\ f.id \notin UsedIds
  BY <1>1, <1>2, PlacedStep, JobShape
<1> HIDE DEF x, f, k
<1>4. CASE slots # {}
  <2>1. First(slots) \in DOMAIN waves
    <3>1. slots \in SUBSET Nat
      BY DEF WavesGood, WavesTyped
    <3> HIDE DEF slots
    <3>2. First(slots) \in slots
      BY <1>4, <3>1, FirstIn
    <3> QED
      BY <3>2 DEF slots
  <2> HIDE DEF slots
  <2>2. WavesTyped' /\ NamesApart' /\ UsedIds' = UsedIds \cup {x.id}
    BY <1>1, <1>3, <1>4, <2>1, Adorned DEF WavesGood
  <2>3. NamesUsed'
    BY <1>1, <1>2, <1>3, <1>4, <2>2, Looked DEF WavesGood, f
  <2> QED
    BY <1>1, <2>2, <2>3 DEF WavesGood, WavesFilled
<1>5. CASE slots = {}
  <2> HIDE DEF slots
  <2>2. WavesTyped' /\ NamesApart' /\ UsedIds' = UsedIds
    BY <1>1, <1>5, WavesStay DEF WavesGood
  <2>3. NamesUsed'
    BY <1>1, <1>2, <1>5, <2>2, Looked DEF WavesGood
  <2> QED
    BY <1>1, <2>2, <2>3 DEF WavesGood, WavesFilled
<1> QED
  BY <1>4, <1>5

LEMMA BeginExtraWaveStep ==
  ASSUME job \in Jobs, WavesGood, BeginExtraWave
  PROVE  WavesGood'
<1>1. /\ stage = "flourish" /\ stage' = "extra" /\ UNCHANGED <<job, waves, wave>> /\ wave = {}
      /\ queue = {} /\ queue' = leftovers /\ leftovers' = {}
      /\ queue \cup leftovers \subseteq Places /\ UsedIds \subseteq StepIds
      /\ IdsOf(queue \cup leftovers) \cap UsedIds = {}
  BY DEF BeginExtraWave, WavesGood, WavesFilled, NamesUsed, Decorating
<1>2. WavesTyped' /\ NamesApart' /\ UsedIds' = UsedIds
  BY <1>1, WavesStay DEF WavesGood
<1>3. queue' \cup leftovers' = queue \cup leftovers /\ queue' \cap leftovers' = {}
  BY <1>1
<1>4. IdsOf(queue \cup leftovers)' = IdsOf(queue \cup leftovers)
  BY <1>1, <1>3 DEF IdsOf
<1> QED
  BY <1>1, <1>2, <1>3, <1>4, SameJob DEF WavesGood, WavesFilled, NamesUsed, Planning, Decorating

LEMMA PlaceExtraStep ==
  ASSUME job \in Jobs, ArmsGiven, WavesGood, PlaceExtra
  PROVE  WavesGood'
<1> DEFINE k == First(queue)
           f == job.graph[k]
           x == Placed(f, "flourish")
<1>1. /\ stage = "extra" /\ stage' = "extra" /\ UNCHANGED <<job, waves>>
      /\ queue # {} /\ queue' = queue \ {k} /\ Decorating
      /\ \/ wave' = wave \cup {x} /\ leftovers' = leftovers
         \/ leftovers' = leftovers \cup {k} /\ wave' = wave
      /\ queue \subseteq Places /\ \A i \in queue : job.graph[i].id \notin UsedIds
      /\ \A m \in wave : m.kind = "flourish"
  BY DEF PlaceExtra, WavesGood, WavesFilled, NamesUsed, Decorating, IdsOf
<1>2. k \in queue
  <2>1. queue \in SUBSET Nat
    BY <1>1, JobShape
  <2> QED
    BY <1>1, <2>1, FirstIn
<1>3. /\ x \in Placements /\ x.id = f.id /\ x.kind = "flourish" /\ f.id \in StepIds /\ f.id \notin UsedIds
  BY <1>1, <1>2, PlacedStep, JobShape
<1> HIDE DEF x, f, k
<1>4. CASE wave' = wave \cup {x} /\ leftovers' = leftovers
  <2>1. SoundWave(wave \cup {x})
    BY <1>3, Added DEF WavesGood, WavesTyped
  <2>2. WavesTyped' /\ NamesApart' /\ UsedIds' = UsedIds \cup {x.id}
    BY <1>1, <1>3, <1>4, <2>1, Joined DEF WavesGood
  <2>3. NamesUsed'
    BY <1>1, <1>2, <1>3, <1>4, <2>2, Looked DEF WavesGood, f
  <2>4. \A m \in wave' : m.kind = "flourish"
    BY <1>1, <1>3, <1>4
  <2> QED
    BY <1>1, <2>2, <2>3, <2>4 DEF WavesGood, WavesFilled
<1>5. CASE leftovers' = leftovers \cup {k} /\ wave' = wave
  <2>1. WavesTyped' /\ NamesApart' /\ UsedIds' = UsedIds
    BY <1>1, <1>5, WavesStay DEF WavesGood
  <2>2. NamesUsed'
    BY <1>1, <1>2, <1>5, <2>1, Looked DEF WavesGood
  <2> QED
    BY <1>1, <1>5, <2>1, <2>2 DEF WavesGood, WavesFilled
<1> QED
  BY <1>1, <1>4, <1>5

LEMMA LastBarrierIn ==
  ASSUME WavesTyped
  PROVE  LastBarrier \in 1..(Len(waves) + 1)
<1> DEFINE at == {i \in DOMAIN waves : IsBarrier(waves[i])}
<1>1. Len(waves) \in Nat /\ at \in SUBSET (1..Len(waves))
  BY DEF WavesTyped
<1>2. LastBarrier = IF at = {} THEN Len(waves) + 1 ELSE CHOOSE i \in at : \A j \in at : j <= i
  BY DEF LastBarrier
<1>3. CASE at # {}
  <2>1. \E i \in at : \A j \in at : j <= i
    <3> HIDE DEF at
    <3> QED
      BY <1>1, <1>3, LastIn
  <2>2. LastBarrier \in at
    BY <1>2, <1>3, <2>1
  <2> QED
    BY <1>1, <2>2
<1>4. CASE at = {}
  BY <1>1, <1>2, <1>4
<1> QED
  BY <1>3, <1>4

LEMMA EndExtraWaveStep ==
  ASSUME job \in Jobs, WavesGood, EndExtraWave
  PROVE  WavesGood'
<1>1. /\ stage = "extra" /\ stage' = "slack" /\ job' = job /\ wave' = {}
      /\ waves' = IF wave = {} THEN waves ELSE InsertAt(waves, LastBarrier, wave)
      /\ UsedIds \subseteq StepIds
  BY DEF EndExtraWave, WavesGood, NamesUsed, Decorating
<1>2. WavesFilled' /\ NamesUsed'
  BY <1>1 DEF WavesFilled, NamesUsed, Planning, Decorating
<1>3. CASE wave = {}
  BY <1>1, <1>2, <1>3, WavesStay DEF WavesGood
<1>4. CASE wave # {}
  <2> DEFINE n == LastBarrier
             S == SUBSET Placements
  <2>1. waves \in Seq(S) /\ wave \in S /\ n \in 1..(Len(waves) + 1) /\ Len(waves) \in Nat
        /\ DOMAIN waves = 1..Len(waves)
    BY LastBarrierIn DEF WavesGood, WavesTyped
  <2> HIDE DEF n, S
  <2>2. waves' = InsertAt(waves, n, wave)
    BY <1>1, <1>4 DEF n
  <2>3. /\ waves' \in Seq(S) /\ Len(waves') = Len(waves) + 1
        /\ \A i \in 1..(Len(waves) + 1) :
             waves'[i] = IF i < n THEN waves[i] ELSE IF i = n THEN wave ELSE waves[i - 1]
    BY <2>1, <2>2, Inserted
  <2>4. DOMAIN waves' = 1..(Len(waves) + 1)
    BY <2>1, <2>3
  (* The place that the i-th wave now has had before: 0 is the new one's.    *)
  <2> DEFINE was(i) == IF i < n THEN i ELSE IF i = n THEN 0 ELSE i - 1
  <2>5. ASSUME NEW i \in DOMAIN waves'
        PROVE  \/ was(i) = 0 /\ waves'[i] = wave
               \/ was(i) \in DOMAIN waves /\ was(i) # 0 /\ waves'[i] = waves[was(i)]
    BY <2>1, <2>3, <2>4
  <2>6. \A i, k \in DOMAIN waves' : was(i) = was(k) => i = k
    BY <2>1, <2>4
  <2> HIDE DEF was
  <2>7. WavesTyped'
    <3>1. \A i \in DOMAIN waves' : SoundWave(waves'[i])
      BY <2>5 DEF WavesGood, WavesTyped
    <3>2. SoundWave(wave')
      BY <1>1, Alone
    <3> QED
      BY <1>1, <2>3, <3>1, <3>2, SameJob DEF WavesTyped, S
  <2>8. ASSUME NEW i \in DOMAIN waves', NEW k \in DOMAIN waves', NEW x \in waves'[i], NEW y \in waves'[k],
               x.id = y.id
        PROVE  i = k
    <3>1. was(i) = was(k)
      BY <2>5, <2>8 DEF WavesGood, NamesApart
    <3> QED
      BY <2>6, <3>1
  <2>9. \A i \in DOMAIN waves' : \A x \in waves'[i] : x.id \in StepIds
    <3>1. \A i \in DOMAIN waves : \A x \in waves[i] : x.id \in UsedIds
      BY NamesMean DEF UsedIds
    <3>2. \A x \in wave : x.id \in UsedIds
      BY NamesMean DEF UsedIds
    <3> QED
      BY <1>1, <2>5, <3>1, <3>2
  <2>10. NamesApart'
    BY <1>1, <2>8, <2>9, SameJob DEF NamesApart
  <2> QED
    BY <1>2, <2>7, <2>10 DEF WavesGood
<1> QED
  BY <1>3, <1>4

LEMMA FillSlackStep ==
  ASSUME job \in Jobs, WavesGood, FillSlack
  PROVE  WavesGood'
<1> DEFINE c(i) == job.style \in DanceModes /\ i < Len(waves) /\ ~IsBarrier(waves[i])
           v == [i \in DOMAIN waves |-> IF c(i) THEN GeneratedFor("idle", i, IdleIn(waves[i])) ELSE {}]
<1>1. /\ stage = "slack" /\ stage' = "annotate" /\ job' = job /\ wave' = wave /\ wave = {}
      /\ waves' = [i \in DOMAIN waves |->
           IF c(i) THEN waves[i] \cup GeneratedFor("idle", i, IdleIn(waves[i])) ELSE waves[i]]
  BY DEF FillSlack, WavesGood, WavesFilled
<1>2. WavesFilled' /\ NamesUsed'
  BY <1>1 DEF WavesFilled, NamesUsed, Planning, Decorating
<1> HIDE DEF c
<1>3. waves' = [i \in DOMAIN waves |-> waves[i] \cup v[i]]
  BY <1>1
<1>4. ASSUME NEW i \in DOMAIN waves
      PROVE  v[i] \in SUBSET Placements /\ \A m \in v[i] : m.kind # "work" /\ m.id \in NamedIn(i)
  <2>1. i \in Nat /\ IdleIn(waves[i]) \in SUBSET Arms
    BY ArmsOnline DEF WavesGood, WavesTyped, IdleIn
  <2>2. v[i] \in {GeneratedFor("idle", i, IdleIn(waves[i])), {}}
    OBVIOUS
  <2> HIDE DEF v
  <2> QED
    BY <2>1, <2>2, GeneratedStep
<1>5. DOMAIN v = DOMAIN waves
  OBVIOUS
<1> HIDE DEF v
<1> QED
  BY <1>1, <1>2, <1>3, <1>4, <1>5, Filled DEF WavesGood

LEMMA PlaceGroupStep ==
  ASSUME job \in Jobs, WavesGood, PlaceGroup
  PROVE  WavesGood'
<1> DEFINE group == job.groups[First(queue)]
           slots == {i \in DOMAIN waves : ~IsBarrier(waves[i]) /\ group \subseteq IdleIn(waves[i])}
           j == First(slots)
           v == [i \in DOMAIN waves |-> IF i = j THEN GeneratedFor("express", j, group) ELSE {}]
<1>1. /\ stage = "express" /\ stage' = "express" /\ job' = job /\ wave' = wave /\ wave = {}
      /\ waves' = IF slots = {} THEN waves
                  ELSE [waves EXCEPT ![j] = @ \cup GeneratedFor("express", j, group)]
  BY DEF PlaceGroup, WavesGood, WavesFilled
<1>2. WavesFilled' /\ NamesUsed'
  BY <1>1 DEF WavesFilled, NamesUsed, Planning, Decorating
<1>3. CASE slots = {}
  <2> HIDE DEF slots
  <2> QED
    BY <1>1, <1>2, <1>3, WavesStay DEF WavesGood
<1>4. CASE slots # {}
  <2>1. j \in slots
    <3>1. slots \in SUBSET Nat
      BY DEF WavesGood, WavesTyped
    <3> HIDE DEF slots
    <3> QED
      BY <1>4, <3>1, FirstIn
  <2>2. j \in DOMAIN waves /\ j \in Nat /\ group \in SUBSET Arms
    BY <2>1, ArmsOnline DEF WavesGood, WavesTyped, IdleIn
  <2> HIDE DEF slots, j, group
  <2>3. waves' = [i \in DOMAIN waves |-> waves[i] \cup v[i]]
    BY <1>1, <1>4, <2>2 DEF WavesGood, WavesTyped
  <2>4. ASSUME NEW i \in DOMAIN waves
        PROVE  v[i] \in SUBSET Placements /\ \A m \in v[i] : m.kind # "work" /\ m.id \in NamedIn(i)
    BY <2>2, GeneratedStep
  <2>5. DOMAIN v = DOMAIN waves
    OBVIOUS
  <2> HIDE DEF v
  <2> QED
    BY <1>1, <1>2, <2>3, <2>4, <2>5, Filled DEF WavesGood
<1> QED
  BY <1>3, <1>4

LEMMA WavesStep ==
  ASSUME job \in Jobs, ArmsGiven, WavesGood, [ScheduleNext]_scheduling
  PROVE  WavesGood'
<1>1. CASE UNCHANGED scheduling
  <2>1. UNCHANGED <<job, stage, queue, waves, wave, done, leftovers>>
    BY <1>1 DEF scheduling, building
  <2>2. Mandatory' = Mandatory /\ Places' = Places /\ StepIds' = StepIds /\ \A S : IdsOf(S)' = IdsOf(S)
    BY <2>1, SameJob
  <2>3. IdsOf(Mandatory)' = IdsOf(Mandatory) /\ IdsOf(queue \cup leftovers)' = IdsOf(queue \cup leftovers)
    BY <2>1, <2>2 DEF IdsOf
  <2>4. Ready' = Ready
    BY <2>1, <2>2 DEF Ready
  <2> QED
    BY <2>1, <2>2, <2>3, <2>4, WavesStay DEF WavesGood, WavesFilled, NamesUsed, Planning, Decorating
<1>2. CASE AssignChain \/ TakeResources
  <2>1. /\ stage = "assign" /\ stage' \in {"assign", "ready", "raised"}
        /\ UNCHANGED <<job, waves, wave, done, leftovers>>
    <3>1. CASE AssignChain
      BY <3>1 DEF AssignChain
    <3>2. CASE TakeResources
      BY <3>2 DEF TakeResources, RaiseError, building
    <3> QED
      BY <1>2, <3>1, <3>2
  <2>2. IdsOf(Mandatory)' = IdsOf(Mandatory) /\ StepIds' = StepIds
    BY <2>1, SameJob DEF IdsOf
  <2> QED
    BY <2>1, <2>2, WavesStay DEF WavesGood, WavesFilled, NamesUsed, Planning, Decorating
<1>3. CASE BeginExpression \/ EndExpression \/ Annotate \/ Execute
  <2>1. /\ stage \in {"slack", "express", "annotate", "run"} /\ stage' \in {"express", "annotate", "run"}
        /\ UNCHANGED <<job, waves, wave>>
    BY <1>3 DEF BeginExpression, EndExpression, Annotate, Execute, building
  <2> QED
    BY <2>1, WavesStay DEF WavesGood, WavesFilled, NamesUsed, Planning, Decorating
<1>4. CASE StartWave \/ Place \/ EndWave \/ ForceWave
  BY <1>4, StartWaveStep, PlaceStep, EndWaveStep, ForceWaveStep
<1>5. CASE BeginFlourishes \/ PlaceFlourish \/ BeginExtraWave \/ PlaceExtra \/ EndExtraWave
  BY <1>5, BeginFlourishesStep, PlaceFlourishStep, BeginExtraWaveStep, PlaceExtraStep, EndExtraWaveStep
<1>6. CASE FillSlack \/ PlaceGroup
  BY <1>6, FillSlackStep, PlaceGroupStep
<1> QED
  BY <1>1, <1>2, <1>3, <1>4, <1>5, <1>6 DEF ScheduleNext

LEMMA WaveInvInit == ScheduleInit => WaveInv
<1> SUFFICES ASSUME ScheduleInit PROVE WaveInv
  OBVIOUS
<1>1. /\ job \in Jobs /\ stage = "assign" /\ chains = ObjectChains /\ done = {}
      /\ assignment = [id \in StepIds |-> None] /\ load = [a \in Arms |-> 0]
      /\ resources = [id \in StepIds |-> {}]
      /\ queue = {} /\ wave = {} /\ waves = <<>> /\ leftovers = {} /\ executed = {}
  BY DEF ScheduleInit, StepIds
<1>2. ArmsGiven
  BY <1>1, ChainsCover DEF ArmsGiven
<1>3. DOMAIN waves = {} /\ waves \in Seq(SUBSET Placements)
  BY <1>1
<1>4. UsedIds = {}
  BY <1>1, <1>3, NamesMean DEF UsedIds
<1>5. WavesTyped /\ NamesApart
  BY <1>1, <1>3, Alone DEF WavesTyped, NamesApart
<1>6. WavesFilled /\ NamesUsed
  BY <1>1, <1>4 DEF WavesFilled, NamesUsed, Planning, Decorating
<1>7. RunInOrder
  BY <1>1 DEF RunInOrder
<1> QED
  BY <1>1, <1>2, <1>5, <1>6, <1>7 DEF WaveInv, WavesGood

LEMMA WaveInvNext == WaveInv /\ [ScheduleNext]_scheduling => WaveInv'
<1> SUFFICES ASSUME WaveInv, [ScheduleNext]_scheduling PROVE WaveInv'
  OBVIOUS
<1>1. job' = job /\ ArmsGiven'
  BY ArmsStep DEF WaveInv
<1>2. WavesGood'
  BY WavesStep DEF WaveInv
<1>3. RunInOrder'
  BY <1>1, OrderStep DEF WaveInv, WavesGood
<1> QED
  BY <1>1, <1>2, <1>3 DEF WaveInv

(* A step that ran had the wave before its own behind it, and that one the   *)
(* wave before it.                                                           *)
LEMMA OrderHolds ==
  ASSUME WaveInv
  PROVE  WavesSound
<1>1. /\ waves \in Seq(SUBSET Placements) /\ wave \in SUBSET Placements
      /\ Len(waves) \in Nat /\ DOMAIN waves = 1..Len(waves)
  BY DEF WaveInv, WavesGood, WavesTyped
<1>2. ASSUME NEW i \in DOMAIN Append(waves, wave) PROVE SoundWave(Append(waves, wave)[i])
  <2>1. CASE i \in DOMAIN waves
    <3>1. Append(waves, wave)[i] = waves[i]
      BY <1>1, <2>1
    <3> QED
      BY <2>1, <3>1 DEF WaveInv, WavesGood, WavesTyped
  <2>2. CASE i = Len(waves) + 1
    <3>1. Append(waves, wave)[i] = wave
      BY <1>1, <2>2
    <3> QED
      BY <3>1 DEF WaveInv, WavesGood, WavesTyped
  <2> QED
    BY <1>1, <2>1, <2>2
<1>3. ASSUME ~HasExtraWave, NEW i \in DOMAIN waves, NEW id \in executed, id \in Members(i)
      PROVE  \A k \in 1..(i - 1) : Members(k) \subseteq executed
  <2> DEFINE late == {k \in 1..(i - 1) : ~(Members(k) \subseteq executed)}
  <2> SUFFICES ASSUME late # {} PROVE FALSE
    OBVIOUS
  <2>1. PICK m \in late : \A k \in late : k <= m
    <3>1. i - 1 \in Nat /\ late \in SUBSET (1..(i - 1))
      BY <1>1
    <3> HIDE DEF late
    <3> QED
      BY <3>1, LastIn
  <2>2. m \in 1..(i - 1) /\ m + 1 \in DOMAIN waves /\ (m + 1) - 1 = m /\ m + 1 <= i
    BY <1>1
  <2>3. PICK d \in Members(m + 1) : d \in executed
    <3>1. CASE m + 1 = i
      BY <1>3, <3>1
    <3>2. CASE m + 1 # i
      <4>1. m + 1 \in 1..(i - 1) /\ ~(m + 1 <= m)
        BY <1>1, <2>2, <3>2
      <4>2. Members(m + 1) \subseteq executed
        BY <2>1, <4>1
      <4>3. Work(waves[m + 1]) # {}
        BY <1>3, <2>2 DEF HasExtraWave
      <4>4. PICK n \in waves[m + 1] : n.kind = "work"
        BY <4>3 DEF Work
      <4>5. n.id \in Members(m + 1)
        BY <2>2, <4>4 DEF Members
      <4> QED
        BY <4>2, <4>5
    <3> QED
      BY <3>1, <3>2
  <2>4. stage = "run"
    BY <2>3 DEF WaveInv, RunInOrder
  <2>5. Members(m) \subseteq needs[d] /\ needs[d] \subseteq executed
    BY <2>2, <2>3, <2>4 DEF WaveInv, RunInOrder
  <2> QED
    BY <2>1, <2>5
<1>4. \A i \in DOMAIN Append(waves, wave) :
        \A p, q \in Work(Append(waves, wave)[i]) : p # q =>
          /\ p.arm # None /\ q.arm # None
          /\ p.parts \cap q.parts = {}
          /\ ~Conflict(p.region, q.region)
  BY <1>2 DEF SoundWave
<1> QED
  BY <1>3, <1>4 DEF WavesSound, WavesInOrder

(* No two steps of a wave share an arm or a stretch of table, and an engine  *)
(* that only looks at dependencies runs the waves one after another          *)
(* (schedule(), scheduler.py:528-613; Schedule.annotate, 172-257).           *)
THEOREM WavesStaySound == ScheduleSpec => []WavesSound
<1>1. WaveInv => WavesSound
  BY OrderHolds
<1> QED
  BY <1>1, WaveInvInit, WaveInvNext, PTL DEF ScheduleSpec

-----------------------------------------------------------------------------
(* Scheduler.  An arm that picks a second thing has put down the first in a  *)
(* wave before; the waves are run in order, so its hand is empty then.       *)

IdAt(k) == job.graph[k].id
ArmAt(k) == assignment[IdAt(k)]
Taking(k) == k \in Places /\ job.graph[k].op \in Grabs
Leaving(k) == k \in Places /\ job.graph[k].op \in Releases
SameThing(k, d) == job.graph[k].obj = job.graph[d].obj
InHand(i) == i \in Places /\ job.graph[i].obj # None /\ job.graph[i].op \in NeedsGrasp

PlainJob ==
  /\ Orderly /\ \A a \in Arms : job.hands[a] = {}
  /\ \A s \in PlanSteps : s.op # "HANDOFF"

OneArmEach ==
  /\ stage = "assign" => \A i, k \in Places :
       Manipulates(job.graph[i]) /\ Manipulates(job.graph[k]) /\ SameThing(i, k)
         /\ job.graph[i].obj # None /\ First(Chain(i)) \notin chains => ArmAt(i) = ArmAt(k)
  /\ stage \notin {"assign", "raised"} => \A i : Taking(i) \/ Leaving(i) =>
       /\ resources[IdAt(i)] = {ArmAt(i)}
       /\ \A k : (Taking(k) \/ Leaving(k)) /\ SameThing(i, k) => ArmAt(i) = ArmAt(k)

Planned == Work(AllIn(waves) \cup wave)
PlanKept ==
  /\ done \subseteq {m.id : m \in Planned}
  /\ stage = "assign" => Planned = {}
  /\ \A m \in Planned : m.parts = resources[m.id]
  /\ leftovers \subseteq Flourishes /\ (Decorating => queue \subseteq Flourishes)
  /\ ~Planning /\ stage # "raised" => IdsOf(Mandatory) \subseteq done

WorkIds(w) == {m.id : m \in Work(w)}
GripsKnown ==
  /\ stage = "place" => \A i \in queue : job.graph[i].deps \subseteq done
  /\ \A i : InHand(i) /\ IdAt(i) \in done => \E k : Taking(k) /\ SameThing(k, i) /\ IdAt(k) \in done
  /\ \A k : Taking(k) /\ IdAt(k) \in done =>
       \/ armHold[ArmAt(k)] = job.graph[k].obj
       \/ \E d : Leaving(d) /\ SameThing(k, d) /\ IdAt(d) \in done
  /\ \A k, n : Taking(k) /\ Taking(n) /\ k # n /\ ArmAt(k) = ArmAt(n)
        /\ IdAt(k) \in done /\ IdAt(n) \in WorkIds(wave) =>
       \E d : Leaving(d) /\ SameThing(k, d) /\ \E i \in DOMAIN waves : IdAt(d) \in Members(i)

LeftBefore ==
  \A i, j \in DOMAIN waves : i < j => \A k, n :
    Taking(k) /\ Taking(n) /\ ArmAt(k) = ArmAt(n) /\ IdAt(k) \in Members(i) /\ IdAt(n) \in Members(j) =>
      \E d : Leaving(d) /\ SameThing(k, d) /\ \E h \in 1..(j - 1) : IdAt(d) \in Members(h)

HandsKnown ==
  /\ \A i : InHand(i) /\ IdAt(i) \in executed => \E k : Taking(k) /\ SameThing(k, i) /\ IdAt(k) \in executed
  /\ \A a \in Arms : \A o \in hands[a] :
       /\ \E k : Taking(k) /\ job.graph[k].obj = o /\ ArmAt(k) = a /\ IdAt(k) \in executed
       /\ \A d : Leaving(d) /\ job.graph[d].obj = o => IdAt(d) \notin executed

NeedsKnown ==
  stage = "run" => \A i \in Places : IdAt(i) \in DOMAIN needs => job.graph[i].deps \ Dropped \subseteq needs[IdAt(i)]

GripInv ==
  /\ PlanKept /\ NeedsKnown
  /\ stage # "run" => hands = job.hands
  /\ PlainJob => OneArmEach
  /\ PlainJob /\ ~forced /\ Planning => GripsKnown
  /\ PlainJob /\ ~forced /\ ~HasExtraWave => LeftBefore
  /\ PlainJob => HandsKnown

LEMMA PlainMeans ==
  ASSUME job \in Jobs, PlainJob
  PROVE  /\ \A k : Taking(k) \/ Leaving(k) =>
              /\ k \in Mandatory /\ k \in Places /\ job.graph[k].obj # None
              /\ Manipulates(job.graph[k]) /\ job.graph[k].op \notin BothArms
         /\ \A k, n : ((Taking(k) /\ Taking(n)) \/ (Leaving(k) /\ Leaving(n))) /\ SameThing(k, n) => k = n
         /\ \A k : Leaving(k) => InHand(k) /\ ~Taking(k)
         /\ \A i : InHand(i) => \E k : (Taking(k) \/ InHand(k)) /\ SameThing(k, i) /\ IdAt(k) \in job.graph[i].deps
         /\ \A i : InHand(i) => job.graph[i].deps \cap IdsOf(Flourishes) = {}
         /\ \A i \in Places : job.graph[i].op # "HANDOFF"
<1>1. \A i \in Places : job.graph[i] \in PlanSteps /\ job.graph[i].op # "HANDOFF"
  BY JobShape DEF PlainJob
<1>2. ASSUME NEW k, Taking(k) \/ Leaving(k)
      PROVE  /\ k \in Mandatory /\ k \in Places /\ job.graph[k].obj # None
             /\ Manipulates(job.graph[k]) /\ job.graph[k].op \notin BothArms
  <2>1. k \in Places /\ job.graph[k] \in PlanSteps /\ job.graph[k].op \in {"PICK", "MOVE"}
    BY <1>1, <1>2 DEF Taking, Leaving, Grabs, Releases
  <2>2. Manipulates(job.graph[k]) /\ job.graph[k].obj # None
    BY <2>1 DEF PlainJob, Orderly, Grabs, Releases
  <2>3. k \notin Flourishes
    BY <2>1 DEF Flourishes, IsFlourish, StyleOps
  <2> QED
    BY <2>1, <2>2, <2>3 DEF Mandatory, BothArms
<1>3. ASSUME NEW k, NEW n, SameThing(k, n), (Taking(k) /\ Taking(n)) \/ (Leaving(k) /\ Leaving(n))
      PROVE  k = n
  <2>1. /\ k \in Places /\ n \in Places /\ job.graph[k] \in PlanSteps /\ job.graph[n] \in PlanSteps
        /\ job.graph[k].op = job.graph[n].op /\ job.graph[k].op \in Grabs \cup Releases
    BY <1>1, <1>3 DEF Taking, Leaving, Grabs, Releases
  <2>2. job.graph[k] = job.graph[n]
    BY <1>3, <2>1 DEF PlainJob, Orderly, SameThing
  <2> QED
    BY <2>1, <2>2, JobShape
<1>4. ASSUME NEW k, Leaving(k) PROVE InHand(k) /\ ~Taking(k)
  BY <1>2, <1>4 DEF Leaving, Taking, InHand, Releases, Grabs, NeedsGrasp
<1>5. ASSUME NEW i, InHand(i)
      PROVE  \E k : (Taking(k) \/ InHand(k)) /\ SameThing(k, i) /\ IdAt(k) \in job.graph[i].deps
  <2>1. job.graph[i] \in PlanSteps
    BY <1>1, <1>5 DEF InHand
  <2>2. PICK t \in PlanSteps : /\ t.obj = job.graph[i].obj /\ t.op \in Grabs \cup NeedsGrasp
                               /\ t.id \in job.graph[i].deps
    BY <1>5, <2>1 DEF PlainJob, Orderly, InHand
  <2>3. PICK k \in Places : t = job.graph[k]
    BY <2>2, JobShape
  <2>4. (Taking(k) \/ InHand(k)) /\ SameThing(k, i) /\ IdAt(k) \in job.graph[i].deps
    BY <1>5, <2>2, <2>3 DEF Taking, InHand, SameThing, IdAt
  <2> QED
    BY <2>4
<1>6. ASSUME NEW i, InHand(i) PROVE job.graph[i].deps \cap IdsOf(Flourishes) = {}
  <2>1. \A d \in job.graph[i].deps : d \in DependedOn
    BY <1>1, <1>6 DEF DependedOn, InHand
  <2> QED
    BY <2>1 DEF IdsOf, Flourishes, IsFlourish
<1> QED
  BY <1>1, <1>2, <1>3, <1>4, <1>5, <1>6

LEMMA SameGrip ==
  ASSUME job' = job
  PROVE  /\ PlainJob' = PlainJob
         /\ \A k : IdAt(k)' = IdAt(k) /\ (Taking(k)' <=> Taking(k)) /\ (Leaving(k)' <=> Leaving(k))
                   /\ (InHand(k)' <=> InHand(k))
         /\ \A k, d : SameThing(k, d)' <=> SameThing(k, d)
         /\ assignment' = assignment => \A k : ArmAt(k)' = ArmAt(k)
<1>1. PlanSteps' = PlanSteps /\ Places' = Places
  BY SameJob
<1>2. PlainJob' = PlainJob
  BY <1>1 DEF PlainJob, Orderly
<1> QED
  BY <1>1, <1>2 DEF IdAt, Taking, Leaving, InHand, SameThing, ArmAt

LEMMA WorkMeans ==
  ASSUME WavesTyped
  PROVE  /\ \A x : x \in Planned <=> x.kind = "work" /\ (x \in wave \/ \E i \in DOMAIN waves : x \in waves[i])
         /\ \A i \in DOMAIN waves : Members(i) = WorkIds(waves[i])
         /\ DOMAIN waves = 1..Len(waves) /\ Len(waves) \in Nat
<1>1. \A x : x \in AllIn(waves) <=> \E i \in DOMAIN waves : x \in waves[i]
  <2>1. ASSUME NEW x \in AllIn(waves) PROVE \E i \in DOMAIN waves : x \in waves[i]
    <3>1. PICK T \in {waves[i] : i \in DOMAIN waves} : x \in T
      BY <2>1 DEF AllIn
    <3> QED
      BY <3>1
  <2>2. ASSUME NEW i \in DOMAIN waves, NEW x \in waves[i] PROVE x \in AllIn(waves)
    <3>1. waves[i] \in {waves[k] : k \in DOMAIN waves}
      OBVIOUS
    <3> QED
      BY <3>1 DEF AllIn
  <2> QED
    BY <2>1, <2>2
<1>2. DOMAIN waves = 1..Len(waves) /\ Len(waves) \in Nat
  BY DEF WavesTyped
<1>3. \A i \in DOMAIN waves : i # 0
  BY <1>2
<1> QED
  BY <1>1, <1>2, <1>3 DEF Planned, Work, WorkIds, Members

LEMMA PlannedAfter ==
  ASSUME WavesTyped'
  PROVE  \A x : x \in Planned' <=> x.kind = "work" /\ (x \in wave' \/ \E i \in DOMAIN waves' : x \in waves'[i])
<1>1. \A x : x \in AllIn(waves') <=> \E i \in DOMAIN waves' : x \in waves'[i]
  <2>1. ASSUME NEW x \in AllIn(waves') PROVE \E i \in DOMAIN waves' : x \in waves'[i]
    <3>1. PICK T \in {waves'[i] : i \in DOMAIN waves'} : x \in T
      BY <2>1 DEF AllIn
    <3> QED
      BY <3>1
  <2>2. ASSUME NEW i \in DOMAIN waves', NEW x \in waves'[i] PROVE x \in AllIn(waves')
    <3>1. waves'[i] \in {waves'[k] : k \in DOMAIN waves'}
      OBVIOUS
    <3> QED
      BY <3>1 DEF AllIn
  <2> QED
    BY <2>1, <2>2
<1>2. Planned' = Work(AllIn(waves') \cup wave')
  BY DEF Planned, Work, AllIn
<1> QED
  BY <1>1, <1>2 DEF Work

(* What is put into the waves after the wave loop is no work: a wave of it   *)
(* alone is one of flourishes.                                               *)
LEMMA WorkKept ==
  ASSUME WaveInv, [ScheduleNext]_scheduling, ~(StartWave \/ Place \/ EndWave \/ ForceWave)
  PROVE  /\ Planned' = Planned
         /\ HasExtraWave => HasExtraWave'
         /\ ~HasExtraWave' =>
              /\ DOMAIN waves' = DOMAIN waves
              /\ \A i \in DOMAIN waves : Work(waves'[i]) = Work(waves[i])
<1>1. job \in Jobs /\ WavesGood /\ WavesTyped /\ WavesTyped' /\ ArmsGiven
  BY WavesStep DEF WaveInv, WavesGood
<1>2. /\ \A x : x \in Planned <=> x.kind = "work" /\ (x \in wave \/ \E i \in DOMAIN waves : x \in waves[i])
      /\ \A x : x \in Planned' <=> x.kind = "work" /\ (x \in wave' \/ \E i \in DOMAIN waves' : x \in waves'[i])
  BY <1>1, WorkMeans, PlannedAfter
<1>3. ASSUME DOMAIN waves' = DOMAIN waves, Work(wave') = Work(wave),
             \A i \in DOMAIN waves : Work(waves'[i]) = Work(waves[i])
      PROVE  /\ Planned' = Planned
             /\ HasExtraWave => HasExtraWave'
             /\ ~HasExtraWave' =>
                  /\ DOMAIN waves' = DOMAIN waves
                  /\ \A i \in DOMAIN waves : Work(waves'[i]) = Work(waves[i])
  <2>1. \A x : x \in Planned' <=> x \in Planned
    BY <1>2, <1>3 DEF Work
  <2>2. HasExtraWave' <=> HasExtraWave
    BY <1>3 DEF HasExtraWave, Work
  <2> QED
    BY <1>3, <2>1, <2>2
<1>4. CASE UNCHANGED <<waves, wave>>
  BY <1>3, <1>4
<1>5. CASE PlaceFlourish
  <2> DEFINE f == job.graph[First(queue)]
             x == Placed(f, "flourish")
             slots == {i \in DOMAIN waves : Slack(f, i)}
             j == First(slots)
  <2>1. waves' = waves \/ waves' = [waves EXCEPT ![j] = @ \cup {x}]
    BY <1>5 DEF PlaceFlourish
  <2>2. wave' = wave
    BY <1>5 DEF PlaceFlourish
  <2>3. x.kind = "flourish"
    BY DEF Placed
  <2> HIDE DEF f, x, slots, j
  <2>4. DOMAIN waves' = DOMAIN waves /\ \A i \in DOMAIN waves : Work(waves'[i]) = Work(waves[i])
    BY <2>1, <2>3 DEF Work
  <2> QED
    BY <1>3, <2>2, <2>4
<1>6. CASE PlaceExtra
  <2>1. waves' = waves
    BY <1>6 DEF PlaceExtra
  <2>2. Work(wave') = Work(wave)
    BY <1>6 DEF PlaceExtra, Placed, Work
  <2> QED
    BY <1>3, <2>1, <2>2
<1>7. CASE FillSlack
  <2>1. wave' = wave
    BY <1>7 DEF FillSlack
  <2>2. /\ DOMAIN waves' = DOMAIN waves
        /\ \A i \in DOMAIN waves :
             waves'[i] = waves[i] \/ waves'[i] = waves[i] \cup GeneratedFor("idle", i, IdleIn(waves[i]))
    BY <1>7 DEF FillSlack
  <2>3. \A i \in DOMAIN waves : Work(waves'[i]) = Work(waves[i])
    BY <2>2 DEF Work, GeneratedFor, Generated
  <2> QED
    BY <1>3, <2>1, <2>2, <2>3
<1>8. CASE PlaceGroup
  <2> DEFINE group == job.groups[First(queue)]
             slots == {i \in DOMAIN waves : ~IsBarrier(waves[i]) /\ group \subseteq IdleIn(waves[i])}
             j == First(slots)
  <2>1. waves' = waves \/ waves' = [waves EXCEPT ![j] = @ \cup GeneratedFor("express", j, group)]
    BY <1>8 DEF PlaceGroup
  <2>2. wave' = wave
    BY <1>8 DEF PlaceGroup
  <2> HIDE DEF group, slots, j
  <2>3. DOMAIN waves' = DOMAIN waves /\ \A i \in DOMAIN waves : Work(waves'[i]) = Work(waves[i])
    BY <2>1 DEF Work, GeneratedFor, Generated
  <2> QED
    BY <1>3, <2>2, <2>3
<1>9. CASE EndExtraWave /\ wave # {}
  <2> DEFINE n == LastBarrier
             S == SUBSET Placements
  <2>1. waves \in Seq(S) /\ wave \in S /\ n \in 1..(Len(waves) + 1) /\ Len(waves) \in Nat
        /\ DOMAIN waves = 1..Len(waves)
    BY <1>1, LastBarrierIn DEF WavesTyped
  <2>2. waves' = InsertAt(waves, n, wave) /\ wave' = {} /\ \A m \in wave : m.kind = "flourish"
    BY <1>1, <1>9 DEF EndExtraWave, WavesGood, WavesFilled
  <2> HIDE DEF n, S
  <2>3. /\ waves' \in Seq(S) /\ Len(waves') = Len(waves) + 1
        /\ \A i \in 1..(Len(waves) + 1) :
             waves'[i] = IF i < n THEN waves[i] ELSE IF i = n THEN wave ELSE waves[i - 1]
    <3>1. /\ InsertAt(waves, n, wave) \in Seq(S) /\ Len(InsertAt(waves, n, wave)) = Len(waves) + 1
          /\ \A i \in 1..(Len(waves) + 1) :
               InsertAt(waves, n, wave)[i] = IF i < n THEN waves[i] ELSE IF i = n THEN wave ELSE waves[i - 1]
      <4>1. SUFFICES ASSUME NEW T, NEW s \in Seq(T), NEW e \in T, NEW m \in 1..(Len(s) + 1)
                     PROVE  /\ InsertAt(s, m, e) \in Seq(T) /\ Len(InsertAt(s, m, e)) = Len(s) + 1
                            /\ \A i \in 1..(Len(s) + 1) :
                                 InsertAt(s, m, e)[i] = IF i < m THEN s[i] ELSE IF i = m THEN e ELSE s[i - 1]
        BY <2>1
      <4> QED
        BY Inserted
    <3> QED
      BY <2>2, <3>1
  <2>4. DOMAIN waves' = 1..(Len(waves) + 1)
    BY <2>1, <2>3
  <2>5. Work(wave) = {} /\ waves'[n] = wave /\ n \in DOMAIN waves'
    BY <2>1, <2>2, <2>3, <2>4 DEF Work
  <2>6. HasExtraWave'
    BY <2>5 DEF HasExtraWave, Work
  <2>7. ASSUME NEW x PROVE x \in Planned' <=> x \in Planned
    <3>1. ASSUME NEW i \in DOMAIN waves', x \in waves'[i], x.kind = "work"
          PROVE  \E k \in DOMAIN waves : x \in waves[k]
      BY <2>1, <2>2, <2>3, <2>4, <3>1
    <3>2. ASSUME NEW i \in DOMAIN waves, x \in waves[i] PROVE \E k \in DOMAIN waves' : x \in waves'[k]
      <4>1. CASE i < n
        <5>1. i \in DOMAIN waves' /\ waves'[i] = waves[i]
          BY <2>1, <2>3, <2>4, <4>1
        <5> QED
          BY <3>2, <5>1
      <4>2. CASE ~(i < n)
        <5>1. i + 1 \in DOMAIN waves' /\ waves'[i + 1] = waves[i]
          BY <2>1, <2>3, <2>4, <4>2
        <5> QED
          BY <3>2, <5>1
      <4> QED
        BY <4>1, <4>2
    <3> QED
      BY <1>2, <2>2, <3>1, <3>2
  <2> QED
    BY <2>6, <2>7
<1>10. CASE EndExtraWave /\ wave = {}
  BY <1>4, <1>10 DEF EndExtraWave
<1>11. CASE AssignChain
  BY <1>4, <1>11 DEF AssignChain
<1>12. CASE TakeResources
  BY <1>4, <1>12 DEF TakeResources, RaiseError, building
<1>13. CASE BeginFlourishes \/ BeginExtraWave \/ BeginExpression \/ EndExpression \/ Annotate \/ Execute
  BY <1>4, <1>13 DEF BeginFlourishes, BeginExtraWave, BeginExpression, EndExpression, Annotate, Execute, building
<1>14. CASE UNCHANGED scheduling
  BY <1>4, <1>14 DEF scheduling, building
<1> QED
  BY <1>5, <1>6, <1>7, <1>8, <1>9, <1>10, <1>11, <1>12, <1>13, <1>14 DEF ScheduleNext

Waving == StartWave \/ Place \/ EndWave \/ ForceWave

LEMMA Lengthened ==
  ASSUME WavesTyped, NEW w, waves' = Append(waves, w)
  PROVE  /\ DOMAIN waves' = 1..(Len(waves) + 1) /\ DOMAIN waves = 1..Len(waves) /\ Len(waves) \in Nat
         /\ waves'[Len(waves) + 1] = w
         /\ \A i \in DOMAIN waves : waves'[i] = waves[i]
         /\ HasExtraWave => HasExtraWave'
<1>1. /\ DOMAIN waves' = 1..(Len(waves) + 1) /\ DOMAIN waves = 1..Len(waves) /\ Len(waves) \in Nat
      /\ waves'[Len(waves) + 1] = w
      /\ \A i \in DOMAIN waves : waves'[i] = waves[i]
  BY DEF WavesTyped
<1>2. \A i \in DOMAIN waves : i \in DOMAIN waves'
  BY <1>1
<1> QED
  BY <1>1, <1>2 DEF HasExtraWave, Work

(* The wave loop puts one step of the plan at a time into a wave.            *)
LEMMA WorkAdded ==
  ASSUME WaveInv, Waving
  PROVE  /\ stage \in {"ready", "place"} /\ stage' \in {"ready", "place", "raised"}
         /\ UNCHANGED <<job, assignment, resources, leftovers, hands>>
         /\ HasExtraWave => HasExtraWave'
         /\ \/ Planned' = Planned /\ done' = done
            \/ \E k \in Mandatory : /\ Planned' = Planned \cup {Placed(job.graph[k], "work")}
                                    /\ done' = done \cup {IdAt(k)}
<1>1. job \in Jobs /\ WavesGood /\ WavesTyped /\ ArmsGiven /\ [ScheduleNext]_scheduling
  BY DEF WaveInv, WavesGood, Waving, ScheduleNext
<1>2. WavesTyped'
  BY <1>1, WavesStep DEF WavesGood
<1>3. /\ \A x : x \in Planned <=> x.kind = "work" /\ (x \in wave \/ \E i \in DOMAIN waves : x \in waves[i])
      /\ \A x : x \in Planned' <=> x.kind = "work" /\ (x \in wave' \/ \E i \in DOMAIN waves' : x \in waves'[i])
  BY <1>1, <1>2, WorkMeans, PlannedAfter
<1>4. \A s : Placed(s, "work").kind = "work"
  BY DEF Placed
<1>5. ASSUME NEW w, waves' = Append(waves, w), wave' = {}
      PROVE  \A x : x \in Planned' <=> x.kind = "work" /\ (x \in w \/ \E i \in DOMAIN waves : x \in waves[i])
  <2>1. \A x : (\E i \in DOMAIN waves' : x \in waves'[i]) <=> x \in w \/ \E i \in DOMAIN waves : x \in waves[i]
    <3>1. \A i : i \in DOMAIN waves' <=> i \in DOMAIN waves \/ i = Len(waves) + 1
      BY <1>1, <1>5, Lengthened
    <3> QED
      BY <1>1, <1>5, <3>1, Lengthened
  <2> QED
    BY <1>3, <1>5, <2>1
<1>6. Ready \in SUBSET Nat /\ Ready \subseteq Mandatory /\ Barriers \subseteq Ready
  BY <1>1, WorthReady, JobShape DEF Barriers
<1>7. CASE StartWave /\ UNCHANGED <<waves, wave, done>>
  <2>1. /\ stage = "ready" /\ stage' \in {"ready", "place", "raised"}
        /\ UNCHANGED <<job, assignment, resources, leftovers, hands>>
    BY <1>7 DEF StartWave, RaiseError, building, running
  <2>2. Planned' = Planned /\ (HasExtraWave => HasExtraWave')
    BY <1>7 DEF Planned, Work, AllIn, HasExtraWave
  <2> QED
    BY <1>7, <2>1, <2>2
<1>8. CASE StartWave /\ ~(UNCHANGED <<waves, wave, done>>)
  <2> DEFINE b == First(Barriers)
             x == Placed(job.graph[b], "work")
  <2>1. /\ stage = "ready" /\ stage' \in {"ready", "place", "raised"}
        /\ UNCHANGED <<job, assignment, resources, leftovers, hands, wave>>
    BY <1>8 DEF StartWave, RaiseError, building, running
  <2>2. /\ Barriers # {} /\ waves' = Append(waves, {x}) /\ done' = done \cup {job.graph[b].id}
        /\ wave = {}
    BY <1>1, <1>8 DEF StartWave, RaiseError, building, running, WavesGood, WavesFilled
  <2>3. b \in Mandatory
    BY <1>6, <2>2, FirstIn
  <2>4. x.kind = "work"
    BY <1>4
  <2> HIDE DEF x, b
  <2>5. Planned' = Planned \cup {x}
    BY <1>3, <1>5, <2>1, <2>2, <2>4
  <2>6. HasExtraWave => HasExtraWave'
    BY <1>1, <2>2, Lengthened
  <2> QED
    BY <2>1, <2>2, <2>3, <2>5, <2>6 DEF IdAt, x
<1>9. CASE Place
  <2> DEFINE k == First(queue)
             x == Placed(job.graph[k], "work")
  <2>1. /\ stage = "place" /\ stage' = "place" /\ UNCHANGED <<job, assignment, resources, leftovers, hands, waves>>
    BY <1>9 DEF Place, running
  <2>2. \/ UNCHANGED <<wave, done>>
        \/ wave' = wave \cup {x} /\ done' = done \cup {job.graph[k].id}
    BY <1>9 DEF Place
  <2>3. k \in Mandatory
    <3>1. queue \in SUBSET Nat /\ queue # {} /\ queue \subseteq Mandatory
      BY <1>1, <1>9, WorthReady, JobShape DEF Place, WavesGood, WavesFilled
    <3> QED
      BY <3>1, FirstIn
  <2>4. x.kind = "work"
    BY <1>4
  <2> HIDE DEF x, k
  <2>5. \/ Planned' = Planned /\ done' = done
        \/ Planned' = Planned \cup {x} /\ done' = done \cup {job.graph[k].id}
    BY <1>3, <2>1, <2>2, <2>4
  <2>6. HasExtraWave => HasExtraWave'
    BY <2>1 DEF HasExtraWave, Work
  <2> QED
    BY <2>1, <2>3, <2>5, <2>6 DEF IdAt, x
<1>10. CASE EndWave
  <2>1. /\ stage = "place" /\ stage' = "ready" /\ UNCHANGED <<job, assignment, resources, leftovers, hands, done>>
        /\ waves' = Append(waves, wave) /\ wave' = {}
    BY <1>10 DEF EndWave, running
  <2>2. Planned' = Planned
    BY <1>3, <1>5, <2>1
  <2>3. HasExtraWave => HasExtraWave'
    BY <1>1, <2>1, Lengthened
  <2> QED
    BY <2>1, <2>2, <2>3
<1>11. CASE ForceWave
  <2> DEFINE b == First(Ready)
             x == Placed(job.graph[b], "work")
  <2>1. /\ stage = "place" /\ stage' = "ready" /\ UNCHANGED <<job, assignment, resources, leftovers, hands, wave>>
        /\ wave = {} /\ queue = {}
    BY <1>11 DEF ForceWave, running
  <2>2. /\ Ready # {} /\ waves' = Append(waves, {x}) /\ done' = done \cup {job.graph[b].id}
    BY <1>1, <1>11 DEF ForceWave, WavesGood, WavesFilled
  <2>3. b \in Mandatory
    BY <1>6, <2>2, FirstIn
  <2>4. x.kind = "work"
    BY <1>4
  <2> HIDE DEF x, b
  <2>5. Planned' = Planned \cup {x}
    BY <1>3, <1>5, <2>1, <2>2, <2>4
  <2>6. HasExtraWave => HasExtraWave'
    BY <1>1, <2>2, Lengthened
  <2> QED
    BY <2>1, <2>2, <2>3, <2>5, <2>6 DEF IdAt, x
<1> QED
  BY <1>7, <1>8, <1>9, <1>10, <1>11 DEF Waving

LEMMA PlanKeptStep ==
  ASSUME WaveInv, PlanKept, [ScheduleNext]_scheduling
  PROVE  PlanKept'
<1>1. /\ job \in Jobs /\ job' = job /\ WavesGood /\ ArmsGiven
      /\ Flourishes' = Flourishes /\ IdsOf(Mandatory)' = IdsOf(Mandatory)
      /\ done \subseteq {m.id : m \in Planned} /\ leftovers \subseteq Flourishes
  <2>1. job \in Jobs /\ job' = job /\ WavesGood /\ ArmsGiven
    BY ArmsStep DEF WaveInv
  <2> QED
    BY <2>1, SameJob DEF IdsOf, PlanKept
<1>2. CASE Waving
  <2>1. /\ stage \in {"ready", "place"} /\ stage' \in {"ready", "place", "raised"}
        /\ UNCHANGED <<resources, leftovers>>
        /\ \/ Planned' = Planned /\ done' = done
           \/ \E k \in Mandatory : /\ Planned' = Planned \cup {Placed(job.graph[k], "work")}
                                   /\ done' = done \cup {IdAt(k)}
    BY <1>2, WorkAdded
  <2>2. done' \subseteq {m.id : m \in Planned'} /\ \A m \in Planned' : m.parts = resources[m.id]
    <3>1. CASE Planned' = Planned /\ done' = done
      BY <1>1, <3>1 DEF PlanKept
    <3>2. CASE \E k \in Mandatory : /\ Planned' = Planned \cup {Placed(job.graph[k], "work")}
                                    /\ done' = done \cup {IdAt(k)}
      <4>1. PICK k \in Mandatory : /\ Planned' = Planned \cup {Placed(job.graph[k], "work")}
                                   /\ done' = done \cup {IdAt(k)}
        BY <3>2
      <4>2. Placed(job.graph[k], "work").id = IdAt(k)
            /\ Placed(job.graph[k], "work").parts = resources[IdAt(k)]
        BY DEF Placed, IdAt
      <4> QED
        BY <1>1, <4>1, <4>2 DEF PlanKept
    <3> QED
      BY <2>1, <3>1, <3>2
  <2> QED
    BY <1>1, <2>1, <2>2 DEF PlanKept, Planning, Decorating
<1>3. CASE ~Waving
  <2>1. Planned' = Planned
    BY <1>3, WorkKept DEF Waving
  <2>2. done' = done
    <3>1. CASE AssignChain
      BY <3>1 DEF AssignChain
    <3>2. CASE TakeResources
      BY <3>2 DEF TakeResources, RaiseError, building
    <3>5. CASE UNCHANGED scheduling
      BY <3>5 DEF scheduling, building
    <3>3. CASE BeginFlourishes \/ PlaceFlourish \/ BeginExtraWave \/ PlaceExtra \/ EndExtraWave
      BY <3>3 DEF BeginFlourishes, PlaceFlourish, BeginExtraWave, PlaceExtra, EndExtraWave
    <3>4. CASE FillSlack \/ BeginExpression \/ PlaceGroup \/ EndExpression \/ Annotate \/ Execute
      BY <3>4 DEF FillSlack, BeginExpression, PlaceGroup, EndExpression, Annotate, Execute, building
    <3> QED
      BY <1>3, <3>1, <3>2, <3>3, <3>4, <3>5 DEF ScheduleNext, Waving
  <2>3. \A m \in Planned' : m.parts = resources'[m.id]
    <3>1. CASE stage = "assign"
      BY <2>1, <3>1 DEF PlanKept
    <3>2. CASE stage # "assign"
      <4>1. ~AssignChain /\ ~TakeResources
        <5>1. AssignChain => stage = "assign"
          BY DEF AssignChain
        <5>2. TakeResources => stage = "assign"
          BY DEF TakeResources
        <5> QED
          BY <3>2, <5>1, <5>2
      <4> QED
        BY <2>1, <4>1, LaterKeeps DEF PlanKept, ScheduleNext, Later
    <3> QED
      BY <3>1, <3>2
  <2>4. stage' = "assign" => stage = "assign"
    <3>1. CASE AssignChain
      BY <3>1 DEF AssignChain
    <3>2. CASE TakeResources
      BY <3>2 DEF TakeResources, RaiseError
    <3>3. CASE Later
      BY <3>3, LaterKeeps
    <3> QED
      BY <3>1, <3>2, <3>3 DEF ScheduleNext, Later
  <2>5. leftovers' \subseteq Flourishes /\ (Decorating' => queue' \subseteq Flourishes)
    <3>1. CASE BeginFlourishes
      BY <1>1, <3>1 DEF BeginFlourishes, Decorating
    <3>2. CASE PlaceFlourish \/ PlaceExtra
      <4>1. First(queue) \in queue /\ queue \subseteq Flourishes
        <5>1. queue \subseteq Flourishes /\ queue # {}
          BY <3>2 DEF PlaceFlourish, PlaceExtra, PlanKept, Decorating
        <5>2. queue \in SUBSET Nat
          BY <1>1, <5>1, JobShape DEF Flourishes
        <5> QED
          BY <5>1, <5>2, FirstIn
      <4>2. queue' \subseteq queue /\ leftovers' \subseteq leftovers \cup {First(queue)}
        BY <3>2 DEF PlaceFlourish, PlaceExtra
      <4> QED
        BY <1>1, <4>1, <4>2
    <3>3. CASE BeginExtraWave
      BY <1>1, <3>3 DEF BeginExtraWave, Decorating
    <3>4. CASE AssignChain
      BY <1>1, <3>4 DEF AssignChain, Decorating
    <3>5. CASE TakeResources
      <4>1. UNCHANGED <<leftovers, queue>> /\ ~Decorating'
        BY <3>5 DEF TakeResources, RaiseError, building, Decorating
      <4> QED
        BY <1>1, <4>1
    <3>6. CASE UNCHANGED scheduling
      BY <1>1, <3>6 DEF scheduling, building, Decorating, PlanKept
    <3>7. CASE EndExtraWave \/ FillSlack \/ BeginExpression \/ PlaceGroup \/ EndExpression \/ Annotate \/ Execute
      <4>1. leftovers' = leftovers /\ ~Decorating'
        BY <3>7 DEF EndExtraWave, FillSlack, BeginExpression, PlaceGroup, EndExpression, Annotate, Execute, building, Decorating
      <4> QED
        BY <1>1, <4>1
    <3> QED
      BY <1>3, <3>1, <3>2, <3>3, <3>4, <3>5, <3>6, <3>7 DEF ScheduleNext, Waving
  <2>6. ~Planning' /\ stage' # "raised" => IdsOf(Mandatory) \subseteq done
    <3>1. CASE BeginFlourishes
      BY <3>1 DEF BeginFlourishes
    <3>2. CASE AssignChain
      BY <3>2 DEF AssignChain, Planning
    <3>3. CASE TakeResources
      BY <3>3 DEF TakeResources, RaiseError, Planning
    <3>4. CASE UNCHANGED scheduling
      BY <3>4 DEF scheduling, Planning, PlanKept
    <3>5. CASE PlaceFlourish \/ BeginExtraWave \/ PlaceExtra \/ EndExtraWave
      BY <3>5 DEF PlaceFlourish, BeginExtraWave, PlaceExtra, EndExtraWave, Planning, PlanKept
    <3>6. CASE FillSlack \/ BeginExpression \/ PlaceGroup \/ EndExpression \/ Annotate \/ Execute
      BY <3>6 DEF FillSlack, BeginExpression, PlaceGroup, EndExpression, Annotate, Execute, Planning, PlanKept
    <3> QED
      BY <1>3, <3>1, <3>2, <3>3, <3>4, <3>5, <3>6 DEF ScheduleNext, Waving
  <2>7. done' \subseteq {m.id : m \in Planned'} /\ (stage' = "assign" => Planned' = {})
    BY <1>1, <2>1, <2>2, <2>4 DEF PlanKept
  <2> QED
    BY <1>1, <2>2, <2>3, <2>5, <2>6, <2>7 DEF PlanKept
<1> QED
  BY <1>2, <1>3

LEMMA NeedsKnownStep ==
  ASSUME WaveInv, NeedsKnown, stage # "run" => hands = job.hands, [ScheduleNext]_scheduling
  PROVE  NeedsKnown' /\ (stage' # "run" => hands' = job'.hands)
<1>1. job \in Jobs /\ job' = job
  BY ArmsStep DEF WaveInv
<1>2. CASE Annotate
  <2>1. /\ leftovers' = leftovers /\ hands' = hands /\ stage' = "run" /\ stage = "annotate"
        /\ needs' = [id \in {m.id : m \in {n \in AllPlaced : n.kind # "idle"}} |-> Needs(id)]
    BY <1>2 DEF Annotate, building
  <2>2. ASSUME NEW i \in Places, IdAt(i) \in DOMAIN needs'
        PROVE  job.graph[i].deps \ Dropped \subseteq needs'[IdAt(i)]
    <3>1. needs'[IdAt(i)] = Needs(IdAt(i))
      BY <2>1, <2>2
    <3>2. job.graph[i] \in PlanSteps /\ job.graph[i].id = IdAt(i) /\ StepOf(IdAt(i)) = job.graph[i]
      BY <1>1, JobShape DEF IdAt
    <3> QED
      BY <3>1, <3>2 DEF Needs
  <2>3. Dropped' = Dropped /\ Places' = Places
    BY <1>1, <2>1, SameJob DEF Dropped, IdsOf
  <2> QED
    BY <1>1, <2>1, <2>2, <2>3 DEF NeedsKnown, IdAt
<1>3. CASE Execute \/ UNCHANGED scheduling
  <2>1. UNCHANGED <<leftovers, needs, stage>> /\ (stage # "run" => hands' = hands)
    BY <1>3 DEF Execute, scheduling, building, running
  <2>2. Dropped' = Dropped /\ Places' = Places
    BY <1>1, <2>1, SameJob DEF Dropped, IdsOf
  <2> QED
    BY <1>1, <2>1, <2>2 DEF NeedsKnown, IdAt
<1>4. CASE ~Annotate /\ ~Execute /\ ~UNCHANGED scheduling
  <2>1. stage # "run" /\ stage' # "run" /\ hands' = hands
    <3>1. CASE AssignChain
      BY <3>1 DEF AssignChain, running
    <3>2. CASE Place \/ EndWave \/ ForceWave
      BY <3>2 DEF Place, EndWave, ForceWave, running
    <3>3. CASE TakeResources
      BY <3>3 DEF TakeResources, RaiseError, running
    <3>4. CASE StartWave
      BY <3>4 DEF StartWave, RaiseError, running
    <3>5. CASE BeginFlourishes \/ PlaceFlourish \/ BeginExtraWave \/ PlaceExtra \/ EndExtraWave
      BY <3>5 DEF BeginFlourishes, PlaceFlourish, BeginExtraWave, PlaceExtra, EndExtraWave, running
    <3>6. CASE FillSlack \/ BeginExpression \/ PlaceGroup \/ EndExpression
      BY <3>6 DEF FillSlack, BeginExpression, PlaceGroup, EndExpression, running
    <3> QED
      BY <1>4, <3>1, <3>2, <3>3, <3>4, <3>5, <3>6 DEF ScheduleNext
  <2> QED
    BY <1>1, <2>1 DEF NeedsKnown
<1> QED
  BY <1>2, <1>3, <1>4

LEMMA ChainSame ==
  ASSUME job \in Jobs, NEW i \in Places, NEW k \in Places, SameThing(i, k), job.graph[i].obj # None,
         Manipulates(job.graph[i]), Manipulates(job.graph[k])
  PROVE  Chain(k) = Chain(i) /\ i \in Chain(i) /\ k \in Chain(i)
BY DEF Chain, SameThing

(* Without a hand-over everything that is done with one thing is one arm's.  *)
LEMMA OneArmStep ==
  ASSUME WaveInv, PlainJob, OneArmEach, [ScheduleNext]_scheduling
  PROVE  OneArmEach'
<1>1. /\ job \in Jobs /\ job' = job /\ ArmsGiven /\ Places' = Places
      /\ \A i : Chain(i)' = Chain(i) /\ First(Chain(i))' = First(Chain(i))
  <2>1. job \in Jobs /\ job' = job /\ ArmsGiven
    BY ArmsStep DEF WaveInv
  <2> QED
    BY <2>1, SameJob DEF First
<1>2. CASE AssignChain
  <2> DEFINE c == Chain(NextChain)
             cuts == {i \in c : job.graph[i].op = "HANDOFF"}
             cut == First(cuts)
             pre == IF cuts = {} THEN c ELSE {i \in c : i <= cut}
             judged == IF cuts = {} \/ pre = {cut} THEN pre ELSE pre \ {cut}
             giver == ChooseArm(judged, Explicit(pre))
             taker == IF cuts = {} THEN giver
                      ELSE IF job.graph[cut].recv \in Online THEN job.graph[cut].recv ELSE Other(giver)
             of(i) == IF i \in pre THEN giver ELSE taker
  <2>1. /\ assignment' = [id \in DOMAIN assignment |->
             IF id \in IdsOf(c) THEN of(CHOOSE i \in c : job.graph[i].id = id) ELSE assignment[id]]
        /\ chains' = chains \ {NextChain} /\ stage = "assign" /\ stage' = "assign" /\ chains # {}
    BY <1>2 DEF AssignChain
  <2>2. NextChain \in chains /\ NextChain \in ObjectChains /\ c \subseteq Places /\ NextChain \in c
    BY <1>1, <2>1, NextIsLeft, ChainsCover DEF ArmsGiven
  <2>3. cuts = {}
    BY <1>1, <2>2, PlainMeans
  <2>4. \A i : of(i) = giver
    BY <2>3
  <2> HIDE DEF of, giver, c
  <2>5. ASSUME NEW i \in Places PROVE assignment'[IdAt(i)] = IF i \in c THEN giver ELSE assignment[IdAt(i)]
    <3>1. IdAt(i) \in DOMAIN assignment
      BY <1>1, JobShape DEF ArmsGiven, IdAt
    <3>2. IdAt(i) \in IdsOf(c) <=> i \in c
      BY <1>1, <2>2, JobShape DEF IdsOf, IdAt
    <3> QED
      BY <2>1, <2>4, <3>1, <3>2
  <2>6. ASSUME NEW i \in Places, NEW k \in Places, Manipulates(job.graph[i]), Manipulates(job.graph[k]),
               SameThing(i, k), job.graph[i].obj # None, First(Chain(i)) \notin chains'
        PROVE  assignment'[IdAt(i)] = assignment'[IdAt(k)]
    <3>1. Chain(k) = Chain(i) /\ i \in Chain(i) /\ k \in Chain(i)
      BY <1>1, <2>6, ChainSame
    <3>2. CASE First(Chain(i)) \in chains
      <4>1. First(Chain(i)) = NextChain
        BY <2>1, <2>6, <3>2
      <4>2. NextChain \in Chain(i)
        <5>1. Chain(i) \in SUBSET Nat
          BY <1>1, JobShape, <3>1 DEF Chain
        <5> QED
          BY <3>1, <4>1, <5>1, FirstIn
      <4>3. c = Chain(i)
        BY <2>6, <4>2 DEF c, Chain
      <4> QED
        BY <2>5, <3>1, <4>3
    <3>3. CASE First(Chain(i)) \notin chains
      <4>1. i \notin c /\ k \notin c
        <5>1. ASSUME NEW n \in Chain(i), n \in c PROVE FALSE
          <6>1. Manipulates(job.graph[n]) /\ job.graph[n].obj = job.graph[i].obj /\ n \in Places
            BY <2>6, <5>1 DEF Chain
          <6>2. c = Chain(n)
            BY <2>2, <2>6, <5>1, <6>1 DEF c, Chain
          <6>3. Chain(n) = Chain(i)
            BY <2>6, <6>1 DEF Chain
          <6>4. NextChain = First(c)
            BY <2>2 DEF c, ObjectChains
          <6> QED
            BY <2>2, <3>3, <6>2, <6>3, <6>4
        <5> QED
          BY <3>1, <5>1
      <4>2. ArmAt(i) = ArmAt(k)
        BY <2>1, <2>6, <3>3 DEF OneArmEach
      <4> QED
        BY <2>5, <4>1, <4>2 DEF ArmAt
    <3> QED
      BY <3>2, <3>3
  <2> QED
    BY <1>1, <2>1, <2>6 DEF OneArmEach, ArmAt, IdAt, SameThing
<1>3. CASE TakeResources /\ stage' = "raised"
  BY <1>3 DEF OneArmEach
<1>4. CASE TakeResources /\ stage' # "raised"
  <2>1. /\ stage = "assign" /\ ~Unservable /\ stage' = "ready"
        /\ chains = {} \/ TooFewArms
        /\ resources' = [id \in DOMAIN assignment |-> Takes(StepOf(id))]
        /\ assignment' = [id \in DOMAIN assignment |-> Primary(StepOf(id))]
    BY <1>4 DEF TakeResources, RaiseError
  <2>2. chains = {} /\ \A s \in PlanSteps : Manipulates(s) => Takes(s) # {}
    BY <2>1 DEF Unservable
  <2>3. ASSUME NEW i, Taking(i) \/ Leaving(i)
        PROVE  assignment'[IdAt(i)] = ArmAt(i) /\ resources'[IdAt(i)] = {ArmAt(i)}
    <3>1. /\ i \in Places /\ Manipulates(job.graph[i]) /\ job.graph[i].op \notin BothArms
          /\ job.graph[i] \in PlanSteps /\ IdAt(i) \in DOMAIN assignment /\ StepOf(IdAt(i)) = job.graph[i]
      BY <1>1, <2>3, PlainMeans, JobShape DEF ArmsGiven, IdAt
    <3>2. Primary(job.graph[i]) = ArmAt(i)
      BY <3>1 DEF Primary, ArmAt, IdAt
    <3>3. Takes(job.graph[i]) = Servable({ArmAt(i)}, job.graph[i])
      BY <3>1 DEF Takes, ArmAt, IdAt, BothArms
    <3>4. Takes(job.graph[i]) = {ArmAt(i)}
      BY <2>2, <3>1, <3>3 DEF Servable
    <3> QED
      BY <2>1, <3>1, <3>2, <3>4
  <2>4. ASSUME NEW i, NEW k, Taking(i) \/ Leaving(i), Taking(k) \/ Leaving(k), SameThing(i, k)
        PROVE  ArmAt(i) = ArmAt(k)
    <3>1. /\ i \in Places /\ Manipulates(job.graph[i]) /\ job.graph[i].obj # None
          /\ k \in Places /\ Manipulates(job.graph[k])
      BY <1>1, <2>4, PlainMeans
    <3> QED
      BY <2>1, <2>2, <2>4, <3>1 DEF OneArmEach
  <2>5. /\ \A i : ArmAt(i)' = assignment'[IdAt(i)] /\ resources[IdAt(i)]' = resources'[IdAt(i)]
        /\ \A i, k : ((Taking(i) \/ Leaving(i))' <=> (Taking(i) \/ Leaving(i)))
                      /\ (SameThing(i, k)' <=> SameThing(i, k))
    BY <1>1, SameGrip DEF ArmAt
  <2>6. \A i : (Taking(i) \/ Leaving(i))' =>
          /\ resources[IdAt(i)]' = {ArmAt(i)'}
          /\ \A k : (Taking(k) \/ Leaving(k))' /\ SameThing(i, k)' => ArmAt(i)' = ArmAt(k)'
    <3> HIDE DEF ArmAt
    <3> QED
      BY <2>3, <2>4, <2>5
  <2> QED
    BY <2>1, <2>6 DEF OneArmEach
<1>5. CASE Later
  <2>1. /\ UNCHANGED <<job, chains, assignment, load, resources>>
        /\ stage' = "assign" => stage = "assign"
        /\ stage' \notin {"assign", "raised"} => stage \notin {"assign", "raised"}
    BY <1>5, LaterKeeps
  <2> QED
    BY <1>1, <2>1, SameGrip DEF OneArmEach
<1> QED
  BY <1>2, <1>3, <1>4, <1>5 DEF ScheduleNext, Later

LEMMA HoldMeans ==
  ASSUME NEW s, s.op # "HANDOFF", NEW a \in Arms
  PROVE  HoldAfter(s)[a] = IF s.op \in Grabs /\ a = assignment[s.id] THEN s.obj
                           ELSE IF s.op \in Releases /\ a = assignment[s.id] THEN None
                           ELSE armHold[a]
BY DEF HoldAfter, Grabs, Releases

LEMMA InHandGrows ==
  ASSUME job \in Jobs, PlainJob, NEW D, NEW k \in Places, InHand(k) => job.graph[k].deps \subseteq D,
         \A i : InHand(i) /\ IdAt(i) \in D => \E t : Taking(t) /\ SameThing(t, i) /\ IdAt(t) \in D
  PROVE  \A i : InHand(i) /\ IdAt(i) \in D \cup {IdAt(k)} =>
           \E t : Taking(t) /\ SameThing(t, i) /\ IdAt(t) \in D
<1> SUFFICES ASSUME NEW i, InHand(i), IdAt(i) \in D \cup {IdAt(k)}, IdAt(i) \notin D
             PROVE  \E t : Taking(t) /\ SameThing(t, i) /\ IdAt(t) \in D
  OBVIOUS
<1>1. i = k
  BY JobShape DEF InHand, IdAt
<1>2. PICK t : (Taking(t) \/ InHand(t)) /\ SameThing(t, i) /\ IdAt(t) \in job.graph[i].deps
  BY PlainMeans
<1>3. IdAt(t) \in D
  BY <1>1, <1>2
<1>4. CASE Taking(t)
  BY <1>2, <1>3, <1>4
<1>5. CASE InHand(t)
  <2>1. PICK u : Taking(u) /\ SameThing(u, t) /\ IdAt(u) \in D
    BY <1>3, <1>5
  <2> QED
    BY <1>2, <2>1 DEF SameThing
<1> QED
  BY <1>2, <1>4, <1>5

(* A wave is filled with what the grippers can take: see HandAllows.         *)
LEMMA GripsPlaced ==
  ASSUME WaveInv, PlanKept, PlainJob, OneArmEach, GripsKnown, Place
  PROVE  GripsKnown'
<1> DEFINE q == First(queue)
           s == job.graph[q]
           x == Placed(s, "work")
<1>1. /\ job \in Jobs /\ job' = job /\ WavesTyped /\ WavesGood
      /\ stage = "place" /\ stage' = "place" /\ waves' = waves /\ assignment' = assignment
      /\ queue' = queue \ {q} /\ queue # {} /\ queue \subseteq Mandatory
      /\ \A i \in queue : Manipulates(job.graph[i]) /\ job.graph[i].id \notin done
  BY DEF Place, WaveInv, WavesGood, WavesFilled
<1>2. q \in queue /\ q \in Places /\ s.deps \subseteq done /\ IdAt(q) = s.id /\ IdAt(q) \notin done
  <2>1. queue \in SUBSET Nat
    BY <1>1, WorthReady, JobShape
  <2>2. q \in queue
    BY <1>1, <2>1, FirstIn
  <2> QED
    BY <1>1, <2>2, WorthReady DEF GripsKnown, IdAt
<1>3. \A i : Members(i)' = Members(i)
  BY <1>1 DEF Members
<1>4. /\ \A k : IdAt(k)' = IdAt(k) /\ ArmAt(k)' = ArmAt(k) /\ (Taking(k)' <=> Taking(k))
                /\ (Leaving(k)' <=> Leaving(k)) /\ (InHand(k)' <=> InHand(k))
      /\ \A k, d : SameThing(k, d)' <=> SameThing(k, d)
  BY <1>1, SameGrip
<1>5. CASE UNCHANGED <<wave, done, armHold>>
  <2>1. WorkIds(wave)' = WorkIds(wave)
    BY <1>5 DEF Work, WorkIds
  <2> HIDE DEF q
  <2> QED
    BY <1>1, <1>3, <1>4, <1>5, <2>1 DEF GripsKnown
<1>6. CASE ~UNCHANGED <<wave, done, armHold>>
  <2>1. /\ FreeIn(s, wave) /\ HandAllows(s)
        /\ wave' = wave \cup {x} /\ done' = done \cup {IdAt(q)} /\ armHold' = HoldAfter(s)
    BY <1>6 DEF Place, IdAt
  <2>2. x.id = IdAt(q) /\ x.kind = "work"
    BY DEF Placed, IdAt
  <2>3. \A k : Taking(k) \/ Leaving(k) =>
          /\ resources[IdAt(k)] = {ArmAt(k)} /\ ArmAt(k) \in Arms /\ job.graph[k].obj # None /\ k \in Places
          /\ job.graph[k].op \notin BothArms
          /\ \A d : (Taking(d) \/ Leaving(d)) /\ SameThing(k, d) => ArmAt(k) = ArmAt(d)
    <3>1. \A k : Taking(k) \/ Leaving(k) => ArmAt(k) \in Arms
      BY <1>1, PlainMeans, ArmsOnline DEF WaveInv, ArmsGiven, ArmAt, IdAt
    <3> QED
      BY <1>1, <3>1, PlainMeans DEF OneArmEach
  <2>4. \A a \in Arms : armHold'[a] = IF Taking(q) /\ a = ArmAt(q) THEN s.obj
                                  ELSE IF Leaving(q) /\ a = ArmAt(q) THEN None ELSE armHold[a]
    <3>1. s.op # "HANDOFF"
      BY <1>1, <1>2, PlainMeans
    <3> HIDE DEF s
    <3>2. \A a \in Arms : HoldAfter(s)[a] =
            IF s.op \in Grabs /\ a = assignment[s.id] THEN s.obj
            ELSE IF s.op \in Releases /\ a = assignment[s.id] THEN None ELSE armHold[a]
      BY <3>1, HoldMeans
    <3>3. (Taking(q) <=> s.op \in Grabs) /\ (Leaving(q) <=> s.op \in Releases) /\ ArmAt(q) = assignment[s.id]
      BY <1>2 DEF s, Taking, Leaving, ArmAt
    <3> QED
      BY <2>1, <3>2, <3>3
  <2>5. Taking(q) => armHold[ArmAt(q)] = None
    BY <2>1, <2>3 DEF HandAllows, Taking, ArmAt, IdAt
  <2>6. \A k \in Places : IdAt(k) \in done' => IdAt(k) \in done \/ k = q
    BY <1>1, <1>2, <2>1, JobShape DEF IdAt
  <2>7. \A m \in Work(wave) : m \in Planned
    BY DEF Planned, Work, WorkIds
  <2>8. \A m \in Work(wave) : m.parts \cap resources[IdAt(q)] = {} /\ m.parts = resources[m.id]
    BY <1>2, <2>1, <2>7 DEF FreeIn, Work, WorkIds, PlanKept
  <2> HIDE DEF q, s, x
  <2>9. \A i : InHand(i) /\ IdAt(i) \in done' => \E t : Taking(t) /\ SameThing(t, i) /\ IdAt(t) \in done
    BY <1>1, <1>2, <2>1, InHandGrows DEF GripsKnown, s
  <2>10. ASSUME NEW k, Taking(k), IdAt(k) \in done'
         PROVE  \/ armHold'[ArmAt(k)] = job.graph[k].obj
                \/ \E d : Leaving(d) /\ SameThing(k, d) /\ IdAt(d) \in done'
    <3>1. CASE k = q
      BY <2>3, <2>4, <2>10, <3>1 DEF s
    <3>2. CASE k # q
      <4>1. IdAt(k) \in done
        BY <2>3, <2>6, <2>10, <3>2
      <4>2. CASE \E d : Leaving(d) /\ SameThing(k, d) /\ IdAt(d) \in done
        BY <2>1, <4>2
      <4>3. CASE armHold[ArmAt(k)] = job.graph[k].obj
        <5>1. CASE Leaving(q) /\ ArmAt(q) = ArmAt(k)
          <6>1. InHand(q) /\ IdAt(q) \in done'
            BY <1>1, <2>1, <5>1, PlainMeans
          <6>2. PICK t : Taking(t) /\ SameThing(t, q) /\ IdAt(t) \in done
            BY <2>9, <6>1
          <6>3. CASE armHold[ArmAt(t)] = job.graph[t].obj
            <7>1. ArmAt(t) = ArmAt(k)
              BY <2>3, <5>1, <6>2
            <7>2. SameThing(k, q)
              BY <4>3, <6>2, <6>3, <7>1 DEF SameThing
            <7> QED
              BY <5>1, <6>1, <7>2
          <6>4. CASE \E d : Leaving(d) /\ SameThing(t, d) /\ IdAt(d) \in done
            <7>1. PICK d : Leaving(d) /\ SameThing(t, d) /\ IdAt(d) \in done
              BY <6>4
            <7>2. SameThing(d, q)
              BY <6>2, <7>1 DEF SameThing
            <7>3. d = q
              BY <1>1, <5>1, <7>1, <7>2, PlainMeans
            <7> QED
              BY <1>2, <7>1, <7>3
          <6> QED
            BY <6>2, <6>3, <6>4 DEF GripsKnown
        <5>2. CASE ~(Leaving(q) /\ ArmAt(q) = ArmAt(k))
          <6>1. ~(Taking(q) /\ ArmAt(q) = ArmAt(k))
            BY <2>3, <2>5, <2>10, <4>3
          <6> QED
            BY <2>3, <2>4, <2>10, <4>3, <5>2, <6>1
        <5> QED
          BY <5>1, <5>2
      <4> QED
        BY <2>10, <4>1, <4>2, <4>3 DEF GripsKnown
    <3> QED
      BY <3>1, <3>2
  <2>11. ASSUME NEW k, NEW n, Taking(k), Taking(n), k # n, ArmAt(k) = ArmAt(n),
                IdAt(k) \in done', IdAt(n) \in WorkIds(wave')
         PROVE  \E d : Leaving(d) /\ SameThing(k, d) /\ \E i \in DOMAIN waves : IdAt(d) \in Members(i)
    <3>1. IdAt(n) \in WorkIds(wave) \/ n = q
      <4>1. PICK m \in wave' : m.kind = "work" /\ m.id = IdAt(n)
        BY <2>11 DEF Work, WorkIds
      <4>2. CASE m = x
        BY <1>1, <1>2, <2>2, <2>3, <2>11, <4>1, <4>2, JobShape DEF IdAt
      <4>3. CASE m \in wave
        BY <4>1, <4>3 DEF Work, WorkIds
      <4> QED
        BY <2>1, <4>1, <4>2, <4>3
    <3>2. CASE k # q /\ n # q
      <4>1. IdAt(k) \in done
        BY <2>3, <2>6, <2>11, <3>2
      <4> QED
        BY <2>11, <3>1, <3>2, <4>1 DEF GripsKnown
    <3>3. CASE k = q
      <4>1. PICK m \in Work(wave) : m.id = IdAt(n)
        BY <2>11, <3>1, <3>3 DEF WorkIds
      <4> QED
        BY <2>3, <2>8, <2>11, <3>3, <4>1
    <3>4. CASE n = q
      <4>1. IdAt(k) \in done /\ armHold[ArmAt(k)] = None /\ job.graph[k].obj # None
        BY <2>3, <2>5, <2>6, <2>11, <3>4
      <4>2. PICK d : Leaving(d) /\ SameThing(k, d) /\ IdAt(d) \in done
        BY <2>11, <4>1 DEF GripsKnown
      <4>3. PICK m \in Planned : m.id = IdAt(d)
        BY <4>2 DEF PlanKept
      <4>4. m \notin Work(wave)
        <5>1. resources[IdAt(d)] = {ArmAt(d)} /\ ArmAt(d) = ArmAt(q) /\ resources[IdAt(q)] = {ArmAt(q)}
          BY <2>3, <2>11, <3>4, <4>2
        <5> QED
          BY <2>8, <4>3, <5>1
      <4>5. PICK i \in DOMAIN waves : m \in waves[i]
        BY <1>1, <4>3, <4>4, WorkMeans DEF Work, WorkIds
      <4>6. IdAt(d) \in Members(i)
        BY <1>1, <4>3, <4>5, WorkMeans DEF Work, WorkIds
      <4> QED
        BY <4>2, <4>6
    <3> QED
      BY <3>2, <3>3, <3>4
  <2>12. \A i \in queue' : job.graph[i].deps \subseteq done'
    BY <1>1, <2>1 DEF GripsKnown
  <2>13. \A i : InHand(i) /\ IdAt(i) \in done' => \E t : Taking(t) /\ SameThing(t, i) /\ IdAt(t) \in done'
    BY <2>1, <2>9
  <2>14. WorkIds(wave)' = WorkIds(wave')
    BY DEF Work, WorkIds
  <2> QED
    BY <1>1, <1>3, <1>4, <2>10, <2>11, <2>12, <2>13, <2>14 DEF GripsKnown
<1> QED
  BY <1>5, <1>6

LEMMA GripsStep ==
  ASSUME WaveInv, PlanKept, PlainJob, OneArmEach, ~forced /\ Planning => GripsKnown,
         [ScheduleNext]_scheduling, ~forced', Planning'
  PROVE  GripsKnown'
<1>1. job \in Jobs /\ job' = job /\ WavesTyped /\ WavesGood
  BY ArmsStep DEF WaveInv, WavesGood
<1>2. /\ \A k : IdAt(k)' = IdAt(k) /\ (Taking(k)' <=> Taking(k))
                /\ (Leaving(k)' <=> Leaving(k)) /\ (InHand(k)' <=> InHand(k))
      /\ \A k, d : SameThing(k, d)' <=> SameThing(k, d)
      /\ assignment' = assignment => \A k : ArmAt(k)' = ArmAt(k)
  BY <1>1, SameGrip
<1>3. CASE AssignChain \/ TakeResources
  <2>1. stage = "assign" /\ stage' # "place" /\ UNCHANGED <<done, wave>>
    <3>1. CASE AssignChain
      BY <3>1 DEF AssignChain
    <3>2. CASE TakeResources
      BY <3>2 DEF TakeResources, RaiseError, building
    <3> QED
      BY <1>3, <3>1, <3>2
  <2>2. done = {} /\ wave = {}
    BY <1>1, <2>1 DEF PlanKept, WavesGood, WavesFilled
  <2>3. done' = {}
    BY <2>1, <2>2
  <2> QED
    BY <2>1, <2>3 DEF GripsKnown
<1>4. CASE Place
  <2>1. Planning /\ ~forced
    BY <1>4 DEF Place, Planning
  <2> QED
    BY <1>4, <2>1, GripsPlaced
<1>5. CASE EndWave
  <2>1. /\ Planning /\ ~forced /\ stage' # "place" /\ UNCHANGED <<done, armHold, assignment>> /\ wave' = {}
    BY <1>5 DEF EndWave, Planning
  <2>2. GripsKnown /\ WorkIds(wave)' = {}
    BY <2>1 DEF Work, WorkIds
  <2> QED
    BY <1>1, <1>2, <2>1, <2>2 DEF GripsKnown
<1>6. CASE ForceWave
  BY <1>6 DEF ForceWave
<1>7. CASE UNCHANGED scheduling
  <2>1. /\ Planning /\ ~forced /\ UNCHANGED <<stage, queue, done, armHold, wave, waves, assignment>>
    BY <1>7 DEF scheduling, building, Planning
  <2>2. WorkIds(wave)' = WorkIds(wave) /\ \A i : Members(i)' = Members(i)
    BY <2>1 DEF Members, WorkIds, Work
  <2> QED
    BY <1>1, <1>2, <2>1, <2>2 DEF GripsKnown
<1>8. CASE StartWave /\ UNCHANGED <<waves, done>>
  <2>1. /\ stage = "ready" /\ stage' \in {"ready", "place", "raised"} /\ UNCHANGED <<wave, armHold, assignment, forced>>
        /\ stage' = "place" => queue' = Ready
    BY <1>8 DEF StartWave, RaiseError, building
  <2>2. WorkIds(wave)' = WorkIds(wave) /\ \A i : Members(i)' = Members(i)
    BY <1>8, <2>1 DEF Members, WorkIds, Work
  <2>3. \A i \in Ready : job.graph[i].deps \subseteq done
    BY DEF Ready
  <2>4. GripsKnown
    BY <2>1 DEF Planning
  <2> QED
    BY <1>1, <1>2, <1>8, <2>1, <2>2, <2>3, <2>4 DEF GripsKnown
<1>9. CASE StartWave /\ ~UNCHANGED <<waves, done>>
  <2> DEFINE b == First(Barriers)
  <2>1. /\ stage = "ready" /\ stage' = "ready" /\ UNCHANGED <<wave, armHold, assignment, forced>>
        /\ Barriers # {} /\ done' = done \cup {job.graph[b].id} /\ wave = {}
    <3>1. ~(done # IdsOf(Mandatory) /\ (Ready = {} \/ Len(waves) >= Cardinality(Mandatory) + 5))
      BY <1>9 DEF StartWave, RaiseError, building
    <3> QED
      BY <1>1, <1>9, <3>1 DEF StartWave, WavesGood, WavesFilled
  <2>2. b \in Barriers
    <3>1. Barriers \in SUBSET Nat
      BY <1>1, WorthReady, JobShape DEF Barriers
    <3> QED
      BY <2>1, <3>1, FirstIn
  <2>3. b \in Places /\ job.graph[b].deps \subseteq done /\ ~Manipulates(job.graph[b])
    BY <1>1, <2>2, WorthReady DEF Barriers, Ready
  <2>4. done' = done \cup {IdAt(b)} /\ ~Taking(b)
    BY <1>1, <2>1, <2>3, PlainMeans DEF IdAt
  <2> HIDE DEF b
  <2>5. GripsKnown
    BY <2>1 DEF Planning
  <2>6. \A i : InHand(i) /\ IdAt(i) \in done' => \E t : Taking(t) /\ SameThing(t, i) /\ IdAt(t) \in done
    BY <1>1, <2>3, <2>4, <2>5, InHandGrows DEF GripsKnown
  <2>7. \A k : Taking(k) /\ IdAt(k) \in done' => IdAt(k) \in done
    BY <1>1, <2>3, <2>4, JobShape DEF IdAt, Taking
  <2>8. WorkIds(wave)' = {}
    BY <2>1 DEF Work, WorkIds
  <2> QED
    BY <1>1, <1>2, <2>1, <2>4, <2>5, <2>6, <2>7, <2>8 DEF GripsKnown
<1>10. CASE ~AssignChain /\ ~TakeResources /\ ~Waving /\ ScheduleNext
  <2>1. ~Planning'
    BY <1>10 DEF ScheduleNext, Waving, Planning, BeginFlourishes, PlaceFlourish, BeginExtraWave, PlaceExtra, EndExtraWave,
         FillSlack, BeginExpression, PlaceGroup, EndExpression, Annotate, Execute
  <2> QED
    BY <2>1
<1> QED
  BY <1>3, <1>4, <1>5, <1>6, <1>7, <1>8, <1>9, <1>10 DEF Waving

LEMMA LeftStep ==
  ASSUME WaveInv, PlanKept, PlainJob, OneArmEach, ~forced /\ Planning => GripsKnown,
         ~forced /\ ~HasExtraWave => LeftBefore, [ScheduleNext]_scheduling, ~forced', ~HasExtraWave'
  PROVE  LeftBefore'
<1>1. job \in Jobs /\ job' = job /\ WavesTyped /\ WavesGood /\ WavesTyped'
  BY ArmsStep, WavesStep DEF WaveInv, WavesGood
<1>2. /\ \A k : IdAt(k)' = IdAt(k) /\ (Taking(k)' <=> Taking(k)) /\ (Leaving(k)' <=> Leaving(k))
      /\ \A k, d : SameThing(k, d)' <=> SameThing(k, d)
      /\ assignment' = assignment => \A k : ArmAt(k)' = ArmAt(k)
  BY <1>1, SameGrip
<1>3. ~HasExtraWave
  BY WorkKept, WorkAdded DEF Waving
<1>4. ~forced
  <2>1. CASE AssignChain
    BY <2>1 DEF AssignChain
  <2>2. CASE TakeResources
    BY <2>2 DEF TakeResources, RaiseError, building
  <2>3. CASE UNCHANGED scheduling
    BY <2>3 DEF scheduling, building
  <2>4. CASE StartWave
    BY <2>4 DEF StartWave, RaiseError, building
  <2>5. CASE Place \/ EndWave \/ ForceWave
    BY <2>5 DEF Place, EndWave, ForceWave
  <2>6. CASE BeginFlourishes \/ PlaceFlourish \/ BeginExtraWave \/ PlaceExtra \/ EndExtraWave
    BY <2>6 DEF BeginFlourishes, PlaceFlourish, BeginExtraWave, PlaceExtra, EndExtraWave
  <2>7. CASE FillSlack \/ BeginExpression \/ PlaceGroup \/ EndExpression \/ Annotate \/ Execute
    BY <2>7 DEF FillSlack, BeginExpression, PlaceGroup, EndExpression, Annotate, Execute, building
  <2> QED
    BY <2>1, <2>2, <2>3, <2>4, <2>5, <2>6, <2>7 DEF ScheduleNext
<1>5. \A i \in DOMAIN waves' : Members(i)' = WorkIds(waves'[i])
  <2>1. DOMAIN waves' = 1..Len(waves')
    BY <1>1 DEF WavesTyped
  <2>2. \A i \in DOMAIN waves' : i # 0
    BY <2>1
  <2> QED
    BY <2>2 DEF Members, Work, WorkIds
<1>6. LeftBefore
  BY <1>3, <1>4
<1>7. CASE stage = "assign"
  <2>1. Planned = {} /\ UNCHANGED waves
    <3>1. CASE AssignChain
      BY <1>7, <3>1 DEF AssignChain, PlanKept
    <3>2. CASE TakeResources
      BY <1>7, <3>2 DEF TakeResources, RaiseError, building, PlanKept
    <3>3. CASE Later
      <4>1. UNCHANGED scheduling
        BY <1>7, <3>3 DEF Later, StartWave, Place, EndWave, ForceWave, BeginFlourishes, PlaceFlourish,
             BeginExtraWave, PlaceExtra, EndExtraWave, FillSlack, BeginExpression, PlaceGroup, EndExpression,
             Annotate, Execute
      <4> QED
        BY <1>7, <4>1 DEF scheduling, building, PlanKept
    <3> QED
      BY <3>1, <3>2, <3>3 DEF ScheduleNext, Later
  <2>2. \A i \in DOMAIN waves : Work(waves[i]) = {}
    BY <1>1, <2>1, WorkMeans DEF Work, WorkIds
  <2>3. \A i \in DOMAIN waves' : Members(i)' = {}
    BY <1>5, <2>1, <2>2 DEF WorkIds
  <2> QED
    BY <2>3 DEF LeftBefore
<1>8. CASE stage # "assign" /\ DOMAIN waves' = DOMAIN waves
                            /\ \A i \in DOMAIN waves : Work(waves'[i]) = Work(waves[i])
  <2>1. \A i \in DOMAIN waves : Members(i)' = Members(i)
    <3>1. \A i \in DOMAIN waves : WorkIds(waves'[i]) = WorkIds(waves[i])
      BY <1>8 DEF WorkIds
    <3> QED
      BY <1>1, <1>5, <1>8, <3>1, WorkMeans
  <2>2. assignment' = assignment
    <3>1. ~AssignChain /\ ~TakeResources
      BY <1>8 DEF AssignChain, TakeResources
    <3> QED
      BY <3>1, LaterKeeps DEF ScheduleNext, Later
  <2>3. \A j \in DOMAIN waves : \A h \in 1..(j - 1) : h \in DOMAIN waves
    BY <1>1, WorkMeans
  <2> QED
    BY <1>2, <1>6, <1>8, <2>1, <2>2, <2>3 DEF LeftBefore
<1>9. CASE Waving
  <2>1. UNCHANGED assignment /\ stage # "assign"
    BY <1>9, WorkAdded
  <2>2. CASE UNCHANGED waves
    BY <1>8, <2>1, <2>2
  <2>3. CASE ~UNCHANGED waves
    <3>1. ~ForceWave
      BY DEF ForceWave
    <3>2. \E w : /\ waves' = Append(waves, w)
                 /\ \A k, n : Taking(k) /\ Taking(n) /\ ArmAt(k) = ArmAt(n) /\ IdAt(n) \in WorkIds(w)
                       /\ (\E i \in DOMAIN waves : IdAt(k) \in Members(i)) =>
                      \E d : Leaving(d) /\ SameThing(k, d) /\ \E i \in DOMAIN waves : IdAt(d) \in Members(i)
      <4>1. CASE EndWave
        <5>1. waves' = Append(waves, wave) /\ Planning
          BY <4>1 DEF EndWave, Planning
        <5>2. ASSUME NEW k, NEW n, Taking(k), Taking(n), ArmAt(k) = ArmAt(n), IdAt(n) \in WorkIds(wave),
                     NEW i \in DOMAIN waves, IdAt(k) \in Members(i)
              PROVE  k # n /\ IdAt(k) \in done
          <6>1. PICK m \in waves[i] : m.id = IdAt(k)
            BY <1>1, <5>2, WorkMeans DEF Work, WorkIds
          <6>2. PICK p \in wave : p.id = IdAt(n)
            BY <5>2 DEF Work, WorkIds
          <6>3. m.id # p.id
            BY <1>1, <6>1, <6>2 DEF WavesGood, NamesApart
          <6>4. m.id \in UsedIds
            BY <6>1, NamesMean DEF UsedIds
          <6> QED
            BY <1>1, <5>1, <6>1, <6>2, <6>3, <6>4 DEF WavesGood, NamesUsed
        <5>3. GripsKnown
          BY <1>4, <5>1
        <5> QED
          BY <5>1, <5>2, <5>3 DEF GripsKnown
      <4>2. CASE StartWave
        <5> DEFINE b == First(Barriers)
                   x == Placed(job.graph[b], "work")
        <5>1. Barriers # {} /\ waves' = Append(waves, {x})
          BY <2>3, <4>2 DEF StartWave, RaiseError, building
        <5>2. b \in Barriers
          <6>1. Barriers \in SUBSET Nat
            BY <1>1, WorthReady, JobShape DEF Barriers
          <6> QED
            BY <5>1, <6>1, FirstIn
        <5>3. b \in Places /\ ~Manipulates(job.graph[b])
          BY <1>1, <5>2, WorthReady DEF Barriers
        <5>4. ~Taking(b) /\ x.id = IdAt(b)
          BY <1>1, <5>3, PlainMeans DEF Placed, IdAt
        <5> HIDE DEF x, b
        <5>5. \A n : Taking(n) => IdAt(n) \notin WorkIds({x})
          BY <1>1, <5>3, <5>4, JobShape DEF IdAt, Taking, Work, WorkIds
        <5> QED
          BY <5>1, <5>5
      <4>3. CASE Place
        BY <2>3, <4>3 DEF Place
      <4> QED
        BY <1>9, <3>1, <4>1, <4>2, <4>3 DEF Waving
    <3>3. PICK w : /\ waves' = Append(waves, w)
                   /\ \A k, n : Taking(k) /\ Taking(n) /\ ArmAt(k) = ArmAt(n) /\ IdAt(n) \in WorkIds(w)
                         /\ (\E i \in DOMAIN waves : IdAt(k) \in Members(i)) =>
                        \E d : Leaving(d) /\ SameThing(k, d) /\ \E i \in DOMAIN waves : IdAt(d) \in Members(i)
      BY <3>2
    <3>4. /\ DOMAIN waves' = 1..(Len(waves) + 1) /\ DOMAIN waves = 1..Len(waves) /\ Len(waves) \in Nat
          /\ waves'[Len(waves) + 1] = w
          /\ \A i \in DOMAIN waves : waves'[i] = waves[i]
      BY <1>1, <3>3, Lengthened
    <3> PICK last : last = Len(waves) + 1
      OBVIOUS
    <3>5. /\ \A i \in DOMAIN waves : Members(i)' = Members(i)
          /\ Members(last)' = WorkIds(w)
      <4>1. \A i \in DOMAIN waves : i \in DOMAIN waves'
        BY <3>4
      <4>2. Len(waves) + 1 \in DOMAIN waves'
        BY <3>4
      <4>3. Members(last)' = WorkIds(w)
        BY <1>5, <3>4, <4>2
      <4> QED
        BY <1>1, <1>5, <3>4, <4>1, <4>3, WorkMeans
    <3>6. ASSUME NEW i \in DOMAIN waves', NEW j \in DOMAIN waves', i < j, NEW k, NEW n, Taking(k), Taking(n),
                 ArmAt(k) = ArmAt(n), IdAt(k) \in Members(i)', IdAt(n) \in Members(j)'
          PROVE  \E d : Leaving(d) /\ SameThing(k, d) /\ \E h \in 1..(j - 1) : IdAt(d) \in Members(h)'
      <4>1. i \in DOMAIN waves
        BY <3>4, <3>6
      <4>2. CASE j \in DOMAIN waves
        <5>1. PICK d : Leaving(d) /\ SameThing(k, d) /\ \E h \in 1..(j - 1) : IdAt(d) \in Members(h)
          BY <1>6, <3>5, <3>6, <4>1, <4>2 DEF LeftBefore
        <5>2. \A h \in 1..(j - 1) : h \in DOMAIN waves
          BY <3>4, <4>2
        <5> QED
          BY <3>5, <5>1, <5>2
      <4>3. CASE j = Len(waves) + 1
        <5>1. PICK d : Leaving(d) /\ SameThing(k, d) /\ \E h \in DOMAIN waves : IdAt(d) \in Members(h)
          <6>1. IdAt(n) \in WorkIds(w) /\ IdAt(k) \in Members(i)
            BY <3>5, <3>6, <4>1, <4>3
          <6> QED
            BY <3>3, <3>6, <4>1, <6>1
        <5>2. \A h \in DOMAIN waves : h \in 1..(j - 1)
          BY <3>4, <4>3
        <5> QED
          BY <3>5, <5>1, <5>2
      <4> QED
        BY <3>4, <4>2, <4>3
    <3> QED
      BY <1>2, <2>1, <3>6 DEF LeftBefore
  <2> QED
    BY <2>2, <2>3
<1>10. CASE ~Waving /\ stage # "assign"
  <2>1. DOMAIN waves' = DOMAIN waves /\ \A i \in DOMAIN waves : Work(waves'[i]) = Work(waves[i])
    BY <1>10, WorkKept DEF Waving
  <2> QED
    BY <1>8, <1>10, <2>1
<1> QED
  BY <1>7, <1>9, <1>10

LEMMA HandMeans ==
  ASSUME NEW s, s.op # "HANDOFF", NEW a \in Arms
  PROVE  HandsAfter(s)[a] = IF s.op \in Grabs /\ a = assignment[s.id] THEN hands[a] \cup {s.obj}
                            ELSE IF s.op \in Releases /\ a = assignment[s.id] THEN hands[a] \ {s.obj}
                            ELSE hands[a]
BY DEF HandsAfter, Grabs, Releases

(* What is in a hand has been picked by it, and not been put down.           *)
LEMMA HandsStep ==
  ASSUME WaveInv, PlanKept, NeedsKnown, PlainJob, OneArmEach, HandsKnown,
         stage # "run" => hands = job.hands, [ScheduleNext]_scheduling
  PROVE  HandsKnown'
<1>1. job \in Jobs /\ job' = job /\ ArmsGiven /\ Places' = Places
  <2>1. job \in Jobs /\ job' = job /\ ArmsGiven
    BY ArmsStep DEF WaveInv
  <2> QED
    BY <2>1, SameJob
<1>2. /\ \A k : IdAt(k)' = IdAt(k) /\ (Taking(k)' <=> Taking(k)) /\ (Leaving(k)' <=> Leaving(k))
                /\ (InHand(k)' <=> InHand(k))
      /\ \A k, d : SameThing(k, d)' <=> SameThing(k, d)
      /\ assignment' = assignment => \A k : ArmAt(k)' = ArmAt(k)
  BY <1>1, SameGrip
<1>3. CASE stage # "run"
  <2>1. executed = {} /\ hands = job.hands
    BY <1>3 DEF WaveInv, RunInOrder
  <2>2. executed' = {} /\ hands' = hands
    <3>1. stage' # "run" => hands' = hands
      BY <1>1, <2>1, <1>3, NeedsKnownStep
    <3>2. CASE Annotate
      BY <2>1, <3>2 DEF Annotate
    <3>3. CASE ~Annotate
      <4>1. stage' # "run" \/ ~(AssignChain \/ Place \/ EndWave \/ ForceWave)
        BY DEF AssignChain, Place, EndWave, ForceWave
      <4>2. stage' # "run" \/ ~(TakeResources \/ StartWave)
        BY <1>3 DEF TakeResources, StartWave, RaiseError
      <4>3. stage' # "run" \/ ~(BeginFlourishes \/ PlaceFlourish \/ BeginExtraWave \/ PlaceExtra \/ EndExtraWave)
        BY DEF BeginFlourishes, PlaceFlourish, BeginExtraWave, PlaceExtra, EndExtraWave
      <4>4. stage' # "run" \/ ~(FillSlack \/ BeginExpression \/ PlaceGroup \/ EndExpression)
        BY DEF FillSlack, BeginExpression, PlaceGroup, EndExpression
      <4>5. stage' # "run" \/ ~UNCHANGED scheduling
        BY <1>3 DEF scheduling
      <4>6. stage' # "run"
        BY <1>3, <3>3, <4>1, <4>2, <4>3, <4>4, <4>5 DEF ScheduleNext, Execute
      <4> QED
        BY <3>1, <4>6, WaveInvNext DEF WaveInv, RunInOrder
    <3> QED
      BY <3>2, <3>3
  <2>3. \A a \in Arms : hands[a] = {}
    BY <2>1 DEF PlainJob
  <2> QED
    BY <1>1, <2>1, <2>2, <2>3 DEF HandsKnown
<1>4. CASE stage = "run" /\ UNCHANGED <<executed, hands, assignment>>
  BY <1>1, <1>2, <1>4 DEF HandsKnown
<1>5. CASE stage = "run" /\ ~UNCHANGED <<executed, hands, assignment>>
  <2>1. Execute
    BY <1>5 DEF ScheduleNext, scheduling, building, running, AssignChain, TakeResources, StartWave, Place, EndWave, ForceWave,
         BeginFlourishes, PlaceFlourish, BeginExtraWave, PlaceExtra, EndExtraWave,
         FillSlack, BeginExpression, PlaceGroup, EndExpression, Annotate
  <2>2. PICK id \in Startable :
          /\ executed' = executed \cup {id}
          /\ hands' = IF \E s \in PlanSteps : s.id = id THEN HandsAfter(StepOf(id)) ELSE hands
    BY <2>1 DEF Execute
  <2>3. id \notin executed /\ id \in DOMAIN needs /\ needs[id] \subseteq executed
    BY <2>2 DEF Startable
  <2>4. assignment' = assignment
    BY <2>1 DEF Execute, building
  <2>5. CASE ~\E s \in PlanSteps : s.id = id
    <3>1. hands' = hands
      BY <2>2, <2>5
    <3>2. \A k \in Places : IdAt(k) \in executed' => IdAt(k) \in executed
      BY <1>1, <2>2, <2>5, JobShape DEF IdAt
    <3>3. executed \subseteq executed'
      BY <2>2
    <3>4. \A k : Taking(k) \/ Leaving(k) \/ InHand(k) => k \in Places
      BY DEF Taking, Leaving, InHand
    <3> QED
      BY <1>1, <1>2, <2>4, <3>1, <3>2, <3>3, <3>4 DEF HandsKnown
  <2>6. CASE \E s \in PlanSteps : s.id = id
    <3>1. PICK i \in Places : IdAt(i) = id
      BY <1>1, <2>6, JobShape DEF IdAt
    <3> DEFINE s == job.graph[i]
    <3>2. s.id = id /\ s.op # "HANDOFF" /\ hands' = HandsAfter(s) /\ assignment[s.id] = ArmAt(i)
      BY <1>1, <2>2, <2>6, <3>1, JobShape, PlainMeans DEF IdAt, ArmAt
    <3>3. /\ Taking(i) <=> s.op \in Grabs
          /\ Leaving(i) <=> s.op \in Releases
      BY DEF Taking, Leaving
    <3> HIDE DEF s
    <3>4. \A a \in Arms : hands'[a] = IF Taking(i) /\ a = ArmAt(i) THEN hands[a] \cup {s.obj}
                                     ELSE IF Leaving(i) /\ a = ArmAt(i) THEN hands[a] \ {s.obj} ELSE hands[a]
      <4>1. \A a \in Arms : HandsAfter(s)[a] =
              IF s.op \in Grabs /\ a = assignment[s.id] THEN hands[a] \cup {s.obj}
              ELSE IF s.op \in Releases /\ a = assignment[s.id] THEN hands[a] \ {s.obj}
              ELSE hands[a]
        BY <3>2, HandMeans
      <4> QED
        BY <3>2, <3>3, <4>1
    <3>6. \A k : Taking(k) \/ Leaving(k) \/ InHand(k) => k \in Places
      BY DEF Taking, Leaving, InHand
    <3>7. \A k \in Places : IdAt(k) \in executed' => IdAt(k) \in executed \/ k = i
      BY <1>1, <2>2, <3>1, JobShape DEF IdAt
    <3>8. InHand(i) => job.graph[i].deps \subseteq executed
      <4>1. ASSUME InHand(i) PROVE job.graph[i].deps \cap Dropped = {}
        BY <1>1, <4>1, PlainMeans DEF Dropped, PlanKept, IdsOf
      <4> QED
        BY <1>5, <2>3, <3>1, <4>1 DEF NeedsKnown
    <3>9. \A k : InHand(k) /\ IdAt(k) \in executed' => \E t : Taking(t) /\ SameThing(t, k) /\ IdAt(t) \in executed
      BY <1>1, <2>2, <3>1, <3>8, InHandGrows DEF HandsKnown
    <3>10. ASSUME NEW a \in Arms, NEW o \in hands'[a]
           PROVE  /\ \E k : Taking(k) /\ job.graph[k].obj = o /\ ArmAt(k) = a /\ IdAt(k) \in executed'
                  /\ \A d : Leaving(d) /\ job.graph[d].obj = o => IdAt(d) \notin executed'
      <4>1. CASE o \in hands[a]
        <5>1. PICK k : Taking(k) /\ job.graph[k].obj = o /\ ArmAt(k) = a /\ IdAt(k) \in executed
          BY <4>1 DEF HandsKnown
        <5>2. ASSUME NEW d, Leaving(d), job.graph[d].obj = o, IdAt(d) \in executed' PROVE FALSE
          <6>1. d = i
            BY <3>6, <3>7, <4>1, <5>2 DEF HandsKnown
          <6>2. ArmAt(i) = a /\ ~Taking(i) /\ Leaving(i)
            BY <1>1, <1>5, <5>1, <5>2, <6>1, PlainMeans DEF OneArmEach, SameThing
          <6>3. o = s.obj
            BY <5>2, <6>1 DEF s
          <6> QED
            BY <3>4, <3>10, <6>2, <6>3
        <5> QED
          BY <2>2, <5>1, <5>2
      <4>2. CASE o \notin hands[a]
        <5>1. Taking(i) /\ a = ArmAt(i) /\ o = job.graph[i].obj
          BY <3>4, <3>10, <4>2 DEF s
        <5>2. ASSUME NEW d, Leaving(d), job.graph[d].obj = o, IdAt(d) \in executed' PROVE FALSE
          <6>1. InHand(d)
            BY <1>1, <5>2, PlainMeans
          <6>2. PICK t : Taking(t) /\ SameThing(t, d) /\ IdAt(t) \in executed
            BY <3>9, <5>2, <6>1
          <6>3. SameThing(t, i)
            BY <5>1, <5>2, <6>2 DEF SameThing
          <6>4. t = i
            BY <1>1, <5>1, <6>2, <6>3, PlainMeans
          <6> QED
            BY <2>3, <3>1, <6>2, <6>4
        <5> QED
          BY <2>2, <3>1, <5>1, <5>2
      <4> QED
        BY <4>1, <4>2
    <3>11. \A k : InHand(k) /\ IdAt(k) \in executed' => \E t : Taking(t) /\ SameThing(t, k) /\ IdAt(t) \in executed'
      BY <2>2, <3>9
    <3> QED
      BY <1>1, <1>2, <2>4, <3>10, <3>11 DEF HandsKnown
  <2> QED
    BY <2>5, <2>6
<1> QED
  BY <1>3, <1>4, <1>5

LEMMA GripInvInit == ScheduleInit => GripInv
<1> SUFFICES ASSUME ScheduleInit PROVE GripInv
  OBVIOUS
<1>1. WaveInv
  BY WaveInvInit
<1>2. /\ job \in Jobs /\ stage = "assign" /\ chains = ObjectChains /\ done = {} /\ leftovers = {}
      /\ waves = <<>> /\ wave = {} /\ executed = {} /\ hands = job.hands
  BY <1>1 DEF ScheduleInit, WaveInv
<1>3. DOMAIN waves = {}
  BY <1>2
<1>4. Planned = {}
  BY <1>1, <1>2, <1>3, WorkMeans DEF WaveInv, WavesGood
<1>5. PlanKept /\ NeedsKnown /\ LeftBefore
  BY <1>2, <1>3, <1>4 DEF PlanKept, NeedsKnown, LeftBefore, Planning, Decorating
<1>6. OneArmEach
  BY <1>2, ChainsCover DEF OneArmEach
<1>7. GripsKnown
  BY <1>2 DEF GripsKnown, WorkIds, Work
<1>8. PlainJob => HandsKnown
  <2>1. ASSUME PlainJob PROVE \A a \in Arms : hands[a] = {}
    BY <1>2, <2>1 DEF PlainJob
  <2> QED
    BY <1>2, <2>1 DEF HandsKnown
<1> QED
  BY <1>2, <1>5, <1>6, <1>7, <1>8 DEF GripInv

LEMMA GripInvNext == WaveInv /\ GripInv /\ [ScheduleNext]_scheduling => GripInv'
<1> SUFFICES ASSUME WaveInv, GripInv, [ScheduleNext]_scheduling PROVE GripInv'
  OBVIOUS
<1>1. PlainJob' = PlainJob
  BY ArmsStep, SameGrip DEF WaveInv
<1>2. PlanKept' /\ NeedsKnown' /\ (stage' # "run" => hands' = job'.hands)
  BY PlanKeptStep, NeedsKnownStep DEF GripInv
<1>3. PlainJob => OneArmEach' /\ HandsKnown'
  BY OneArmStep, HandsStep DEF GripInv
<1>4. PlainJob /\ ~forced' /\ Planning' => GripsKnown'
  BY GripsStep DEF GripInv
<1>5. PlainJob /\ ~forced' /\ ~HasExtraWave' => LeftBefore'
  BY LeftStep DEF GripInv
<1> QED
  BY <1>1, <1>2, <1>3, <1>4, <1>5 DEF GripInv

LEMMA GripsHold ==
  ASSUME WaveInv, GripInv
  PROVE  OneObjectPerArm
<1> SUFFICES ASSUME ~forced, ~HasExtraWave, PlainJob PROVE \A a \in Arms : Cardinality(hands[a]) <= 1
  BY DEF OneObjectPerArm, PlainJob
<1>1. /\ job \in Jobs /\ WavesTyped /\ WavesGood /\ PlanKept /\ LeftBefore /\ HandsKnown /\ OneArmEach
      /\ WavesInOrder
  BY OrderHolds DEF WaveInv, WavesGood, GripInv, WavesSound
<1>2. ASSUME NEW a \in Arms, NEW o \in hands[a], NEW u \in hands[a] PROVE o = u
  <2>1. PICK k : Taking(k) /\ job.graph[k].obj = o /\ ArmAt(k) = a /\ IdAt(k) \in executed
    BY <1>1, <1>2 DEF HandsKnown
  <2>2. PICK n : Taking(n) /\ job.graph[n].obj = u /\ ArmAt(n) = a /\ IdAt(n) \in executed
    BY <1>1, <1>2 DEF HandsKnown
  <2>3. stage = "run"
    BY <2>1 DEF WaveInv, RunInOrder
  <2>4. ASSUME NEW t, Taking(t), IdAt(t) \in executed
        PROVE  \E i \in DOMAIN waves : \E m \in Work(waves[i]) : m.id = IdAt(t) /\ m.parts = {ArmAt(t)}
    <3>1. t \in Mandatory
      BY <1>1, <2>4, PlainMeans
    <3>2. IdAt(t) \in done
      BY <1>1, <2>3, <3>1 DEF PlanKept, Planning, IdsOf, IdAt
    <3>3. PICK m \in Planned : m.id = IdAt(t)
      BY <1>1, <3>2 DEF PlanKept
    <3>4. m.parts = {ArmAt(t)}
      BY <1>1, <2>3, <2>4, <3>3 DEF PlanKept, OneArmEach
    <3>5. wave = {}
      BY <1>1, <2>3 DEF WavesGood, WavesFilled
    <3> QED
      BY <1>1, <3>3, <3>4, <3>5, WorkMeans DEF Work
  <2>i. PICK i \in DOMAIN waves : \E m \in Work(waves[i]) : m.id = IdAt(k) /\ m.parts = {ArmAt(k)}
    BY <2>1, <2>4
  <2>j. PICK j \in DOMAIN waves : \E p \in Work(waves[j]) : p.id = IdAt(n) /\ p.parts = {ArmAt(n)}
    BY <2>2, <2>4
  <2>5. PICK m \in Work(waves[i]) : m.id = IdAt(k) /\ m.parts = {ArmAt(k)}
    BY <2>i
  <2>6. PICK p \in Work(waves[j]) : p.id = IdAt(n) /\ p.parts = {ArmAt(n)}
    BY <2>j
  <2>7. IdAt(k) \in Members(i) /\ IdAt(n) \in Members(j)
    BY <1>1, <2>5, <2>6, WorkMeans DEF WorkIds
  <2>8. ASSUME NEW t, NEW v, NEW f \in DOMAIN waves, NEW g \in DOMAIN waves, f < g,
               Taking(t), Taking(v), ArmAt(t) = ArmAt(v), ArmAt(t) = a, job.graph[t].obj \in hands[a],
               IdAt(t) \in Members(f), IdAt(v) \in Members(g), IdAt(v) \in executed
        PROVE  FALSE
    <3>1. PICK d : Leaving(d) /\ SameThing(t, d) /\ \E h \in 1..(g - 1) : IdAt(d) \in Members(h)
      BY <1>1, <2>8 DEF LeftBefore
    <3>2. IdAt(d) \in executed
      BY <1>1, <2>8, <3>1 DEF WavesInOrder
    <3> QED
      BY <1>1, <2>8, <3>1, <3>2 DEF HandsKnown, SameThing
  <2>9. i \in Int /\ j \in Int
    BY <1>1, WorkMeans
  <2>12. CASE i = j
    <3>1. m = p
      BY <1>1, <2>1, <2>2, <2>5, <2>6, <2>12 DEF WavesTyped, SoundWave
    <3>2. k = n
      BY <1>1, <2>1, <2>2, <2>5, <2>6, <3>1, JobShape DEF IdAt, Taking
    <3> QED
      BY <2>1, <2>2, <3>2
  <2> QED
    BY <1>2, <2>1, <2>2, <2>7, <2>8, <2>9, <2>12
<1>3. ASSUME NEW a \in Arms PROVE Cardinality(hands[a]) <= 1
  <2>1. CASE hands[a] = {}
    BY <2>1, FS_EmptySet
  <2>2. CASE hands[a] # {}
    <3>1. PICK o : o \in hands[a]
      BY <2>2
    <3>2. hands[a] = {o}
      BY <1>2, <3>1
    <3>3. Cardinality({o}) = 1
      BY FS_Singleton
    <3> QED
      BY <3>2, <3>3
  <2> QED
    BY <2>1, <2>2
<1> QED
  BY <1>3

(* An arm never grips two things: whoever picks a second has, in a wave that *)
(* was run before, put down the first (scheduler.py:588-593, 172-257).       *)
THEOREM OneAtATime == ScheduleSpec => []OneObjectPerArm
<1>1. WaveInv /\ GripInv => OneObjectPerArm
  BY GripsHold
<1>2. ScheduleInit => WaveInv /\ GripInv
  BY WaveInvInit, GripInvInit
<1>3. WaveInv /\ GripInv /\ [ScheduleNext]_scheduling => (WaveInv /\ GripInv)'
  BY WaveInvNext, GripInvNext
<1> QED
  BY <1>1, <1>2, <1>3, PTL DEF ScheduleSpec
=============================================================================
