----------------------------- MODULE TableProofs -----------------------------
(***************************************************************************)
(* Theorems about the table: what its world claims is so                   *)
(* (GripMatchesClaim), for any tableware and however the primitives, the   *)
(* retries, the pairs, a withdrawn and a frozen arm fall together; and its *)
(* clock waits for every arm (StepWaitsForAll).                            *)
(***************************************************************************)
EXTENDS TableRun, FiniteSetTheorems, SequenceLemmas

-----------------------------------------------------------------------------
(* What the planner's list of priorities is: every object once.              *)

LEMMA OneToOneOnto ==
  ASSUME NEW S, IsFiniteSet(S), NEW T, IsFiniteSet(T), Cardinality(S) = Cardinality(T),
         NEW f \in Injection(S, T)
  PROVE  \A t \in T : \E s \in S : f[s] = t
<1>1. f \in Surjection(S, T)
  BY FS_Injection
<1> QED
  BY <1>1 DEF Surjection

LEMMA Listed ==
  ASSUME NEW S, IsFiniteSet(S)
  PROVE  /\ Cardinality(S) \in Nat
         /\ SetToSeq(S) \in Seq(S) /\ Len(SetToSeq(S)) = Cardinality(S)
         /\ \A x \in S : \E i \in 1..Cardinality(S) : SetToSeq(S)[i] = x
<1> DEFINE n == Cardinality(S)
           L == SetToSeq(S)
<1>1. n \in Nat /\ ExistsBijection(1..n, S)
  BY FS_CardinalityType
<1>2. \E f \in [1..n -> S] : IsInjective(f)
  BY <1>1 DEF ExistsBijection, Bijection, Injection
<1>3. L \in [1..n -> S] /\ IsInjective(L)
  BY <1>2 DEF SetToSeq
<1> HIDE DEF L
<1>4. IsFiniteSet(1..n) /\ Cardinality(1..n) = n
  <2>1. IsFiniteSet(1..n) /\ Cardinality(1..n) = IF 1 > n THEN 0 ELSE n - 1 + 1
    BY <1>1, FS_Interval
  <2> QED
    BY <1>1, <2>1
<1>5. Cardinality(1..n) = Cardinality(S) /\ L \in Injection(1..n, S)
  BY <1>3, <1>4 DEF Injection
<1> HIDE DEF n
<1>6. \A x \in S : \E i \in 1..n : L[i] = x
  <2> DEFINE N == 1..n
  <2>1. IsFiniteSet(N) /\ Cardinality(N) = Cardinality(S) /\ L \in Injection(N, S)
    BY <1>4, <1>5
  <2> HIDE DEF N
  <2>2. \A x \in S : \E i \in N : L[i] = x
    BY <2>1, OneToOneOnto
  <2> QED
    BY <2>2 DEF N
<1>7. L \in Seq(S) /\ Len(L) = n
  BY <1>1, <1>3
<1> QED
  BY <1>1, <1>6, <1>7 DEF L, n

LEMMA LessIs ==
  ASSUME NEW k, NEW l, DOMAIN k = 1..4
  PROVE  Less(k, l) <=> \/ k[1] < l[1]
                        \/ k[1] = l[1] /\ k[2] < l[2]
                        \/ k[1] = l[1] /\ k[2] = l[2] /\ k[3] < l[3]
                        \/ k[1] = l[1] /\ k[2] = l[2] /\ k[3] = l[3] /\ k[4] < l[4]
<1>2. Less(k, l) <=> \E i \in 1..4 : k[i] < l[i] /\ \A j \in 1..(i - 1) : k[j] = l[j]
  BY DEF Less
<1>3. \A i \in 1..4 : i = 1 \/ i = 2 \/ i = 3 \/ i = 4
  OBVIOUS
<1>4. /\ \A j \in 1..(1 - 1) : FALSE
      /\ \A j \in 1..(2 - 1) : j = 1
      /\ \A j \in 1..(3 - 1) : j = 1 \/ j = 2
      /\ \A j \in 1..(4 - 1) : j = 1 \/ j = 2 \/ j = 3
      /\ 1 \in 1..(2 - 1) /\ 1 \in 1..(3 - 1) /\ 2 \in 1..(3 - 1)
      /\ 1 \in 1..(4 - 1) /\ 2 \in 1..(4 - 1) /\ 3 \in 1..(4 - 1)
  OBVIOUS
<1>5. Less(k, l) => \/ k[1] < l[1]
                    \/ k[1] = l[1] /\ k[2] < l[2]
                    \/ k[1] = l[1] /\ k[2] = l[2] /\ k[3] < l[3]
                    \/ k[1] = l[1] /\ k[2] = l[2] /\ k[3] = l[3] /\ k[4] < l[4]
  <2> SUFFICES ASSUME NEW i \in 1..4, k[i] < l[i], \A j \in 1..(i - 1) : k[j] = l[j]
               PROVE  \/ k[1] < l[1]
                      \/ k[1] = l[1] /\ k[2] < l[2]
                      \/ k[1] = l[1] /\ k[2] = l[2] /\ k[3] < l[3]
                      \/ k[1] = l[1] /\ k[2] = l[2] /\ k[3] = l[3] /\ k[4] < l[4]
    BY <1>2
  <2> QED
    BY <1>3, <1>4
<1>6. /\ k[1] < l[1] => Less(k, l)
      /\ k[1] = l[1] /\ k[2] < l[2] => Less(k, l)
      /\ k[1] = l[1] /\ k[2] = l[2] /\ k[3] < l[3] => Less(k, l)
      /\ k[1] = l[1] /\ k[2] = l[2] /\ k[3] = l[3] /\ k[4] < l[4] => Less(k, l)
  <2>1. 1 \in 1..4 /\ 2 \in 1..4 /\ 3 \in 1..4 /\ 4 \in 1..4
    OBVIOUS
  <2> QED
    BY <1>2, <1>4, <2>1
<1> QED
  BY <1>5, <1>6

Late(n, o) == IF n[o] > MaxDefer THEN 1 ELSE 0
Hands(o) == IF o \in Bimanual THEN 0 ELSE 1
Sooner(n, p, o) == Less(Key(n, p), Key(n, o))

LEMMA SoonerIs ==
  ASSUME NEW n \in [Objects -> Nat], NEW o \in Objects, NEW p \in Objects
  PROVE  /\ {Late(n, o), Attempts(n[o]), Hands(o), At(o)} \subseteq Nat
         /\ At(o) = At(p) => o = p
         /\ Sooner(n, o, p) <=>
              \/ Late(n, o) < Late(n, p)
              \/ Late(n, o) = Late(n, p) /\ Attempts(n[o]) < Attempts(n[p])
              \/ Late(n, o) = Late(n, p) /\ Attempts(n[o]) = Attempts(n[p]) /\ Hands(o) < Hands(p)
              \/ Late(n, o) = Late(n, p) /\ Attempts(n[o]) = Attempts(n[p]) /\ Hands(o) = Hands(p)
                   /\ At(o) < At(p)
<1>1. \A q \in Objects : At(q) \in Nat /\ Order[At(q)] = q
  <2> TAKE q \in Objects
  <2>1. \E i \in DOMAIN Order : Order[i] = q
    BY TableAssumption DEF ToSet
  <2>2. At(q) \in DOMAIN Order /\ Order[At(q)] = q
    BY <2>1 DEF At
  <2> QED
    BY <2>2, TableAssumption
<1>2. \A q \in Objects : Late(n, q) \in Nat /\ Attempts(n[q]) \in Nat /\ Hands(q) \in Nat
  BY DEF Late, Attempts, Hands
<1>3. \A q \in Objects : /\ DOMAIN Key(n, q) = 1..4
                           /\ Key(n, q)[1] = Late(n, q) /\ Key(n, q)[2] = Attempts(n[q])
                           /\ Key(n, q)[3] = Hands(q) /\ Key(n, q)[4] = At(q)
  <2> TAKE q \in Objects
  <2> DEFINE a == Late(n, q)
             b == Attempts(n[q])
             c == Hands(q)
             d == At(q)
  <2>1. Key(n, q) = <<a, b, c, d>>
    BY Zenon DEF Key, Late, Hands
  <2> HIDE DEF a, b, c, d
  <2>2. DOMAIN <<a, b, c, d>> = 1..4 /\ <<a, b, c, d>>[1] = a /\ <<a, b, c, d>>[2] = b
        /\ <<a, b, c, d>>[3] = c /\ <<a, b, c, d>>[4] = d
    OBVIOUS
  <2> QED
    BY <2>1, <2>2 DEF a, b, c, d
<1>4. /\ Late(n, o) \in Nat /\ Attempts(n[o]) \in Nat /\ Hands(o) \in Nat /\ At(o) \in Nat
      /\ Late(n, p) \in Nat /\ Attempts(n[p]) \in Nat /\ Hands(p) \in Nat /\ At(p) \in Nat
  BY <1>1, <1>2
<1>5. Sooner(n, o, p) <=>
         \/ Late(n, o) < Late(n, p)
         \/ Late(n, o) = Late(n, p) /\ Attempts(n[o]) < Attempts(n[p])
         \/ Late(n, o) = Late(n, p) /\ Attempts(n[o]) = Attempts(n[p]) /\ Hands(o) < Hands(p)
         \/ Late(n, o) = Late(n, p) /\ Attempts(n[o]) = Attempts(n[p]) /\ Hands(o) = Hands(p)
              /\ At(o) < At(p)
  <2> DEFINE k == Key(n, o)
             l == Key(n, p)
  <2>1. DOMAIN k = 1..4
    BY <1>3
  <2>2. Sooner(n, o, p) <=> Less(k, l)
    BY DEF Sooner
  <2> HIDE DEF k, l
  <2>3. Less(k, l) <=> \/ k[1] < l[1]
                       \/ k[1] = l[1] /\ k[2] < l[2]
                       \/ k[1] = l[1] /\ k[2] = l[2] /\ k[3] < l[3]
                       \/ k[1] = l[1] /\ k[2] = l[2] /\ k[3] = l[3] /\ k[4] < l[4]
    BY <2>1, LessIs
  <2> QED
    BY <1>3, <2>2, <2>3 DEF k, l
<1> QED
  BY <1>1, <1>4, <1>5

LEMMA SoonerOrders ==
  ASSUME NEW n \in [Objects -> Nat], NEW o \in Objects, NEW p \in Objects, NEW q \in Objects
  PROVE  /\ ~Sooner(n, o, o)
         /\ Sooner(n, o, p) /\ Sooner(n, p, q) => Sooner(n, o, q)
         /\ o # p => Sooner(n, o, p) \/ Sooner(n, p, o)
<1>1. ~Sooner(n, o, o)
  BY SoonerIs
<1>2. Sooner(n, o, p) /\ Sooner(n, p, q) => Sooner(n, o, q)
  BY SoonerIs
<1>3. o # p => Sooner(n, o, p) \/ Sooner(n, p, o)
  BY SoonerIs
<1> QED
  BY <1>1, <1>2, <1>3

LEMMA Prioritized ==
  ASSUME NEW n \in [Objects -> Nat], NEW S \in SUBSET Objects
  PROVE  /\ Cardinality(S) \in Nat /\ ByPriority(n, S) \in [1..Cardinality(S) -> S]
         /\ \A o \in S : \E i \in 1..Cardinality(S) : ByPriority(n, S)[i] = o
<1> DEFINE m == Cardinality(S)
           r == [o \in S |-> Cardinality(Ahead(n, S, o)) + 1]
<1>1. IsFiniteSet(S) /\ m \in Nat
  BY TableAssumption, FS_Subset, FS_CardinalityType
<1>2. \A o \in S : /\ IsFiniteSet(Ahead(n, S, o)) /\ Cardinality(Ahead(n, S, o)) \in Nat
                   /\ Cardinality(Ahead(n, S, o)) < m
  <2> TAKE o \in S
  <2>1. Ahead(n, S, o) \in SUBSET (S \ {o})
    BY SoonerOrders DEF Ahead, Sooner
  <2>2. IsFiniteSet(S \ {o}) /\ Cardinality(S \ {o}) = m - 1
    BY <1>1, FS_RemoveElement
  <2>3. IsFiniteSet(Ahead(n, S, o)) /\ Cardinality(Ahead(n, S, o)) <= m - 1
    BY <2>1, <2>2, FS_Subset
  <2> QED
    BY <1>1, <2>3, FS_CardinalityType
<1>3. r \in [S -> 1..m]
  BY <1>1, <1>2
<1>4. \A o, p \in S : Sooner(n, o, p) => r[o] < r[p]
  <2> SUFFICES ASSUME NEW o \in S, NEW p \in S, Sooner(n, o, p) PROVE r[o] < r[p]
    OBVIOUS
  <2> DEFINE A == Ahead(n, S, o)
             B == Ahead(n, S, p)
  <2>1. A \in SUBSET B
    BY SoonerOrders DEF Ahead, Sooner
  <2>2. o \in B /\ o \notin A
    BY SoonerOrders DEF Ahead, Sooner
  <2>3. IsFiniteSet(B) /\ Cardinality(A) \in Nat /\ Cardinality(B) \in Nat
    BY <1>2
  <2> HIDE DEF A, B
  <2>4. Cardinality(A) <= Cardinality(B) /\ Cardinality(A) # Cardinality(B)
    BY <2>1, <2>2, <2>3, FS_Subset
  <2> QED
    BY <2>3, <2>4 DEF A, B
<1>5. \A o, p \in S : r[o] = r[p] => o = p
  BY <1>3, <1>4, SoonerOrders
<1>6. IsFiniteSet(1..m) /\ Cardinality(1..m) = m
  <2>1. IsFiniteSet(1..m) /\ Cardinality(1..m) = IF 1 > m THEN 0 ELSE m - 1 + 1
    BY <1>1, FS_Interval
  <2> QED
    BY <1>1, <2>1
<1>7. \A i \in 1..m : \E o \in S : r[o] = i
  <2> HIDE DEF r, m
  <2>1. Cardinality(S) = Cardinality(1..m)
    BY <1>6 DEF m
  <2>2. r \in Injection(S, 1..m)
    BY <1>3, <1>5 DEF Injection, IsInjective
  <2> DEFINE N == 1..m
  <2>3. IsFiniteSet(S) /\ IsFiniteSet(N) /\ Cardinality(S) = Cardinality(N) /\ r \in Injection(S, N)
    BY <1>1, <1>6, <2>1, <2>2
  <2> HIDE DEF N
  <2>4. \A i \in N : \E o \in S : r[o] = i
    BY <2>3, OneToOneOnto
  <2> QED
    BY <2>4 DEF N
<1>8. \A i \in 1..m, o \in S : Cardinality(Ahead(n, S, o)) = i - 1 <=> r[o] = i
  BY <1>1, <1>2
<1> DEFINE b == ByPriority(n, S)
<1>9. b = [i \in 1..m |-> CHOOSE o \in S : Cardinality(Ahead(n, S, o)) = i - 1]
  BY DEF ByPriority
<1> HIDE DEF r, b, m
<1>10. \A i \in 1..m : b[i] \in S /\ r[b[i]] = i
  <2> TAKE i \in 1..m
  <2>1. \E o \in S : Cardinality(Ahead(n, S, o)) = i - 1
    BY <1>7, <1>8
  <2>2. b[i] \in S /\ Cardinality(Ahead(n, S, b[i])) = i - 1
    BY <1>9, <2>1
  <2> QED
    BY <1>8, <2>2
<1>11. \A o \in S : \E i \in 1..m : b[i] = o
  BY <1>3, <1>5, <1>10
<1> QED
  BY <1>1, <1>9, <1>10, <1>11 DEF b, m
-----------------------------------------------------------------------------
(* The planner's graph: drawers to open, one stretch per object, the check.  *)

Kinds == {"OPEN", "PICK", "MOVE", "VERIFY"}
Handles == {"PICK", "MOVE"}
Goals(p) == {o \in Misplaced : Planned(o, p)}
OpenOf(d, p) == TStep("OPEN", d, OpenArm(d, p), {})
PickOf(o, p) == TStep("PICK", o, ArmFor(o, p),
                      IF DrawerOf[o] \in Needed(p) THEN {<<"OPEN", DrawerOf[o]>>} ELSE {})
MoveOf(o, p) == TStep("MOVE", o, ArmFor(o, p), IF ToPick(o) THEN {<<"PICK", o>>} ELSE {})
CheckOf(p) == TStep("VERIFY", None, None, {<<"MOVE", o>> : o \in Goals(p)})
Openers(p) == {OpenOf(d, p) : d \in Needed(p)}
Stretches(n, p) == [i \in 1..Cardinality(Goals(p)) |-> StepsFor(ByPriority(n, Goals(p))[i], p)]

LEMMA PlanIs ==
  ASSUME NEW n, NEW p
  PROVE  Plan(n, p) = SetToSeq(Openers(p)) \o FlattenSeq(Stretches(n, p)) \o <<CheckOf(p)>>
BY Zenon DEF Plan, Openers, Stretches, Goals, OpenOf, CheckOf

LEMMA ArmsOf ==
  ASSUME NEW p \in Arms \cup {None}
  PROVE  /\ \A o \in Objects : /\ ArmFor(o, p) \in Arms
                               /\ p = None => ArmFor(o, p) = DefaultArm[o] /\ Planned(o, p)
                               /\ p # None => ArmFor(o, p) = p
                               /\ p # None /\ Planned(o, p) => o \notin Bimanual \/ DefaultArm[o] = p
         /\ \A d \in Drawers : /\ OpenArm(d, p) \in Arms
                               /\ p # None => OpenArm(d, p) = p
BY TableAssumption DEF ArmFor, OpenArm, Withdrawn, Planned

LEMMA StepsAre ==
  ASSUME NEW p \in Arms \cup {None}
  PROVE  /\ \A o \in Objects :
              /\ PickOf(o, p).op = "PICK" /\ PickOf(o, p).obj = o /\ PickOf(o, p).arm = ArmFor(o, p)
              /\ \A d \in PickOf(o, p).deps : \E w \in Needed(p) : d = <<"OPEN", w>>
              /\ MoveOf(o, p).op = "MOVE" /\ MoveOf(o, p).obj = o /\ MoveOf(o, p).arm = ArmFor(o, p)
              /\ ToPick(o) => MoveOf(o, p).deps = {<<"PICK", o>>}
              /\ ~ToPick(o) => MoveOf(o, p).deps = {}
              /\ PickOf(o, p) \in Steps /\ MoveOf(o, p) \in Steps
         /\ \A d \in Drawers : /\ OpenOf(d, p).op = "OPEN" /\ OpenOf(d, p).obj = d
                               /\ OpenOf(d, p).arm = OpenArm(d, p) /\ OpenOf(d, p).deps = {}
                               /\ OpenOf(d, p) \in Steps
         /\ CheckOf(p).op = "VERIFY" /\ CheckOf(p).obj = None
         /\ CheckOf(p).deps = {<<"MOVE", o>> : o \in Goals(p)}
         /\ CheckOf(p) \in Steps
         /\ Goals(p) \subseteq Objects /\ Needed(p) \subseteq Drawers
<1>1. Goals(p) \subseteq Objects /\ Needed(p) \subseteq Drawers
  BY DEF Goals, Misplaced, Needed
<1> DEFINE named == Objects \cup Drawers \cup {None}
<1>2. /\ \A o \in Objects : <<"PICK", o>> \in Kinds \X named /\ <<"MOVE", o>> \in Kinds \X named
      /\ \A d \in Drawers : <<"OPEN", d>> \in Kinds \X named
  BY DEF Kinds
<1>3. Steps = [op : Kinds, obj : named, arm : Arms \cup {None}, deps : SUBSET (Kinds \X named)]
  BY DEF Steps, Kinds
<1>4. \A op \in Kinds, x \in named, a \in Arms \cup {None}, D \in SUBSET (Kinds \X named) :
        TStep(op, x, a, D) \in Steps
  BY <1>3 DEF TStep
<1> HIDE DEF named
<1>5. {"PICK", "MOVE", "OPEN", "VERIFY"} \subseteq Kinds /\ Objects \subseteq named /\ Drawers \subseteq named
      /\ None \in named
  BY DEF Kinds, named
<1>6. ASSUME NEW o \in Objects
      PROVE  /\ PickOf(o, p).op = "PICK" /\ PickOf(o, p).obj = o /\ PickOf(o, p).arm = ArmFor(o, p)
             /\ \A d \in PickOf(o, p).deps : \E w \in Needed(p) : d = <<"OPEN", w>>
             /\ MoveOf(o, p).op = "MOVE" /\ MoveOf(o, p).obj = o /\ MoveOf(o, p).arm = ArmFor(o, p)
             /\ ToPick(o) => MoveOf(o, p).deps = {<<"PICK", o>>}
             /\ ~ToPick(o) => MoveOf(o, p).deps = {}
             /\ PickOf(o, p) \in Steps /\ MoveOf(o, p) \in Steps
  <2> DEFINE D == IF DrawerOf[o] \in Needed(p) THEN {<<"OPEN", DrawerOf[o]>>} ELSE {}
             E == IF ToPick(o) THEN {<<"PICK", o>>} ELSE {}
  <2>1. (\A d \in D : \E w \in Needed(p) : d = <<"OPEN", w>>) /\ D \in SUBSET (Kinds \X named)
    BY <1>1, <1>2
  <2>2. E \in SUBSET (Kinds \X named)
    BY <1>2
  <2>3. PickOf(o, p) = TStep("PICK", o, ArmFor(o, p), D) /\ MoveOf(o, p) = TStep("MOVE", o, ArmFor(o, p), E)
    BY DEF PickOf, MoveOf
  <2> HIDE DEF D
  <2>4. PickOf(o, p) \in Steps
    BY <1>4, <1>5, <2>1, <2>3, ArmsOf
  <2>5. MoveOf(o, p) \in Steps
    BY <1>4, <1>5, <2>2, <2>3, ArmsOf
  <2> QED
    BY <2>1, <2>3, <2>4, <2>5 DEF TStep
<1>7. ASSUME NEW d \in Drawers
      PROVE  /\ OpenOf(d, p).op = "OPEN" /\ OpenOf(d, p).obj = d
             /\ OpenOf(d, p).arm = OpenArm(d, p) /\ OpenOf(d, p).deps = {}
             /\ OpenOf(d, p) \in Steps
  <2>1. OpenOf(d, p) \in Steps
    BY <1>4, <1>5, ArmsOf DEF OpenOf
  <2> QED
    BY <2>1 DEF OpenOf, TStep
<1>8. CheckOf(p) \in Steps
  <2> DEFINE D == {<<"MOVE", o>> : o \in Goals(p)}
  <2>1. D \in SUBSET (Kinds \X named)
    BY <1>1, <1>2
  <2>2. CheckOf(p) = TStep("VERIFY", None, None, D)
    BY DEF CheckOf
  <2> HIDE DEF D
  <2> QED
    BY <1>4, <1>5, <2>1, <2>2
<1>9. CheckOf(p).op = "VERIFY" /\ CheckOf(p).obj = None
      /\ CheckOf(p).deps = {<<"MOVE", o>> : o \in Goals(p)}
  BY DEF CheckOf, TStep
<1> QED
  BY <1>1, <1>6, <1>7, <1>8, <1>9

LEMMA StretchIs ==
  ASSUME NEW p \in Arms \cup {None}, NEW o \in Objects
  PROVE  /\ StepsFor(o, p) \in Seq(Steps)
         /\ ToPick(o) => /\ Len(StepsFor(o, p)) = 2
                         /\ StepsFor(o, p)[1] = PickOf(o, p) /\ StepsFor(o, p)[2] = MoveOf(o, p)
         /\ ~ToPick(o) => Len(StepsFor(o, p)) = 1 /\ StepsFor(o, p)[1] = MoveOf(o, p)
<1> DEFINE K == PickOf(o, p)
           M == MoveOf(o, p)
<1>1. StepsFor(o, p) = IF ToPick(o) THEN <<K, M>> ELSE <<M>>
  BY Zenon DEF StepsFor, PickOf, MoveOf
<1>2. K \in Steps /\ M \in Steps
  BY StepsAre
<1> HIDE DEF K, M
<1>3. <<K, M>> \in Seq(Steps) /\ Len(<<K, M>>) = 2 /\ <<K, M>>[1] = K /\ <<K, M>>[2] = M
  BY <1>2
<1>4. <<M>> \in Seq(Steps) /\ Len(<<M>>) = 1 /\ <<M>>[1] = M
  BY <1>2
<1> QED
  BY <1>1, <1>3, <1>4 DEF K, M

(* What stands at a place of the graph.                                      *)
Place(g, p, A, i) ==
  \/ i <= A /\ \E d \in Needed(p) : g[i] = OpenOf(d, p)
  \/ /\ A < i /\ i + 1 < Len(g)
     /\ \E o \in Goals(p) : ToPick(o) /\ g[i] = PickOf(o, p) /\ g[i + 1] = MoveOf(o, p)
  \/ /\ A < i /\ i < Len(g)
     /\ \E o \in Goals(p) : g[i] = MoveOf(o, p) /\ (ToPick(o) => A < i - 1 /\ g[i - 1] = PickOf(o, p))
  \/ i = Len(g) /\ g[i] = CheckOf(p)

Laid(g, p, A) ==
  /\ g \in Seq(Steps) /\ A < Len(g)
  /\ \A i \in 1..Len(g) : Place(g, p, A, i)
  /\ \A d \in Needed(p) : \E i \in 1..A : g[i] = OpenOf(d, p)
  /\ \A o \in Goals(p) : \E i \in 1..(Len(g) - 1) : g[i] = MoveOf(o, p)
LEMMA PlanLaid ==
  ASSUME NEW n \in [Objects -> Nat], NEW p \in Arms \cup {None}
  PROVE  \E A \in Nat : Laid(Plan(n, p), p, A)
<1> DEFINE s == SetToSeq(Openers(p))
           c == Stretches(n, p)
           f == FlattenSeq(c)
           h == CheckOf(p)
           g == Plan(n, p)
           A == Len(s)
           B == Len(f)
           W == Seq(Steps)
           G == Goals(p)
           m == Cardinality(G)
           b == ByPriority(n, G)
<1>1. /\ Openers(p) \subseteq Steps /\ \A d \in Needed(p) : OpenOf(d, p) \in Openers(p)
      /\ \A x \in Openers(p) : \E d \in Needed(p) : x = OpenOf(d, p)
  BY StepsAre DEF Openers
<1>2. IsFiniteSet(Openers(p))
  <2>1. IsFiniteSet(Needed(p))
    BY TableAssumption, FS_Subset, StepsAre
  <2> DEFINE F == [d \in Needed(p) |-> OpenOf(d, p)]
  <2>2. F \in Surjection(Needed(p), Openers(p))
    BY <1>1 DEF Surjection
  <2> QED
    BY <2>1, <2>2, FS_Surjection
<1>3. /\ s \in Seq(Openers(p)) /\ \A x \in Openers(p) : \E i \in 1..A : s[i] = x
  BY <1>2, Listed
<1>4. s \in W /\ A \in Nat /\ \A i \in 1..A : s[i] \in Openers(p)
  <2> HIDE DEF s
  <2> QED
    BY <1>1, <1>3
<1>5. G \in SUBSET Objects
  BY StepsAre
<1>6. m \in Nat /\ b \in [1..m -> G] /\ \A o \in G : \E i \in 1..m : b[i] = o
  BY <1>5, Prioritized
<1>7. c = [i \in 1..m |-> StepsFor(b[i], p)]
  BY DEF Stretches
<1>8. h \in Steps
  BY StepsAre
<1>9. g = s \o f \o <<h>>
  BY PlanIs
<1> HIDE DEF s, c, h, g, m, b, G
<1>10. \A i \in 1..m : c[i] = StepsFor(b[i], p) /\ b[i] \in Objects /\ b[i] \in G /\ c[i] \in W
  <2> TAKE i \in 1..m
  <2>1. c[i] = StepsFor(b[i], p) /\ b[i] \in Objects /\ b[i] \in G
    BY <1>5, <1>6, <1>7
  <2> QED
    BY <2>1, StretchIs
<1>11. c \in Seq(W) /\ Len(c) = m
  <2> HIDE DEF W
  <2>1. c \in [1..m -> W]
    BY <1>7, <1>10
  <2> QED
    BY <1>6, <2>1
<1>12. f \in W
  BY <1>11, FlattenType
<1>13. /\ \A i \in 1..m : \E q \in Nat : Sits(f, c[i], q)
       /\ \A k \in 1..B : \E i \in 1..m, q \in Nat : Sits(f, c[i], q) /\ k - q \in 1..Len(c[i])
  BY <1>11, FlattenPlaces
<1> HIDE DEF f
<1>14. B \in Nat /\ <<h>> \in W /\ Len(<<h>>) = 1 /\ <<h>>[1] = h
  BY <1>8, <1>12
<1>15. /\ g \in W /\ Len(g) = A + B + 1
       /\ \A i \in 1..A : g[i] = s[i]
       /\ \A i \in 1..B : g[A + i] = f[i]
       /\ g[A + B + 1] = h
  <2> DEFINE x == s \o f
             y == <<h>>
  <2>1. /\ x \in Seq(Steps) /\ Len(x) = A + B
        /\ \A i \in 1..A : x[i] = s[i]
        /\ \A i \in 1..B : x[A + i] = f[i]
    BY <1>4, <1>12, Behind
  <2> HIDE DEF x, y
  <2>2. y \in Seq(Steps) /\ Len(y) = 1 /\ y[1] = h
    BY <1>14 DEF y
  <2>3. /\ x \o y \in Seq(Steps) /\ Len(x \o y) = Len(x) + Len(y)
        /\ \A i \in 1..Len(x) : (x \o y)[i] = x[i]
        /\ \A i \in 1..Len(y) : (x \o y)[Len(x) + i] = y[i]
    <3>1. x \in Seq(Steps) /\ y \in Seq(Steps)
      BY <2>1, <2>2
    <3> QED
      BY ONLY <3>1, Behind
  <2>4. g = x \o y
    BY <1>9 DEF x, y
  <2>5. \A i \in 1..A : i \in 1..Len(x) /\ g[i] = s[i]
    BY <1>4, <1>14, <2>1, <2>3, <2>4
  <2>6. \A i \in 1..B : A + i \in 1..Len(x) /\ g[A + i] = f[i]
    BY <1>4, <1>14, <2>1, <2>3, <2>4
  <2>7. g[A + B + 1] = h
    BY <2>1, <2>2, <2>3, <2>4
  <2> QED
    BY <2>1, <2>2, <2>3, <2>4, <2>5, <2>6, <2>7
<1> HIDE DEF W
(* One object's stretch in the graph.                                        *)
<1>16. ASSUME NEW i \in 1..m, NEW q \in Nat, Sits(f, c[i], q)
       PROVE  /\ ToPick(b[i]) => /\ q + 2 <= B /\ Len(c[i]) = 2
                                 /\ g[A + q + 1] = PickOf(b[i], p) /\ g[A + q + 2] = MoveOf(b[i], p)
              /\ ~ToPick(b[i]) => q + 1 <= B /\ Len(c[i]) = 1 /\ g[A + q + 1] = MoveOf(b[i], p)
  <2>1. c[i] = StepsFor(b[i], p) /\ b[i] \in Objects
    BY <1>10
  <2>2. /\ ToPick(b[i]) => Len(c[i]) = 2 /\ c[i][1] = PickOf(b[i], p) /\ c[i][2] = MoveOf(b[i], p)
        /\ ~ToPick(b[i]) => Len(c[i]) = 1 /\ c[i][1] = MoveOf(b[i], p)
    BY <2>1, StretchIs
  <2>3. q + Len(c[i]) <= B /\ \A k \in 1..Len(c[i]) : f[q + k] = c[i][k]
    BY <1>16 DEF Sits
  <2>4. CASE ToPick(b[i])
    <3>1. q + 1 \in 1..B /\ q + 2 \in 1..B /\ f[q + 1] = c[i][1] /\ f[q + 2] = c[i][2]
      BY <1>14, <2>2, <2>3, <2>4
    <3>2. g[A + (q + 1)] = f[q + 1] /\ g[A + (q + 2)] = f[q + 2]
      BY <1>15, <3>1
    <3>3. A + (q + 1) = A + q + 1 /\ A + (q + 2) = A + q + 2
      BY <1>4
    <3> QED
      BY <1>14, <2>2, <2>4, <3>1, <3>2, <3>3
  <2>5. CASE ~ToPick(b[i])
    <3>1. q + 1 \in 1..B /\ f[q + 1] = c[i][1]
      BY <1>14, <2>2, <2>3, <2>5
    <3>2. g[A + (q + 1)] = f[q + 1]
      BY <1>15, <3>1
    <3>3. A + (q + 1) = A + q + 1
      BY <1>4
    <3> QED
      BY <1>14, <2>2, <2>5, <3>1, <3>2, <3>3
  <2> QED
    BY <2>4, <2>5
<1>17. \A i \in 1..Len(g) : Place(g, p, A, i)
  <2> TAKE j \in 1..Len(g)
  <2>1. CASE j <= A
    <3>1. g[j] \in Openers(p)
      BY <1>4, <1>15, <2>1
    <3> QED
      BY <1>1, <2>1, <3>1 DEF Place
  <2>2. CASE j = Len(g)
    BY <1>15, <2>2 DEF Place, h
  <2>3. CASE ~(j <= A) /\ j # Len(g)
    <3>1. j - A \in 1..B
      BY <1>4, <1>14, <1>15, <2>3
    <3>2. PICK i \in 1..m, q \in Nat : Sits(f, c[i], q) /\ (j - A) - q \in 1..Len(c[i])
      BY <1>13, <3>1
    <3>3. b[i] \in G
      BY <1>10
    <3>4. CASE ToPick(b[i])
      <4>0. /\ q + 2 <= B /\ Len(c[i]) = 2
            /\ g[A + q + 1] = PickOf(b[i], p) /\ g[A + q + 2] = MoveOf(b[i], p)
        BY <1>16, <3>2, <3>4
      <4> DEFINE k == Len(c[i])
      <4>5. (j - A) - q \in 1..k /\ k = 2
        BY <3>2, <4>0
      <4> HIDE DEF k
      <4>1. q + 2 <= B /\ g[A + q + 1] = PickOf(b[i], p) /\ g[A + q + 2] = MoveOf(b[i], p)
            /\ (j = A + q + 1 \/ j = A + q + 2)
        BY <1>4, <1>14, <3>1, <4>0, <4>5
      <4>2. CASE j = A + q + 1
        <5>1. A < j /\ j + 1 < Len(g) /\ g[j] = PickOf(b[i], p) /\ g[j + 1] = MoveOf(b[i], p)
          BY <1>4, <1>14, <1>15, <4>1, <4>2
        <5> QED
          BY <3>3, <3>4, <5>1 DEF Place, G
      <4>3. CASE j = A + q + 2
        <5>1. A < j - 1 /\ A < j /\ j < Len(g) /\ g[j - 1] = PickOf(b[i], p) /\ g[j] = MoveOf(b[i], p)
          BY <1>4, <1>14, <1>15, <4>1, <4>3
        <5> QED
          BY <3>3, <5>1 DEF Place, G
      <4> QED
        BY <4>1, <4>2, <4>3
    <3>5. CASE ~ToPick(b[i])
      <4>0. q + 1 <= B /\ Len(c[i]) = 1 /\ g[A + q + 1] = MoveOf(b[i], p)
        BY <1>16, <3>2, <3>5
      <4> DEFINE k == Len(c[i])
      <4>2. (j - A) - q \in 1..k /\ k = 1
        BY <3>2, <4>0
      <4> HIDE DEF k
      <4>1. A < j /\ j < Len(g) /\ g[j] = MoveOf(b[i], p)
        BY <1>4, <1>14, <1>15, <3>1, <4>0, <4>2
      <4> QED
        BY <3>3, <3>5, <4>1 DEF Place, G
    <3> QED
      BY <3>4, <3>5
  <2> QED
    BY <2>1, <2>2, <2>3
<1>18. \A d \in Needed(p) : \E i \in 1..A : g[i] = OpenOf(d, p)
  BY <1>1, <1>3, <1>15
<1>19. \A o \in G : \E i \in 1..(Len(g) - 1) : g[i] = MoveOf(o, p)
  <2> TAKE o \in G
  <2>1. PICK i \in 1..m : b[i] = o
    BY <1>6
  <2>2. PICK q \in Nat : Sits(f, c[i], q)
    BY <1>13
  <2>3. CASE ToPick(o)
    <3>1. A + q + 2 \in 1..(Len(g) - 1) /\ g[A + q + 2] = MoveOf(o, p)
      BY <1>4, <1>14, <1>15, <1>16, <2>1, <2>2, <2>3
    <3> QED
      BY <3>1
  <2>4. CASE ~ToPick(o)
    <3>1. A + q + 1 \in 1..(Len(g) - 1) /\ g[A + q + 1] = MoveOf(o, p)
      BY <1>4, <1>14, <1>15, <1>16, <2>1, <2>2, <2>4
    <3> QED
      BY <3>1
  <2> QED
    BY <2>3, <2>4
<1>20. A < Len(g)
  BY <1>4, <1>14, <1>15
<1> QED
  BY <1>4, <1>15, <1>17, <1>18, <1>19, <1>20 DEF Laid, G, W, g
-----------------------------------------------------------------------------
(* The inductive invariant, in named parts.                                  *)

Safe == \A p \in Bimanual : prefer # DefaultArm[p]

Typed ==
  /\ zone \in [Objects -> {"start", "goal"}] /\ owner \in [Objects -> Arms \cup {None}]
  /\ jaws \in [Arms -> SUBSET Objects] /\ spot \in [Objects -> Spots]
  /\ prim \in [Arms -> Progress \cup {None}] /\ flight \in Seq(Steps)
  /\ prefer \in Arms \cup {None} /\ queued \in Arms \cup {None}
  /\ counts \in [Objects -> Nat] /\ graph \in Seq(Steps)

(* The graph: a step comes after what it waits for, an object is moved right *)
(* after it is picked, by its own arm or the one that is left.               *)
InPlace(g, p, i) ==
  /\ g[i].op \in Kinds
  /\ g[i].op = "OPEN" => g[i].obj \in Drawers
  /\ g[i].op = "VERIFY" => i = Len(g)
  /\ g[i].op # "VERIFY" => g[i].arm \in Arms /\ (p # None => g[i].arm = p)
  /\ g[i].op \in Handles => /\ g[i].obj \in Objects
                            /\ p = None => g[i].arm = DefaultArm[g[i].obj]
                            /\ p # None => g[i].obj \notin Bimanual \/ DefaultArm[g[i].obj] = p
  /\ g[i].op = "PICK" => i + 1 \in 1..Len(g) /\ g[i + 1].op = "MOVE" /\ g[i + 1].obj = g[i].obj
  /\ g[i].op = "MOVE" => g[i].deps \subseteq {<<"PICK", g[i].obj>>}
  /\ \A d \in g[i].deps : \E j \in 1..(i - 1) : Id(g[j]) = d
  /\ \A j \in 1..Len(g) : g[i].op = "PICK" /\ g[j].op = "MOVE" /\ g[j].obj = g[i].obj
                            => Id(g[i]) \in g[j].deps
Arranged(g, p) == \A i \in 1..Len(g) : InPlace(g, p, i)

(* What a graph supposes of the table, made for it just now ...              *)
Suits(g, p) ==
  /\ \A i \in 1..Len(g) :
       /\ g[i].op = "PICK" => owner[g[i].obj] = None /\ zone[g[i].obj] # "goal"
       /\ g[i].op = "MOVE" => /\ zone[g[i].obj] # "goal"
                              /\ g[i].deps = {} => owner[g[i].obj] # None
  /\ p = None => \A o \in Misplaced : \E i \in 1..Len(g) : g[i].op = "MOVE" /\ g[i].obj = o

(* ... and while it is carried out.                                          *)
Left(s) == Id(s) \notin executed
InFlight(o) == \E i \in 1..Len(flight) : flight[i].obj = o
Fits ==
  \A i \in 1..Len(graph) :
    /\ graph[i].op = "PICK" /\ Left(graph[i]) =>
         owner[graph[i].obj] = None /\ zone[graph[i].obj] # "goal"
    /\ graph[i].op = "MOVE" /\ Left(graph[i]) =>
         /\ zone[graph[i].obj] # "goal"
         /\ graph[i].deps \subseteq executed /\ ~InFlight(graph[i].obj) => owner[graph[i].obj] # None
Placing ==
  prefer = None => \A o \in Bimanual : zone[o] # "goal" =>
    \E i \in 1..Len(graph) : graph[i].op = "MOVE" /\ graph[i].obj = o
Placed ==
  \A o \in Objects : <<"MOVE", o>> \in executed =>
    zone[o] = "goal" \/ \E i \in 1..Len(flight) : Id(flight[i]) = <<"MOVE", o>>
Going == pc \in {"boundary", "moving"} => Fits /\ Placing /\ Placed

(* An arm holds one object, its own while both arms work, and none that is   *)
(* in its place.                                                             *)
Owners ==
  /\ prefer = None => \A o \in Objects : owner[o] \in {None, DefaultArm[o]}
  /\ \A o \in Objects : zone[o] = "goal" => owner[o] = None
  /\ \A o, q \in Objects : owner[o] = owner[q] /\ owner[o] # None => o = q

(* While a two-arm object is to be placed, what is picked is moved next, and *)
(* nothing else is held.                                                     *)
Rims == {o \in Bimanual : zone[o] # "goal"}
Unowned == \A o \in Objects : owner[o] = None
FirstLeft(i) == Left(graph[i]) /\ \A j \in 1..(i - 1) : ~Left(graph[j])
MovedNext(o) ==
  \E i \in 1..Len(graph) : graph[i].op = "MOVE" /\ graph[i].obj = o /\ FirstLeft(i)
BothNeeded == Rims # {} \/ \E o \in Bimanual : InFlight(o)
OneAtATime ==
  /\ Len(flight) = 1 /\ \A o \in Objects : InFlight(o) \/ owner[o] = None
  /\ flight[1].op = "PICK" => MovedNext(flight[1].obj)
InOrder ==
  prefer = None =>
    /\ pc = "boundary" /\ Rims # {} => \A o \in Objects : owner[o] # None => MovedNext(o)
    /\ pc = "moving" /\ BothNeeded => OneAtATime
    /\ pc = "failed" /\ Rims # {} => Unowned

(* The claim of what no transition is about.                                 *)
Matched(o) ==
  owner[o] # None => /\ o \in jaws[owner[o]]
                     /\ o \in Bimanual /\ prefer = None => \A a \in Arms : o \in jaws[a]
Match == \A o \in Objects : InFlight(o) \/ Matched(o)

(* The transition: steps of the graph that wait for nothing, one per arm.    *)
Flying(i) ==
  /\ \E k \in 1..Len(graph) : graph[k] = flight[i]
  /\ flight[i].op \in {"OPEN", "PICK", "MOVE"}
  /\ ~Left(flight[i]) /\ flight[i].deps \subseteq executed
  /\ prim[flight[i].arm] # None /\ prim[flight[i].arm].req = flight[i]
Flight ==
  /\ pc = "moving" <=> flight # <<>>
  /\ Len(flight) \in 0..2
  /\ \A i \in 1..Len(flight) : Flying(i)
  /\ Len(flight) = 2 => /\ flight[1].arm # flight[2].arm /\ flight[1].obj # flight[2].obj
                        /\ prefer = None /\ ~BothNeeded

(* One arm's primitive.                                                      *)
Alone(a, o) == \A q \in Objects : q # o => owner[q] # a
(* ... the jaws and the phase,                                               *)
Grips(a, p, r) ==
  /\ p.ok => p.phase = "ended"
  /\ p.phase \in {"grip", "again"} => r.op = "PICK" /\ r.obj \notin Bimanual /\ Alone(a, r.obj)
  /\ p.phase = "carry" => r.op = "MOVE" /\ r.obj \notin Bimanual
  /\ r.op = "PICK" /\ p.ok => /\ Alone(a, r.obj) /\ r.obj \in jaws[a]
                              /\ r.obj \in Bimanual => \A b \in Arms : r.obj \in jaws[b]
(* ... and the claim.                                                        *)
Asks(a, p, r) ==
  /\ r.arm = a /\ \E i \in 1..Len(flight) : flight[i] = r
  /\ r.op = "MOVE" => Alone(a, r.obj)
  /\ Len(flight) = 1 =>
       /\ r.op = "PICK" => owner[r.obj] = a /\ p.before.owner = None
       /\ r.op = "MOVE" => owner[r.obj] = None /\ zone[r.obj] = "goal"
                           /\ p.before.zone \in {"start", "goal"}
  /\ Len(flight) # 1 =>
       /\ r.op = "PICK" => owner[r.obj] = None /\ zone[r.obj] # "goal"
       /\ r.op = "MOVE" => owner[r.obj] = a
Hand(a) == prim[a] # None => Grips(a, prim[a], prim[a].req) /\ Asks(a, prim[a], prim[a].req)

GInv == /\ Typed /\ Arranged(graph, prefer) /\ Going /\ Owners /\ InOrder /\ Match /\ Flight
        /\ \A a \in Arms : Hand(a)
GripInv == Safe => GInv

OfGoal(o, p) ==
  /\ o \in Objects /\ zone[o] # "goal" /\ o \in Misplaced
  /\ PickOf(o, p).op = "PICK" /\ PickOf(o, p).obj = o /\ PickOf(o, p).arm = ArmFor(o, p)
  /\ \A d \in PickOf(o, p).deps : \E w \in Needed(p) : d = <<"OPEN", w>>
  /\ MoveOf(o, p).op = "MOVE" /\ MoveOf(o, p).obj = o /\ MoveOf(o, p).arm = ArmFor(o, p)
  /\ ToPick(o) => MoveOf(o, p).deps = {<<"PICK", o>>}
  /\ ~ToPick(o) => MoveOf(o, p).deps = {}
  /\ ToPick(o) <=> owner[o] = None
  /\ ArmFor(o, p) \in Arms
  /\ p = None => ArmFor(o, p) = DefaultArm[o]
  /\ p # None => ArmFor(o, p) = p
  /\ p # None => o \notin Bimanual \/ DefaultArm[o] = p

(* A fresh graph is arranged and suits the table.                            *)
LEMMA PlanSuits ==
  ASSUME NEW n \in [Objects -> Nat], NEW p \in Arms \cup {None}
  PROVE  Plan(n, p) \in Seq(Steps) /\ Arranged(Plan(n, p), p) /\ Suits(Plan(n, p), p)
<1> DEFINE g == Plan(n, p)
<1>1. PICK A \in Nat : Laid(g, p, A)
  BY PlanLaid
<1> HIDE DEF g
<1>2. g \in Seq(Steps) /\ A < Len(g) /\ \A i \in 1..Len(g) : Place(g, p, A, i)
  BY <1>1 DEF Laid
<1>3. /\ \A d \in Needed(p) : \E i \in 1..A : g[i] = OpenOf(d, p)
      /\ \A o \in Goals(p) : \E i \in 1..(Len(g) - 1) : g[i] = MoveOf(o, p)
  BY <1>1 DEF Laid
<1>4. Len(g) \in Nat
  BY <1>2
<1>5. \A o \in Goals(p) : OfGoal(o, p)
  <2> TAKE o \in Goals(p)
  <2>1. o \in Objects /\ zone[o] # "goal" /\ o \in Misplaced /\ Planned(o, p)
    BY DEF Goals, Misplaced
  <2>2. /\ PickOf(o, p).op = "PICK" /\ PickOf(o, p).obj = o /\ PickOf(o, p).arm = ArmFor(o, p)
        /\ \A d \in PickOf(o, p).deps : \E w \in Needed(p) : d = <<"OPEN", w>>
        /\ MoveOf(o, p).op = "MOVE" /\ MoveOf(o, p).obj = o /\ MoveOf(o, p).arm = ArmFor(o, p)
        /\ ToPick(o) => MoveOf(o, p).deps = {<<"PICK", o>>}
        /\ ~ToPick(o) => MoveOf(o, p).deps = {}
    BY <2>1, StepsAre
  <2>3. /\ ArmFor(o, p) \in Arms
        /\ p = None => ArmFor(o, p) = DefaultArm[o]
        /\ p # None => ArmFor(o, p) = p
        /\ p # None => o \notin Bimanual \/ DefaultArm[o] = p
    BY <2>1, ArmsOf
  <2>4. ToPick(o) <=> owner[o] = None
    BY DEF ToPick
  <2> QED
    BY <2>1, <2>2, <2>3, <2>4 DEF OfGoal
<1>6. ASSUME NEW d \in Needed(p)
      PROVE  /\ d \in Drawers /\ OpenOf(d, p).op = "OPEN" /\ OpenOf(d, p).obj = d
             /\ OpenOf(d, p).arm = OpenArm(d, p) /\ OpenOf(d, p).deps = {}
             /\ OpenArm(d, p) \in Arms /\ (p # None => OpenArm(d, p) = p)
  BY StepsAre, ArmsOf
<1>7. /\ CheckOf(p).op = "VERIFY" /\ CheckOf(p).obj = None
      /\ CheckOf(p).deps = {<<"MOVE", o>> : o \in Goals(p)}
  BY StepsAre
(* A step by its operation.                                                  *)
<1>8. ASSUME NEW i \in 1..Len(g)
      PROVE  /\ g[i].op \in Kinds
             /\ g[i].op = "OPEN" => \E d \in Needed(p) : g[i] = OpenOf(d, p)
             /\ g[i].op = "VERIFY" => i = Len(g) /\ g[i] = CheckOf(p)
             /\ g[i].op = "PICK" => /\ A < i /\ i + 1 < Len(g)
                                    /\ \E o \in Goals(p) : /\ ToPick(o) /\ g[i] = PickOf(o, p)
                                                           /\ g[i + 1] = MoveOf(o, p)
             /\ g[i].op = "MOVE" =>
                  \E o \in Goals(p) : /\ g[i] = MoveOf(o, p)
                                      /\ ToPick(o) => A < i - 1 /\ g[i - 1] = PickOf(o, p)
  <2>1. Place(g, p, A, i)
    BY <1>2
  <2>2. CASE i <= A /\ \E d \in Needed(p) : g[i] = OpenOf(d, p)
    BY <1>6, <2>2 DEF Kinds
  <2>3. CASE /\ A < i /\ i + 1 < Len(g)
             /\ \E o \in Goals(p) : ToPick(o) /\ g[i] = PickOf(o, p) /\ g[i + 1] = MoveOf(o, p)
    BY <1>5, <2>3 DEF Kinds, OfGoal
  <2>4. CASE /\ A < i /\ i < Len(g)
             /\ \E o \in Goals(p) : g[i] = MoveOf(o, p) /\ (ToPick(o) => A < i - 1 /\ g[i - 1] = PickOf(o, p))
    BY <1>5, <2>4 DEF Kinds, OfGoal
  <2>5. CASE i = Len(g) /\ g[i] = CheckOf(p)
    BY <1>7, <2>5 DEF Kinds
  <2> QED
    BY <2>1, <2>2, <2>3, <2>4, <2>5 DEF Place
<1>9. Arranged(g, p)
  <2> SUFFICES ASSUME NEW i \in 1..Len(g) PROVE InPlace(g, p, i)
    BY DEF Arranged
  <2>0. \A j \in 1..Len(g) : g[j].op = "OPEN" \/ g[j].op = "PICK" \/ g[j].op = "MOVE" \/ g[j].op = "VERIFY"
    BY <1>8 DEF Kinds
  <2>1. CASE g[i].op = "OPEN"
    <3>1. PICK d \in Needed(p) : g[i] = OpenOf(d, p)
      BY <1>8, <2>1
    <3> QED
      BY <1>6, <2>1, <3>1 DEF InPlace, Kinds, Handles
  <2>2. CASE g[i].op = "PICK"
    <3>1. PICK o \in Goals(p) : ToPick(o) /\ g[i] = PickOf(o, p) /\ g[i + 1] = MoveOf(o, p)
      BY <1>8, <2>2
    <3>2. A < i /\ i + 1 \in 1..Len(g)
      BY <1>4, <1>8, <2>2
    <3>6. OfGoal(o, p)
      BY <1>5
    <3>3. \A d \in g[i].deps : \E j \in 1..(i - 1) : Id(g[j]) = d
      <4> TAKE d \in g[i].deps
      <4>1. PICK w \in Needed(p) : d = <<"OPEN", w>>
        BY <3>1, <3>6 DEF OfGoal
      <4>2. PICK j \in 1..A : g[j] = OpenOf(w, p)
        BY <1>3
      <4>3. j \in 1..(i - 1)
        BY <3>2
      <4> QED
        BY <1>6, <4>1, <4>2, <4>3 DEF Id
    <3>4. \A j \in 1..Len(g) : g[j].op = "MOVE" /\ g[j].obj = g[i].obj => Id(g[i]) \in g[j].deps
      <4> SUFFICES ASSUME NEW j \in 1..Len(g), g[j].op = "MOVE", g[j].obj = g[i].obj
                   PROVE  Id(g[i]) \in g[j].deps
        OBVIOUS
      <4>1. PICK q \in Goals(p) : g[j] = MoveOf(q, p)
        BY <1>8
      <4>2. q = o
        <5>1. OfGoal(q, p)
          BY <1>5
        <5> QED
          BY <3>1, <3>6, <4>1, <5>1 DEF OfGoal
      <4>3. Id(g[i]) = <<"PICK", o>> /\ g[j].deps = {<<"PICK", o>>}
        BY <3>1, <3>6, <4>1, <4>2 DEF Id, OfGoal
      <4> QED
        BY <4>3
    <3>5. /\ g[i].obj = o /\ o \in Objects /\ g[i].arm \in Arms /\ (p # None => g[i].arm = p)
          /\ p = None => g[i].arm = DefaultArm[o]
          /\ p # None => o \notin Bimanual \/ DefaultArm[o] = p
          /\ g[i + 1].op = "MOVE" /\ g[i + 1].obj = o
      BY <3>1, <3>6 DEF OfGoal
    <3> QED
      BY <2>2, <3>2, <3>3, <3>4, <3>5 DEF InPlace, Kinds
  <2>3. CASE g[i].op = "MOVE"
    <3>1. PICK o \in Goals(p) : g[i] = MoveOf(o, p) /\ (ToPick(o) => A < i - 1 /\ g[i - 1] = PickOf(o, p))
      BY <1>8, <2>3
    <3>6. OfGoal(o, p)
      BY <1>5
    <3>2. \A d \in g[i].deps : \E j \in 1..(i - 1) : Id(g[j]) = d
      <4> TAKE d \in g[i].deps
      <4>1. ToPick(o) /\ d = <<"PICK", o>>
        BY <3>1, <3>6 DEF OfGoal
      <4>2. i - 1 \in 1..(i - 1) /\ g[i - 1] = PickOf(o, p)
        BY <3>1, <4>1
      <4>3. Id(g[i - 1]) = <<"PICK", o>>
        BY <3>6, <4>2 DEF Id, OfGoal
      <4> QED
        BY <4>1, <4>2, <4>3
    <3>3. /\ g[i].obj = o /\ o \in Objects /\ g[i].arm \in Arms /\ (p # None => g[i].arm = p)
          /\ p = None => g[i].arm = DefaultArm[o]
          /\ p # None => o \notin Bimanual \/ DefaultArm[o] = p
          /\ g[i].deps \subseteq {<<"PICK", o>>}
      BY <3>1, <3>6 DEF OfGoal
    <3> QED
      BY <2>3, <3>2, <3>3 DEF InPlace, Kinds
  <2>4. CASE g[i].op = "VERIFY"
    <3>1. i = Len(g) /\ g[i] = CheckOf(p)
      BY <1>8, <2>4
    <3>2. \A d \in g[i].deps : \E j \in 1..(i - 1) : Id(g[j]) = d
      <4> TAKE d \in g[i].deps
      <4>1. PICK o \in Goals(p) : d = <<"MOVE", o>>
        BY <1>7, <3>1
      <4>2. PICK j \in 1..(i - 1) : g[j] = MoveOf(o, p)
        BY <1>3, <3>1
      <4>3. OfGoal(o, p)
        BY <1>5
      <4> QED
        BY <4>1, <4>2, <4>3 DEF Id, OfGoal
    <3> QED
      BY <2>4, <3>1, <3>2 DEF InPlace, Kinds, Handles
  <2> QED
    BY <2>0, <2>1, <2>2, <2>3, <2>4
<1>10. Suits(g, p)
  <2>1. ASSUME NEW i \in 1..Len(g), g[i].op = "PICK"
        PROVE  owner[g[i].obj] = None /\ zone[g[i].obj] # "goal"
    <3>1. PICK o \in Goals(p) : ToPick(o) /\ g[i] = PickOf(o, p)
      BY <1>8, <2>1
    <3>2. OfGoal(o, p)
      BY <1>5
    <3> QED
      BY <3>1, <3>2 DEF OfGoal
  <2>2. ASSUME NEW i \in 1..Len(g), g[i].op = "MOVE"
        PROVE  zone[g[i].obj] # "goal" /\ (g[i].deps = {} => owner[g[i].obj] # None)
    <3>1. PICK o \in Goals(p) : g[i] = MoveOf(o, p)
      BY <1>8, <2>2
    <3>2. OfGoal(o, p)
      BY <1>5
    <3> QED
      BY <3>1, <3>2 DEF OfGoal
  <2>3. ASSUME p = None, NEW o \in Misplaced
        PROVE  \E i \in 1..Len(g) : g[i].op = "MOVE" /\ g[i].obj = o
    <3>1. o \in Goals(p)
      BY <2>3, ArmsOf DEF Goals, Misplaced
    <3>2. PICK i \in 1..(Len(g) - 1) : g[i] = MoveOf(o, p)
      BY <1>3, <3>1
    <3>3. OfGoal(o, p)
      BY <1>5, <3>1
    <3> QED
      BY <1>4, <3>2, <3>3 DEF OfGoal
  <2> QED
    BY <2>1, <2>2, <2>3 DEF Suits
<1> QED
  BY <1>2, <1>9, <1>10 DEF g

(* The step that is next: everything before it is done.                      *)
LEMMA NextIs ==
  ASSUME Typed, Arranged(graph, prefer), SomeReady
  PROVE  \E k \in 1..Len(graph) : NextStep = graph[k] /\ Ready(graph[k]) /\ FirstLeft(k)
<1> DEFINE R == {i \in DOMAIN graph : Ready(graph[i])}
           k == CHOOSE i \in R : \A j \in R : i <= j
<1>1. DOMAIN graph = 1..Len(graph) /\ Len(graph) \in Nat
  BY DEF Typed
<1>2. R \in SUBSET Nat /\ R # {}
  BY <1>1 DEF SomeReady
<1>3. k \in R /\ \A j \in R : k <= j
  <2> HIDE DEF R
  <2>1. \E i \in R : \A j \in R : i <= j
    BY <1>2, LeastOf
  <2> QED
    BY <2>1
<1>4. NextStep = graph[k]
  BY Zenon DEF NextStep
<1> HIDE DEF k
<1>5. k \in 1..Len(graph) /\ Ready(graph[k])
  BY <1>1, <1>3
<1>6. \A j \in 1..(k - 1) : ~Left(graph[j])
  <2> DEFINE L == {j \in 1..(k - 1) : Left(graph[j])}
  <2> SUFFICES ASSUME L # {} PROVE FALSE
    OBVIOUS
  <2>1. L \in SUBSET Nat
    OBVIOUS
  <2>2. PICK i \in L : \A j \in L : i <= j
    <3> HIDE DEF L
    <3> QED
      BY <2>1, LeastOf
  <2>3. i \in 1..(k - 1) /\ i \in 1..Len(graph) /\ Left(graph[i])
    BY <1>5
  <2>4. \A j \in 1..(i - 1) : ~Left(graph[j])
    BY <2>2, <2>3, <1>5
  <2>5. InPlace(graph, prefer, i)
    BY <2>3 DEF Arranged
  <2>6. \A d \in graph[i].deps : d \in executed
    BY <2>4, <2>5 DEF InPlace, Left
  <2>7. Ready(graph[i])
    BY <2>3, <2>6 DEF Ready, Left
  <2>8. k <= i
    BY <1>1, <1>3, <2>3, <2>7
  <2> QED
    BY <1>5, <2>3, <2>8
<1> QED
  BY <1>4, <1>5, <1>6 DEF FirstLeft, Ready, Left

-----------------------------------------------------------------------------
(* What one step of a primitive leaves behind.                               *)

Became(a, phase, ok) ==
  /\ prim' \in [Arms -> Progress \cup {None}] /\ prim'[a] \in Progress
  /\ prim'[a].req = prim[a].req /\ prim'[a].before = prim[a].before
  /\ prim'[a].phase = phase /\ prim'[a].ok = ok
  /\ \A b \in Arms : b # a => prim'[b] = prim[b]

Phases == {"start", "grip", "again", "carry", "ended"}

LEMMA PhaseNoted ==
  ASSUME NEW P \in Progress, NEW x \in Phases
  PROVE  /\ [P EXCEPT !.phase = x] \in Progress /\ [P EXCEPT !.phase = x].phase = x
         /\ [P EXCEPT !.phase = x].req = P.req /\ [P EXCEPT !.phase = x].before = P.before
         /\ [P EXCEPT !.phase = x].ok = P.ok
BY DEF Progress, Phases

LEMMA OkNoted ==
  ASSUME NEW P \in Progress, NEW ok \in BOOLEAN
  PROVE  /\ [P EXCEPT !.ok = ok] \in Progress /\ [P EXCEPT !.ok = ok].ok = ok
         /\ [P EXCEPT !.ok = ok].req = P.req /\ [P EXCEPT !.ok = ok].before = P.before
         /\ [P EXCEPT !.ok = ok].phase = P.phase
BY DEF Progress

LEMMA TriesNoted ==
  ASSUME NEW P \in Progress, NEW n \in Nat
  PROVE  /\ [P EXCEPT !.tries = n] \in Progress /\ [P EXCEPT !.tries = n].ok = P.ok
         /\ [P EXCEPT !.tries = n].req = P.req /\ [P EXCEPT !.tries = n].before = P.before
         /\ [P EXCEPT !.tries = n].phase = P.phase
BY DEF Progress

LEMMA TriesCount == ASSUME NEW P \in Progress PROVE P.tries \in Nat /\ P.tries + 1 \in Nat
BY DEF Progress

LEMMA EndsDoes ==
  ASSUME Typed, NEW a \in Arms, prim[a] # None, NEW ok \in BOOLEAN, Ends(a, ok)
  PROVE  Became(a, "ended", ok)
<1> DEFINE P == prim[a]
           Q == [P EXCEPT !.phase = "ended"]
           R == [Q EXCEPT !.ok = ok]
<1>1. P \in Progress /\ prim \in [Arms -> Progress \cup {None}]
  BY DEF Typed
<1>2. prim' = [prim EXCEPT ![a] = R]
  BY <1>1 DEF Ends
<1>3. Q \in Progress /\ Q.phase = "ended" /\ Q.req = P.req /\ Q.before = P.before
  BY <1>1, PhaseNoted, Zenon DEF Phases
<1> HIDE DEF Q
<1>4. R \in Progress /\ R.ok = ok /\ R.phase = Q.phase /\ R.req = Q.req /\ R.before = Q.before
  BY <1>3, OkNoted, Zenon
<1> HIDE DEF R, P
<1>5. prim'[a] = R /\ \A b \in Arms : b # a => prim'[b] = prim[b]
  BY <1>1, <1>2
<1>6. prim' \in [Arms -> Progress \cup {None}]
  BY <1>1, <1>2, <1>4
<1> QED
  BY <1>3, <1>4, <1>5, <1>6 DEF Became, P

LEMMA GotoDoes ==
  ASSUME Typed, NEW a \in Arms, prim[a] # None, NEW x \in Phases, Goto(a, x)
  PROVE  Became(a, x, prim[a].ok)
<1> DEFINE P == prim[a]
           Q == [P EXCEPT !.phase = x]
<1>1. P \in Progress /\ prim \in [Arms -> Progress \cup {None}]
  BY DEF Typed
<1>2. prim' = [prim EXCEPT ![a] = Q]
  BY <1>1 DEF Goto
<1>3. Q \in Progress /\ Q.phase = x /\ Q.req = P.req /\ Q.before = P.before /\ Q.ok = P.ok
  BY <1>1, PhaseNoted, Zenon
<1> HIDE DEF Q, P
<1>5. prim'[a] = Q /\ \A b \in Arms : b # a => prim'[b] = prim[b]
  BY <1>1, <1>2
<1>6. prim' \in [Arms -> Progress \cup {None}]
  BY <1>1, <1>2, <1>3
<1> QED
  BY <1>3, <1>5, <1>6 DEF Became, P

LEMMA RetryDoes ==
  ASSUME Typed, NEW a \in Arms, prim[a] # None,
         prim' = [prim EXCEPT ![a].tries = @ + 1, ![a].phase = "again"]
  PROVE  Became(a, "again", prim[a].ok)
<1> DEFINE P == prim[a]
           Q == [P EXCEPT !.tries = P.tries + 1]
           R == [Q EXCEPT !.phase = "again"]
<1>1. P \in Progress /\ prim \in [Arms -> Progress \cup {None}]
  BY DEF Typed
<1>2. prim' = [prim EXCEPT ![a] = R]
  BY <1>1
<1>3. Q \in Progress /\ Q.req = P.req /\ Q.before = P.before /\ Q.ok = P.ok
  <2> DEFINE m == P.tries + 1
  <2>1. m \in Nat
    BY <1>1, TriesCount
  <2> HIDE DEF m, P
  <2>2. [P EXCEPT !.tries = m] \in Progress /\ [P EXCEPT !.tries = m].req = P.req
        /\ [P EXCEPT !.tries = m].before = P.before /\ [P EXCEPT !.tries = m].ok = P.ok
    BY <1>1, <2>1, TriesNoted, Zenon
  <2> QED
    BY <2>2 DEF m
<1> HIDE DEF Q
<1>4. R \in Progress /\ R.ok = Q.ok /\ R.phase = "again" /\ R.req = Q.req /\ R.before = Q.before
  BY <1>3, PhaseNoted, Zenon DEF Phases
<1> HIDE DEF R, P
<1>5. prim'[a] = R /\ \A b \in Arms : b # a => prim'[b] = prim[b]
  BY <1>1, <1>2
<1>6. prim' \in [Arms -> Progress \cup {None}]
  BY <1>1, <1>2, <1>4
<1> QED
  BY <1>3, <1>4, <1>5, <1>6 DEF Became, P

(* Only the arm's own object leaves a jaw, or what the arm does not claim.   *)
Kept(a) ==
  \A b \in Arms, q \in Objects :
    q # prim[a].req.obj /\ q \in jaws[b] /\ q \notin jaws'[b] => b = a /\ Alone(a, prim[a].req.obj)
Acted(a) ==
  /\ UNCHANGED <<zone, owner, flight>>
  /\ \E phase \in Phases, ok \in BOOLEAN : Became(a, phase, ok)
  /\ jaws' \in [Arms -> SUBSET Objects] /\ spot' \in [Objects -> Spots]
  /\ Grips(a, prim[a], prim[a].req)'
  /\ prim[a].req.obj \notin Bimanual => Kept(a)

(* The steps one by one.                                                     *)
Ready1(a) ==
  /\ Typed /\ prim[a] # None /\ Grips(a, prim[a], prim[a].req) /\ prim[a].req.arm = a
  /\ prim[a].req.op \in Handles => prim[a].req.obj \in Objects
  /\ prim[a].req.op = "MOVE" \/ prim[a].req.obj \in Bimanual => Alone(a, prim[a].req.obj)

LEMMA OpensDoes ==
  ASSUME Typed, NEW a \in Arms, Opens({a})
  PROVE  /\ jaws' \in [Arms -> SUBSET Objects] /\ spot' \in [Objects -> Spots]
         /\ \A b \in Arms : b # a => jaws'[b] = jaws[b]
BY DEF Opens, Typed, Spots

LEMMA GivesUp ==
  ASSUME NEW a \in Arms, Ready1(a), Ends(a, FALSE), UNCHANGED <<jaws, spot, zone, owner, flight>>
  PROVE  Acted(a)
<1>1. Became(a, "ended", FALSE)
  BY EndsDoes DEF Ready1
<1>2. Grips(a, prim[a], prim[a].req)'
  BY <1>1 DEF Became, Grips
<1>3. jaws' \in [Arms -> SUBSET Objects] /\ spot' \in [Objects -> Spots] /\ Kept(a)
  BY DEF Ready1, Typed, Kept
<1> QED
  BY <1>1, <1>2, <1>3 DEF Acted, Phases

LEMMA ApproachActs ==
  ASSUME NEW a \in Arms, Ready1(a), Approach(a)
  PROVE  Acted(a)
<1> DEFINE r == prim[a].req
<1>1. /\ prim[a] # None /\ prim[a].phase = "start" /\ r.op = "PICK" /\ r.obj \notin Bimanual
      /\ UNCHANGED <<zone, owner, flight>>
  BY DEF Approach, Running, claim
<1>2. CASE Unsafe(a)
  BY <1>1, <1>2, GivesUp DEF Unsafe
<1>3. CASE ~HoldsOther(r) /\ Opens({a}) /\ Goto(a, "grip")
  <2>1. Became(a, "grip", prim[a].ok)
    BY <1>1, <1>3, GotoDoes DEF Ready1, Phases
  <2>2. prim[a].ok \in BOOLEAN /\ ~prim[a].ok
    BY <1>1 DEF Ready1, Grips, Typed, Progress
  <2>3. Alone(a, r.obj)
    BY <1>3 DEF HoldsOther, Alone, Ready1
  <2>4. Alone(a, r.obj)'
    BY <1>1, <2>1, <2>3 DEF Alone, Became
  <2>5. Grips(a, prim[a], prim[a].req)'
    BY <1>1, <2>1, <2>2, <2>4 DEF Became, Grips
  <2>6. /\ jaws' \in [Arms -> SUBSET Objects] /\ spot' \in [Objects -> Spots] /\ Kept(a)
    BY <1>3, <2>3, OpensDoes DEF Kept, Ready1
  <2> QED
    BY <1>1, <2>1, <2>2, <2>5, <2>6 DEF Acted, Phases
<1> QED
  BY <1>2, <1>3 DEF Approach

LEMMA LiftActs ==
  ASSUME NEW a \in Arms, Ready1(a), Lift(a)
  PROVE  Acted(a)
<1> DEFINE r == prim[a].req
<1>1. /\ prim[a] # None /\ prim[a].phase = "grip" /\ jaws' = [jaws EXCEPT ![a] = @ \cup {r.obj}]
      /\ Ends(a, TRUE) /\ UNCHANGED <<zone, owner, flight, spot>>
  BY DEF Lift, Running, claim
<1>2. Became(a, "ended", TRUE)
  BY <1>1, EndsDoes DEF Ready1
<1>3. r.op = "PICK" /\ r.obj \notin Bimanual /\ Alone(a, r.obj) /\ r.obj \in Objects
  BY <1>1 DEF Ready1, Grips, Handles
<1>4. jaws \in [Arms -> SUBSET Objects] /\ spot \in [Objects -> Spots]
  BY DEF Ready1, Typed
<1>5. jaws' \in [Arms -> SUBSET Objects] /\ r.obj \in jaws'[a] /\ Kept(a)
  BY <1>1, <1>3, <1>4 DEF Kept
<1>6. Alone(a, r.obj)'
  BY <1>1, <1>2, <1>3 DEF Alone, Became
<1>7. Grips(a, prim[a], prim[a].req)'
  BY <1>2, <1>3, <1>5, <1>6 DEF Became, Grips
<1> QED
  BY <1>1, <1>2, <1>4, <1>5, <1>7 DEF Acted, Phases

RestoredTypes(a) == prim[a].jaws \in [Arms -> SUBSET Objects] /\ prim[a].spot \in [Objects -> Spots]
LEMMA RestoreDoes ==
  ASSUME Typed, NEW a \in Arms, prim[a] # None, NEW o \in Objects, RestoreArm(a, o)
  PROVE  /\ jaws' \in [Arms -> SUBSET Objects] /\ spot' \in [Objects -> Spots]
         /\ \A b \in Arms, q \in Objects : q # o /\ q \in jaws[b] => q \in jaws'[b]
<1>1. RestoredTypes(a)
  BY DEF Typed, Progress, RestoredTypes
<1> QED
  BY <1>1 DEF RestoreArm, Typed, RestoredTypes

LEMMA TryAgainActs ==
  ASSUME NEW a \in Arms, Ready1(a), TryAgain(a)
  PROVE  Acted(a)
<1> DEFINE r == prim[a].req
<1>1. /\ prim[a] # None /\ prim[a].phase = "grip" /\ RestoreArm(a, r.obj)
      /\ prim' = [prim EXCEPT ![a].tries = @ + 1, ![a].phase = "again"]
      /\ UNCHANGED <<zone, owner, flight>>
  BY DEF TryAgain, Running, claim
<1>2. Became(a, "again", prim[a].ok)
  BY <1>1, RetryDoes DEF Ready1
<1>3. r.op = "PICK" /\ r.obj \notin Bimanual /\ Alone(a, r.obj) /\ r.obj \in Objects
  BY <1>1 DEF Ready1, Grips, Handles
<1>4. prim[a].ok \in BOOLEAN /\ ~prim[a].ok
  BY <1>1 DEF Ready1, Grips, Typed, Progress
<1>5. jaws' \in [Arms -> SUBSET Objects] /\ spot' \in [Objects -> Spots] /\ Kept(a)
  BY <1>1, <1>3, RestoreDoes DEF Kept, Ready1
<1>6. Alone(a, r.obj)'
  BY <1>1, <1>2, <1>3 DEF Alone, Became
<1>7. Grips(a, prim[a], prim[a].req)'
  BY <1>2, <1>3, <1>4, <1>6 DEF Became, Grips
<1> QED
  BY <1>1, <1>2, <1>4, <1>5, <1>7 DEF Acted, Phases

LEMMA OpenAgainActs ==
  ASSUME NEW a \in Arms, Ready1(a), OpenAgain(a)
  PROVE  Acted(a)
<1> DEFINE r == prim[a].req
<1>1. /\ prim[a] # None /\ prim[a].phase = "again" /\ Opens({a}) /\ Goto(a, "grip")
      /\ UNCHANGED <<zone, owner, flight>>
  BY DEF OpenAgain, Running, claim
<1>2. Became(a, "grip", prim[a].ok)
  BY <1>1, GotoDoes DEF Ready1, Phases
<1>3. r.op = "PICK" /\ r.obj \notin Bimanual /\ Alone(a, r.obj)
  BY <1>1 DEF Ready1, Grips
<1>4. prim[a].ok \in BOOLEAN /\ ~prim[a].ok
  BY <1>1 DEF Ready1, Grips, Typed, Progress
<1>5. jaws' \in [Arms -> SUBSET Objects] /\ spot' \in [Objects -> Spots] /\ Kept(a)
  BY <1>1, <1>3, OpensDoes DEF Kept, Ready1
<1>6. Alone(a, r.obj)'
  BY <1>1, <1>2, <1>3 DEF Alone, Became
<1>7. Grips(a, prim[a], prim[a].req)'
  BY <1>2, <1>3, <1>4, <1>6 DEF Became, Grips
<1> QED
  BY <1>1, <1>2, <1>4, <1>5, <1>7 DEF Acted, Phases

LEMMA MissPickActs ==
  ASSUME NEW a \in Arms, Ready1(a), MissPick(a)
  PROVE  Acted(a)
<1> DEFINE r == prim[a].req
<1>1. /\ prim[a] # None /\ prim[a].phase = "grip" /\ Ends(a, FALSE) /\ UNCHANGED <<zone, owner, flight>>
      /\ \/ RestoreArm(a, r.obj)
         \/ UNCHANGED <<jaws, spot>>
         \/ spot' = [spot EXCEPT ![r.obj] = "astray"] /\ UNCHANGED jaws
         \/ jaws' = [jaws EXCEPT ![a] = @ \cup {r.obj}] /\ UNCHANGED spot
  BY DEF MissPick, Running, claim
<1>2. Became(a, "ended", FALSE)
  BY <1>1, EndsDoes DEF Ready1
<1>3. r.obj \in Objects
  BY <1>1 DEF Ready1, Grips, Handles
<1>4. jaws \in [Arms -> SUBSET Objects] /\ spot \in [Objects -> Spots]
  BY DEF Ready1, Typed
<1>5. jaws' \in [Arms -> SUBSET Objects] /\ spot' \in [Objects -> Spots] /\ Kept(a)
  <2>1. CASE RestoreArm(a, r.obj)
    BY <1>1, <1>3, <2>1, RestoreDoes DEF Kept, Ready1
  <2>2. CASE UNCHANGED <<jaws, spot>>
    BY <1>4, <2>2 DEF Kept
  <2>3. CASE spot' = [spot EXCEPT ![r.obj] = "astray"] /\ UNCHANGED jaws
    BY <1>3, <1>4, <2>3 DEF Kept, Spots
  <2>4. CASE jaws' = [jaws EXCEPT ![a] = @ \cup {r.obj}] /\ UNCHANGED spot
    BY <1>3, <1>4, <2>4 DEF Kept
  <2> QED
    BY <1>1, <2>1, <2>2, <2>3, <2>4
<1>7. Grips(a, prim[a], prim[a].req)'
  BY <1>2 DEF Became, Grips
<1> QED
  BY <1>1, <1>2, <1>5, <1>7 DEF Acted, Phases

LEMMA PickBimanualActs ==
  ASSUME NEW a \in Arms, Ready1(a), PickBimanual(a)
  PROVE  Acted(a)
<1> DEFINE r == prim[a].req
           lifted == /\ jaws' = [b \in Arms |-> {r.obj}]
                     /\ spot' = [p \in Objects |-> IF p # r.obj /\ InAJaw(p, jaws) THEN "astray" ELSE spot[p]]
                     /\ Ends(a, TRUE)
<1>1. /\ prim[a] # None /\ r.op = "PICK" /\ r.obj \in Bimanual /\ UNCHANGED <<zone, owner, flight>>
      /\ Unsafe(a) \/ lifted \/ (RestoreAll(a, r.obj) /\ Ends(a, FALSE))
  BY DEF PickBimanual, Running, claim
<1>2. r.obj \in Objects /\ Alone(a, r.obj)
  BY <1>1 DEF Ready1, Handles
<1>3. jaws \in [Arms -> SUBSET Objects] /\ spot \in [Objects -> Spots] /\ RestoredTypes(a)
  BY <1>1 DEF Ready1, Typed, RestoredTypes, Progress
<1>4. CASE Unsafe(a)
  BY <1>1, <1>4, GivesUp DEF Unsafe
<1>5. CASE lifted
  <2>1. Became(a, "ended", TRUE)
    BY <1>1, <1>5, EndsDoes DEF Ready1
  <2>2. jaws' \in [Arms -> SUBSET Objects] /\ \A b \in Arms : r.obj \in jaws'[b]
    BY <1>2, <1>5
  <2>3. spot' \in [Objects -> Spots]
    BY <1>3, <1>5 DEF Spots
  <2>4. Alone(a, r.obj)'
    BY <1>1, <1>2, <2>1 DEF Alone, Became
  <2>5. Grips(a, prim[a], prim[a].req)'
    BY <2>1, <2>2, <2>4 DEF Became, Grips
  <2> QED
    BY <1>1, <2>1, <2>2, <2>3, <2>5 DEF Acted, Phases
<1>6. CASE RestoreAll(a, r.obj) /\ Ends(a, FALSE)
  <2>1. Became(a, "ended", FALSE)
    BY <1>1, <1>6, EndsDoes DEF Ready1
  <2>2. Grips(a, prim[a], prim[a].req)'
    BY <2>1 DEF Became, Grips
  <2> QED
    BY <1>1, <1>3, <1>6, <2>1, <2>2 DEF Acted, Phases, RestoreAll, RestoredTypes
<1> QED
  BY <1>1, <1>4, <1>5, <1>6

LEMMA CarryActs ==
  ASSUME NEW a \in Arms, Ready1(a), Carry(a)
  PROVE  Acted(a)
<1> DEFINE r == prim[a].req
<1>1. /\ prim[a] # None /\ prim[a].phase = "start" /\ r.op = "MOVE" /\ r.obj \notin Bimanual
      /\ UNCHANGED <<zone, owner, flight>>
      /\ Unsafe(a) \/ (Goto(a, "carry") /\ UNCHANGED <<jaws, spot>>)
  BY DEF Carry, Running, claim
<1>2. CASE Unsafe(a)
  BY <1>1, <1>2, GivesUp DEF Unsafe
<1>3. CASE Goto(a, "carry") /\ UNCHANGED <<jaws, spot>>
  <2>1. Became(a, "carry", prim[a].ok)
    BY <1>1, <1>3, GotoDoes DEF Ready1, Phases
  <2>2. prim[a].ok \in BOOLEAN /\ ~prim[a].ok
    BY <1>1 DEF Ready1, Grips, Typed, Progress
  <2>3. Grips(a, prim[a], prim[a].req)'
    BY <1>1, <2>1, <2>2 DEF Became, Grips
  <2>4. jaws' \in [Arms -> SUBSET Objects] /\ spot' \in [Objects -> Spots] /\ Kept(a)
    BY <1>3 DEF Ready1, Typed, Kept
  <2> QED
    BY <1>1, <2>1, <2>2, <2>3, <2>4 DEF Acted, Phases
<1> QED
  BY <1>1, <1>2, <1>3

LEMMA LetGoActs ==
  ASSUME NEW a \in Arms, Ready1(a), LetGo(a)
  PROVE  Acted(a)
<1> DEFINE r == prim[a].req
<1>1. prim[a] # None /\ prim[a].phase = "carry" /\ UNCHANGED <<zone, owner, flight>>
  BY DEF LetGo, Running, claim
<1>2. r.op = "MOVE" /\ r.obj \notin Bimanual
  BY <1>1 DEF Ready1, Grips
<1>3. r.obj \in Objects /\ Alone(a, r.obj) /\ jaws \in [Arms -> SUBSET Objects] /\ spot \in [Objects -> Spots]
  BY <1>2 DEF Ready1, Handles, Typed
<1>4. CASE a \in frozen
  BY <1>1, <1>4, GivesUp DEF LetGo
<1>5. CASE a \notin frozen
  <2>1. jaws' = [jaws EXCEPT ![a] = {}]
    BY <1>5 DEF LetGo
  <2>2. PICK ok \in BOOLEAN, at \in {"goal", "astray"} :
          /\ spot' = [p \in Objects |-> CASE p = r.obj -> at
                        [] p \in jaws[a] \ {r.obj} -> "astray" [] OTHER -> spot[p]]
          /\ Ends(a, ok)
    BY <1>5 DEF LetGo
  <2>3. Became(a, "ended", ok)
    BY <1>1, <2>2, EndsDoes DEF Ready1
  <2>4. spot' \in [Objects -> Spots]
    BY <1>3, <2>2 DEF Spots
  <2>5. jaws' \in [Arms -> SUBSET Objects] /\ Kept(a)
    BY <1>3, <2>1 DEF Kept
  <2>6. Grips(a, prim[a], prim[a].req)'
    BY <1>2, <2>3 DEF Became, Grips
  <2> QED
    BY <1>1, <2>3, <2>4, <2>5, <2>6 DEF Acted, Phases
<1> QED
  BY <1>4, <1>5

LEMMA PlaceBimanualActs ==
  ASSUME NEW a \in Arms, Ready1(a), PlaceBimanual(a)
  PROVE  Acted(a)
<1> DEFINE r == prim[a].req
<1>1. /\ prim[a] # None /\ r.op = "MOVE" /\ r.obj \in Bimanual /\ UNCHANGED <<zone, owner, flight>>
  BY DEF PlaceBimanual, Running, claim
<1>2. PICK ok \in BOOLEAN, at \in {"goal", "astray"} :
        /\ jaws' = [b \in Arms |-> IF b \in frozen THEN jaws[b] ELSE {}]
        /\ spot' = [p \in Objects |-> CASE p = r.obj -> at
                      [] p # r.obj /\ InAJaw(p, jaws) /\ ~InAJaw(p, jaws') -> "astray"
                      [] OTHER -> spot[p]]
        /\ Ends(a, ok)
  BY DEF PlaceBimanual
<1>3. jaws \in [Arms -> SUBSET Objects] /\ spot \in [Objects -> Spots]
  BY DEF Ready1, Typed
<1>4. Became(a, "ended", ok)
  BY <1>1, <1>2, EndsDoes DEF Ready1
<1>5. spot' \in [Objects -> Spots]
  BY <1>2, <1>3 DEF Spots
<1>6. jaws' \in [Arms -> SUBSET Objects]
  BY <1>2, <1>3
<1>7. Grips(a, prim[a], prim[a].req)'
  BY <1>1, <1>4 DEF Became, Grips
<1> QED
  BY <1>1, <1>4, <1>5, <1>6, <1>7 DEF Acted, Phases

LEMMA PullActs ==
  ASSUME ~RealDrawers, NEW a \in Arms, Ready1(a), Pull(a)
  PROVE  Acted(a)
<1>1. /\ prim[a] # None /\ prim[a].req.op = "OPEN" /\ UNCHANGED <<zone, owner, flight, jaws, spot>>
      /\ Ends(a, TRUE)
  BY DEF Pull, Running, claim
<1>2. Became(a, "ended", TRUE)
  BY <1>1, EndsDoes DEF Ready1
<1>3. Grips(a, prim[a], prim[a].req)'
  BY <1>1, <1>2 DEF Became, Grips
<1>4. jaws' \in [Arms -> SUBSET Objects] /\ spot' \in [Objects -> Spots] /\ Kept(a)
  BY <1>1 DEF Ready1, Typed, Kept
<1> QED
  BY <1>1, <1>2, <1>3, <1>4 DEF Acted, Phases

(* What is known of an arm that moves.                                       *)
Aloft(a, r) ==
  /\ r.arm = a /\ r.op \in {"OPEN", "PICK", "MOVE"} /\ ~Left(r)
  /\ \E k \in 1..Len(graph) : graph[k] = r
  /\ \E i \in 1..Len(flight) : flight[i] = r
  /\ Len(flight) = 1 \/ Len(flight) = 2
  /\ Len(flight) = 1 => flight[1] = r
  /\ r.op \in Handles => r.obj \in Objects
  /\ r.op = "OPEN" => r.obj \notin Objects
  /\ r.obj \in Bimanual => /\ r.op \in Handles /\ prefer = None /\ Len(flight) = 1
                           /\ \A o \in Objects : o = r.obj \/ owner[o] = None

LEMMA AloftIs ==
  ASSUME GInv, Safe, NEW a \in Arms, prim[a] # None
  PROVE  Aloft(a, prim[a].req) /\ Ready1(a)
<1> DEFINE r == prim[a].req
<1>1. Typed /\ Arranged(graph, prefer) /\ Flight /\ InOrder /\ Owners
      /\ Grips(a, prim[a], r) /\ Asks(a, prim[a], r)
  BY DEF GInv, Hand
<1> HIDE DEF r
<1>2. PICK i \in 1..Len(flight) : flight[i] = r
  BY <1>1 DEF Asks
<1>3. Flying(i) /\ (Len(flight) = 1 \/ Len(flight) = 2)
  <2>1. Len(flight) = 0 \/ Len(flight) = 1 \/ Len(flight) = 2
    BY <1>1 DEF Flight
  <2> QED
    BY <1>1, <1>2, <2>1 DEF Flight
<1>4. PICK k \in 1..Len(graph) : graph[k] = r
  BY <1>2, <1>3 DEF Flying
<1>5. r.op \in {"OPEN", "PICK", "MOVE"} /\ ~Left(r) /\ r.arm = a
  BY <1>1, <1>2, <1>3 DEF Flying, Asks
<1>6. InPlace(graph, prefer, k)
  BY <1>1 DEF Arranged
<1>7. /\ r.op \in Handles => /\ r.obj \in Objects
                             /\ prefer # None => r.obj \notin Bimanual \/ DefaultArm[r.obj] = prefer
      /\ r.op = "OPEN" => r.obj \in Drawers
  BY <1>4, <1>6 DEF InPlace
<1>8. r.op = "OPEN" => r.obj \notin Objects
  BY <1>7, TableAssumption
<1>9. Len(flight) = 1 => flight[1] = r
  BY <1>2
<1>10. ASSUME r.obj \in Bimanual
       PROVE  /\ r.op \in Handles /\ prefer = None /\ Len(flight) = 1
              /\ \A o \in Objects : o = r.obj \/ owner[o] = None
  <2>1. r.op \in Handles
    BY <1>5, <1>8, <1>10, TableAssumption DEF Handles
  <2>2. prefer = None
    BY <1>7, <1>10, <2>1 DEF Safe
  <2>3. pc = "moving" /\ BothNeeded
    <3>1. flight # <<>>
      BY <1>3
    <3>2. InFlight(r.obj)
      BY <1>2 DEF InFlight
    <3> QED
      BY <1>1, <1>10, <3>1, <3>2 DEF Flight, BothNeeded
  <2>4. OneAtATime
    BY <1>1, <2>2, <2>3 DEF InOrder
  <2>5. Len(flight) = 1 /\ flight[1] = r
    BY <1>9, <2>4 DEF OneAtATime
  <2>6. \A o \in Objects : InFlight(o) => o = r.obj
    BY <2>5 DEF InFlight
  <2> QED
    BY <2>1, <2>2, <2>4, <2>5, <2>6 DEF OneAtATime
<1>11. Aloft(a, r)
  BY <1>2, <1>3, <1>4, <1>5, <1>7, <1>8, <1>9, <1>10 DEF Aloft
<1>12. r.op = "MOVE" \/ r.obj \in Bimanual => Alone(a, r.obj)
  <2>1. ASSUME r.obj \in Bimanual PROVE Alone(a, r.obj)
    BY <1>10, <2>1, TableAssumption DEF Alone
  <2> QED
    BY <1>1, <2>1 DEF Asks
<1> QED
  BY <1>1, <1>5, <1>7, <1>11, <1>12 DEF Ready1, r

LEMMA PrimitivesAct ==
  ASSUME ~RealDrawers, GInv, Safe, Primitives
  PROVE  \/ \E a \in Arms : prim[a] # None /\ Acted(a)
         \/ UNCHANGED <<zone, owner, flight, jaws, spot, prim>>
<1>1. PICK a \in Arms : \/ Approach(a) \/ Lift(a) \/ TryAgain(a) \/ OpenAgain(a) \/ MissPick(a)
                        \/ PickBimanual(a) \/ Carry(a) \/ LetGo(a) \/ PlaceBimanual(a) \/ Pull(a)
                        \/ Unpark(a)
  BY DEF Primitives
<1>2. CASE Unpark(a)
  BY <1>2 DEF Unpark, claim, physics
<1>3. CASE ~Unpark(a)
  <2>1. prim[a] # None
    BY <1>1, <1>3 DEF Approach, Lift, TryAgain, OpenAgain, MissPick, PickBimanual, Carry, LetGo,
                      PlaceBimanual, Pull, Running
  <2>2. Ready1(a)
    BY <2>1, AloftIs
  <2>3. Acted(a)
    BY <1>1, <1>3, <2>2, ApproachActs, LiftActs, TryAgainActs, OpenAgainActs, MissPickActs,
       PickBimanualActs, CarryActs, LetGoActs, PlaceBimanualActs, PullActs
  <2> QED
    BY <2>1, <2>3
<1> QED
  BY <1>2, <1>3

(* Nothing of the graph and the claims has changed.                          *)
LEMMA RunStays ==
  ASSUME UNCHANGED <<zone, owner, flight, prefer, graph, executed, pc>>
  PROVE  /\ Arranged(graph, prefer) => Arranged(graph, prefer)'
         /\ Going => Going'
         /\ Owners => Owners'
         /\ InOrder => InOrder'
         /\ BothNeeded' <=> BothNeeded
         /\ \A o : InFlight(o)' <=> InFlight(o)
         /\ \A s : Left(s)' <=> Left(s)
<1>1. \A o : InFlight(o)' <=> InFlight(o)
  BY DEF InFlight
<1>2. \A s : Left(s)' <=> Left(s)
  BY DEF Left
<1>3. Arranged(graph, prefer) => Arranged(graph, prefer)'
  BY DEF Arranged, InPlace
<1>4. Rims' = Rims
  BY DEF Rims
<1>5. BothNeeded' <=> BothNeeded
  BY <1>1, <1>4 DEF BothNeeded
<1>6. Fits => Fits'
  BY <1>1, <1>2 DEF Fits
<1>7. Placing => Placing'
  BY DEF Placing
<1>8. Placed => Placed'
  BY DEF Placed
<1>9. Going => Going'
  BY <1>6, <1>7, <1>8 DEF Going
<1>10. Owners => Owners'
  BY DEF Owners
<1>11. \A o : MovedNext(o)' <=> MovedNext(o)
  BY <1>2 DEF MovedNext, FirstLeft
<1>12. InOrder => InOrder'
  BY <1>1, <1>4, <1>5, <1>11 DEF InOrder, OneAtATime, Unowned
<1> QED
  BY <1>1, <1>2, <1>3, <1>5, <1>9, <1>10, <1>12

LEMMA MoveKeeps ==
  ASSUME ~RealDrawers, GInv, Safe, Move
  PROVE  GInv'
<1>1. Primitives /\ pc = "moving" /\ UNCHANGED <<prefer, queued, counts, graph, executed, pc>>
  BY DEF Move, run
<1>2. /\ Typed /\ Arranged(graph, prefer) /\ Going /\ Owners /\ InOrder /\ Match /\ Flight
      /\ \A a \in Arms : Hand(a)
  BY DEF GInv
<1>3. CASE UNCHANGED <<zone, owner, flight, jaws, spot, prim>>
  <2>1. /\ Arranged(graph, prefer)' /\ Going' /\ Owners' /\ InOrder'
        /\ (BothNeeded' <=> BothNeeded) /\ \A o : InFlight(o)' <=> InFlight(o)
        /\ \A s : Left(s)' <=> Left(s)
    BY <1>1, <1>2, <1>3, RunStays
  <2>2. Typed'
    BY <1>1, <1>2, <1>3 DEF Typed
  <2>3. Match'
    BY <1>1, <1>2, <1>3, <2>1 DEF Match, Matched
  <2>4. Flight'
    BY <1>1, <1>2, <1>3, <2>1 DEF Flight, Flying
  <2>5. \A a \in Arms : Hand(a)'
    BY <1>1, <1>2, <1>3 DEF Hand, Grips, Asks, Alone
  <2> QED
    BY <2>1, <2>2, <2>3, <2>4, <2>5 DEF GInv
<1>4. ASSUME NEW a \in Arms, prim[a] # None, Acted(a) PROVE GInv'
  <2> DEFINE r == prim[a].req
  <2>1. Aloft(a, r)
    BY <1>4, AloftIs
  <2>2. UNCHANGED <<zone, owner, flight>>
    BY <1>4 DEF Acted
  <2>3. /\ Arranged(graph, prefer)' /\ Going' /\ Owners' /\ InOrder'
        /\ (BothNeeded' <=> BothNeeded) /\ \A o : InFlight(o)' <=> InFlight(o)
        /\ \A s : Left(s)' <=> Left(s)
    BY <1>1, <1>2, <2>2, RunStays
  <2>4. PICK phase \in Phases, ok \in BOOLEAN : Became(a, phase, ok)
    BY <1>4 DEF Acted
  <2>5. /\ prim' \in [Arms -> Progress \cup {None}] /\ prim'[a] \in Progress /\ prim'[a] # None
        /\ prim'[a].req = r /\ prim'[a].before = prim[a].before
        /\ \A b \in Arms : b # a => prim'[b] = prim[b]
    BY <2>4, TableAssumption DEF Became
  <2>6. Typed'
    BY <1>1, <1>2, <1>4, <2>2, <2>5 DEF Typed, Acted
  <2>7. Match'
    <3> SUFFICES ASSUME NEW o \in Objects, ~InFlight(o), owner[o] # None
                 PROVE  /\ o \in jaws'[owner[o]]
                        /\ o \in Bimanual /\ prefer = None => \A b \in Arms : o \in jaws'[b]
      BY <1>1, <2>2, <2>3 DEF Match, Matched
    <3>1. o # r.obj
      BY <2>1 DEF Aloft, InFlight
    <3>2. r.obj \notin Bimanual /\ Kept(a)
      BY <1>4, <2>1, <3>1 DEF Aloft, Acted
    <3>3. Matched(o) /\ owner[o] \in Arms
      BY <1>2 DEF Match, Typed
    <3>4. o \in jaws'[owner[o]]
      BY <3>1, <3>2, <3>3 DEF Matched, Kept, Alone
    <3>5. ASSUME o \in Bimanual, prefer = None PROVE FALSE
      <4>1. zone[o] # "goal"
        BY <1>2 DEF Owners
      <4>2. BothNeeded
        BY <3>5, <4>1 DEF BothNeeded, Rims
      <4> QED
        BY <1>1, <1>2, <3>5, <4>2 DEF InOrder, OneAtATime
    <3> QED
      BY <3>4, <3>5
  <2>8. Flight'
    <3>1. ASSUME NEW i \in 1..Len(flight) PROVE Flying(i)'
      <4>1. Flying(i) /\ flight[i] \in Steps
        BY <1>2 DEF Flight, Typed
      <4>2. prim'[flight[i].arm] # None /\ prim'[flight[i].arm].req = flight[i]
        <5>1. CASE flight[i].arm = a
          BY <2>5, <4>1, <5>1 DEF Flying
        <5>2. CASE flight[i].arm # a
          <6>1. flight[i].arm \in Arms
            <7>1. PICK k \in 1..Len(graph) : graph[k] = flight[i]
              BY <4>1 DEF Flying
            <7> QED
              BY <1>2, <4>1, <7>1 DEF Arranged, InPlace, Flying
          <6> QED
            BY <2>5, <4>1, <5>2, <6>1 DEF Flying
        <5> QED
          BY <5>1, <5>2
      <4> QED
        BY <1>1, <2>2, <2>3, <4>1, <4>2 DEF Flying
    <3> QED
      BY <1>1, <1>2, <2>2, <2>3, <3>1 DEF Flight
  <2>9. ASSUME NEW b \in Arms PROVE Hand(b)'
    <3>1. CASE b = a
      <4>1. Grips(a, prim[a], prim[a].req)'
        BY <1>4 DEF Acted
      <4>2. Asks(a, prim[a], prim[a].req)
        BY <1>2, <1>4 DEF Hand
      <4>3. Asks(a, prim[a], prim[a].req)'
        BY <2>2, <2>5, <4>2 DEF Asks, Alone
      <4> QED
        BY <3>1, <4>1, <4>3 DEF Hand
    <3>2. CASE b # a /\ prim[b] # None
      <4> DEFINE s == prim[b].req
      <4>1. Aloft(b, s) /\ Hand(b)
        BY <1>2, <3>2, AloftIs
      <4>2. Len(flight) = 2
        BY <2>1, <3>2, <4>1 DEF Aloft
      <4>3. r.obj # s.obj /\ r.obj \notin Bimanual /\ s.obj \notin Bimanual
        <5>1. flight[1].obj # flight[2].obj
          BY <1>2, <4>2 DEF Flight
        <5>2. PICK i \in 1..2, j \in 1..2 : flight[i] = r /\ flight[j] = s
          BY <2>1, <4>1, <4>2 DEF Aloft
        <5>3. r # s
          BY <2>1, <3>2, <4>1 DEF Aloft
        <5> QED
          BY <2>1, <4>1, <4>2, <5>1, <5>2, <5>3 DEF Aloft
      <4>4. Kept(a)
        BY <1>4, <4>3 DEF Acted
      <4>5. prim'[b] = prim[b]
        BY <2>5, <3>2
      <4>6. Grips(b, prim[b], prim[b].req)'
        <5>1. s.obj \in jaws[b] /\ s.obj \in Objects => s.obj \in jaws'[b]
          BY <3>2, <4>3, <4>4 DEF Kept
        <5>2. s.op = "PICK" => s.obj \in Objects
          BY <4>1 DEF Aloft, Handles
        <5> QED
          BY <2>2, <3>2, <4>1, <4>3, <4>5, <5>1, <5>2 DEF Hand, Grips, Alone
      <4>7. Asks(b, prim[b], prim[b].req)'
        BY <2>2, <3>2, <4>1, <4>5 DEF Hand, Asks, Alone
      <4> QED
        BY <4>6, <4>7 DEF Hand
    <3>3. CASE b # a /\ prim[b] = None
      BY <2>5, <3>3 DEF Hand
    <3> QED
      BY <3>1, <3>2, <3>3
  <2> QED
    BY <2>3, <2>6, <2>7, <2>8, <2>9 DEF GInv
<1> QED
  BY <1>1, <1>3, <1>4, PrimitivesAct

-----------------------------------------------------------------------------
(* The engine between two transitions.                                       *)

LEMMA AtRestIs ==
  ASSUME GInv, flight = <<>>
  PROVE  /\ \A a \in Arms : prim[a] = None
         /\ \A o : ~InFlight(o)
         /\ \A o \in Objects : Matched(o)
         /\ pc # "moving"
<1>1. Len(flight) = 0
  OBVIOUS
<1>2. \A o : ~InFlight(o)
  BY <1>1 DEF InFlight
<1>3. \A a \in Arms : prim[a] = None
  BY <1>1 DEF GInv, Hand, Asks
<1>4. \A o \in Objects : Matched(o)
  BY <1>2 DEF GInv, Match
<1> QED
  BY <1>2, <1>3, <1>4 DEF GInv, Flight

(* The table is as it was, and nothing moves.                                *)
Calm == UNCHANGED <<zone, owner, flight, jaws, spot, prim>> /\ flight = <<>>

LEMMA CalmKeeps ==
  ASSUME GInv, Calm, pc' # "moving", prefer' = None => prefer = None
  PROVE  Owners' /\ Match' /\ Flight' /\ \A a \in Arms : Hand(a)'
<1>1. /\ \A a \in Arms : prim[a] = None
      /\ \A o \in Objects : Matched(o)
  BY AtRestIs DEF Calm
<1>2. Owners'
  BY DEF Calm, GInv, Owners
<1>3. Match'
  BY <1>1 DEF Calm, Match, Matched
<1>4. Flight'
  <2>1. flight' = <<>> /\ Len(flight') = 0
    BY DEF Calm
  <2> QED
    BY <2>1 DEF Flight
<1>5. \A a \in Arms : Hand(a)'
  BY <1>1 DEF Calm, Hand
<1> QED
  BY <1>2, <1>3, <1>4, <1>5

LEMMA CountedIs ==
  ASSUME NEW n \in [Objects -> Nat]
  PROVE  Counted(n) \in [Objects -> Nat]
<1> DEFINE picks == {i \in DOMAIN graph : graph[i].op = "PICK" /\ graph[i].obj \in Misplaced}
           o == graph[CHOOSE i \in picks : \A j \in picks : i <= j].obj
<1>1. Counted(n) = IF picks = {} THEN n ELSE [n EXCEPT ![o] = n[o] + 1]
  BY Zenon DEF Counted
<1> HIDE DEF o, picks
<1>2. [n EXCEPT ![o] = n[o] + 1] \in [Objects -> Nat]
  <2>1. CASE o \in Objects
    <3>1. n[o] + 1 \in Nat
      BY <2>1
    <3> QED
      BY <3>1
  <2>2. CASE o \notin Objects
    BY <2>2
  <2> QED
    BY <2>1, <2>2
<1> QED
  BY <1>1, <1>2

(* A new graph, for the table as it is.                                      *)
LEMMA ReplannedKeeps ==
  ASSUME GInv, Safe', Calm, pc' = "boundary", executed' = {},
         prefer' \in Arms \cup {None}, prefer' = None => prefer = None,
         queued' \in Arms \cup {None}, counts' \in [Objects -> Nat],
         NEW n \in [Objects -> Nat], graph' = Plan(n, prefer'),
         prefer' = None /\ Rims # {} => Unowned
  PROVE  GInv'
<1> DEFINE p == prefer'
           g == graph'
<1>1. g \in Seq(Steps) /\ Arranged(g, p) /\ Suits(g, p)
  BY PlanSuits
<1>2. Owners' /\ Match' /\ Flight' /\ \A a \in Arms : Hand(a)'
  BY CalmKeeps
<1>3. Typed'
  BY <1>1 DEF Typed, GInv, Calm
<1>4. Arranged(graph, prefer)'
  BY <1>1 DEF Arranged, InPlace
<1>5. Fits'
  <2> SUFFICES ASSUME NEW i \in 1..Len(g)
               PROVE  /\ g[i].op = "PICK" => owner'[g[i].obj] = None /\ zone'[g[i].obj] # "goal"
                      /\ g[i].op = "MOVE" => /\ zone'[g[i].obj] # "goal"
                                             /\ g[i].deps \subseteq {} => owner'[g[i].obj] # None
    BY DEF Fits
  <2>1. g[i].deps \subseteq {} => g[i].deps = {}
    OBVIOUS
  <2> QED
    BY <1>1, <2>1 DEF Suits, Calm
<1>6. Placing'
  BY <1>1, TableAssumption DEF Suits, Placing, Misplaced, Calm
<1>7. Placed'
  BY DEF Placed
<1>8. InOrder'
  <2>1. prefer' = None /\ Rims' # {} => \A o \in Objects : owner'[o] = None
    BY DEF Rims, Unowned, Calm
  <2> QED
    BY <2>1 DEF InOrder
<1> QED
  BY <1>2, <1>3, <1>4, <1>5, <1>6, <1>7, <1>8 DEF GInv, Going

(* The run is over.                                                          *)
LEMMA ClosedKeeps ==
  ASSUME GInv, Calm, pc' \in {"done", "hold"}, UNCHANGED <<prefer, queued, counts, graph>>
  PROVE  GInv'
<1>1. Owners' /\ Match' /\ Flight' /\ \A a \in Arms : Hand(a)'
  BY CalmKeeps
<1>2. Typed' /\ Arranged(graph, prefer)'
  BY DEF GInv, Typed, Calm, Arranged, InPlace
<1> QED
  BY <1>1, <1>2 DEF GInv, Going, InOrder

LEMMA RecompileKeeps ==
  ASSUME GInv, Safe, Calm, Recompile, UNCHANGED <<prefer, queued>>,
         prefer = None /\ Rims # {} => Unowned
  PROVE  GInv'
<1>1. CASE revisions + 1 > MaxRevisions
  BY <1>1, ClosedKeeps DEF Recompile
<1>2. CASE ~(revisions + 1 > MaxRevisions)
  <2>1. /\ counts' = Counted(counts) /\ graph' = Plan(Counted(counts), prefer)
        /\ executed' = {} /\ pc' = "boundary"
    BY <1>2 DEF Recompile
  <2>2. Counted(counts) \in [Objects -> Nat] /\ prefer \in Arms \cup {None} /\ queued \in Arms \cup {None}
    BY CountedIs DEF GInv, Typed
  <2>3. Safe'
    BY DEF Safe
  <2> QED
    BY <2>1, <2>2, <2>3, ReplannedKeeps
<1> QED
  BY <1>1, <1>2

LEMMA ApplyConstraintKeeps ==
  ASSUME GInv, Safe', ApplyConstraint
  PROVE  GInv'
<1>1. flight = <<>>
  BY DEF GInv, Flight, ApplyConstraint
<1>2. Calm
  BY <1>1 DEF Calm, ApplyConstraint, table
<1>3. /\ prefer' \in Arms /\ prefer' # None /\ queued' = None /\ counts' = counts
      /\ counts \in [Objects -> Nat]
  BY TableAssumption DEF ApplyConstraint, GInv, Typed
<1>4. graph' = Plan(counts, prefer') /\ executed' = {} /\ pc' = "boundary"
  BY DEF ApplyConstraint
<1> QED
  BY <1>2, <1>3, <1>4, ReplannedKeeps

(* What an arm holds while a rim is to be placed is moved next.              *)
LEMMA HeldIsNext ==
  ASSUME GInv, pc = "boundary", prefer = None, Rims # {}, SomeReady,
         NEW o \in Objects, owner[o] # None
  PROVE  /\ NextStep.op = "MOVE" /\ NextStep.obj = o
         /\ owner[o] = NextStep.arm
<1>1. PICK k \in 1..Len(graph) : NextStep = graph[k] /\ FirstLeft(k)
  BY NextIs DEF GInv
<1>2. PICK i \in 1..Len(graph) : graph[i].op = "MOVE" /\ graph[i].obj = o /\ FirstLeft(i)
  BY DEF GInv, InOrder, MovedNext
<1>3. i = k
  <2>1. ~(i < k)
    BY <1>1, <1>2 DEF FirstLeft
  <2>2. ~(k < i)
    BY <1>1, <1>2 DEF FirstLeft
  <2> QED
    BY <2>1, <2>2
<1>4. InPlace(graph, prefer, i)
  BY DEF GInv, Arranged
<1>5. graph[i].arm = DefaultArm[o]
  BY <1>2, <1>4 DEF InPlace, Handles
<1>6. owner[o] = DefaultArm[o]
  BY DEF GInv, Owners
<1> QED
  BY <1>1, <1>2, <1>3, <1>5, <1>6

LEMMA RejectKeeps ==
  ASSUME GInv, Safe, Reject
  PROVE  GInv'
<1>1. pc = "boundary" /\ SomeReady /\ Recompile /\ UNCHANGED <<prefer, queued>>
  BY DEF Reject, AtBoundary
<1>2. Calm
  BY DEF GInv, Flight, Calm, Reject, table, AtBoundary
<1>3. ASSUME prefer = None, Rims # {}, NEW o \in Objects, owner[o] # None PROVE FALSE
  <2>1. NextStep.op = "MOVE" /\ NextStep.obj = o /\ owner[o] = NextStep.arm
    BY <1>1, <1>3, HeldIsNext
  <2> QED
    BY <2>1 DEF Reject, Accepts, Refused
<1> QED
  BY <1>1, <1>2, <1>3, RecompileKeeps DEF Unowned

LEMMA VerifyKeeps ==
  ASSUME GInv, Safe, Verify
  PROVE  GInv'
<1>1. pc = "boundary" /\ SomeReady /\ NextStep.op = "VERIFY" /\ UNCHANGED <<prefer, queued>>
  BY DEF Verify, AtBoundary
<1>2. Calm
  BY DEF GInv, Flight, Calm, Verify, table, AtBoundary
<1>3. CASE Misplaced # {}
  <2>1. ASSUME prefer = None, Rims # {}, NEW o \in Objects, owner[o] # None PROVE FALSE
    BY <1>1, <2>1, HeldIsNext
  <2> QED
    BY <1>1, <1>2, <1>3, <2>1, RecompileKeeps DEF Unowned, Verify
<1>4. CASE Misplaced = {}
  <2>1. executed' = executed \cup {Id(NextStep)} /\ UNCHANGED <<counts, graph, pc>>
    BY <1>4 DEF Verify
  <2>2. Owners' /\ Match' /\ Flight' /\ \A a \in Arms : Hand(a)'
    BY <1>1, <1>2, <2>1, CalmKeeps
  <2>3. Typed' /\ Arranged(graph, prefer)'
    BY <1>1, <1>2, <2>1 DEF GInv, Typed, Calm, Arranged, InPlace
  <2>4. \A o \in Objects : zone[o] = "goal"
    BY <1>4 DEF Misplaced
  <2>5. Rims' = {}
    BY <1>2, <2>4, TableAssumption DEF Rims, Calm
  <2>6. Fits'
    <3>1. \A i \in 1..Len(graph) : Left(graph[i])' => Left(graph[i])
      BY <2>1 DEF Left
    <3>2. \A i \in 1..Len(graph) : graph[i].op \in {"PICK", "MOVE"} => ~Left(graph[i])
      <4> TAKE i \in 1..Len(graph)
      <4>1. InPlace(graph, prefer, i) /\ Fits
        BY <1>1 DEF GInv, Going, Arranged
      <4> QED
        BY <2>4, <4>1 DEF InPlace, Handles, Fits
    <3> QED
      BY <2>1, <3>1, <3>2 DEF Fits, Left
  <2>7. Placing' /\ Placed'
    BY <1>2, <2>4, TableAssumption DEF Placing, Placed, Calm
  <2>8. InOrder'
    BY <1>1, <2>1, <2>5 DEF InOrder
  <2> QED
    BY <2>2, <2>3, <2>6, <2>7, <2>8 DEF GInv, Going
<1> QED
  BY <1>3, <1>4

LEMMA FailedKeeps ==
  ASSUME GInv, Safe, Failed
  PROVE  GInv'
<1>1. Calm
  BY DEF GInv, Flight, Calm, Failed, table
<1>2. prefer = None /\ Rims # {} => Unowned
  BY DEF GInv, InOrder, Failed
<1> QED
  BY <1>1, <1>2, RecompileKeeps DEF Failed

LEMMA FinishKeeps ==
  ASSUME GInv, Finish1
  PROVE  GInv'
<1>1. Calm
  BY DEF GInv, Flight, Calm, Finish1, table, AtBoundary
<1> QED
  BY <1>1, ClosedKeeps DEF Finish1

(* Only a constraint is queued, or an arm stops.                             *)
LEMMA AsideKeeps ==
  ASSUME GInv, queued' \in Arms \cup {None},
         UNCHANGED <<zone, owner, flight, jaws, spot, prim, prefer, graph, executed, pc, counts>>
  PROVE  GInv'
<1>1. /\ Arranged(graph, prefer)' /\ Going' /\ Owners' /\ InOrder'
      /\ (BothNeeded' <=> BothNeeded) /\ \A o : InFlight(o)' <=> InFlight(o)
      /\ \A s : Left(s)' <=> Left(s)
  BY RunStays DEF GInv
<1>2. Typed'
  BY DEF GInv, Typed
<1>3. Match'
  BY <1>1 DEF GInv, Match, Matched
<1>4. Flight'
  BY <1>1 DEF GInv, Flight, Flying
<1>5. \A a \in Arms : Hand(a)'
  BY DEF GInv, Hand, Grips, Asks, Alone
<1> QED
  BY <1>1, <1>2, <1>3, <1>4, <1>5 DEF GInv

-----------------------------------------------------------------------------
(* One step carried out alone.                                               *)

Fresh(p, s) ==
  /\ p \in Progress /\ p # None /\ p.req = s /\ p.phase = "start" /\ ~p.ok
  /\ s.obj \in Objects => p.before.zone = zone[s.obj] /\ p.before.owner = owner[s.obj]

LEMMA PrimitiveIs ==
  ASSUME Typed, NEW s \in Steps
  PROVE  Fresh(Primitive(s), s)
<1> DEFINE b == Before(s)
           p == Primitive(s)
           B == [zone : {"start", "goal", None}, owner : Arms \cup {None}]
<1>1. b \in B /\ (s.obj \in Objects => b.zone = zone[s.obj] /\ b.owner = owner[s.obj])
  BY DEF Typed, Before, Tracked
<1>2. jaws \in [Arms -> SUBSET Objects] /\ spot \in [Objects -> Spots]
  BY DEF Typed
<1>3. p = [req |-> s, phase |-> "start", tries |-> 0, jaws |-> jaws, spot |-> spot,
           before |-> b, ok |-> FALSE]
  BY DEF Primitive
<1>4. Progress = [req : Steps, phase : {"start", "grip", "again", "carry", "ended"}, tries : Nat,
                  jaws : [Arms -> SUBSET Objects], spot : [Objects -> Spots],
                  before : B, ok : BOOLEAN]
  BY DEF Progress
<1> HIDE DEF b, B, p
<1>5. p \in Progress /\ p.req = s /\ p.phase = "start" /\ ~p.ok /\ p.before = b
  BY <1>1, <1>2, <1>3, <1>4
<1>6. p # None
  BY <1>5, TableAssumption
<1> QED
  BY <1>1, <1>5, <1>6 DEF Fresh, p

(* A step the engine takes from the graph.                                   *)
Taken(s, k) ==
  /\ k \in 1..Len(graph) /\ graph[k] = s /\ InPlace(graph, prefer, k) /\ s \in Steps
  /\ Left(s) /\ s.deps \subseteq executed /\ s.op \in {"OPEN", "PICK", "MOVE"} /\ s.arm \in Arms
  /\ s.op \in Handles => /\ s.obj \in Objects /\ zone[s.obj] # "goal"
                         /\ prefer = None => s.arm = DefaultArm[s.obj]
  /\ s.op = "OPEN" => s.obj \notin Objects
  /\ s.op = "PICK" => owner[s.obj] = None
  /\ s.op = "MOVE" => owner[s.obj] # None

LEMMA TakenIs ==
  ASSUME GInv, pc = "boundary", NEW k \in 1..Len(graph), Ready(graph[k]), Graspable(graph[k])
  PROVE  Taken(graph[k], k)
<1> DEFINE s == graph[k]
<1>1. Typed /\ Arranged(graph, prefer) /\ Fits /\ flight = <<>> /\ InPlace(graph, prefer, k)
  BY DEF GInv, Going, Flight, Arranged
<1>2. s \in Steps /\ Left(s) /\ s.deps \subseteq executed /\ s.op \in {"OPEN", "PICK", "MOVE"}
  BY <1>1 DEF Typed, Ready, Left, Graspable
<1>3. /\ s.arm \in Arms
      /\ s.op \in Handles => s.obj \in Objects /\ (prefer = None => s.arm = DefaultArm[s.obj])
      /\ s.op = "OPEN" => s.obj \in Drawers
  BY <1>1, <1>2 DEF InPlace
<1>4. s.op = "OPEN" => s.obj \notin Objects
  BY <1>3, TableAssumption
<1>5. /\ s.op = "PICK" => owner[s.obj] = None /\ zone[s.obj] # "goal"
      /\ s.op = "MOVE" => zone[s.obj] # "goal" /\ (~InFlight(s.obj) => owner[s.obj] # None)
  BY <1>1, <1>2 DEF Fits
<1>6. ~InFlight(s.obj)
  BY <1>1, AtRestIs
<1> QED
  BY <1>1, <1>2, <1>3, <1>4, <1>5, <1>6 DEF Taken, Handles

(* What its transition claims at once.                                       *)
ClaimedOne(s) ==
  /\ s.op = "PICK" => /\ zone' = zone /\ owner'[s.obj] = s.arm /\ Alone(s.arm, s.obj)
                      /\ \A o \in Objects : o # s.obj => owner'[o] = owner[o]
  /\ s.op = "MOVE" => /\ owner[s.obj] = s.arm /\ owner'[s.obj] = None /\ zone'[s.obj] = "goal"
                      /\ \A o \in Objects : o # s.obj => owner'[o] = owner[o] /\ zone'[o] = zone[o]
  /\ s.op = "OPEN" => zone' = zone /\ owner' = owner
  /\ zone' \in [Objects -> {"start", "goal"}] /\ owner' \in [Objects -> Arms \cup {None}]

LEMMA ClaimedOneIs ==
  ASSUME Typed, NEW s, NEW k, Taken(s, k), BeginOne(s)
  PROVE  ClaimedOne(s)
<1>1. Accepts(s) /\ ~Refused(s) /\ Symbolic(s)
  BY DEF BeginOne
<1>2. zone \in [Objects -> {"start", "goal"}] /\ owner \in [Objects -> Arms \cup {None}]
  BY DEF Typed
<1>3. CASE s.op = "PICK"
  <2>1. zone' = zone /\ owner' = [owner EXCEPT ![s.obj] = s.arm]
    BY <1>1, <1>3 DEF Symbolic
  <2>2. Alone(s.arm, s.obj)
    BY <1>1, <1>3 DEF Refused, HoldsOther, Alone
  <2> QED
    BY <1>2, <1>3, <2>1, <2>2 DEF ClaimedOne, Taken, Handles
<1>4. CASE s.op = "MOVE"
  <2>1. zone' = [zone EXCEPT ![s.obj] = "goal"] /\ owner' = [owner EXCEPT ![s.obj] = None]
    BY <1>1, <1>4 DEF Symbolic
  <2>2. owner[s.obj] = s.arm
    BY <1>1, <1>4 DEF Accepts, Taken
  <2> QED
    BY <1>2, <1>4, <2>1, <2>2 DEF ClaimedOne, Taken, Handles
<1>5. CASE s.op = "OPEN"
  BY <1>1, <1>2, <1>5 DEF Symbolic, ClaimedOne
<1> QED
  BY <1>3, <1>4, <1>5 DEF Taken

LEMMA ExecuteOneKeeps ==
  ASSUME GInv, Safe, ExecuteOne
  PROVE  GInv'
<1>0. PICK s, P : s = NextStep /\ P = Primitive(s)
  OBVIOUS
<1>1. /\ pc = "boundary" /\ SomeReady /\ Graspable(s) /\ BeginOne(s) /\ pc' = "moving"
      /\ executed' = executed \cup {Id(s)}
      /\ UNCHANGED <<prefer, queued, counts, graph>>
  BY <1>0 DEF ExecuteOne, AtBoundary, Begun
<1>2. /\ Typed /\ Arranged(graph, prefer) /\ Fits /\ Placing /\ Placed /\ Owners /\ flight = <<>>
      /\ \A a \in Arms : prim[a] = None
      /\ \A o \in Objects : Matched(o)
  BY <1>1, AtRestIs DEF GInv, Going, Flight
<1>3. PICK k \in 1..Len(graph) : s = graph[k] /\ Ready(graph[k]) /\ FirstLeft(k)
  BY <1>0, <1>1, <1>2, NextIs
<1>4. Taken(s, k)
  BY <1>1, <1>3, TakenIs
<1>5. ClaimedOne(s) /\ Fresh(P, s)
  BY <1>0, <1>1, <1>2, <1>4, ClaimedOneIs, PrimitiveIs DEF Taken
<1>6. /\ flight' = <<s>> /\ prim' = [prim EXCEPT ![s.arm] = P] /\ UNCHANGED <<jaws, spot>>
  BY <1>0, <1>1 DEF BeginOne, physics
<1>7. /\ prim' \in [Arms -> Progress \cup {None}] /\ prim'[s.arm] = P
      /\ \A a \in Arms : a # s.arm => prim'[a] = None
  BY <1>2, <1>4, <1>5, <1>6 DEF Typed, Taken, Fresh
<1>8. flight' \in Seq(Steps) /\ Len(flight') = 1 /\ flight'[1] = s
  BY <1>4, <1>6 DEF Taken
<1>9. Typed'
  BY <1>1, <1>2, <1>5, <1>6, <1>7, <1>8 DEF Typed, ClaimedOne
<1>10. Arranged(graph, prefer)'
  BY <1>1, <1>2 DEF Arranged, InPlace
<1>11. \A o : InFlight(o)' <=> o = s.obj
  BY <1>8 DEF InFlight
<1>12. \A o : ~InFlight(o)
  BY <1>2 DEF InFlight
<1>13. \A o \in Objects : /\ o # s.obj => owner'[o] = owner[o] /\ zone'[o] = zone[o]
                          /\ zone[o] = "goal" => zone'[o] = "goal"
  BY <1>2, <1>4, <1>5 DEF ClaimedOne, Taken, Handles
<1>14. \A t : Left(t)' <=> Left(t) /\ Id(t) # Id(s)
  BY <1>1 DEF Left
<1>15. Fits'
  <2> SUFFICES ASSUME NEW i \in 1..Len(graph), Left(graph[i])'
               PROVE  /\ graph[i].op = "PICK" =>
                           owner'[graph[i].obj] = None /\ zone'[graph[i].obj] # "goal"
                      /\ graph[i].op = "MOVE" =>
                           /\ zone'[graph[i].obj] # "goal"
                           /\ graph[i].deps \subseteq executed' /\ ~InFlight(graph[i].obj)'
                                => owner'[graph[i].obj] # None
    BY <1>1 DEF Fits
  <2> DEFINE t == graph[i]
  <2>1. Left(t) /\ Id(t) # Id(s) /\ InPlace(graph, prefer, i)
    BY <1>1, <1>2, <1>14 DEF Arranged
  <2>2. CASE t.op = "PICK"
    <3>1. owner[t.obj] = None /\ zone[t.obj] # "goal" /\ t.obj \in Objects
      BY <1>2, <2>1, <2>2 DEF Fits, InPlace, Handles
    <3>2. t.obj # s.obj
      <4>1. ASSUME t.obj = s.obj PROVE s.op = "MOVE"
        BY <1>4, <2>1, <2>2, <3>1, <4>1 DEF Taken, Id
      <4>2. ASSUME t.obj = s.obj, s.op = "MOVE" PROVE FALSE
        <5>1. Id(t) \in s.deps
          BY <1>3, <2>1, <2>2, <4>2 DEF InPlace
        <5> QED
          BY <1>4, <2>1, <5>1 DEF Taken, Left
      <4> QED
        BY <4>1, <4>2
    <3> QED
      BY <1>13, <2>2, <3>1, <3>2
  <2>3. CASE t.op = "MOVE"
    <3>1. zone[t.obj] # "goal" /\ t.obj \in Objects /\ t.deps \subseteq {<<"PICK", t.obj>>}
      BY <1>2, <2>1, <2>3 DEF Fits, InPlace, Handles
    <3>2. zone'[t.obj] # "goal"
      <4>1. CASE t.obj # s.obj
        BY <1>13, <3>1, <4>1
      <4>2. CASE t.obj = s.obj
        <5>1. s.op # "MOVE"
          BY <2>1, <2>3, <4>2 DEF Id
        <5> QED
          BY <1>4, <1>5, <3>1, <5>1 DEF Taken, ClaimedOne
      <4> QED
        BY <4>1, <4>2
    <3>3. ASSUME t.deps \subseteq executed', ~InFlight(t.obj)' PROVE owner'[t.obj] # None
      <4>1. t.obj # s.obj
        BY <1>1, <1>11, <3>3
      <4>2. <<"PICK", t.obj>> # Id(s)
        BY <4>1 DEF Id
      <4>3. t.deps \subseteq executed
        BY <1>1, <3>1, <3>3, <4>2
      <4>4. owner[t.obj] # None
        BY <1>2, <1>12, <2>1, <2>3, <4>3 DEF Fits
      <4> QED
        BY <1>13, <3>1, <4>1, <4>4
    <3> QED
      BY <2>3, <3>2, <3>3
  <2> QED
    BY <2>2, <2>3
<1>16. Placing'
  BY <1>1, <1>2, <1>13, TableAssumption DEF Placing
<1>17. Placed'
  <2> SUFFICES ASSUME NEW o \in Objects, <<"MOVE", o>> \in executed'
               PROVE  zone'[o] = "goal" \/ Id(flight'[1]) = <<"MOVE", o>>
    BY <1>8 DEF Placed, Id
  <2>1. CASE <<"MOVE", o>> \in executed
    BY <1>2, <1>13, <2>1 DEF Placed
  <2>2. CASE <<"MOVE", o>> = Id(s)
    BY <1>8, <2>2
  <2> QED
    BY <1>1, <2>1, <2>2
<1>18. Owners'
  <2>1. prefer' = None => \A o \in Objects : owner'[o] \in {None, DefaultArm[o]}
    BY <1>1, <1>2, <1>4, <1>5, <1>13 DEF Owners, Taken, ClaimedOne, Handles
  <2>2. \A o \in Objects : zone'[o] = "goal" => owner'[o] = None
    <3> TAKE o \in Objects
    <3>1. CASE o # s.obj
      BY <1>2, <1>13, <3>1 DEF Owners
    <3>2. CASE o = s.obj
      BY <1>4, <1>5, <3>2 DEF Taken, ClaimedOne, Handles
    <3> QED
      BY <3>1, <3>2
  <2>3. \A o, q \in Objects : owner'[o] = owner'[q] /\ owner'[o] # None => o = q
    BY <1>2, <1>4, <1>5, <1>13 DEF Owners, Taken, ClaimedOne, Handles, Alone
  <2> QED
    BY <2>1, <2>2, <2>3 DEF Owners
<1>19. InOrder'
  <2>0. SUFFICES ASSUME prefer = None, BothNeeded' PROVE OneAtATime'
    BY <1>1 DEF InOrder
  <2>1. Rims # {}
    <3>1. CASE Rims' # {}
      BY <1>13, <3>1, TableAssumption DEF Rims
    <3>2. CASE \E o \in Bimanual : InFlight(o)'
      <4>1. s.obj \in Bimanual
        BY <1>11, <3>2
      <4> QED
        BY <1>4, <4>1, TableAssumption DEF Rims, Taken, Handles
    <3> QED
      BY <2>0, <3>1, <3>2 DEF BothNeeded
  <2>2. \A o \in Objects : owner[o] # None => s.op = "MOVE" /\ s.obj = o
    BY <1>0, <1>1, <2>0, <2>1, HeldIsNext
  <2>3. \A o \in Objects : InFlight(o)' \/ owner'[o] = None
    BY <1>11, <1>13, <2>2
  <2>4. ASSUME s.op = "PICK" PROVE MovedNext(s.obj)'
    <3>1. k + 1 \in 1..Len(graph) /\ graph[k + 1].op = "MOVE" /\ graph[k + 1].obj = s.obj
      BY <1>3, <1>4, <2>4 DEF Taken, InPlace
    <3>2. Left(graph[k + 1])'
      <4>1. <<"MOVE", s.obj>> \notin executed
        <5>1. s.obj \in Objects /\ zone[s.obj] # "goal"
          BY <1>4, <2>4 DEF Taken, Handles
        <5> QED
          BY <1>2, <5>1 DEF Placed
      <4>2. Id(graph[k + 1]) = <<"MOVE", s.obj>> /\ Id(graph[k + 1]) # Id(s)
        BY <2>4, <3>1 DEF Id
      <4> QED
        BY <1>1, <1>14, <3>1, <4>1, <4>2 DEF Left
    <3>3. \A j \in 1..k : ~Left(graph[j])'
      <4> TAKE j \in 1..k
      <4>1. CASE j = k
        BY <1>1, <1>3, <1>14, <4>1
      <4>2. CASE j # k
        BY <1>1, <1>3, <1>14, <4>2 DEF FirstLeft
      <4> QED
        BY <4>1, <4>2
    <3>4. (k + 1) - 1 = k
      OBVIOUS
    <3> QED
      BY <1>1, <3>1, <3>2, <3>3, <3>4 DEF MovedNext, FirstLeft
  <2> QED
    BY <1>8, <2>3, <2>4 DEF OneAtATime
<1>20. Match'
  BY <1>1, <1>2, <1>6, <1>11, <1>13 DEF Match, Matched
<1>21. Flight'
  <2>1. Flying(1)'
    <3>1. ~Left(s)' /\ s.deps \subseteq executed'
      BY <1>1, <1>4, <1>14 DEF Taken
    <3> QED
      BY <1>1, <1>4, <1>5, <1>7, <1>8, <3>1 DEF Flying, Taken, Fresh
  <2>2. flight' # <<>>
    BY <1>6
  <2>3. \A i \in 1..1 : i = 1
    OBVIOUS
  <2> QED
    BY <1>1, <1>8, <2>1, <2>2, <2>3 DEF Flight
<1>22. ASSUME NEW a \in Arms PROVE Hand(a)'
  <2>1. CASE a # s.arm
    BY <1>7, <2>1 DEF Hand
  <2>2. CASE a = s.arm
    <3>1. prim'[a] = P /\ P.req = s
      BY <1>5, <1>7, <2>2 DEF Fresh
    <3>2. Grips(a, P, s)'
      BY <1>5 DEF Grips, Fresh
    <3>3. \E i \in 1..Len(flight') : flight'[i] = s
      BY <1>8
    <3>4. s.op = "MOVE" => Alone(a, s.obj)'
      BY <1>2, <1>4, <1>5, <1>13, <2>2, TableAssumption DEF Alone, Owners, Taken, ClaimedOne, Handles
    <3>5. s.op = "PICK" => owner'[s.obj] = a /\ P.before.owner = None
      BY <1>4, <1>5, <2>2 DEF Taken, ClaimedOne, Fresh, Handles
    <3>6. s.op = "MOVE" => owner'[s.obj] = None /\ zone'[s.obj] = "goal"
                           /\ P.before.zone \in {"start", "goal"}
      BY <1>2, <1>4, <1>5 DEF Taken, ClaimedOne, Fresh, Handles, Typed
    <3>7. Asks(a, P, s)'
      BY <1>8, <2>2, <3>3, <3>4, <3>5, <3>6 DEF Asks
    <3> QED
      BY <3>1, <3>2, <3>7 DEF Hand
  <2> QED
    BY <2>1, <2>2
<1> QED
  BY <1>1, <1>9, <1>10, <1>15, <1>16, <1>17, <1>18, <1>19, <1>20, <1>21, <1>22 DEF GInv, Going

-----------------------------------------------------------------------------
(* Two steps carried out together.                                           *)

Partners(s, k, t, m) ==
  /\ Taken(s, k) /\ Taken(t, m) /\ s.arm # t.arm /\ s.obj # t.obj
  /\ s.obj \notin Bimanual /\ t.obj \notin Bimanual
  /\ prefer = None /\ Rims = {} /\ Arms = {s.arm, t.arm}

LEMMA PartnersAre ==
  ASSUME GInv, ExecutePair
  PROVE  \E k, m \in 1..Len(graph) :
           /\ Partners(graph[k], k, graph[m], m)
           /\ BeginPair(graph[k], graph[m]) /\ Begun({graph[k], graph[m]})
<1>1. /\ pc = "boundary" /\ SomeReady /\ Companions(NextStep) # {}
      /\ \E m \in Companions(NextStep) :
           BeginPair(NextStep, graph[m]) /\ Begun({NextStep, graph[m]})
  <2> DEFINE C == Companions(NextStep)
             other == CHOOSE i \in C : \A j \in C : i <= j
  <2>1. /\ pc = "boundary" /\ SomeReady /\ C # {}
        /\ BeginPair(NextStep, graph[other]) /\ Begun({NextStep, graph[other]})
    BY DEF ExecutePair, AtBoundary
  <2>2. C \in SUBSET Nat
    BY DEF Companions, GInv, Typed
  <2>3. other \in C
    <3> HIDE DEF C
    <3>1. \E i \in C : \A j \in C : i <= j
      BY <2>1, <2>2, LeastOf
    <3> QED
      BY <3>1
  <2> QED
    BY <2>1, <2>3
<1>2. /\ Typed /\ Arranged(graph, prefer) /\ Placing /\ Placed /\ flight = <<>>
  BY <1>1 DEF GInv, Going, Flight
<1>3. PICK k \in 1..Len(graph) : NextStep = graph[k] /\ Ready(graph[k])
  BY <1>1, <1>2, NextIs
<1>4. PICK m \in Companions(NextStep) : BeginPair(NextStep, graph[m]) /\ Begun({NextStep, graph[m]})
  BY <1>1
<1>5. /\ MayPair(graph[k]) /\ m \in 1..Len(graph) /\ Graspable(graph[m])
      /\ graph[m].obj \notin Bimanual /\ Ready(graph[m])
      /\ graph[m].arm # graph[k].arm /\ graph[m].obj # graph[k].obj
  BY <1>2, <1>3, <1>4 DEF Companions, Typed
<1>6. Taken(graph[k], k) /\ Taken(graph[m], m)
  BY <1>1, <1>3, <1>5, TakenIs DEF MayPair
<1>7. prefer = None
  BY <1>5, <1>6 DEF Taken, InPlace
<1>8. Rims = {}
  <2> SUFFICES ASSUME NEW o \in Bimanual, zone[o] # "goal" PROVE FALSE
    BY DEF Rims
  <2>1. PICK i \in 1..Len(graph) : graph[i].op = "MOVE" /\ graph[i].obj = o
    BY <1>2, <1>7 DEF Placing
  <2>2. <<"MOVE", o>> \in executed
    BY <1>2, <1>5, <2>1 DEF MayPair, Id, Typed
  <2> QED
    BY <1>2, <2>2, TableAssumption DEF Placed
<1>9. Arms = {graph[k].arm, graph[m].arm}
  BY <1>5, <1>6, TableAssumption DEF Taken
<1>10. graph[k].obj \notin Bimanual
  BY <1>5 DEF MayPair
<1> QED
  BY <1>3, <1>4, <1>5, <1>6, <1>7, <1>8, <1>9, <1>10 DEF Partners

(* An arm of the pair, when the claims are as before.                        *)
LEMMA PairHand ==
  ASSUME Typed, Owners, prefer = None, UNCHANGED <<zone, owner>>, Len(flight') = 2,
         NEW s, NEW k, Taken(s, k), \E i \in 1..2 : flight'[i] = s,
         NEW P, Fresh(P, s), prim'[s.arm] = P
  PROVE  Hand(s.arm)'
<1> DEFINE a == s.arm
<1>1. P.req = s /\ P.phase = "start" /\ ~P.ok
  BY DEF Fresh
<1>2. Grips(a, P, s)'
  BY <1>1 DEF Grips
<1>3. s.op = "MOVE" => owner[s.obj] = a
  BY DEF Owners, Taken, Handles
<1>4. s.op = "MOVE" => Alone(a, s.obj)'
  BY <1>3, TableAssumption DEF Owners, Alone, Taken, Handles
<1>5. Asks(a, P, s)'
  BY <1>3, <1>4 DEF Asks, Taken, Handles
<1> QED
  BY <1>1, <1>2, <1>5 DEF Hand

LEMMA ExecutePairKeeps ==
  ASSUME GInv, Safe, ExecutePair
  PROVE  GInv'
<1>0. PICK k \in 1..Len(graph), m \in 1..Len(graph) :
        /\ Partners(graph[k], k, graph[m], m)
        /\ BeginPair(graph[k], graph[m]) /\ Begun({graph[k], graph[m]})
  BY PartnersAre
<1>00. PICK s, t, P, Q : s = graph[k] /\ t = graph[m] /\ P = Primitive(s) /\ Q = Primitive(t)
  OBVIOUS
<1>1. Partners(s, k, t, m) /\ BeginPair(s, t) /\ Begun({s, t})
  BY <1>0, <1>00
<1>2. /\ pc = "boundary" /\ pc' = "moving" /\ UNCHANGED <<prefer, queued, counts, graph>>
      /\ executed' = executed \cup {Id(s), Id(t)}
  BY <1>1 DEF Begun, ExecutePair, AtBoundary
<1>3. /\ Typed /\ Arranged(graph, prefer) /\ Fits /\ Placing /\ Placed /\ Owners /\ flight = <<>>
      /\ \A o \in Objects : Matched(o)
  BY <1>2, AtRestIs DEF GInv, Going, Flight
<1>4. Fresh(P, s) /\ Fresh(Q, t)
  BY <1>00, <1>1, <1>3, PrimitiveIs DEF Partners, Taken
<1>5. /\ flight' = <<s, t>> /\ UNCHANGED <<zone, owner, jaws, spot>>
      /\ prim' = [a \in Arms |-> CASE a = s.arm -> P [] a = t.arm -> Q]
  BY <1>00, <1>1 DEF BeginPair, claim, physics
<1>6. /\ prim' \in [Arms -> Progress \cup {None}] /\ prim'[s.arm] = P /\ prim'[t.arm] = Q
  BY <1>1, <1>4, <1>5 DEF Partners, Fresh
<1>7. flight' \in Seq(Steps) /\ Len(flight') = 2 /\ flight'[1] = s /\ flight'[2] = t
  BY <1>1, <1>5 DEF Partners, Taken
<1>8. Typed'
  BY <1>2, <1>3, <1>5, <1>6, <1>7 DEF Typed
<1>9. Arranged(graph, prefer)'
  BY <1>2, <1>3 DEF Arranged, InPlace
<1>10. \A o : InFlight(o)' <=> o = s.obj \/ o = t.obj
  BY <1>7 DEF InFlight
<1>11. \A o : ~InFlight(o)
  BY <1>3 DEF InFlight
<1>12. \A x : Left(x)' <=> Left(x) /\ Id(x) # Id(s) /\ Id(x) # Id(t)
  BY <1>2 DEF Left
<1>13. Fits'
  <2> SUFFICES ASSUME NEW i \in 1..Len(graph), Left(graph[i])'
               PROVE  /\ graph[i].op = "PICK" =>
                           owner[graph[i].obj] = None /\ zone[graph[i].obj] # "goal"
                      /\ graph[i].op = "MOVE" =>
                           /\ zone[graph[i].obj] # "goal"
                           /\ graph[i].deps \subseteq executed' /\ ~InFlight(graph[i].obj)'
                                => owner[graph[i].obj] # None
    BY <1>2, <1>5 DEF Fits
  <2>0. PICK x : x = graph[i]
    OBVIOUS
  <2>1. Left(x) /\ InPlace(graph, prefer, i)
    BY <1>2, <1>3, <1>12, <2>0 DEF Arranged
  <2>2. x.op = "PICK" => owner[x.obj] = None /\ zone[x.obj] # "goal"
    BY <1>3, <2>0, <2>1 DEF Fits
  <2>3. x.op = "MOVE" => zone[x.obj] # "goal"
    BY <1>3, <2>0, <2>1 DEF Fits
  <2>4. ASSUME x.op = "MOVE", x.deps \subseteq executed', ~InFlight(x.obj)' PROVE owner[x.obj] # None
    <3>1. x.obj # s.obj /\ x.obj # t.obj /\ x.deps \subseteq {<<"PICK", x.obj>>}
      BY <1>10, <2>0, <2>1, <2>4 DEF InPlace
    <3>2. <<"PICK", x.obj>> # Id(s) /\ <<"PICK", x.obj>> # Id(t)
      BY <3>1 DEF Id
    <3>3. x.deps \subseteq executed
      BY <1>2, <2>4, <3>1, <3>2
    <3> QED
      BY <1>3, <1>11, <2>0, <2>1, <2>4, <3>3 DEF Fits
  <2> QED
    BY <1>2, <2>0, <2>2, <2>3, <2>4
<1>14. Placing'
  BY <1>2, <1>3, <1>5 DEF Placing
<1>15. Placed'
  <2> SUFFICES ASSUME NEW o \in Objects, <<"MOVE", o>> \in executed'
               PROVE  zone[o] = "goal" \/ \E i \in 1..2 : Id(flight'[i]) = <<"MOVE", o>>
    BY <1>5, <1>7 DEF Placed, Id
  <2>1. CASE <<"MOVE", o>> \in executed
    BY <1>3, <2>1 DEF Placed
  <2>2. CASE <<"MOVE", o>> = Id(s)
    BY <1>7, <2>2
  <2>3. CASE <<"MOVE", o>> = Id(t)
    BY <1>7, <2>3
  <2> QED
    BY <1>2, <2>1, <2>2, <2>3
<1>16. Owners'
  BY <1>2, <1>3, <1>5 DEF Owners
<1>17. ~BothNeeded'
  <2>1. Rims' = {}
    BY <1>1, <1>5 DEF Rims, Partners
  <2> QED
    BY <1>1, <1>10, <2>1 DEF BothNeeded, Partners
<1>18. InOrder'
  BY <1>2, <1>17 DEF InOrder
<1>19. Match'
  BY <1>2, <1>3, <1>5 DEF Match, Matched
<1>20. Flight'
  <2>1. ~Left(s)' /\ ~Left(t)' /\ s.deps \subseteq executed' /\ t.deps \subseteq executed'
    BY <1>1, <1>2, <1>12 DEF Partners, Taken
  <2>2. Flying(1)' /\ Flying(2)'
    BY <1>00, <1>1, <1>2, <1>4, <1>6, <1>7, <2>1 DEF Flying, Partners, Taken, Fresh
  <2>3. flight' # <<>>
    BY <1>5
  <2>4. \A i \in 1..2 : i = 1 \/ i = 2
    OBVIOUS
  <2>5. \A i \in 1..Len(flight') : Flying(i)'
    BY <1>7, <2>2, <2>4
  <2> QED
    BY <1>1, <1>2, <1>7, <1>17, <2>3, <2>5 DEF Flight, Partners
<1>21. ASSUME NEW a \in Arms PROVE Hand(a)'
  <2>1. Hand(s.arm)'
    <3>1. \E i \in 1..2 : flight'[i] = s
      BY <1>7
    <3> QED
      BY <1>1, <1>3, <1>4, <1>5, <1>6, <1>7, <3>1, PairHand DEF Partners
  <2>2. Hand(t.arm)'
    <3>1. \E i \in 1..2 : flight'[i] = t
      BY <1>7
    <3> QED
      BY <1>1, <1>3, <1>4, <1>5, <1>6, <1>7, <3>1, PairHand DEF Partners
  <2> QED
    BY <1>1, <2>1, <2>2 DEF Partners
<1> QED
  BY <1>2, <1>8, <1>9, <1>13, <1>14, <1>15, <1>16, <1>18, <1>19, <1>20, <1>21 DEF GInv, Going

-----------------------------------------------------------------------------
(* A transition that is over.                                                *)

Outcome(r) ==
  /\ r.op = "PICK" => /\ zone'[r.obj] = zone[r.obj] /\ zone[r.obj] # "goal"
                      /\ prim[r.arm].ok => owner'[r.obj] = r.arm
                      /\ ~prim[r.arm].ok => owner'[r.obj] = None
  /\ r.op = "MOVE" => owner'[r.obj] = None /\ (prim[r.arm].ok => zone'[r.obj] = "goal")
Outcomes ==
  /\ zone' \in [Objects -> {"start", "goal"}] /\ owner' \in [Objects -> Arms \cup {None}]
  /\ \A o \in Objects : ~InFlight(o) => zone'[o] = zone[o] /\ owner'[o] = owner[o]
  /\ \A i \in 1..Len(flight) : Outcome(flight[i])

(* A step under way, its arm and its primitive.                              *)
Borne(r) ==
  /\ r.arm \in Arms /\ Aloft(r.arm, r) /\ prim[r.arm] \in Progress
  /\ Grips(r.arm, prim[r.arm], r) /\ Asks(r.arm, prim[r.arm], r)
  /\ r.op \in Handles /\ prefer = None => r.arm = DefaultArm[r.obj]

LEMMA BorneIs ==
  ASSUME GInv, Safe, NEW i \in 1..Len(flight)
  PROVE  Borne(flight[i])
<1> DEFINE r == flight[i]
<1>1. Typed /\ Arranged(graph, prefer) /\ Flying(i) /\ \A a \in Arms : Hand(a)
  BY DEF GInv, Flight
<1> HIDE DEF r
<1>2. PICK k \in 1..Len(graph) : graph[k] = r
  BY <1>1 DEF Flying, r
<1>3. r.op \in {"OPEN", "PICK", "MOVE"} /\ prim[r.arm] # None /\ prim[r.arm].req = r
  BY <1>1 DEF Flying, r
<1>4. InPlace(graph, prefer, k)
  BY <1>1 DEF Arranged
<1>5. r.arm \in Arms /\ (r.op \in Handles /\ prefer = None => r.arm = DefaultArm[r.obj])
  BY <1>2, <1>3, <1>4 DEF InPlace, Handles
<1>6. Aloft(r.arm, r)
  BY <1>3, <1>5, AloftIs
<1>7. prim[r.arm] \in Progress /\ Grips(r.arm, prim[r.arm], r) /\ Asks(r.arm, prim[r.arm], r)
  BY <1>1, <1>3, <1>5 DEF Typed, Hand
<1> QED
  BY <1>5, <1>6, <1>7 DEF Borne, r

LEMMA ConcludeOneDoes ==
  ASSUME GInv, Safe, ConcludeOne
  PROVE  Outcomes
<1>0. PICK r : r = flight[1]
  OBVIOUS
<1>1. Typed /\ Owners /\ Len(flight) = 1
  <2>1. Typed /\ Owners /\ flight # <<>> /\ Len(flight) # 2 /\ Len(flight) \in 0..2
    BY DEF GInv, ConcludeOne, AllEnded, Paired, Flight
  <2>2. Len(flight) # 0
    BY <2>1 DEF Typed
  <2> QED
    BY <2>1, <2>2
<1>2. Borne(r)
  BY <1>0, <1>1, BorneIs
<1>3. /\ r.op = "PICK" => owner[r.obj] = r.arm /\ prim[r.arm].before.owner = None
      /\ r.op = "MOVE" => owner[r.obj] = None /\ zone[r.obj] = "goal"
                          /\ prim[r.arm].before.zone \in {"start", "goal"}
      /\ r.op \in Handles => r.obj \in Objects
      /\ r.op \in {"OPEN", "PICK", "MOVE"} /\ r.arm \in Arms /\ prim[r.arm].ok \in BOOLEAN
  BY <1>1, <1>2 DEF Borne, Asks, Aloft, Progress
<1>4. \A o : InFlight(o) <=> o = r.obj
  BY <1>0, <1>1 DEF InFlight
<1>5. IF prim[r.arm].ok THEN UNCHANGED <<zone, owner>> ELSE TakenBack(r, prim[r.arm].before)
  BY <1>0 DEF ConcludeOne, claim
<1>6. zone \in [Objects -> {"start", "goal"}] /\ owner \in [Objects -> Arms \cup {None}]
  BY <1>1 DEF Typed
<1>7. r.op = "PICK" => zone[r.obj] # "goal"
  BY <1>1, <1>3, TableAssumption DEF Owners, Handles
<1>8. /\ zone' \in [Objects -> {"start", "goal"}] /\ owner' \in [Objects -> Arms \cup {None}]
      /\ \A o \in Objects : o # r.obj => zone'[o] = zone[o] /\ owner'[o] = owner[o]
      /\ Outcome(r)
  <2>1. CASE prim[r.arm].ok
    BY <1>3, <1>5, <1>6, <1>7, <2>1 DEF Outcome
  <2>2. CASE ~prim[r.arm].ok /\ r.op = "PICK"
    <3>1. zone' = zone /\ owner' = [owner EXCEPT ![r.obj] = prim[r.arm].before.owner]
      BY <1>5, <2>2 DEF TakenBack
    <3> QED
      BY <1>3, <1>6, <1>7, <2>2, <3>1 DEF Outcome, Handles
  <2>3. CASE ~prim[r.arm].ok /\ r.op = "MOVE"
    <3>1. /\ zone' = [zone EXCEPT ![r.obj] = prim[r.arm].before.zone]
          /\ owner' = [owner EXCEPT ![r.obj] = None]
      BY <1>5, <2>3 DEF TakenBack
    <3> QED
      BY <1>3, <1>6, <2>3, <3>1 DEF Outcome, Handles
  <2>4. CASE ~prim[r.arm].ok /\ r.op = "OPEN"
    <3>1. zone' = zone /\ owner' = owner
      BY <1>5, <2>4 DEF TakenBack
    <3> QED
      BY <1>6, <2>4, <3>1 DEF Outcome
  <2> QED
    BY <1>3, <2>1, <2>2, <2>3, <2>4
<1>9. \A i \in 1..Len(flight) : flight[i] = r
  BY <1>0, <1>1
<1> QED
  BY <1>4, <1>8, <1>9 DEF Outcomes

(* One claim of a pair's.                                                    *)
LEMMA ClaimedIs ==
  ASSUME NEW z \in [Objects -> {"start", "goal"}], NEW w \in [Objects -> Arms \cup {None}],
         NEW r, r.op \in {"OPEN", "PICK", "MOVE"}, r.op \in Handles => r.obj \in Objects,
         r.arm \in Arms, prim[r.arm].ok \in BOOLEAN
  PROVE  /\ Claimed(r, z, w).zone \in [Objects -> {"start", "goal"}]
         /\ Claimed(r, z, w).owner \in [Objects -> Arms \cup {None}]
         /\ \A o \in Objects : o # r.obj => /\ Claimed(r, z, w).zone[o] = z[o]
                                            /\ Claimed(r, z, w).owner[o] = w[o]
         /\ r.op = "PICK" => /\ Claimed(r, z, w).zone = z
                             /\ prim[r.arm].ok => Claimed(r, z, w).owner[r.obj] = r.arm
                             /\ ~prim[r.arm].ok => Claimed(r, z, w).owner = w
         /\ r.op = "MOVE" => /\ Claimed(r, z, w).owner[r.obj] = None
                             /\ prim[r.arm].ok => Claimed(r, z, w).zone[r.obj] = "goal"
<1> DEFINE Z == IF r.op = "MOVE" /\ prim[r.arm].ok THEN [z EXCEPT ![r.obj] = "goal"] ELSE z
           W == CASE r.op = "PICK" -> IF prim[r.arm].ok THEN [w EXCEPT ![r.obj] = r.arm] ELSE w
                  [] r.op = "MOVE" -> [w EXCEPT ![r.obj] = None]
                  [] OTHER -> w
<1>1. Claimed(r, z, w).zone = Z /\ Claimed(r, z, w).owner = W
  BY DEF Claimed
<1>2. /\ Z \in [Objects -> {"start", "goal"}]
      /\ \A o \in Objects : o # r.obj => Z[o] = z[o]
      /\ r.op = "PICK" => Z = z
      /\ r.op = "MOVE" => (prim[r.arm].ok => Z[r.obj] = "goal")
  BY DEF Handles
<1>3. /\ W \in [Objects -> Arms \cup {None}]
      /\ \A o \in Objects : o # r.obj => W[o] = w[o]
  <2>1. CASE r.op = "PICK"
    BY <2>1 DEF Handles
  <2>2. CASE r.op = "MOVE"
    BY <2>2 DEF Handles
  <2>3. CASE r.op = "OPEN"
    BY <2>3
  <2> QED
    BY <2>1, <2>2, <2>3
<1>4. r.op = "PICK" => /\ prim[r.arm].ok => W[r.obj] = r.arm
                       /\ ~prim[r.arm].ok => W = w
  BY DEF Handles
<1>5. r.op = "MOVE" => W[r.obj] = None
  BY DEF Handles
<1> HIDE DEF Z, W
<1> QED
  BY <1>1, <1>2, <1>3, <1>4, <1>5

LEMMA ConcludePairDoes ==
  ASSUME GInv, Safe, ConcludePair
  PROVE  Outcomes
<1>0. PICK r, s : r = flight[1] /\ s = flight[2]
  OBVIOUS
<1>1. Typed /\ Len(flight) = 2 /\ r.obj # s.obj
  BY <1>0 DEF GInv, ConcludePair, Paired, Flight
<1>2. Borne(r) /\ Borne(s)
  BY <1>0, <1>1, BorneIs
<1>3. /\ r.op = "PICK" => owner[r.obj] = None /\ zone[r.obj] # "goal"
      /\ r.op = "MOVE" => owner[r.obj] = r.arm
      /\ r.op \in Handles => r.obj \in Objects
      /\ r.op \in {"OPEN", "PICK", "MOVE"} /\ r.arm \in Arms /\ prim[r.arm].ok \in BOOLEAN
  BY <1>1, <1>2 DEF Borne, Asks, Aloft, Progress
<1>4. /\ s.op = "PICK" => owner[s.obj] = None /\ zone[s.obj] # "goal"
      /\ s.op = "MOVE" => owner[s.obj] = s.arm
      /\ s.op \in Handles => s.obj \in Objects
      /\ s.op \in {"OPEN", "PICK", "MOVE"} /\ s.arm \in Arms /\ prim[s.arm].ok \in BOOLEAN
  BY <1>1, <1>2 DEF Borne, Asks, Aloft, Progress
<1>5. Accepts(r) /\ Accepts(s)
  BY <1>3, <1>4 DEF Accepts
<1>6. PICK one, two : /\ one = Claimed(r, zone, owner)
                      /\ two = Claimed(s, one.zone, one.owner)
  OBVIOUS
<1>7. zone' = two.zone /\ owner' = two.owner
  BY <1>0, <1>5, <1>6 DEF ConcludePair
<1>8. zone \in [Objects -> {"start", "goal"}] /\ owner \in [Objects -> Arms \cup {None}]
  BY <1>1 DEF Typed
<1>9. /\ one.zone \in [Objects -> {"start", "goal"}] /\ one.owner \in [Objects -> Arms \cup {None}]
      /\ \A o \in Objects : o # r.obj => one.zone[o] = zone[o] /\ one.owner[o] = owner[o]
      /\ r.op = "PICK" => /\ one.zone = zone
                          /\ prim[r.arm].ok => one.owner[r.obj] = r.arm
                          /\ ~prim[r.arm].ok => one.owner = owner
      /\ r.op = "MOVE" => /\ one.owner[r.obj] = None
                          /\ prim[r.arm].ok => one.zone[r.obj] = "goal"
  BY <1>3, <1>6, <1>8, ClaimedIs
<1>10. /\ two.zone \in [Objects -> {"start", "goal"}] /\ two.owner \in [Objects -> Arms \cup {None}]
       /\ \A o \in Objects : o # s.obj => two.zone[o] = one.zone[o] /\ two.owner[o] = one.owner[o]
       /\ s.op = "PICK" => /\ two.zone = one.zone
                           /\ prim[s.arm].ok => two.owner[s.obj] = s.arm
                           /\ ~prim[s.arm].ok => two.owner = one.owner
       /\ s.op = "MOVE" => /\ two.owner[s.obj] = None
                           /\ prim[s.arm].ok => two.zone[s.obj] = "goal"
  BY <1>4, <1>6, <1>9, ClaimedIs
<1>11. Outcome(r)
  BY <1>1, <1>3, <1>7, <1>9, <1>10 DEF Outcome, Handles
<1>12. Outcome(s)
  BY <1>1, <1>4, <1>7, <1>9, <1>10 DEF Outcome, Handles
<1>13. \A o : InFlight(o) <=> o = r.obj \/ o = s.obj
  BY <1>0, <1>1 DEF InFlight
<1>14. \A o \in Objects : ~InFlight(o) => zone'[o] = zone[o] /\ owner'[o] = owner[o]
  BY <1>7, <1>9, <1>10, <1>13
<1>15. \A i \in 1..Len(flight) : flight[i] = r \/ flight[i] = s
  BY <1>0, <1>1
<1> QED
  BY <1>7, <1>10, <1>11, <1>12, <1>14, <1>15 DEF Outcomes

LEMMA OverKeeps ==
  ASSUME GInv, Safe, Over
  PROVE  GInv'
<1>1. /\ Outcomes /\ pc = "moving" /\ flight' = <<>> /\ prim' = Idle
      /\ UNCHANGED <<jaws, spot, prefer, queued, counts, graph, executed>>
      /\ Succeeded => pc' = "boundary"
      /\ ~Succeeded => pc' = "failed"
  <2>1. Outcomes
    BY ConcludeOneDoes, ConcludePairDoes DEF Over
  <2>2. flight' = <<>> /\ prim' = Idle /\ UNCHANGED <<jaws, spot>>
    BY DEF Over, ConcludeOne, ConcludePair, physics
  <2>3. /\ pc = "moving" /\ UNCHANGED <<prefer, queued, counts, graph, executed>>
        /\ Succeeded => pc' = "boundary"
        /\ ~Succeeded => pc' = "failed"
    BY DEF Over
  <2> QED
    BY <2>1, <2>2, <2>3
<1>2. /\ Typed /\ Arranged(graph, prefer) /\ Fits /\ Placing /\ Placed /\ Owners /\ InOrder /\ Match
      /\ Len(flight) \in Nat /\ DOMAIN flight = 1..Len(flight)
  BY <1>1 DEF GInv, Going, Typed
<1>3. ASSUME NEW o \in Objects, InFlight(o)
      PROVE  \E i \in 1..Len(flight) : /\ flight[i].obj = o /\ Borne(flight[i])
                                       /\ Outcome(flight[i]) /\ flight[i].op \in Handles
  <2>1. PICK i \in 1..Len(flight) : flight[i].obj = o
    BY <1>3 DEF InFlight
  <2>2. Borne(flight[i]) /\ Outcome(flight[i])
    BY <1>1, BorneIs DEF Outcomes
  <2>3. flight[i].op \in Handles
    BY <2>1, <2>2 DEF Borne, Aloft, Handles
  <2> QED
    BY <2>1, <2>2, <2>3
<1>4. \A o \in Objects : ~InFlight(o) => zone'[o] = zone[o] /\ owner'[o] = owner[o]
  BY <1>1 DEF Outcomes
<1>5. zone' \in [Objects -> {"start", "goal"}] /\ owner' \in [Objects -> Arms \cup {None}]
  BY <1>1 DEF Outcomes
<1>6. Succeeded => \A i \in 1..Len(flight) : prim[flight[i].arm].ok
  BY <1>2 DEF Succeeded
<1>7. Succeeded => \A o \in Objects : zone[o] = "goal" => zone'[o] = "goal"
  <2> SUFFICES ASSUME Succeeded, NEW o \in Objects, InFlight(o), zone[o] = "goal"
               PROVE  zone'[o] = "goal"
    BY <1>4
  <2>1. PICK i \in 1..Len(flight) : flight[i].obj = o /\ Outcome(flight[i]) /\ flight[i].op \in Handles
    BY <1>3
  <2> QED
    BY <1>6, <2>1 DEF Outcome, Handles
<1>8. Typed'
  <2>1. flight' \in Seq(Steps)
    BY <1>1
  <2>2. prim' \in [Arms -> Progress \cup {None}]
    BY <1>1 DEF Idle
  <2> QED
    BY <1>1, <1>2, <1>5, <2>1, <2>2 DEF Typed
<1>9. Arranged(graph, prefer)'
  BY <1>1, <1>2 DEF Arranged, InPlace
<1>10. (\A o : ~InFlight(o)') /\ Len(flight') = 0
  BY <1>1 DEF InFlight
<1>11. \A x : Left(x)' <=> Left(x)
  BY <1>1 DEF Left
(* Who holds what afterwards.                                                *)
<1>12. ASSUME NEW o \in Objects, owner'[o] # None, InFlight(o)
       PROVE  \E i \in 1..Len(flight) :
                /\ flight[i].obj = o /\ flight[i].op = "PICK" /\ prim[flight[i].arm].ok
                /\ owner'[o] = flight[i].arm /\ Borne(flight[i]) /\ Outcome(flight[i])
  <2>1. PICK i \in 1..Len(flight) : /\ flight[i].obj = o /\ Borne(flight[i])
                                    /\ Outcome(flight[i]) /\ flight[i].op \in Handles
    BY <1>3, <1>12
  <2> QED
    BY <1>12, <2>1 DEF Outcome, Handles
<1>13. Owners'
  <2>1. prefer' = None => \A o \in Objects : owner'[o] \in {None, DefaultArm[o]}
    <3> SUFFICES ASSUME prefer = None, NEW o \in Objects, owner'[o] # None
                 PROVE  owner'[o] = DefaultArm[o]
      BY <1>1
    <3>1. CASE InFlight(o)
      <4>1. PICK i \in 1..Len(flight) : /\ flight[i].obj = o /\ flight[i].op = "PICK"
                                        /\ owner'[o] = flight[i].arm /\ Borne(flight[i])
        BY <1>12, <3>1
      <4> QED
        BY <4>1 DEF Borne, Handles
    <3>2. CASE ~InFlight(o)
      BY <1>2, <1>4, <3>2 DEF Owners
    <3> QED
      BY <3>1, <3>2
  <2>2. \A o \in Objects : zone'[o] = "goal" => owner'[o] = None
    <3> SUFFICES ASSUME NEW o \in Objects, zone'[o] = "goal", owner'[o] # None PROVE FALSE
      OBVIOUS
    <3>1. CASE InFlight(o)
      <4>1. PICK i \in 1..Len(flight) : /\ flight[i].obj = o /\ flight[i].op = "PICK"
                                        /\ Outcome(flight[i])
        BY <1>12, <3>1
      <4> QED
        BY <4>1 DEF Outcome
    <3>2. CASE ~InFlight(o)
      BY <1>2, <1>4, <3>2 DEF Owners
    <3> QED
      BY <3>1, <3>2
  <2>3. ASSUME NEW o \in Objects, NEW q \in Objects, InFlight(o),
               owner'[o] = owner'[q], owner'[o] # None, o # q
        PROVE  FALSE
    <3>1. PICK i \in 1..Len(flight) : /\ flight[i].obj = o /\ flight[i].op = "PICK"
                                      /\ prim[flight[i].arm].ok
                                      /\ owner'[o] = flight[i].arm /\ Borne(flight[i])
      BY <1>12, <2>3
    <3>2. Alone(flight[i].arm, o)
      BY <3>1 DEF Borne, Grips
    <3>3. InFlight(q)
      BY <1>4, <2>3, <3>1, <3>2 DEF Alone
    <3>4. PICK j \in 1..Len(flight) : /\ flight[j].obj = q
                                      /\ owner'[q] = flight[j].arm
      BY <1>12, <2>3, <3>3
    <3>5. Len(flight) = 2
      BY <2>3, <3>1, <3>4 DEF Borne, Aloft
    <3>6. flight[1].arm # flight[2].arm
      BY <3>5 DEF GInv, Flight
    <3>7. i \in 1..2 /\ j \in 1..2 /\ i # j /\ flight[i].arm = flight[j].arm
      BY <2>3, <3>1, <3>4, <3>5
    <3> QED
      BY <3>6, <3>7
  <2>4. \A o, q \in Objects : owner'[o] = owner'[q] /\ owner'[o] # None => o = q
    <3> SUFFICES ASSUME NEW o \in Objects, NEW q \in Objects,
                        owner'[o] = owner'[q], owner'[o] # None, o # q
                 PROVE  FALSE
      OBVIOUS
    <3>1. ~InFlight(o) /\ ~InFlight(q)
      BY <2>3
    <3> QED
      BY <1>2, <1>4, <3>1 DEF Owners
  <2> QED
    BY <2>1, <2>2, <2>4 DEF Owners
<1>14. ASSUME Succeeded PROVE Fits'
  <2> SUFFICES ASSUME NEW i \in 1..Len(graph), Left(graph[i])
               PROVE  /\ graph[i].op = "PICK" =>
                           owner'[graph[i].obj] = None /\ zone'[graph[i].obj] # "goal"
                      /\ graph[i].op = "MOVE" =>
                           /\ zone'[graph[i].obj] # "goal"
                           /\ graph[i].deps \subseteq executed => owner'[graph[i].obj] # None
    BY <1>1, <1>10, <1>11 DEF Fits
  <2>0. PICK x : x = graph[i]
    OBVIOUS
  <2>1. Left(x) /\ InPlace(graph, prefer, i)
    BY <1>2, <2>0 DEF Arranged
  <2>2. CASE x.op = "PICK"
    <3>1. owner[x.obj] = None /\ zone[x.obj] # "goal" /\ x.obj \in Objects
      BY <1>2, <2>0, <2>1, <2>2 DEF Fits, InPlace, Handles
    <3>2. ~InFlight(x.obj)
      <4> SUFFICES ASSUME InFlight(x.obj) PROVE FALSE
        OBVIOUS
      <4>1. PICK j \in 1..Len(flight) : /\ flight[j].obj = x.obj /\ Borne(flight[j])
                                        /\ flight[j].op \in Handles
        BY <1>3, <3>1
      <4>2. ~Left(flight[j]) /\ \E k \in 1..Len(graph) : graph[k] = flight[j]
        BY <4>1 DEF Borne, Aloft
      <4>3. flight[j].op # "PICK"
        BY <2>1, <2>2, <4>1, <4>2 DEF Left, Id
      <4>4. Id(x) \in flight[j].deps
        BY <2>0, <2>1, <2>2, <4>1, <4>2, <4>3 DEF InPlace, Handles
      <4>5. flight[j].deps \subseteq executed
        BY DEF GInv, Flight, Flying
      <4> QED
        BY <2>1, <4>4, <4>5 DEF Left
    <3> QED
      BY <1>4, <2>0, <2>2, <3>1, <3>2
  <2>3. CASE x.op = "MOVE"
    <3>1. zone[x.obj] # "goal" /\ x.obj \in Objects
      BY <1>2, <2>0, <2>1, <2>3 DEF Fits, InPlace, Handles
    <3>2. CASE ~InFlight(x.obj)
      BY <1>2, <1>4, <2>0, <2>1, <2>3, <3>1, <3>2 DEF Fits
    <3>3. CASE InFlight(x.obj)
      <4>1. PICK j \in 1..Len(flight) : /\ flight[j].obj = x.obj /\ Borne(flight[j])
                                        /\ Outcome(flight[j]) /\ flight[j].op \in Handles
        BY <1>3, <3>1, <3>3
      <4>2. flight[j].op = "PICK"
        BY <2>1, <2>3, <4>1 DEF Borne, Aloft, Left, Id, Handles
      <4>3. owner'[x.obj] = flight[j].arm /\ flight[j].arm # None
        BY <1>6, <1>14, <4>1, <4>2, TableAssumption DEF Outcome, Borne
      <4> QED
        BY <2>0, <2>3, <3>1, <4>1, <4>2, <4>3 DEF Outcome
    <3> QED
      BY <3>2, <3>3
  <2> QED
    BY <2>0, <2>2, <2>3
<1>15. Succeeded => Placing'
  BY <1>1, <1>2, <1>7, TableAssumption DEF Placing
<1>16. ASSUME Succeeded PROVE Placed'
  <2> SUFFICES ASSUME NEW o \in Objects, <<"MOVE", o>> \in executed PROVE zone'[o] = "goal"
    BY <1>1 DEF Placed
  <2>1. CASE zone[o] = "goal"
    BY <1>7, <1>16, <2>1
  <2>2. CASE zone[o] # "goal"
    <3>1. PICK i \in 1..Len(flight) : Id(flight[i]) = <<"MOVE", o>>
      BY <1>2, <2>2 DEF Placed
    <3>2. flight[i].op = "MOVE" /\ flight[i].obj = o
      BY <3>1 DEF Id
    <3>3. Outcome(flight[i]) /\ prim[flight[i].arm].ok
      BY <1>1, <1>6, <1>16 DEF Outcomes
    <3> QED
      BY <3>2, <3>3 DEF Outcome
  <2> QED
    BY <2>1, <2>2
<1>17. Going'
  BY <1>1, <1>14, <1>15, <1>16 DEF Going
<1>18. ASSUME prefer = None, Rims' # {}
       PROVE  OneAtATime
  <2>1. PICK o \in Bimanual : zone'[o] # "goal"
    BY <1>18 DEF Rims
  <2>2. BothNeeded
    BY <1>4, <2>1, TableAssumption DEF BothNeeded, Rims
  <2> QED
    BY <1>1, <1>2, <1>18, <2>2 DEF InOrder
<1>19. InOrder'
  <2> SUFFICES ASSUME prefer = None, Rims' # {}
               PROVE  /\ Succeeded => \A o \in Objects : owner'[o] # None => MovedNext(o)
                      /\ ~Succeeded => \A o \in Objects : owner'[o] = None
    <3>1. \A o : MovedNext(o)' <=> MovedNext(o)
      BY <1>1, <1>11 DEF MovedNext, FirstLeft
    <3> QED
      BY <1>1, <3>1 DEF InOrder, Unowned
  <2>1. OneAtATime
    BY <1>18
  <2>2. ASSUME NEW o \in Objects, owner'[o] # None
        PROVE  flight[1].op = "PICK" /\ flight[1].obj = o /\ prim[flight[1].arm].ok
    <3>1. InFlight(o)
      BY <1>4, <2>1, <2>2 DEF OneAtATime
    <3>2. PICK i \in 1..Len(flight) : /\ flight[i].obj = o /\ flight[i].op = "PICK"
                                      /\ prim[flight[i].arm].ok
      BY <1>12, <2>2, <3>1
    <3>3. i = 1
      BY <2>1 DEF OneAtATime
    <3> QED
      BY <3>2, <3>3
  <2>3. prim[flight[1].arm].ok => Succeeded
    <3>1. Len(flight) = 1 /\ ~Paired
      BY <2>1 DEF OneAtATime, Paired
    <3>2. \A i \in DOMAIN flight : i = 1
      BY <1>2, <3>1
    <3> QED
      BY <3>1, <3>2 DEF Succeeded
  <2> QED
    BY <2>1, <2>2, <2>3 DEF OneAtATime
<1>20. Match'
  <2> SUFFICES ASSUME NEW o \in Objects, owner'[o] # None
               PROVE  /\ o \in jaws[owner'[o]]
                      /\ o \in Bimanual /\ prefer = None => \A a \in Arms : o \in jaws[a]
    BY <1>1 DEF Match, Matched
  <2>1. CASE InFlight(o)
    <3>1. PICK i \in 1..Len(flight) : /\ flight[i].obj = o /\ flight[i].op = "PICK"
                                      /\ prim[flight[i].arm].ok
                                      /\ owner'[o] = flight[i].arm /\ Borne(flight[i])
      BY <1>12, <2>1
    <3> QED
      BY <3>1 DEF Borne, Grips
  <2>2. CASE ~InFlight(o)
    BY <1>2, <1>4, <2>2 DEF Match, Matched
  <2> QED
    BY <2>1, <2>2
<1>21. Flight'
  BY <1>1, <1>10 DEF Flight
<1>22. \A a \in Arms : Hand(a)'
  BY <1>1 DEF Hand, Idle
<1> QED
  BY <1>8, <1>9, <1>13, <1>17, <1>19, <1>20, <1>21, <1>22 DEF GInv

-----------------------------------------------------------------------------
(* The theorem.                                                              *)

LEMMA InitKeeps ==
  ASSUME Init
  PROVE  GInv
<1>1. /\ zone = [o \in Objects |-> "start"] /\ owner = [o \in Objects |-> None]
      /\ jaws = [a \in Arms |-> {}] /\ spot = [o \in Objects |-> "start"]
      /\ flight = <<>> /\ prim = Idle /\ prefer = None /\ queued = None
      /\ counts = [o \in Objects |-> 0] /\ graph = Plan(counts, None) /\ executed = {}
      /\ pc = "boundary"
  BY DEF Init, TableInit
<1>2. counts \in [Objects -> Nat]
  BY <1>1
<1>3. graph \in Seq(Steps) /\ Arranged(graph, None) /\ Suits(graph, None)
  BY <1>1, <1>2, PlanSuits
<1>4. Typed
  BY <1>1, <1>2, <1>3 DEF Typed, Spots, Idle
<1>5. Fits
  <2> SUFFICES ASSUME NEW i \in 1..Len(graph)
               PROVE  /\ graph[i].op = "PICK" => owner[graph[i].obj] = None /\ zone[graph[i].obj] # "goal"
                      /\ graph[i].op = "MOVE" => /\ zone[graph[i].obj] # "goal"
                                                 /\ graph[i].deps \subseteq {} => owner[graph[i].obj] # None
    BY <1>1 DEF Fits
  <2>1. graph[i].deps \subseteq {} => graph[i].deps = {}
    OBVIOUS
  <2> QED
    BY <1>3, <2>1 DEF Suits
<1>6. Placing
  BY <1>3, TableAssumption DEF Suits, Placing, Misplaced
<1>7. Placed
  BY <1>1 DEF Placed
<1>8. Owners
  BY <1>1 DEF Owners
<1>9. InOrder
  BY <1>1 DEF InOrder
<1>10. Match
  BY <1>1 DEF Match, Matched
<1>11. Flight
  BY <1>1 DEF Flight
<1>12. \A a \in Arms : Hand(a)
  BY <1>1 DEF Hand, Idle
<1> QED
  BY <1>1, <1>3, <1>4, <1>5, <1>6, <1>7, <1>8, <1>9, <1>10, <1>11, <1>12 DEF GInv, Going

LEMMA StepKeeps ==
  ASSUME ~RealDrawers, GripInv, [Next]_vars
  PROVE  GripInv'
<1> SUFFICES ASSUME Safe' PROVE GInv'
  BY DEF GripInv
<1>1. CASE UNCHANGED vars
  <2>1. /\ UNCHANGED <<zone, owner, flight, jaws, spot, prim, prefer, graph, executed, pc, counts, queued>>
    BY <1>1 DEF vars, table, run
  <2>2. Safe /\ GInv
    BY <2>1 DEF Safe, GripInv
  <2>3. queued' \in Arms \cup {None}
    BY <2>1, <2>2 DEF GInv, Typed
  <2> QED
    BY <2>1, <2>2, <2>3, AsideKeeps
<1>2. CASE ApplyConstraint
  <2>1. Safe
    BY <1>2, TableAssumption DEF Safe, ApplyConstraint
  <2> QED
    BY <1>2, <2>1, ApplyConstraintKeeps DEF GripInv
<1>3. ASSUME UNCHANGED prefer PROVE Safe /\ GInv
  BY <1>3 DEF Safe, GripInv
<1>4. CASE Finish1
  BY <1>3, <1>4, FinishKeeps DEF Finish1
<1>5. CASE Verify
  BY <1>3, <1>5, VerifyKeeps DEF Verify
<1>6. CASE ExecuteOne
  BY <1>3, <1>6, ExecuteOneKeeps DEF ExecuteOne, Begun
<1>7. CASE Reject
  BY <1>3, <1>7, RejectKeeps DEF Reject
<1>8. CASE ExecutePair
  <2>1. UNCHANGED prefer
    BY <1>8 DEF ExecutePair, Begun
  <2> QED
    BY <1>3, <1>8, <2>1, ExecutePairKeeps
<1>9. CASE Move
  BY <1>3, <1>9, MoveKeeps DEF Move, run
<1>10. CASE Over
  BY <1>3, <1>10, OverKeeps DEF Over
<1>11. CASE Failed
  BY <1>3, <1>11, FailedKeeps DEF Failed
<1>12. ASSUME NEW a \in Arms, Withdraw(a) \/ ArmStops(a) PROVE GInv'
  <2>1. /\ UNCHANGED <<zone, owner, flight, jaws, spot, prim, prefer, graph, executed, pc, counts>>
        /\ queued' = Other(a)
    BY <1>12 DEF Withdraw, ArmStops, FailArm, table, claim, physics
  <2>2. Other(a) \in Arms
    BY TableAssumption DEF Other
  <2> QED
    BY <1>3, <2>1, <2>2, AsideKeeps
<1> QED
  BY <1>1, <1>2, <1>4, <1>5, <1>6, <1>7, <1>8, <1>9, <1>10, <1>11, <1>12 DEF Next

LEMMA GripFollows ==
  ASSUME GripInv
  PROVE  GripMatchesClaim
<1> SUFFICES ASSUME AtRest, NEW o \in Objects, NEW a \in Arms, owner[o] = a
             PROVE  /\ (\A p \in Bimanual : prefer # DefaultArm[p]) => o \in jaws[a]
                    /\ (o \in Bimanual /\ prefer = None) => \A b \in Arms : o \in jaws[b]
  BY DEF GripMatchesClaim
<1>1. ASSUME prefer = None PROVE Safe
  BY <1>1, TableAssumption DEF Safe
<1>2. ASSUME Safe PROVE Matched(o)
  BY <1>2, AtRestIs DEF GripInv, AtRest
<1>3. owner[o] # None
  BY TableAssumption
<1> QED
  BY <1>1, <1>2, <1>3 DEF Safe, Matched

(* Whatever the table world claims between two transitions is so, for any    *)
(* tableware and any number of tries, revisions and arms that fail (drawers  *)
(* written open): apply_transition, apply_transitions_parallel, the graphs of*)
(* IntelTablePlanner and the engine's pairing keep claim and grip together.  *)
THEOREM GripHolds ==
  ASSUME ~RealDrawers
  PROVE  Spec => []GripMatchesClaim
<1>1. Init => GripInv
  BY InitKeeps DEF GripInv
<1>2. GripInv /\ [Next]_vars => GripInv'
  BY StepKeeps
<1>3. GripInv => GripMatchesClaim
  BY GripFollows
<1> QED
  BY <1>1, <1>2, <1>3, PTL DEF Spec

-----------------------------------------------------------------------------
(* TableRun.  The counters of the stepper against what the arms are doing.   *)

(* Who is at work or let go, and who waits.  The barrier never believes that *)
(* fewer are under way than there are.                                       *)
Moving(b) == {a \in Arms : b.at[a] \in {"out", "released"}}
Parked(b) == {a \in Arms : b.at[a] = "parked"}
BarInv(b) ==
  /\ b = [active |-> b.active, waiting |-> b.waiting, at |-> b.at, left |-> b.left]
  /\ b.at \in [Arms -> {"idle", "out", "parked", "released"}]
  /\ b.active \in Nat /\ b.waiting \in Nat
  /\ IsFiniteSet(Moving(b)) /\ IsFiniteSet(Parked(b))
  /\ b.waiting = Cardinality(Parked(b))
  /\ Cardinality(Moving(b)) + b.waiting <= b.active
  /\ b.left = {}

LEMMA One ==
  ASSUME NEW S, IsFiniteSet(S), NEW x \in S
  PROVE  /\ Cardinality(S) \in Nat /\ IsFiniteSet(S \ {x})
         /\ Cardinality(S \ {x}) = Cardinality(S) - 1 /\ Cardinality(S) >= 1
<1>1. Cardinality(S) \in Nat /\ IsFiniteSet(S \ {x}) /\ Cardinality(S \ {x}) \in Nat
      BY FS_CardinalityType, FS_RemoveElement
<1>2. Cardinality(S \ {x}) = Cardinality(S) - 1
      BY FS_RemoveElement
<1> QED BY <1>1, <1>2

LEMMA Another ==
  ASSUME NEW S, IsFiniteSet(S), NEW x, x \notin S
  PROVE  /\ Cardinality(S) \in Nat /\ IsFiniteSet(S \cup {x})
         /\ Cardinality(S \cup {x}) = Cardinality(S) + 1
BY FS_CardinalityType, FS_AddElement

(* When there is one, it is this one.                                        *)
LEMMA Only ==
  ASSUME NEW S, IsFiniteSet(S), NEW x \in S, Cardinality(S) <= 1
  PROVE  S = {x}
<1>1. Cardinality(S \ {x}) = 0 /\ IsFiniteSet(S \ {x})
      BY One
<1>2. S \ {x} = {}
      BY <1>1, FS_EmptySet
<1> QED BY <1>2

(* A stepper put together from its parts.                                    *)
LEMMA Rebuilt ==
  ASSUME NEW c, NEW active \in Nat, NEW waiting \in Nat,
         NEW at \in [Arms -> {"idle", "out", "parked", "released"}],
         c = [active |-> active, waiting |-> waiting, at |-> at, left |-> {}],
         IsFiniteSet(Moving(c)), IsFiniteSet(Parked(c)), waiting = Cardinality(Parked(c)),
         Cardinality(Moving(c)) + waiting <= active
  PROVE  BarInv(c)
<1>1. c.active = active /\ c.waiting = waiting /\ c.at = at /\ c.left = {}
      OBVIOUS
<1>2. c = [active |-> c.active, waiting |-> c.waiting, at |-> c.at, left |-> c.left]
      BY <1>1
<1> QED BY <1>1, <1>2 DEF BarInv

LEMMA Fewer ==
  ASSUME NEW x, NEW y, NEW b,
         b = [active |-> b.active, waiting |-> b.waiting, at |-> b.at, left |-> b.left]
  PROVE  [b EXCEPT !.active = x, !.at = y]
           = [active |-> x, waiting |-> b.waiting, at |-> y, left |-> b.left]
<1> DEFINE c == [b EXCEPT !.active = x]
<1>1. c = [active |-> x, waiting |-> b.waiting, at |-> b.at, left |-> b.left]
      OBVIOUS
<1>2. [b EXCEPT !.active = x, !.at = y] = [c EXCEPT !.at = y]
      OBVIOUS
<1> HIDE DEF c
<1>3. c = [active |-> c.active, waiting |-> c.waiting, at |-> c.at, left |-> c.left]
      BY <1>1
<1>4. [c EXCEPT !.at = y] = [active |-> c.active, waiting |-> c.waiting, at |-> y, left |-> c.left]
      BY <1>3
<1> QED BY <1>1, <1>2, <1>4

LEMMA NewStepperInv ==
  ASSUME NEW W, IsFiniteSet(W)
  PROVE  BarInv(NewStepper(W))
<1> DEFINE b == NewStepper(W)
<1>1. b = [active |-> Cardinality(W), waiting |-> 0,
           at |-> [a \in Arms |-> IF a \in W THEN "out" ELSE "idle"], left |-> {}]
      BY DEF NewStepper
<1>2. Moving(b) = Arms \cap W /\ Parked(b) = {}
      BY <1>1 DEF Moving, Parked
<1>3. IsFiniteSet(Arms \cap W) /\ Cardinality(Arms \cap W) <= Cardinality(W)
      /\ Cardinality(Arms \cap W) \in Nat /\ Cardinality(W) \in Nat
      BY FS_Subset, FS_CardinalityType
<1>4. Cardinality({}) = 0 /\ IsFiniteSet({})
      BY FS_EmptySet
<1> DEFINE at == [a \in Arms |-> IF a \in W THEN "out" ELSE "idle"]
<1>5. at \in [Arms -> {"idle", "out", "parked", "released"}] /\ b.at = at
      BY <1>1
<1> HIDE DEF b
<1>6. BarInv(b)
      <2>1. b = [active |-> Cardinality(W), waiting |-> 0, at |-> at, left |-> {}]
            BY <1>1
      <2> HIDE DEF at
      <2>2. Cardinality(Moving(b)) + 0 <= Cardinality(W) /\ 0 \in Nat
            BY <1>2, <1>3
      <2> QED BY <2>1, <2>2, <1>2, <1>3, <1>4, <1>5, Rebuilt
<1> QED BY <1>6 DEF b

(* Whoever advances the physics is the last one under way.                   *)
LEMMA AdvanceInv ==
  ASSUME NEW b, NEW a \in Arms, NEW w \in Nat,
         b.at \in [Arms -> {"idle", "out", "parked", "released"}], b.active \in Nat,
         IsFiniteSet(Moving(b) \cup Parked(b) \cup {a}),
         Cardinality(Moving(b) \cup Parked(b) \cup {a}) <= b.active,
         b = [active |-> b.active, waiting |-> w, at |-> b.at, left |-> {}],
         Moving(b) \subseteq {a}
  PROVE  BarInv(Advance(b, a))
<1> DEFINE c == Advance(b, a)
           at == [Woken(b) EXCEPT ![a] = "out"]
<1>1. {d \in Arms \ {a} : b.at[d] = "out"} = {}
      BY DEF Moving
<1>2. c = [active |-> b.active, waiting |-> 0, at |-> at, left |-> {}]
      <2>1. c = [b EXCEPT !.waiting = 0, !.at = at, !.left = {}]
            BY <1>1 DEF Advance
      <2> HIDE DEF c, at
      <2> QED BY <2>1
<1>3. at = [d \in Arms |-> IF d = a THEN "out" ELSE IF b.at[d] = "parked" THEN "released" ELSE b.at[d]]
      BY DEF Woken
<1>4. at \in [Arms -> {"idle", "out", "parked", "released"}]
      BY <1>3
<1> HIDE DEF c, at
<1>5. Moving(c) = Moving(b) \cup Parked(b) \cup {a} /\ Parked(c) = {}
      BY <1>2, <1>3 DEF Moving, Parked
<1>6. Cardinality({}) = 0 /\ IsFiniteSet({}) /\ Cardinality(Moving(c)) \in Nat
      BY <1>5, FS_EmptySet, FS_CardinalityType
<1>7. BarInv(c)
      <2>1. Cardinality(Moving(c)) + 0 <= b.active /\ 0 \in Nat
            BY <1>5, <1>6
      <2> QED BY <2>1, <1>2, <1>4, <1>5, <1>6, Rebuilt
<1> QED BY <1>7 DEF c

LEMMA Together ==
  ASSUME NEW S, NEW T, IsFiniteSet(S), IsFiniteSet(T)
  PROVE  IsFiniteSet(S \cup T) /\ Cardinality(S \cup T) <= Cardinality(S) + Cardinality(T)
         /\ Cardinality(S) \in Nat /\ Cardinality(T) \in Nat /\ Cardinality(S \cup T) \in Nat
<1>1. IsFiniteSet(S \cup T) /\ IsFiniteSet(S \cap T)
      BY FS_Union, FS_Intersection
<1>2. Cardinality(S \cup T) = Cardinality(S) + Cardinality(T) - Cardinality(S \cap T)
      BY FS_Union
<1>3. Cardinality(S) \in Nat /\ Cardinality(T) \in Nat /\ Cardinality(S \cup T) \in Nat
      /\ Cardinality(S \cap T) \in Nat
      BY <1>1, FS_CardinalityType
<1> QED BY <1>1, <1>2, <1>3

LEMMA StepInv ==
  ASSUME NEW b, BarInv(b), NEW a \in Arms, b.at[a] = "out"
  PROVE  BarInv(Step(b, a))
<1> DEFINE asked == [b EXCEPT !.waiting = @ + 1]
<1>1. asked = [active |-> b.active, waiting |-> b.waiting + 1, at |-> b.at, left |-> {}]
      BY DEF BarInv
<1>2. /\ b.at \in [Arms -> {"idle", "out", "parked", "released"}] /\ b.active \in Nat /\ b.waiting \in Nat
      /\ IsFiniteSet(Moving(b)) /\ IsFiniteSet(Parked(b)) /\ b.waiting = Cardinality(Parked(b))
      /\ Cardinality(Moving(b)) + b.waiting <= b.active
      BY DEF BarInv
<1>3. a \in Moving(b) /\ a \notin Parked(b)
      BY DEF Moving, Parked
<1>4. Step(b, a) = IF asked.waiting >= asked.active THEN Advance(asked, a)
                   ELSE [asked EXCEPT !.at[a] = "parked"]
      BY DEF Step
<1> HIDE DEF asked
<1>5. Moving(asked) = Moving(b) /\ Parked(asked) = Parked(b)
      BY <1>1 DEF Moving, Parked
<1>6. Cardinality(Moving(b)) \in Nat
      BY <1>2, FS_CardinalityType
<1>7. CASE asked.waiting >= asked.active
      <2>1. Cardinality(Moving(b)) <= 1
            BY <1>1, <1>2, <1>6, <1>7
      <2>2. Moving(asked) \subseteq {a}
            BY <2>1, <1>2, <1>3, <1>5, Only
      <2>3. Moving(asked) \cup Parked(asked) \cup {a} = Moving(b) \cup Parked(b)
            BY <1>3, <1>5
      <2>4. IsFiniteSet(Moving(b) \cup Parked(b)) /\ Cardinality(Moving(b) \cup Parked(b)) <= b.active
            BY <1>2, Together
      <2>5. asked = [active |-> asked.active, waiting |-> b.waiting + 1, at |-> asked.at, left |-> {}]
            /\ b.waiting + 1 \in Nat /\ asked.active = b.active /\ asked.at = b.at
            BY <1>1, <1>2
      <2> QED BY <2>2, <2>3, <2>4, <2>5, <1>2, <1>4, <1>7, AdvanceInv
<1>8. CASE ~(asked.waiting >= asked.active)
      <2> DEFINE c == [asked EXCEPT !.at[a] = "parked"]
                 at == [b.at EXCEPT ![a] = "parked"]
      <2>1. c = [active |-> b.active, waiting |-> b.waiting + 1, at |-> at, left |-> {}]
            BY <1>1
      <2>2. at \in [Arms -> {"idle", "out", "parked", "released"}]
            BY <1>2
      <2>3. Moving(c) = Moving(b) \ {a} /\ Parked(c) = Parked(b) \cup {a}
            BY <2>1, <1>2 DEF Moving, Parked
      <2>4. /\ IsFiniteSet(Moving(b) \ {a}) /\ Cardinality(Moving(b) \ {a}) = Cardinality(Moving(b)) - 1
            /\ Cardinality(Moving(b)) >= 1
            BY <1>2, <1>3, One
      <2>5. IsFiniteSet(Parked(b) \cup {a}) /\ Cardinality(Parked(b) \cup {a}) = Cardinality(Parked(b)) + 1
            BY <1>2, <1>3, Another
      <2> HIDE DEF c, at
      <2>6. BarInv(c)
            <3>1. b.waiting + 1 \in Nat /\ b.waiting + 1 = Cardinality(Parked(c))
                  BY <2>3, <2>5, <1>2
            <3>2. Cardinality(Moving(c)) + (b.waiting + 1) <= b.active
                  BY <2>3, <2>4, <1>2, <1>6
            <3> QED BY <2>1, <2>2, <2>3, <2>4, <2>5, <3>1, <3>2, <1>2, Rebuilt
      <2> QED BY <2>6, <1>4, <1>8 DEF c
<1> QED BY <1>7, <1>8

LEMMA WakeInv ==
  ASSUME NEW b, BarInv(b), NEW a \in Arms, CanWake(b, a)
  PROVE  BarInv(Wake(b, a))
<1>1. b = [active |-> b.active, waiting |-> b.waiting, at |-> b.at, left |-> {}]
      BY DEF BarInv
<1>2. /\ b.at \in [Arms -> {"idle", "out", "parked", "released"}] /\ b.active \in Nat /\ b.waiting \in Nat
      /\ IsFiniteSet(Moving(b)) /\ IsFiniteSet(Parked(b)) /\ b.waiting = Cardinality(Parked(b))
      /\ Cardinality(Moving(b)) + b.waiting <= b.active
      BY DEF BarInv
<1>3. CASE b.at[a] = "released"
      <2> DEFINE c == [b EXCEPT !.at[a] = "out"]
                 at == [b.at EXCEPT ![a] = "out"]
      <2>1. c = [active |-> b.active, waiting |-> b.waiting, at |-> at, left |-> {}]
            BY <1>1
      <2>2. at \in [Arms -> {"idle", "out", "parked", "released"}]
            BY <1>2
      <2>3. Moving(c) = Moving(b) /\ Parked(c) = Parked(b)
            BY <2>1, <1>2, <1>3 DEF Moving, Parked
      <2>4. Wake(b, a) = c
            BY <1>3 DEF Wake
      <2> HIDE DEF c, at
      <2> QED BY <2>1, <2>2, <2>3, <2>4, <1>2 DEF BarInv
<1>4. CASE b.at[a] # "released"
      <2>1. b.at[a] = "parked" /\ b.active <= 1 /\ a \in Parked(b)
            BY <1>4 DEF CanWake, Parked
      <2>2. Cardinality(Parked(b)) >= 1 /\ Cardinality(Moving(b)) \in Nat
            BY <2>1, <1>2, One, FS_CardinalityType
      <2>3. Cardinality(Moving(b)) = 0
            BY <2>1, <2>2, <1>2
      <2>4. Moving(b) = {}
            BY <2>3, <1>2, FS_EmptySet
      <2>5. Moving(b) \cup Parked(b) \cup {a} = Parked(b)
            BY <2>1, <2>4
      <2>6. Cardinality(Parked(b)) <= b.active
            BY <2>3, <1>2
      <2>7. Wake(b, a) = Advance(b, a)
            BY <1>4 DEF Wake
      <2> QED BY <2>4, <2>5, <2>6, <2>7, <1>1, <1>2, AdvanceInv
<1> QED BY <1>3, <1>4

LEMMA FinishInv ==
  ASSUME NEW b, BarInv(b), NEW a \in Arms, b.at[a] = "out"
  PROVE  BarInv(Finish(b, a))
<1> DEFINE gone == [b EXCEPT !.active = @ - 1, !.at[a] = "idle"]
           at == [b.at EXCEPT ![a] = "idle"]
<1>1. b = [active |-> b.active, waiting |-> b.waiting, at |-> b.at, left |-> {}]
      BY DEF BarInv
<1>2. /\ b.at \in [Arms -> {"idle", "out", "parked", "released"}] /\ b.active \in Nat /\ b.waiting \in Nat
      /\ IsFiniteSet(Moving(b)) /\ IsFiniteSet(Parked(b)) /\ b.waiting = Cardinality(Parked(b))
      /\ Cardinality(Moving(b)) + b.waiting <= b.active
      BY DEF BarInv
<1>3. gone = [active |-> b.active - 1, waiting |-> b.waiting, at |-> at, left |-> {}]
      <2>1. gone = [b EXCEPT !.active = b.active - 1, !.at = at]
            OBVIOUS
      <2> HIDE DEF gone, at
      <2>2. b = [active |-> b.active, waiting |-> b.waiting, at |-> b.at, left |-> b.left]
            /\ b.left = {}
            BY DEF BarInv
      <2> QED BY <2>1, <2>2, Fewer
<1>4. at \in [Arms -> {"idle", "out", "parked", "released"}]
      BY <1>2
<1>5. Moving(gone) = Moving(b) \ {a} /\ Parked(gone) = Parked(b)
      BY <1>2, <1>3 DEF Moving, Parked
<1>6. a \in Moving(b)
      BY DEF Moving
<1>7. /\ IsFiniteSet(Moving(b) \ {a}) /\ Cardinality(Moving(b) \ {a}) = Cardinality(Moving(b)) - 1
      /\ Cardinality(Moving(b)) >= 1 /\ Cardinality(Moving(b)) \in Nat
      BY <1>2, <1>6, One
<1>8. Finish(b, a) = IF gone.waiting > 0 /\ gone.active > 0 /\ gone.waiting >= gone.active
                     THEN [gone EXCEPT !.waiting = 0, !.at = Woken(gone)] ELSE gone
      BY DEF Finish
<1> HIDE DEF gone, at
<1>9. BarInv(gone)
      BY <1>2, <1>3, <1>4, <1>5, <1>7 DEF BarInv
<1>10. BarInv([gone EXCEPT !.waiting = 0, !.at = Woken(gone)])
      <2> DEFINE c == [gone EXCEPT !.waiting = 0, !.at = Woken(gone)]
      <2>1. c = [active |-> b.active - 1, waiting |-> 0, at |-> Woken(gone), left |-> {}]
            <3> DEFINE free == Woken(gone)
            <3> HIDE DEF free
            <3>1. c = [gone EXCEPT !.waiting = 0, !.at = free]
                  BY DEF free
            <3>2. [gone EXCEPT !.waiting = 0, !.at = free]
                    = [active |-> b.active - 1, waiting |-> 0, at |-> free, left |-> {}]
                  <4>1. gone.active = b.active - 1 /\ gone.waiting = b.waiting /\ gone.at = at /\ gone.left = {}
                        BY <1>3
                  <4>2. gone = [active |-> gone.active, waiting |-> gone.waiting, at |-> gone.at,
                                left |-> gone.left]
                        BY <4>1, <1>3
                  <4>3. [gone EXCEPT !.waiting = 0, !.at = free]
                          = [active |-> gone.active, waiting |-> 0, at |-> free, left |-> gone.left]
                        <5> DEFINE e == [gone EXCEPT !.waiting = 0]
                        <5>1. e = [active |-> gone.active, waiting |-> 0, at |-> gone.at, left |-> gone.left]
                              BY <4>2
                        <5>2. [gone EXCEPT !.waiting = 0, !.at = free] = [e EXCEPT !.at = free]
                              OBVIOUS
                        <5> HIDE DEF e
                        <5>3. e = [active |-> e.active, waiting |-> e.waiting, at |-> e.at, left |-> e.left]
                              BY <5>1
                        <5>4. [e EXCEPT !.at = free]
                                = [active |-> e.active, waiting |-> e.waiting, at |-> free, left |-> e.left]
                              BY <5>3
                        <5> QED BY <5>1, <5>2, <5>4
                  <4> QED BY <4>1, <4>3
            <3> QED BY <3>1, <3>2 DEF free
      <2>2. Woken(gone) = [d \in Arms |-> IF at[d] = "parked" THEN "released" ELSE at[d]]
            BY <1>3 DEF Woken
      <2>3. Woken(gone) \in [Arms -> {"idle", "out", "parked", "released"}]
            BY <2>2, <1>4
      <2> HIDE DEF c
      <2>4. Moving(c) = Moving(gone) \cup Parked(gone) /\ Parked(c) = {}
            BY <2>1, <2>2, <1>3 DEF Moving, Parked
      <2>5. IsFiniteSet(Moving(c)) /\ Cardinality(Moving(c)) <= Cardinality(Moving(gone)) + Cardinality(Parked(gone))
            /\ Cardinality(Moving(c)) \in Nat
            BY <2>4, <1>2, <1>5, <1>7, Together
      <2>6. Cardinality({}) = 0 /\ IsFiniteSet({})
            BY FS_EmptySet
      <2>7. BarInv(c)
            <3>1. Cardinality(Moving(c)) + 0 <= b.active - 1 /\ b.active - 1 \in Nat
                  BY <2>5, <1>2, <1>5, <1>7
            <3>2. IsFiniteSet(Moving(c)) /\ IsFiniteSet(Parked(c)) /\ Cardinality(Parked(c)) = 0 /\ 0 \in Nat
                  BY <2>4, <2>5, <2>6
            <3> HIDE DEF c
            <3> QED BY <2>1, <2>3, <3>1, <3>2, Rebuilt
      <2> QED BY <2>7 DEF c
<1> QED BY <1>8, <1>9, <1>10

LEMMA PrimitivesKeepBar ==
  ASSUME BarInv(bar), Primitives
  PROVE  BarInv(bar')
<1>1. PICK a \in Arms : \/ Approach(a) \/ Lift(a) \/ TryAgain(a) \/ OpenAgain(a) \/ MissPick(a)
                        \/ PickBimanual(a) \/ Carry(a) \/ LetGo(a) \/ PlaceBimanual(a) \/ Pull(a)
                        \/ Unpark(a)
      BY DEF Primitives
<1>2. CASE Unpark(a)
      BY <1>2, WakeInv DEF Unpark
<1>3. CASE ~Unpark(a)
      <2>1. bar.at[a] = "out"
            BY <1>1, <1>3 DEF Approach, Lift, TryAgain, OpenAgain, MissPick, PickBimanual, Carry, LetGo,
               PlaceBimanual, Pull, Running
      <2>2. bar' = Step(bar, a) \/ bar' = Finish(bar, a)
            BY <1>1, <1>3 DEF Approach, Lift, TryAgain, OpenAgain, MissPick, PickBimanual, Carry, LetGo,
               PlaceBimanual, Pull, Unsafe, Goto, Ends
      <2> QED BY <2>1, <2>2, StepInv, FinishInv
<1> QED BY <1>2, <1>3

LEMMA RunKeepsBar ==
  ASSUME BarInv(bar), [Next]_vars
  PROVE  BarInv(bar')
<1>1. \A x, y : IsFiniteSet({x}) /\ IsFiniteSet({x, y})
      <2>1. \A x : IsFiniteSet({x})
            BY FS_Singleton
      <2>2. ASSUME NEW x, NEW y PROVE IsFiniteSet({x, y})
            <3>1. {x, y} = {x} \cup {y} /\ IsFiniteSet({x}) /\ IsFiniteSet({y})
                  BY <2>1
            <3>2. IsFiniteSet({x} \cup {y})
                  BY <3>1, FS_Union
            <3> QED BY <3>1, <3>2
      <2> QED BY <2>1, <2>2
<1>2. IsFiniteSet({})
      BY FS_EmptySet
<1>3. CASE UNCHANGED vars
      BY <1>3 DEF vars, table
<1>4. CASE ApplyConstraint \/ Finish1 \/ Verify \/ Reject \/ Failed
      BY <1>4 DEF ApplyConstraint, Finish1, Verify, Reject, Failed, table
<1>5. CASE ExecuteOne
      BY <1>5, <1>1, NewStepperInv DEF ExecuteOne, BeginOne
<1>6. CASE ExecutePair
      <2>1. PICK r, s : BeginPair(r, s)
            BY <1>6 DEF ExecutePair
      <2> QED BY <2>1, <1>1, NewStepperInv DEF BeginPair
<1>7. CASE Move
      BY <1>7, PrimitivesKeepBar DEF Move
<1>8. CASE Over
      BY <1>8, <1>2, NewStepperInv DEF Over, ConcludeOne, ConcludePair
<1>9. CASE \E a \in Arms : Withdraw(a) \/ ArmStops(a)
      BY <1>9 DEF Withdraw, ArmStops, FailArm, table
<1> QED BY <1>3, <1>4, <1>5, <1>6, <1>7, <1>8, <1>9 DEF Next

(* The barrier holds for any graph: the physics advances only when every arm *)
(* that is still at work waits for it, also after an arm was withdrawn or    *)
(* stopped by a fault (_CoopStepper.mj_step and finish, and                  *)
(* IntelTableWorld.apply_transitions_parallel).                              *)
THEOREM BarrierHolds == Spec => []StepWaitsForAll
<1>1. Init => BarInv(bar)
      BY FS_EmptySet, NewStepperInv DEF Init, TableInit
<1>2. BarInv(bar) /\ [Next]_vars => BarInv(bar')
      BY RunKeepsBar
<1>3. BarInv(bar) => StepWaitsForAll
      BY DEF BarInv, StepWaitsForAll
<1> DEFINE I == BarInv(bar)
<1>4. I /\ [Next]_vars => I'
      BY <1>2
<1>5. Init => I
      BY <1>1
<1>6. I => StepWaitsForAll
      BY <1>3
<1> HIDE DEF I
<1> QED BY <1>4, <1>5, <1>6, PTL DEF Spec
==============================================================================
