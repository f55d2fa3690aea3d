--------------------------- MODULE SequenceLemmas ---------------------------
(***************************************************************************)
(* Induction over the naturals, as a fact about a set (the library states  *)
(* it with an operator for a parameter), and what it tells of FlattenSeq,  *)
(* with which plans, schedules and held speech are put together.           *)
(***************************************************************************)
EXTENDS Naturals, SequencesExt, SequenceTheorems, WellFoundedInduction, TLAPS

LEMMA LeastOf ==
  ASSUME NEW T \in SUBSET Nat, T # {}
  PROVE  \E m \in T : \A n \in T : m <= n
<1> DEFINE R == OpToRel(<, Nat)
<1>1. IsWellFoundedOn(R, Nat)
      BY NatLessThanWellFounded
<1> HIDE DEF R
<1>2. \E m \in T : \A n \in T : ~ (<<n, m>> \in R)
      BY <1>1, WFMin
<1>3. \A m, n \in Nat : n < m => <<n, m>> \in R
      BY DEF R, OpToRel
<1>4. PICK m \in T : \A n \in T : ~ (<<n, m>> \in R)
      BY <1>2
<1>5. \A n \in T : n \in Nat /\ m \in Nat /\ ~ (n < m)
      BY <1>3, <1>4
<1>6. \A n \in T : m <= n
      BY <1>5
<1> QED BY <1>6

LEMMA Induction ==
  ASSUME NEW T, 0 \in T, \A n \in Nat : n \in T => n + 1 \in T
  PROVE  \A n \in Nat : n \in T
<1> DEFINE F == {n \in Nat : n \notin T}
<1> SUFFICES ASSUME F # {} PROVE FALSE
    OBVIOUS
<1>1. PICK m \in F : \A n \in F : m <= n
      BY LeastOf
<1>2. m \in Nat /\ m # 0
      BY <1>1
<1>3. m - 1 \in Nat /\ m - 1 \notin F
      BY <1>1, <1>2
<1> QED BY <1>1, <1>2, <1>3

(* f puts the first n of s behind each other, one by one.                    *)
Joins(f, s, n) ==
  f = [i \in 1..n |-> IF i = 1 THEN s[i] ELSE f[i - 1] \o s[i]]

LEMMA JoinsExist ==
  ASSUME NEW S, NEW s \in Seq(Seq(S)), NEW n \in 0..Len(s)
  PROVE  \E f \in [1..n -> Seq(S)] : Joins(f, s, n)
<1> DEFINE T == {k \in Nat : k <= Len(s) => \E f \in [1..k -> Seq(S)] : Joins(f, s, k)}
<1>1. 0 \in T
      <2> DEFINE f == [i \in 1..0 |-> <<>>]
      <2>1. f \in [1..0 -> Seq(S)] /\ Joins(f, s, 0)
            BY DEF Joins
      <2> QED BY <2>1
<1>2. ASSUME NEW k \in Nat, k \in T PROVE k + 1 \in T
      <2> SUFFICES ASSUME k + 1 <= Len(s) PROVE \E f \in [1..(k + 1) -> Seq(S)] : Joins(f, s, k + 1)
          OBVIOUS
      <2>1. PICK f \in [1..k -> Seq(S)] : Joins(f, s, k)
            BY <1>2
      <2>2. s[k + 1] \in Seq(S)
            OBVIOUS
      <2> DEFINE final == IF k = 0 THEN s[1] ELSE f[k] \o s[k + 1]
                 g == [i \in 1..(k + 1) |-> IF i = k + 1 THEN final ELSE f[i]]
      <2>3. final \in Seq(S)
            <3>1. CASE k = 0
                  BY <3>1, <2>2
            <3>2. CASE k # 0
                  <4>1. f[k] \in Seq(S)
                        BY <3>2
                  <4> QED BY <4>1, <3>2, <2>2
            <3> QED BY <3>1, <3>2
      <2>4. \A i \in 1..k : f[i] = IF i = 1 THEN s[i] ELSE f[i - 1] \o s[i]
            BY <2>1 DEF Joins
      <2> HIDE DEF final
      <2>5. g \in [1..(k + 1) -> Seq(S)]
            BY <2>3
      <2>6. \A i \in 1..k : g[i] = f[i]
            OBVIOUS
      <2>7. g[k + 1] = final
            OBVIOUS
      <2>8. ASSUME NEW i \in 1..(k + 1)
            PROVE  g[i] = IF i = 1 THEN s[i] ELSE g[i - 1] \o s[i]
            <3> HIDE DEF g
            <3>1. CASE i = k + 1
                  <4>1. CASE k = 0
                        BY <3>1, <4>1, <2>7 DEF final
                  <4>2. CASE k # 0
                        <5>1. g[k] = f[k]
                              BY <4>2, <2>6
                        <5>2. i - 1 = k /\ i # 1
                              BY <3>1, <4>2
                        <5>3. g[i] = f[k] \o s[i]
                              BY <3>1, <4>2, <2>7 DEF final
                        <5> QED BY <5>1, <5>2, <5>3
                  <4> QED BY <4>1, <4>2
            <3>2. CASE i # k + 1
                  <4>1. i \in 1..k /\ (i # 1 => i - 1 \in 1..k)
                        BY <3>2
                  <4> QED BY <4>1, <2>4, <2>6
            <3> QED BY <3>1, <3>2
      <2>9. Joins(g, s, k + 1)
            <3> DEFINE h == [i \in 1..(k + 1) |-> IF i = 1 THEN s[i] ELSE g[i - 1] \o s[i]]
            <3>1. \A i \in 1..(k + 1) : g[i] = h[i]
                  BY <2>8
            <3>2. DOMAIN g = 1..(k + 1) /\ DOMAIN h = 1..(k + 1) /\ g = [i \in 1..(k + 1) |-> g[i]]
                  /\ h = [i \in 1..(k + 1) |-> h[i]]
                  OBVIOUS
            <3> HIDE DEF g, h
            <3>3. g = h
                  BY <3>1, <3>2
            <3> QED BY <3>3 DEF Joins, h
      <2> QED BY <2>5, <2>9
<1>3. \A k \in Nat : k \in T
      <2> HIDE DEF T
      <2> QED BY <1>1, <1>2, Induction
<1> QED BY <1>3

Agree(s, t, n) == \A i \in 1..n : s[i] = t[i]

LEMMA JoinsUnique ==
  ASSUME NEW s, NEW t, NEW n \in Nat, NEW m \in Nat, m <= n, Agree(s, t, m),
         NEW f, Joins(f, s, m), NEW g, Joins(g, t, n)
  PROVE  Agree(f, g, m)
<1> DEFINE T == {k \in Nat : k \in 1..m => f[k] = g[k]}
<1>1. 0 \in T
      OBVIOUS
<1>2. ASSUME NEW k \in Nat, k \in T PROVE k + 1 \in T
      <2> SUFFICES ASSUME k + 1 \in 1..m PROVE f[k + 1] = g[k + 1]
          OBVIOUS
      <2>1. f[k + 1] = IF k + 1 = 1 THEN s[k + 1] ELSE f[(k + 1) - 1] \o s[k + 1]
            BY DEF Joins
      <2>2. g[k + 1] = IF k + 1 = 1 THEN t[k + 1] ELSE g[(k + 1) - 1] \o t[k + 1]
            <3>1. k + 1 \in 1..n
                  OBVIOUS
            <3> QED BY <3>1 DEF Joins
      <2>3. (k + 1) - 1 = k /\ (k + 1 # 1 => k \in 1..m)
            OBVIOUS
      <2>4. s[k + 1] = t[k + 1]
            BY DEF Agree
      <2> QED BY <1>2, <2>1, <2>2, <2>3, <2>4
<1>3. \A k \in Nat : k \in T
      <2> HIDE DEF T
      <2> QED BY <1>1, <1>2, Induction
<1> QED BY <1>3 DEF Agree

(* So FlattenSeq does what it says.                                          *)
LEMMA FlattenIsJoin ==
  ASSUME NEW S, NEW s \in Seq(Seq(S)), s # <<>>
  PROVE  \E f \in [1..Len(s) -> Seq(S)] : Joins(f, s, Len(s)) /\ FlattenSeq(s) = f[Len(s)]
<1> DEFINE f == CHOOSE f : f = [i \in 1..Len(s) |-> IF i = 1 THEN s[i] ELSE f[i - 1] \o s[i]]
<1>1. Len(s) \in Nat /\ Len(s) # 0
      OBVIOUS
<1>2. PICK g \in [1..Len(s) -> Seq(S)] : Joins(g, s, Len(s))
      <2>1. Len(s) \in 0..Len(s)
            BY <1>1
      <2> HIDE DEF f
      <2> QED BY <2>1, JoinsExist
<1>3. Joins(f, s, Len(s))
      BY <1>2, ZenonT(40) DEF Joins
<1>4. FlattenSeq(s) = f[Len(s)]
      BY <1>1 DEF FlattenSeq
<1> HIDE DEF f
<1>5. \A i \in 1..Len(s) : f[i] = g[i]
      BY <1>1, <1>2, <1>3, JoinsUnique DEF Agree
<1>6. f \in [1..Len(s) -> Seq(S)]
      <2>1. f = [i \in 1..Len(s) |-> f[i]]
            BY <1>3 DEF Joins
      <2> QED BY <2>1, <1>5
<1> QED BY <1>3, <1>4, <1>6

LEMMA FlattenEmpty == FlattenSeq(<<>>) = <<>>
BY DEF FlattenSeq

LEMMA FlattenType ==
  ASSUME NEW S, NEW s \in Seq(Seq(S))
  PROVE  FlattenSeq(s) \in Seq(S)
<1>1. CASE s = <<>>
      <2>1. <<>> \in Seq(S)
            OBVIOUS
      <2> QED BY <1>1, <2>1, FlattenEmpty
<1>2. CASE s # <<>>
      <2>1. PICK f \in [1..Len(s) -> Seq(S)] : FlattenSeq(s) = f[Len(s)]
            BY <1>2, FlattenIsJoin
      <2>2. Len(s) \in 1..Len(s)
            BY <1>2
      <2> QED BY <2>1, <2>2
<1> QED BY <1>1, <1>2

LEMMA FlattenAppend ==
  ASSUME NEW S, NEW s \in Seq(Seq(S)), NEW x \in Seq(S)
  PROVE  FlattenSeq(Append(s, x)) = FlattenSeq(s) \o x
<1> DEFINE t == Append(s, x)
           n == Len(s)
<1>1. t \in Seq(Seq(S)) /\ t # <<>> /\ Len(t) = n + 1 /\ t[n + 1] = x /\ n \in Nat
      /\ \A i \in 1..n : s[i] = t[i]
      <2>1. n \in Nat /\ t \in Seq(Seq(S)) /\ Len(t) = n + 1
            OBVIOUS
      <2>2. t[n + 1] = x
            OBVIOUS
      <2>3. \A i \in 1..n : s[i] = t[i]
            OBVIOUS
      <2>4. t # <<>>
            <3> HIDE DEF t
            <3> QED BY <2>1
      <2> QED BY <2>1, <2>2, <2>3, <2>4
<1> HIDE DEF t
<1>2. PICK g \in [1..(n + 1) -> Seq(S)] : Joins(g, t, n + 1) /\ FlattenSeq(t) = g[n + 1]
      BY <1>1, FlattenIsJoin
<1>3. g[n + 1] = IF n + 1 = 1 THEN t[n + 1] ELSE g[(n + 1) - 1] \o t[n + 1]
      <2>1. n + 1 \in 1..(n + 1)
            BY <1>1
      <2> QED BY <1>2, <2>1 DEF Joins
<1>4. CASE s = <<>>
      <2>1. n = 0
            BY <1>4
      <2>2. FlattenSeq(t) = x
            BY <2>1, <1>1, <1>2, <1>3
      <2>3. FlattenSeq(s) \o x = x
            BY <1>4, FlattenEmpty
      <2> QED BY <2>2, <2>3 DEF t
<1>5. CASE s # <<>>
      <2>1. PICK f \in [1..n -> Seq(S)] : Joins(f, s, n) /\ FlattenSeq(s) = f[n]
            BY <1>5, FlattenIsJoin
      <2>2. n # 0 /\ n \in 1..n
            BY <1>5
      <2>3. \A i \in 1..n : f[i] = g[i]
            <3>1. n <= n + 1 /\ n + 1 \in Nat /\ n \in Nat
                  BY <1>1
            <3>2. Agree(s, t, n)
                  BY <1>1 DEF Agree
            <3>3. Joins(f, s, n) /\ Joins(g, t, n + 1)
                  BY <1>2, <2>1
            <3> DEFINE m == n + 1
            <3>4. n <= m /\ m \in Nat /\ n \in Nat /\ Joins(g, t, m)
                  BY <3>1, <3>3
            <3> HIDE DEF n, m
            <3>5. Agree(f, g, n)
                  BY <3>4, <3>2, <3>3, JoinsUnique
            <3> QED BY <3>5 DEF Agree
      <2>4. (n + 1) - 1 = n /\ n + 1 # 1
            BY <2>2, <1>1
      <2> QED BY <1>1, <1>2, <1>3, <2>1, <2>2, <2>3, <2>4 DEF t
<1> QED BY <1>4, <1>5

(* Every part sits in the joined sequence, in one stretch, and nothing else. *)
Sits(f, x, p) == p + Len(x) <= Len(f) /\ \A k \in 1..Len(x) : f[p + k] = x[k]

LEMMA FlattenPlaces ==
  ASSUME NEW S, NEW s \in Seq(Seq(S))
  PROVE  /\ \A i \in 1..Len(s) : \E p \in Nat : Sits(FlattenSeq(s), s[i], p)
         /\ \A m \in 1..Len(FlattenSeq(s)) :
              \E i \in 1..Len(s), p \in Nat : Sits(FlattenSeq(s), s[i], p) /\ m - p \in 1..Len(s[i])
<1> DEFINE W == Seq(S)
           In(b) == /\ \A i \in 1..Len(b) : \E p \in Nat : Sits(FlattenSeq(b), b[i], p)
                    /\ \A m \in 1..Len(FlattenSeq(b)) :
                         \E i \in 1..Len(b), p \in Nat :
                           Sits(FlattenSeq(b), b[i], p) /\ m - p \in 1..Len(b[i])
           T == {n \in Nat : \A b \in Seq(W) : Len(b) = n => In(b)}
<1>1. 0 \in T
      <2> SUFFICES ASSUME NEW b \in Seq(W), Len(b) = 0 PROVE In(b)
          BY DEF T
      <2>1. b = <<>>
            <3> HIDE DEF W
            <3> QED BY EmptySeq
      <2>2. FlattenSeq(b) = <<>>
            BY <2>1, FlattenEmpty
      <2>3. Len(FlattenSeq(b)) = 0 /\ 1..0 = {}
            BY <2>2
      <2> QED BY <2>3
<1>2. ASSUME NEW n \in Nat, n \in T PROVE n + 1 \in T
      <2> SUFFICES ASSUME NEW b \in Seq(W), Len(b) = n + 1 PROVE In(b)
          BY DEF T
      <2>1. PICK c \in Seq(W), x \in W : b = Append(c, x)
            <3> HIDE DEF W
            <3>1. b # <<>>
                  OBVIOUS
            <3> QED BY <3>1, SequenceEmptyOrAppend
      <2>2. Len(c) = n /\ b[n + 1] = x /\ \A i \in 1..n : b[i] = c[i]
            <3> HIDE DEF W
            <3>1. Len(Append(c, x)) = Len(c) + 1 /\ Len(c) \in Nat
                  OBVIOUS
            <3>2. Len(c) = n
                  BY <2>1, <3>1
            <3>3. Append(c, x)[Len(c) + 1] = x /\ \A i \in 1..Len(c) : Append(c, x)[i] = c[i]
                  OBVIOUS
            <3> QED BY <2>1, <3>2, <3>3
      <2>3. In(c)
            BY <1>2, <2>2 DEF T
      <2> DEFINE f == FlattenSeq(c)
                 g == FlattenSeq(b)
      <2>4. f \in Seq(S) /\ g = f \o x
            BY <2>1, FlattenType, FlattenAppend
      <2>5. /\ \A i \in 1..n : \E p \in Nat : Sits(f, c[i], p)
            /\ \A m \in 1..Len(f) : \E i \in 1..n, p \in Nat : Sits(f, c[i], p) /\ m - p \in 1..Len(c[i])
            BY <2>2, <2>3
      <2> HIDE DEF f, g
      <2>6. /\ Len(f) \in Nat /\ Len(x) \in Nat /\ Len(g) = Len(f) + Len(x)
            /\ \A m \in 1..Len(f) : g[m] = f[m]
            /\ \A k \in 1..Len(x) : g[Len(f) + k] = x[k]
            BY <2>4
      <2>7. Sits(g, x, Len(f))
            BY <2>6 DEF Sits
      <2>8. ASSUME NEW i \in 1..n, NEW p \in Nat, Sits(f, c[i], p)
            PROVE  Sits(g, b[i], p)
            <3>1. b[i] = c[i] /\ c[i] \in Seq(S)
                  BY <2>2
            <3> DEFINE y == c[i]
            <3>2. b[i] = y /\ Len(y) \in Nat /\ Sits(f, y, p)
                  BY <2>8, <3>1
            <3> HIDE DEF y
            <3>3. \A k \in 1..Len(y) : p + k \in 1..Len(f)
                  BY <2>6, <3>2 DEF Sits
            <3> QED BY <2>6, <3>2, <3>3 DEF Sits
      <2>9. \A i \in 1..(n + 1) : \E p \in Nat : Sits(g, b[i], p)
            <3> TAKE i \in 1..(n + 1)
            <3>1. i \in 1..n \/ i = n + 1
                  OBVIOUS
            <3> QED BY <2>2, <2>5, <2>6, <2>7, <2>8, <3>1
      <2>10. \A m \in 1..Len(g) : \E i \in 1..(n + 1), p \in Nat : Sits(g, b[i], p) /\ m - p \in 1..Len(b[i])
            <3> TAKE m \in 1..Len(g)
            <3>1. m \in 1..Len(f) \/ m - Len(f) \in 1..Len(x)
                  BY <2>6
            <3>2. CASE m \in 1..Len(f)
                  <4>1. PICK i \in 1..n, p \in Nat : Sits(f, c[i], p) /\ m - p \in 1..Len(c[i])
                        BY <2>5, <3>2
                  <4>2. Sits(g, b[i], p) /\ i \in 1..(n + 1) /\ b[i] = c[i]
                        BY <2>2, <2>8, <4>1
                  <4> QED BY <4>1, <4>2
            <3>3. CASE m - Len(f) \in 1..Len(x)
                  <4>1. n + 1 \in 1..(n + 1) /\ b[n + 1] = x /\ Len(f) \in Nat
                        BY <2>2, <2>6
                  <4> QED BY <2>7, <3>3, <4>1
            <3> QED BY <3>1, <3>2, <3>3
      <2> QED BY <2>2, <2>9, <2>10 DEF f, g
<1>3. Len(s) \in Nat /\ Len(s) \in T
      <2> HIDE DEF T
      <2>1. \A n \in Nat : n \in T
            BY <1>1, <1>2, Induction
      <2> QED BY <2>1
<1> QED BY <1>3

(* Short sequences put behind each other.                                    *)
LEMMA Behind ==
  ASSUME NEW S, NEW s \in Seq(S), NEW t \in Seq(S)
  PROVE  /\ s \o t \in Seq(S) /\ Len(s \o t) = Len(s) + Len(t)
         /\ \A i \in 1..Len(s) : (s \o t)[i] = s[i]
         /\ \A i \in 1..Len(t) : (s \o t)[Len(s) + i] = t[i]
OBVIOUS

LEMMA PairOf ==
  ASSUME NEW S, NEW a \in S, NEW b \in S
  PROVE  <<a>> \o <<b>> = <<a, b>>
<1> DEFINE x == <<a>> 
           y == <<b>>
           z == <<a, b>>
<1>1. x \in Seq(S) /\ y \in Seq(S) /\ Len(x) = 1 /\ Len(y) = 1 /\ x[1] = a /\ y[1] = b
      OBVIOUS
<1>2. z \in Seq(S) /\ Len(z) = 2 /\ z[1] = a /\ z[2] = b
      OBVIOUS
<1> HIDE DEF x, y, z
<1>3. /\ x \o y \in Seq(S) /\ Len(x \o y) = 1 + 1
      /\ \A i \in 1..1 : (x \o y)[i] = x[i]
      /\ \A i \in 1..1 : (x \o y)[1 + i] = y[i]
      BY <1>1, Behind, SMTT(30)
<1>4. (x \o y)[1] = a /\ (x \o y)[1 + 1] = b
      BY <1>1, <1>3
<1>5. \A i \in 1..2 : i = 1 \/ i = 2
      OBVIOUS
<1>6. x \o y = z
      BY <1>2, <1>3, <1>4, <1>5, SeqEqual
<1> QED BY <1>6 DEF x, y, z

LEMMA TripleOf ==
  ASSUME NEW S, NEW a \in S, NEW b \in S, NEW c \in S
  PROVE  <<a, b>> \o <<c>> = <<a, b, c>>
<1> DEFINE x == <<a, b>> 
           y == <<c>>
           z == <<a, b, c>>
<1>1. x \in Seq(S) /\ y \in Seq(S) /\ Len(x) = 2 /\ Len(y) = 1 /\ x[1] = a /\ x[2] = b /\ y[1] = c
      OBVIOUS
<1>2. z \in Seq(S) /\ Len(z) = 3 /\ z[1] = a /\ z[2] = b /\ z[3] = c
      OBVIOUS
<1> HIDE DEF x, y, z
<1>3. /\ x \o y \in Seq(S) /\ Len(x \o y) = 2 + 1
      /\ \A i \in 1..2 : (x \o y)[i] = x[i]
      /\ \A i \in 1..1 : (x \o y)[2 + i] = y[i]
      BY <1>1, Behind
<1>4. (x \o y)[1] = a /\ (x \o y)[2] = b /\ (x \o y)[2 + 1] = c
      BY <1>1, <1>3
<1>5. \A i \in 1..3 : i = 1 \/ i = 2 \/ i = 3
      OBVIOUS
<1>6. x \o y = z
      BY <1>2, <1>3, <1>4, <1>5, SeqEqual
<1> QED BY <1>6 DEF x, y, z

=============================================================================
