---------------------------- MODULE ThreadProofs ----------------------------
(***************************************************************************)
(* Theorems about what several threads hand one another, for every value   *)
(* of the constants: the log of a session, read by whoever connects; and   *)
(* what is said, which ticker, turn signals and timeouts cut, hold and     *)
(* join in any order.                                                      *)
(***************************************************************************)
EXTENDS SessionStream, VoicePipeline, FiniteSetTheorems, SequenceLemmas
-----------------------------------------------------------------------------
(* SessionStream.  Two facts are kept apart.  As long as no two publications *)
(* have overlapped, who publishes finds the log numbered up to the bus's     *)
(* count and chained up to its last events.  And as far as the log is a      *)
(* chain, whatever comes behind, what is in the browser, on the wire and     *)
(* with the handler are neighbouring stretches of it.                        *)

Entries == [seq : Nat \ {0}, parent : Nat, chain : Chains]

(* x is the number of the last event of chain c among the first n, 0 for     *)
(* none.                                                                     *)
LastOf(L, n, c, x) ==
  \/ x = 0 /\ \A j \in 1..n : L[j].chain # c
  \/ \E j \in 1..n : L[j].chain = c /\ x = L[j].seq /\ \A k \in (j + 1)..n : L[k].chain # c
LinkedIn(L, i) ==
  /\ i > 1 => L[i].seq > L[i - 1].seq
  /\ LastOf(L, i - 1, L[i].chain, L[i].parent)

(* The bus.  p is what each thread is publishing, l the last events, n the   *)
(* count, x how long the log was at the first overlap.                       *)
Quiet(p) == \A t \in Threads : p[t] = NoValue
Settled(L, n, l) ==
  /\ \A i \in 1..Len(L) : L[i].seq <= n
  /\ \A c \in Chains : LastOf(L, Len(L), c, l[c])
Numbered(L, n, l, e) ==
  /\ e.seq = n /\ e.parent = l[e.chain]
  /\ \A i \in 1..Len(L) : L[i].seq < n
  /\ \A c \in Chains : LastOf(L, Len(L), c, l[c])
Logged(L, n, l, e) ==
  /\ Len(L) > 0 /\ L[Len(L)].seq = e.seq /\ L[Len(L)].chain = e.chain
  /\ \A i \in 1..Len(L) : L[i].seq <= n
  /\ \A c \in Chains \ {e.chain} : LastOf(L, Len(L), c, l[c])
Mid(L, n, l, p, t) ==
  /\ p[t] # NoValue
  /\ \A u \in Threads \ {t} : p[u] = NoValue
  /\ IF p[t].logged THEN Logged(L, n, l, p[t]) ELSE Numbered(L, n, l, p[t])

BusInv(L, n, l, p, x) ==
  /\ L \in Seq(Entries) /\ n \in Nat /\ l \in [Chains -> Nat]
  /\ p \in [Threads -> Publication \cup {NoValue}]
  /\ \A t \in Threads : p[t] # NoValue => p[t].seq > 0
  /\ x \in Int /\ x <= Len(L)
  /\ \A i \in 1..Len(L) : x < 0 \/ i <= x => LinkedIn(L, i)
  /\ x < 0 => (Quiet(p) /\ Settled(L, n, l)) \/ \E t \in Threads : Mid(L, n, l, p, t)

(* The first n events are all of the log that is a chain.                    *)
Sound(L, n) ==
  /\ n \in 0..Len(L)
  /\ \A i \in 1..n : LinkedIn(L, i)
  /\ \A i, j \in 1..n : i < j => L[i].seq < L[j].seq
  /\ n = Len(L) \/ ~LinkedIn(L, n + 1)

(* What is read of the log behind its sound part may be anything.            *)
AnySeq(s) == \E S : s \in Seq(S)
SeqAt(L, k) == IF k = 0 THEN 0 ELSE L[k].seq

(* As long as the browser has not all of the first n events, or they are all *)
(* there is: it holds k of them, the next ones are on the wire, and the      *)
(* handler goes on from there.                                               *)
OnTrack(L, k, n) == k < n \/ n = Len(L)
Final(w, j, h) == w[j].terminal \in Terminal /\ j = Len(w) /\ h.pc = "closed"
WireInv(L, h, w, k, n) ==
  /\ AnySeq(w)
  /\ h.pc = "lost" => w = <<>>
  /\ OnTrack(L, k, n) => \A j \in 1..Len(w) :
       /\ k + j <= n => Final(w, j, h) \/ (w[j].terminal = NoValue /\ w[j].event = L[k + j])
       /\ n = Len(L) => Final(w, j, h) \/ k + j <= n
HandlerInv(L, h, s, k, n) ==
  /\ h = [pc |-> h.pc, cursor |-> h.cursor, batch |-> h.batch]
  /\ h.pc \in {"read", "send", "closed", "lost"}
  /\ AnySeq(h.batch)
  /\ h.pc # "send" => h.batch = <<>>
  /\ OnTrack(L, k, n) /\ h.pc \in {"read", "send"} =>
       /\ s <= n => /\ h.cursor = SeqAt(L, s)
                    /\ \A j \in 1..Len(h.batch) : s + j <= n => h.batch[j] = L[s + j]
       /\ n = Len(L) => s + Len(h.batch) <= n
ClientInv(L, b, n) ==
  /\ b = [cursor |-> b.cursor, parents |-> b.parents, got |-> b.got, lastId |-> b.lastId,
          done |-> b.done]
  /\ b.parents = [c \in Chains |-> b.parents[c]]
  /\ AnySeq(b.got)
  /\ \A i \in 1..Len(b.got) : i <= n => b.got[i] = L[i].seq
  /\ OnTrack(L, Len(b.got), n) =>
       /\ Len(b.got) <= n
       /\ b.cursor = SeqAt(L, Len(b.got)) /\ b.lastId = b.cursor
       /\ \A c \in Chains : LastOf(L, Len(b.got), c, b.parents[c])

Followed(L, h, w, b, n) ==
  /\ Sound(L, n)
  /\ ClientInv(L, b, n)
  /\ WireInv(L, h, w, Len(b.got), n)
  /\ HandlerInv(L, h, Len(b.got) + Len(w), Len(b.got), n)

StreamInv ==
  /\ BusInv(log, seqno, last, pub, crossed) /\ chain \in Chains
  /\ \E n \in 0..Len(log) : Followed(log, handler, wire, client, n)

-----------------------------------------------------------------------------
LEMMA LastOfUnique ==
  ASSUME NEW L, NEW n \in Nat, NEW c, NEW x, NEW y, LastOf(L, n, c, x), LastOf(L, n, c, y)
  PROVE  x = y
<1>1. CASE \A j \in 1..n : L[j].chain # c
      BY <1>1 DEF LastOf
<1>2. CASE \E j \in 1..n : L[j].chain = c
      <2>1. PICK i \in 1..n : L[i].chain = c /\ x = L[i].seq /\ \A k \in (i + 1)..n : L[k].chain # c
            BY <1>2 DEF LastOf
      <2>2. PICK j \in 1..n : L[j].chain = c /\ y = L[j].seq /\ \A k \in (j + 1)..n : L[k].chain # c
            BY <1>2 DEF LastOf
      <2>3. i = j
            BY <2>1, <2>2
      <2> QED BY <2>1, <2>2, <2>3
<1> QED BY <1>1, <1>2

(* What lies in a beginning of the log is not changed by what comes after.   *)
LEMMA LastOfGrown ==
  ASSUME NEW L, NEW M, NEW n \in Nat, NEW c, NEW x, \A j \in 1..n : M[j] = L[j]
  PROVE  LastOf(M, n, c, x) <=> LastOf(L, n, c, x)
BY DEF LastOf

LEMMA LastOfNext ==
  ASSUME NEW L, NEW n \in Nat, NEW c, NEW x,
         \/ L[n + 1].chain = c /\ x = L[n + 1].seq
         \/ L[n + 1].chain # c /\ LastOf(L, n, c, x)
  PROVE  LastOf(L, n + 1, c, x)
<1>1. CASE L[n + 1].chain = c /\ x = L[n + 1].seq
      <2>1. n + 1 \in 1..(n + 1) /\ \A k \in ((n + 1) + 1)..(n + 1) : L[k].chain # c
            OBVIOUS
      <2> QED BY <1>1, <2>1 DEF LastOf
<1>2. CASE L[n + 1].chain # c /\ LastOf(L, n, c, x)
      <2>1. CASE x = 0 /\ \A j \in 1..n : L[j].chain # c
            BY <1>2, <2>1 DEF LastOf
      <2>2. CASE \E j \in 1..n : L[j].chain = c /\ x = L[j].seq /\ \A k \in (j + 1)..n : L[k].chain # c
            BY <1>2, <2>2 DEF LastOf
      <2> QED BY <1>2, <2>1, <2>2 DEF LastOf
<1> QED BY <1>1, <1>2

LEMMA LinkedInGrown ==
  ASSUME NEW L, NEW M, NEW i \in Nat \ {0}, \A j \in 1..i : M[j] = L[j]
  PROVE  LinkedIn(M, i) <=> LinkedIn(L, i)
<1>1. M[i] = L[i] /\ (i > 1 => M[i - 1] = L[i - 1]) /\ i - 1 \in Nat /\ \A j \in 1..(i - 1) : M[j] = L[j]
      OBVIOUS
<1>2. LastOf(M, i - 1, L[i].chain, L[i].parent) <=> LastOf(L, i - 1, L[i].chain, L[i].parent)
      BY <1>1, LastOfGrown
<1> QED BY <1>1, <1>2 DEF LinkedIn

(* This is what the specification says of an event.                          *)
LEMMA LinkedIs ==
  ASSUME NEW i \in DOMAIN log, log \in Seq(Entries)
  PROVE  Linked(i) <=> LinkedIn(log, i)
<1> DEFINE before == {j \in 1..(i - 1) : log[j].chain = log[i].chain}
<1>1. i \in Nat \ {0}
      OBVIOUS
<1>2. (IF before = {} THEN log[i].parent = 0
       ELSE \E j \in before : log[i].parent = log[j].seq /\ \A k \in before : k <= j)
        <=> LastOf(log, i - 1, log[i].chain, log[i].parent)
      <2>1. CASE before = {}
            <3>1. \A j \in 1..(i - 1) : log[j].chain # log[i].chain
                  BY <2>1
            <3> QED BY <2>1, <3>1 DEF LastOf
      <2>2. CASE before # {}
            <3>1. PICK k \in 1..(i - 1) : log[k].chain = log[i].chain
                  BY <2>2
            <3>2. ASSUME NEW j \in before
                  PROVE  (\A m \in before : m <= j) <=> \A m \in (j + 1)..(i - 1) : log[m].chain # log[i].chain
                  BY <1>1
            <3>3. LastOf(log, i - 1, log[i].chain, log[i].parent)
                    <=> \E j \in before : /\ log[i].parent = log[j].seq
                                          /\ \A m \in (j + 1)..(i - 1) : log[m].chain # log[i].chain
                  BY <3>1 DEF LastOf
            <3> HIDE DEF before
            <3> QED BY <2>2, <3>2, <3>3
      <2> QED BY <2>1, <2>2
<1> QED BY <1>2 DEF Linked, LinkedIn

LEMMA Grown ==
  ASSUME NEW L \in Seq(Entries), NEW e \in Entries
  PROVE  /\ Append(L, e) \in Seq(Entries)
         /\ Len(Append(L, e)) = Len(L) + 1
         /\ \A i \in 1..Len(L) : Append(L, e)[i] = L[i]
         /\ Append(L, e)[Len(L) + 1] = e
OBVIOUS

(* Sequences of anything.                                                    *)
LEMMA AnyEmpty == AnySeq(<<>>) /\ Len(<<>>) = 0
<1>1. <<>> \in Seq({})
      OBVIOUS
<1> QED BY <1>1 DEF AnySeq

LEMMA AnyLen ==
  ASSUME NEW s, AnySeq(s)
  PROVE  Len(s) \in Nat /\ (s = <<>> <=> Len(s) = 0)
<1>1. PICK S : s \in Seq(S)
      BY DEF AnySeq
<1> QED BY <1>1

LEMMA AnyAppend ==
  ASSUME NEW s, AnySeq(s), NEW e
  PROVE  /\ AnySeq(Append(s, e)) /\ Len(Append(s, e)) = Len(s) + 1
         /\ Append(s, e)[Len(s) + 1] = e
         /\ \A i \in 1..Len(s) : Append(s, e)[i] = s[i]
<1>1. PICK S : s \in Seq(S)
      BY DEF AnySeq
<1> DEFINE T == S \cup {e}
<1>2. s \in Seq(T) /\ e \in T
      <2>1. \A i \in 1..Len(s) : s[i] \in T
            BY <1>1
      <2> QED BY <1>1, <2>1
<1> HIDE DEF T
<1>3. Append(s, e) \in Seq(T)
      BY <1>2
<1> QED BY <1>2, <1>3 DEF AnySeq

LEMMA AnyTail ==
  ASSUME NEW s, AnySeq(s), s # <<>>
  PROVE  /\ AnySeq(Tail(s)) /\ Len(s) > 0 /\ Len(Tail(s)) = Len(s) - 1 /\ Head(s) = s[1]
         /\ \A i \in 1..(Len(s) - 1) : Tail(s)[i] = s[i + 1]
<1>1. PICK S : s \in Seq(S)
      BY DEF AnySeq
<1>2. Tail(s) \in Seq(S)
      BY <1>1
<1> QED BY <1>1, <1>2 DEF AnySeq

LEMMA Interval ==
  ASSUME NEW a \in Int, NEW b \in Int, a <= b + 1
  PROVE  Cardinality(a..b) = b - a + 1 /\ IsFiniteSet(a..b)
<1>1. Cardinality(a..b) = (IF a > b THEN 0 ELSE b - a + 1) /\ IsFiniteSet(a..b)
      BY FS_Interval
<1> QED BY <1>1

(* Where the handler has sent s of the sound events, it reads the rest of    *)
(* them before whatever comes behind.                                        *)
LEMMA RestOfLog ==
  ASSUME log \in Seq(Entries), NEW n \in 0..Len(log), Sound(log, n), NEW s \in 0..n
  PROVE  /\ AnySeq(Newer(SeqAt(log, s)))
         /\ \A k \in 1..Len(Newer(SeqAt(log, s))) : s + k <= n => Newer(SeqAt(log, s))[k] = log[s + k]
         /\ n = Len(log) => s + Len(Newer(SeqAt(log, s))) <= n
<1> DEFINE cursor == SeqAt(log, s)
           new == {i \in DOMAIN log : log[i].seq > cursor}
           lower(i) == {j \in new : j < i}
<1>1. Len(log) \in Nat /\ DOMAIN log = 1..Len(log) /\ \A i \in 1..Len(log) : log[i].seq \in Nat \ {0}
      <2>1. \A i \in 1..Len(log) : log[i] \in Entries
            OBVIOUS
      <2>2. \A e \in Entries : e.seq \in Nat \ {0}
            BY DEF Entries
      <2> QED BY <2>1, <2>2
<1>2. ASSUME NEW i \in 1..n PROVE i \in new <=> i > s
      <2>1. i \in DOMAIN log /\ log[i].seq \in Nat \ {0}
            BY <1>1
      <2>2. CASE s = 0
            BY <2>1, <2>2 DEF SeqAt
      <2>3. CASE s # 0
            <3>1. cursor = log[s].seq /\ s \in 1..n /\ log[s].seq \in Nat
                  BY <2>3, <1>1 DEF SeqAt
            <3>2. (i < s => log[i].seq < log[s].seq) /\ (s < i => log[s].seq < log[i].seq)
                  BY <3>1 DEF Sound
            <3> QED BY <2>1, <3>1, <3>2
      <2> QED BY <2>2, <2>3
<1> HIDE DEF cursor
<1>3. new \subseteq 1..Len(log) /\ IsFiniteSet(new) /\ Cardinality(new) \in Nat
      <2>1. IsFiniteSet(1..Len(log))
            BY <1>1, Interval
      <2>2. new \subseteq 1..Len(log)
            BY <1>1
      <2> HIDE DEF new
      <2> QED BY <2>1, <2>2, FS_Subset, FS_CardinalityType
<1>4. ASSUME NEW i \in new PROVE IsFiniteSet(lower(i)) /\ Cardinality(lower(i)) \in Nat
      <2>1. lower(i) \subseteq new
            OBVIOUS
      <2> HIDE DEF lower, new
      <2> QED BY <2>1, <1>3, FS_Subset, FS_CardinalityType
<1>5. ASSUME NEW i \in new, i <= n PROVE i > s /\ Cardinality(lower(i)) = i - s - 1
      <2>1. i \in 1..n /\ i > s
            BY <1>2, <1>3, <1>5
      <2>2. lower(i) = (s + 1)..(i - 1)
            BY <1>2, <1>3, <2>1
      <2>3. s + 1 \in Int /\ i - 1 \in Int /\ s + 1 <= (i - 1) + 1
            BY <2>1
      <2>4. Cardinality((s + 1)..(i - 1)) = (i - 1) - (s + 1) + 1
            BY <2>3, Interval
      <2> HIDE DEF lower
      <2> QED BY <2>1, <2>2, <2>4
<1>6. ASSUME NEW i \in new, i > n PROVE Cardinality(lower(i)) >= n - s
      <2>1. (s + 1)..n \subseteq lower(i)
            BY <1>1, <1>2, <1>3, <1>6
      <2>2. Cardinality((s + 1)..n) = n - s
            <3>1. s + 1 \in Int /\ n \in Int /\ s + 1 <= n + 1
                  BY <1>1
            <3>2. Cardinality((s + 1)..n) = n - (s + 1) + 1
                  BY <3>1, Interval
            <3> QED BY <3>2, <1>1
      <2> HIDE DEF lower, new
      <2> QED BY <2>1, <2>2, <1>4, FS_Subset
<1>7. ASSUME NEW k \in 1..(n - s) PROVE Nth(new, k) = s + k
      <2>1. s + k \in 1..n /\ s + k \in new
            BY <1>1, <1>2
      <2>2. Cardinality(lower(s + k)) = k - 1
            <3>1. Cardinality(lower(s + k)) = (s + k) - s - 1
                  BY <2>1, <1>5
            <3> HIDE DEF lower
            <3> QED BY <3>1, <1>1
      <2>3. ASSUME NEW i \in new, Cardinality(lower(i)) = k - 1 PROVE i = s + k
            <3>1. i \in Nat
                  BY <1>1, <1>3
            <3>2. CASE i <= n
                  <4>1. Cardinality(lower(i)) = i - s - 1
                        BY <3>2, <1>5
                  <4>2. k \in Nat /\ s \in Nat
                        BY <1>1
                  <4> HIDE DEF lower, new
                  <4> QED BY <4>1, <4>2, <3>1, <2>3
            <3>3. CASE i > n
                  <4>1. Cardinality(lower(i)) >= n - s
                        BY <3>3, <1>6
                  <4> HIDE DEF lower
                  <4> QED BY <4>1, <2>3, <1>1
            <3>4. i <= n \/ i > n
                  BY <3>1, <1>1
            <3> QED BY <3>2, <3>3, <3>4
      <2> HIDE DEF new
      <2> QED BY <2>1, <2>2, <2>3 DEF Nth
<1> DEFINE T == {log[Nth(new, k)] : k \in 1..Cardinality(new)}
           rest == [k \in 1..Cardinality(new) |-> log[Nth(new, k)]]
<1>8. Newer(cursor) = rest
      BY DEF Newer
<1>9. rest \in Seq(T) /\ Len(rest) = Cardinality(new) /\ \A k \in 1..Cardinality(new) : rest[k] = log[Nth(new, k)]
      <2> HIDE DEF new
      <2>1. Cardinality(new) \in Nat
            BY <1>3
      <2> QED BY <2>1
<1>10. n = Len(log) => Cardinality(new) = n - s
      <2> SUFFICES ASSUME n = Len(log) PROVE Cardinality(new) = n - s
          OBVIOUS
      <2>1. new = (s + 1)..n
            BY <1>1, <1>2, <1>3
      <2>2. s + 1 \in Int /\ n \in Int /\ s + 1 <= n + 1
            BY <1>1
      <2>3. Cardinality((s + 1)..n) = n - (s + 1) + 1
            BY <2>2, Interval
      <2> HIDE DEF new
      <2> QED BY <2>1, <2>3, <1>1
<1> HIDE DEF new, rest, T
<1>11. \A k \in 1..Len(rest) : s + k <= n => rest[k] = log[s + k]
      BY <1>1, <1>3, <1>7, <1>9
<1>12. AnySeq(rest)
      BY <1>9 DEF AnySeq
<1>13. n = Len(log) => s + Len(rest) <= n
      BY <1>1, <1>9, <1>10
<1> QED BY <1>8, <1>11, <1>12, <1>13 DEF cursor

-----------------------------------------------------------------------------
(* Publishing.  Either nobody else is at it, or this is an overlap and the   *)
(* log is sound up to here.                                                  *)

LEMMA Numbers ==
  ASSUME BusInv(log, seqno, last, pub, crossed), chain \in Chains, NEW t \in Threads, Number(t)
  PROVE  BusInv(log', seqno', last', pub', crossed')
<1> DEFINE new == [seq |-> seqno + 1, parent |-> last[chain], chain |-> chain, logged |-> FALSE]
           others == \E u \in Threads \ {t} : ~Still(u)
<1>0. NoValue \notin Publication
      BY SessionAssumption
<1>1. /\ pub[t] = NoValue /\ seqno' = seqno + 1 /\ pub' = [pub EXCEPT ![t] = new]
      /\ crossed' = IF crossed < 0 /\ others THEN Len(log) ELSE crossed
      /\ UNCHANGED <<last, log>>
      BY DEF Number, Still
<1>2. /\ log \in Seq(Entries) /\ Len(log) \in Nat /\ seqno \in Nat /\ last \in [Chains -> Nat]
      /\ pub \in [Threads -> Publication \cup {NoValue}]
      /\ \A u \in Threads : pub[u] # NoValue => pub[u].seq > 0
      /\ crossed \in Int /\ crossed <= Len(log)
      /\ \A i \in 1..Len(log) : crossed < 0 \/ i <= crossed => LinkedIn(log, i)
      BY DEF BusInv
<1>3. /\ new \in Publication /\ new.seq = seqno + 1 /\ new.parent = last[new.chain]
      /\ new.logged = FALSE
      BY <1>2 DEF Publication
<1> HIDE DEF new
<1>4. /\ pub' \in [Threads -> Publication \cup {NoValue}] /\ pub'[t] = new /\ new # NoValue
      /\ \A u \in Threads \ {t} : pub'[u] = pub[u]
      BY <1>0, <1>1, <1>2, <1>3
<1>5. \A u \in Threads : pub'[u] # NoValue => pub'[u].seq > 0
      BY <1>2, <1>3, <1>4
<1>6. /\ crossed' \in Int /\ crossed' <= Len(log)
      /\ \A i \in 1..Len(log) : crossed' < 0 \/ i <= crossed' => LinkedIn(log, i)
      BY <1>1, <1>2
<1>7. ASSUME crossed' < 0 PROVE Mid(log', seqno', last', pub', t)
      <2>1. crossed < 0 /\ ~others
            BY <1>1, <1>2, <1>7
      <2>2. \A u \in Threads \ {t} : pub[u] = NoValue
            BY <2>1 DEF Still
      <2>3. ASSUME NEW u \in Threads, Mid(log, seqno, last, pub, u) PROVE FALSE
            BY <2>2, <2>3, <1>1 DEF Mid
      <2>4. Settled(log, seqno, last)
            BY <2>1, <2>3 DEF BusInv
      <2>5. \A i \in 1..Len(log) : log[i].seq < seqno + 1
            <3>1. \A i \in 1..Len(log) : log[i] \in Entries
                  BY <1>2
            <3>2. \A i \in 1..Len(log) : log[i].seq \in Nat /\ log[i].seq <= seqno
                  BY <2>4, <3>1 DEF Settled, Entries
            <3> QED BY <3>2, <1>2
      <2>6. Numbered(log', seqno', last', pub'[t])
            BY <2>4, <2>5, <1>1, <1>3, <1>4 DEF Settled, Numbered
      <2> QED BY <2>2, <2>6, <1>3, <1>4 DEF Mid
<1> HIDE DEF others
<1> QED BY <1>1, <1>2, <1>4, <1>5, <1>6, <1>7 DEF BusInv

(* Who is in the middle of a publication has not been overlapped yet.        *)
LEMMA Alone ==
  ASSUME BusInv(log, seqno, last, pub, crossed), crossed < 0, NEW t \in Threads, ~Still(t)
  PROVE  Mid(log, seqno, last, pub, t)
BY DEF BusInv, Still, Quiet, Mid

LEMMA Appends ==
  ASSUME BusInv(log, seqno, last, pub, crossed), NEW t \in Threads, AppendEvent(t)
  PROVE  /\ BusInv(log', seqno', last', pub', crossed')
         /\ \E e \in Entries : log' = Append(log, e)
<1> DEFINE e == [seq |-> pub[t].seq, parent |-> pub[t].parent, chain |-> pub[t].chain]
           x == [pub[t] EXCEPT !.logged = TRUE]
<1>0. NoValue \notin Publication
      BY SessionAssumption
<1>1. /\ ~Still(t) /\ pub[t] # NoValue /\ ~pub[t].logged /\ log' = Append(log, e)
      /\ pub' = [pub EXCEPT ![t] = x] /\ UNCHANGED <<seqno, last, crossed>>
      BY DEF AppendEvent, LogEvent, Still
<1>2. /\ log \in Seq(Entries) /\ Len(log) \in Nat /\ seqno \in Nat /\ last \in [Chains -> Nat]
      /\ pub \in [Threads -> Publication \cup {NoValue}]
      /\ \A u \in Threads : pub[u] # NoValue => pub[u].seq > 0
      /\ crossed \in Int /\ crossed <= Len(log)
      /\ \A i \in 1..Len(log) : crossed < 0 \/ i <= crossed => LinkedIn(log, i)
      BY DEF BusInv
<1>3. pub[t] \in Publication /\ pub[t].seq > 0
      BY <1>1, <1>2
<1>4. e \in Entries
      BY <1>3 DEF Entries, Publication
<1>5. /\ x \in Publication /\ x.logged = TRUE /\ x.seq = pub[t].seq /\ x.chain = pub[t].chain
      /\ e.seq = pub[t].seq /\ e.chain = pub[t].chain /\ e.parent = pub[t].parent
      BY <1>3 DEF Publication
<1> HIDE DEF e, x
<1>6. /\ log' \in Seq(Entries) /\ Len(log') = Len(log) + 1
      /\ \A i \in 1..Len(log) : log'[i] = log[i]
      /\ log'[Len(log) + 1] = e
      BY <1>1, <1>2, <1>4, Grown
<1>7. /\ pub' \in [Threads -> Publication \cup {NoValue}] /\ pub'[t] = x /\ x # NoValue
      /\ \A u \in Threads \ {t} : pub'[u] = pub[u]
      BY <1>0, <1>1, <1>2, <1>5
<1>8. \A u \in Threads : pub'[u] # NoValue => pub'[u].seq > 0
      BY <1>2, <1>3, <1>5, <1>7
<1>9. ASSUME NEW i \in 1..Len(log) PROVE LinkedIn(log', i) <=> LinkedIn(log, i)
      <2>1. i \in Nat \ {0} /\ \A j \in 1..i : log'[j] = log[j]
            BY <1>2, <1>6
      <2> QED BY <2>1, LinkedInGrown
<1>10. ASSUME NEW c PROVE LastOf(log', Len(log), c, last[c]) <=> LastOf(log, Len(log), c, last[c])
      BY <1>2, <1>6, LastOfGrown
<1>11. ASSUME crossed < 0
       PROVE  Mid(log', seqno', last', pub', t) /\ LinkedIn(log', Len(log) + 1)
      <2>1. Mid(log, seqno, last, pub, t)
            BY <1>1, <1>11, Alone
      <2>2. (\A u \in Threads \ {t} : pub[u] = NoValue) /\ Numbered(log, seqno, last, pub[t])
            BY <2>1, <1>1 DEF Mid
      <2>3. pub[t].chain \in Chains /\ pub[t].seq \in Nat
            BY <1>3 DEF Publication
      <2>4. ASSUME NEW i \in 1..Len(log') PROVE log'[i].seq <= seqno
            <3>1. CASE i = Len(log) + 1
                  BY <3>1, <2>2, <1>2, <1>5, <1>6 DEF Numbered
            <3>2. CASE i # Len(log) + 1
                  <4>1. i \in 1..Len(log)
                        BY <3>2, <1>2, <1>6
                  <4>2. log[i].seq \in Nat
                        <5>1. log[i] \in Entries
                              BY <4>1, <1>2
                        <5> QED BY <5>1 DEF Entries
                  <4>3. log[i].seq < seqno
                        BY <4>1, <2>2 DEF Numbered
                  <4> QED BY <4>1, <4>2, <4>3, <1>2, <1>6
            <3> QED BY <3>1, <3>2
      <2>5. ASSUME NEW c \in Chains \ {x.chain} PROVE LastOf(log', Len(log'), c, last[c])
            <3>1. LastOf(log', Len(log), c, last[c])
                  BY <2>2, <1>10 DEF Numbered
            <3>2. log'[Len(log) + 1].chain # c
                  BY <1>5, <1>6
            <3>3. LastOf(log', Len(log) + 1, c, last[c])
                  BY <3>1, <3>2, <1>2, LastOfNext
            <3> QED BY <3>3, <1>6
      <2>6. Logged(log', seqno', last', pub'[t])
            BY <2>4, <2>5, <1>1, <1>2, <1>5, <1>6, <1>7 DEF Logged
      <2>7. Mid(log', seqno', last', pub', t)
            BY <2>2, <2>6, <1>5, <1>7 DEF Mid
      <2>8. LastOf(log', Len(log), e.chain, e.parent)
            BY <2>2, <2>3, <1>5, <1>10 DEF Numbered
      <2>9. Len(log) + 1 > 1 => log'[Len(log) + 1].seq > log'[Len(log)].seq
            <3> SUFFICES ASSUME Len(log) + 1 > 1 PROVE e.seq > log[Len(log)].seq
                BY <1>2, <1>6
            <3>1. Len(log) \in 1..Len(log) /\ log[Len(log)] \in Entries
                  BY <1>2
            <3> QED BY <3>1, <2>2, <2>3, <1>5 DEF Numbered, Entries
      <2>10. (Len(log) + 1) - 1 = Len(log)
            BY <1>2
      <2>11. LinkedIn(log', Len(log) + 1)
            BY <2>8, <2>9, <2>10, <1>6 DEF LinkedIn
      <2> QED BY <2>7, <2>11
<1>12. \A i \in 1..Len(log') : crossed' < 0 \/ i <= crossed' => LinkedIn(log', i)
      <2> SUFFICES ASSUME NEW i \in 1..Len(log'), crossed < 0 \/ i <= crossed
                   PROVE  LinkedIn(log', i)
          BY <1>1
      <2>1. CASE i = Len(log) + 1
            BY <2>1, <1>2, <1>11
      <2>2. CASE i # Len(log) + 1
            <3>1. i \in 1..Len(log)
                  BY <2>2, <1>2, <1>6
            <3> QED BY <3>1, <1>2, <1>9
      <2> QED BY <2>1, <2>2
<1>13. crossed' \in Int /\ crossed' <= Len(log')
      BY <1>1, <1>2, <1>6
<1>14. BusInv(log', seqno', last', pub', crossed')
      BY <1>1, <1>2, <1>6, <1>7, <1>8, <1>11, <1>12, <1>13 DEF BusInv
<1> QED BY <1>1, <1>4, <1>14

LEMMA Links ==
  ASSUME BusInv(log, seqno, last, pub, crossed), NEW t \in Threads, LinkEvent(t)
  PROVE  BusInv(log', seqno', last', pub', crossed') /\ log' = log
<1>1. /\ ~Still(t) /\ pub[t] # NoValue /\ pub[t].logged
      /\ last' = [last EXCEPT ![pub[t].chain] = pub[t].seq]
      /\ pub' = [pub EXCEPT ![t] = NoValue] /\ UNCHANGED <<seqno, log, crossed>>
      BY DEF LinkEvent, Still
<1>2. /\ log \in Seq(Entries) /\ Len(log) \in Nat /\ seqno \in Nat /\ last \in [Chains -> Nat]
      /\ pub \in [Threads -> Publication \cup {NoValue}]
      /\ \A u \in Threads : pub[u] # NoValue => pub[u].seq > 0
      /\ crossed \in Int /\ crossed <= Len(log)
      /\ \A i \in 1..Len(log) : crossed < 0 \/ i <= crossed => LinkedIn(log, i)
      BY DEF BusInv
<1>3. pub[t].seq \in Nat /\ pub[t].chain \in Chains
      BY <1>1, <1>2 DEF Publication
<1>4. /\ pub' \in [Threads -> Publication \cup {NoValue}] /\ last' \in [Chains -> Nat]
      /\ \A u \in Threads : pub'[u] # NoValue => pub'[u].seq > 0
      BY <1>1, <1>2, <1>3
<1>5. ASSUME crossed < 0 PROVE Quiet(pub') /\ Settled(log', seqno', last')
      <2>1. Mid(log, seqno, last, pub, t)
            BY <1>1, <1>5, Alone
      <2>2. (\A u \in Threads \ {t} : pub[u] = NoValue) /\ Logged(log, seqno, last, pub[t])
            BY <2>1, <1>1 DEF Mid
      <2>3. Quiet(pub')
            BY <2>2, <1>1, <1>2 DEF Quiet
      <2>4. ASSUME NEW c \in Chains PROVE LastOf(log, Len(log), c, last'[c])
            <3>1. CASE c = pub[t].chain
                  <4>1. /\ Len(log) > 0 /\ log[Len(log)].seq = pub[t].seq /\ log[Len(log)].chain = c
                        BY <3>1, <2>2 DEF Logged
                  <4>2. Len(log) \in 1..Len(log) /\ \A k \in (Len(log) + 1)..Len(log) : log[k].chain # c
                        BY <4>1, <1>2
                  <4>3. last'[c] = log[Len(log)].seq
                        BY <3>1, <4>1, <1>1, <1>2
                  <4> QED BY <4>1, <4>2, <4>3 DEF LastOf
            <3>2. CASE c # pub[t].chain
                  BY <3>2, <2>2, <1>1, <1>2 DEF Logged
            <3> QED BY <3>1, <3>2
      <2>5. Settled(log', seqno', last')
            BY <2>2, <2>4, <1>1 DEF Settled, Logged
      <2> QED BY <2>3, <2>5
<1> QED BY <1>1, <1>2, <1>4, <1>5 DEF BusInv

-----------------------------------------------------------------------------
(* Who reads the log is not disturbed by its growing: an event behind the    *)
(* sound part stays behind it, the next one of a sound log may extend it.    *)

LEMMA SeqAtGrown ==
  ASSUME NEW L, NEW M, NEW n \in Nat, \A i \in 1..n : M[i] = L[i], NEW k \in 0..n
  PROVE  SeqAt(M, k) = SeqAt(L, k)
BY DEF SeqAt

LEMMA SoundGrows ==
  ASSUME NEW L \in Seq(Entries), NEW e \in Entries, NEW n \in 0..Len(L), Sound(L, n)
  PROVE  \/ Sound(Append(L, e), n)
         \/ n = Len(L) /\ Sound(Append(L, e), n + 1)
<1> DEFINE M == Append(L, e)
<1>1. /\ M \in Seq(Entries) /\ Len(M) = Len(L) + 1 /\ Len(L) \in Nat /\ n \in Nat
      /\ \A i \in 1..Len(L) : M[i] = L[i]
      /\ M[Len(L) + 1] = e
      BY Grown
<1> HIDE DEF M
<1>2. ASSUME NEW i \in 1..Len(L) PROVE LinkedIn(M, i) <=> LinkedIn(L, i)
      <2>1. i \in Nat \ {0} /\ \A j \in 1..i : M[j] = L[j]
            BY <1>1
      <2> QED BY <2>1, LinkedInGrown
<1>3. /\ \A i \in 1..n : LinkedIn(M, i)
      /\ \A i, j \in 1..n : i < j => M[i].seq < M[j].seq
      /\ n \in 0..Len(M)
      <2>1. \A i \in 1..n : i \in 1..Len(L) /\ M[i] = L[i]
            BY <1>1
      <2>2. \A i \in 1..n : LinkedIn(M, i)
            BY <2>1, <1>2 DEF Sound
      <2>3. \A i, j \in 1..n : i < j => M[i].seq < M[j].seq
            BY <2>1 DEF Sound
      <2> QED BY <2>2, <2>3, <1>1
<1>4. CASE n < Len(L)
      <2>1. ~LinkedIn(L, n + 1) /\ n + 1 \in 1..Len(L)
            BY <1>1, <1>4 DEF Sound
      <2> QED BY <2>1, <1>2, <1>3 DEF Sound, M
<1>5. CASE n = Len(L) /\ ~LinkedIn(M, n + 1)
      BY <1>3, <1>5 DEF Sound, M
<1>6. CASE n = Len(L) /\ LinkedIn(M, n + 1)
      <2>1. n + 1 \in 0..Len(M) /\ n + 1 = Len(M)
            BY <1>1, <1>6
      <2>2. \A i \in 1..(n + 1) : LinkedIn(M, i)
            BY <1>1, <1>3, <1>6
      <2>3. ASSUME NEW i \in 1..n PROVE M[i].seq < M[n + 1].seq
            <3>1. n > 0 /\ n + 1 > 1 /\ (n + 1) - 1 = n
                  BY <1>1
            <3>2. M[n + 1].seq > M[n].seq
                  BY <3>1, <1>6 DEF LinkedIn
            <3>3. M[i] \in Entries /\ M[n] \in Entries /\ M[n + 1] \in Entries
                  BY <3>1, <1>1, <1>6
            <3>4. M[i].seq \in Nat /\ M[n].seq \in Nat /\ M[n + 1].seq \in Nat
                  BY <3>3 DEF Entries
            <3>5. i = n \/ M[i].seq < M[n].seq
                  BY <3>1, <1>1, <1>3
            <3> QED BY <3>2, <3>4, <3>5
      <2>4. ASSUME NEW i \in 1..(n + 1), NEW j \in 1..(n + 1), i < j PROVE M[i].seq < M[j].seq
            <3>1. i \in 1..n
                  BY <2>4, <1>1
            <3>2. CASE j = n + 1
                  BY <3>1, <3>2, <2>3
            <3>3. CASE j # n + 1
                  <4>1. j \in 1..n
                        BY <3>3, <1>1
                  <4> QED BY <3>1, <4>1, <2>4, <1>3
            <3> QED BY <3>2, <3>3
      <2>5. Sound(M, n + 1)
            BY <2>1, <2>2, <2>4 DEF Sound
      <2> QED BY <2>5, <1>6 DEF M
<1> QED BY <1>1, <1>4, <1>5, <1>6

LEMMA FollowedGrows ==
  ASSUME NEW L \in Seq(Entries), NEW e \in Entries, NEW h, NEW w, NEW b,
         NEW n \in 0..Len(L), Followed(L, h, w, b, n)
  PROVE  \E m \in 0..Len(Append(L, e)) : Followed(Append(L, e), h, w, b, m)
<1> DEFINE M == Append(L, e)
<1>1. /\ Len(M) = Len(L) + 1 /\ Len(L) \in Nat /\ n \in Nat
      /\ \A i \in 1..Len(L) : M[i] = L[i]
      BY Grown
<1>2. /\ Sound(L, n) /\ ClientInv(L, b, n) /\ WireInv(L, h, w, Len(b.got), n)
      /\ HandlerInv(L, h, Len(b.got) + Len(w), Len(b.got), n)
      BY DEF Followed
<1>3. Len(b.got) \in Nat /\ Len(w) \in Nat /\ Len(h.batch) \in Nat
      BY <1>2, AnyLen DEF ClientInv, WireInv, HandlerInv
<1>4. PICK m \in {n, n + 1} : Sound(M, m) /\ (m = n + 1 => n = Len(L))
      BY <1>1, <1>2, SoundGrows
<1> HIDE DEF M
<1>5. m \in 0..Len(M) /\ m >= n /\ (m = Len(M) => n = Len(L))
      BY <1>1, <1>4
<1>6. ASSUME OnTrack(M, Len(b.got), m) PROVE OnTrack(L, Len(b.got), n)
      BY <1>1, <1>3, <1>4, <1>5, <1>6 DEF OnTrack
<1>7. ClientInv(M, b, m)
      <2>1. \A i \in 1..Len(b.got) : i <= m => b.got[i] = M[i].seq
            <3>1. SUFFICES ASSUME NEW i \in 1..Len(b.got), i <= m PROVE b.got[i] = M[i].seq
                  OBVIOUS
            <3>2. CASE i <= n
                  BY <3>2, <1>1, <1>2, <1>3 DEF ClientInv
            <3>3. CASE i > n
                  <4>1. n = Len(L)
                        BY <3>1, <3>3, <1>1, <1>3, <1>4
                  <4>2. Len(b.got) <= n
                        BY <4>1, <1>2 DEF ClientInv, OnTrack
                  <4> QED BY <4>2, <3>3, <1>1, <1>3
            <3> QED BY <3>2, <3>3, <1>1
      <2>2. ASSUME OnTrack(M, Len(b.got), m)
            PROVE  /\ Len(b.got) <= m
                   /\ b.cursor = SeqAt(M, Len(b.got)) /\ b.lastId = b.cursor
                   /\ \A c \in Chains : LastOf(M, Len(b.got), c, b.parents[c])
            <3>1. /\ Len(b.got) <= n
                  /\ b.cursor = SeqAt(L, Len(b.got)) /\ b.lastId = b.cursor
                  /\ \A c \in Chains : LastOf(L, Len(b.got), c, b.parents[c])
                  BY <2>2, <1>2, <1>6 DEF ClientInv
            <3>2. \A i \in 1..Len(b.got) : M[i] = L[i]
                  BY <3>1, <1>1, <1>3
            <3>3. SeqAt(M, Len(b.got)) = SeqAt(L, Len(b.got))
                  <4>1. Len(b.got) \in 0..Len(b.got)
                        BY <1>3
                  <4> QED BY <4>1, <3>2, <1>3, SeqAtGrown
            <3>4. \A c \in Chains : LastOf(M, Len(b.got), c, b.parents[c])
                  BY <3>1, <3>2, <1>3, LastOfGrown
            <3> QED BY <3>1, <3>3, <3>4, <1>1, <1>3, <1>5
      <2> QED BY <2>1, <2>2, <1>2 DEF ClientInv
<1>8. WireInv(M, h, w, Len(b.got), m)
      <2>1. ASSUME OnTrack(M, Len(b.got), m), NEW j \in 1..Len(w)
            PROVE  /\ Len(b.got) + j <= m
                        => Final(w, j, h) \/ (w[j].terminal = NoValue /\ w[j].event = M[Len(b.got) + j])
                   /\ m = Len(M) => Final(w, j, h) \/ Len(b.got) + j <= m
            <3>1. /\ Len(b.got) + j <= n
                       => Final(w, j, h) \/ (w[j].terminal = NoValue /\ w[j].event = L[Len(b.got) + j])
                  /\ n = Len(L) => Final(w, j, h) \/ Len(b.got) + j <= n
                  BY <2>1, <1>2, <1>6 DEF WireInv
            <3>2. Len(b.got) + j \in Nat \ {0}
                  BY <1>3
            <3>3. Len(b.got) + j <= n => M[Len(b.got) + j] = L[Len(b.got) + j]
                  <4> SUFFICES ASSUME Len(b.got) + j <= n PROVE M[Len(b.got) + j] = L[Len(b.got) + j]
                      OBVIOUS
                  <4>1. Len(b.got) + j \in 1..Len(L)
                        BY <3>2, <1>1
                  <4> QED BY <4>1, <1>1
            <3>4. CASE m = n
                  BY <3>1, <3>3, <3>4, <1>1, <1>5
            <3>5. CASE m = n + 1
                  BY <3>1, <3>2, <3>3, <3>5, <1>1, <1>4
            <3> QED BY <3>4, <3>5, <1>4
      <2> QED BY <2>1, <1>2 DEF WireInv
<1>9. HandlerInv(M, h, Len(b.got) + Len(w), Len(b.got), m)
      <2> DEFINE s == Len(b.got) + Len(w)
      <2>0. s \in Nat
            BY <1>3
      <2> HIDE DEF s
      <2>1. ASSUME OnTrack(M, Len(b.got), m), h.pc \in {"read", "send"}
            PROVE  /\ s <= m => /\ h.cursor = SeqAt(M, s)
                                /\ \A j \in 1..Len(h.batch) : s + j <= m => h.batch[j] = M[s + j]
                   /\ m = Len(M) => s + Len(h.batch) <= m
            <3>1. /\ s <= n => /\ h.cursor = SeqAt(L, s)
                               /\ \A j \in 1..Len(h.batch) : s + j <= n => h.batch[j] = L[s + j]
                  /\ n = Len(L) => s + Len(h.batch) <= n
                  BY <2>1, <1>2, <1>6 DEF HandlerInv, s
            <3>2. s <= n => SeqAt(M, s) = SeqAt(L, s)
                  <4> SUFFICES ASSUME s <= n PROVE SeqAt(M, s) = SeqAt(L, s)
                      OBVIOUS
                  <4>1. s \in 0..n /\ \A i \in 1..n : M[i] = L[i]
                        BY <2>0, <1>1
                  <4> QED BY <4>1, <1>1, SeqAtGrown
            <3>3. \A j \in 1..Len(h.batch) : s + j <= n => M[s + j] = L[s + j]
                  <4> SUFFICES ASSUME NEW j \in 1..Len(h.batch), s + j <= n PROVE M[s + j] = L[s + j]
                      OBVIOUS
                  <4>1. s + j \in 1..Len(L)
                        BY <2>0, <1>1, <1>3
                  <4> QED BY <4>1, <1>1
            <3>4. CASE m = n
                  BY <3>1, <3>2, <3>3, <3>4, <1>1, <1>5
            <3>5. CASE m = n + 1
                  <4>1. n = Len(L)
                        BY <3>5, <1>1, <1>4
                  <4>2. s + Len(h.batch) <= n
                        BY <4>1, <3>1
                  <4>3. s <= n /\ \A j \in 1..Len(h.batch) : s + j <= n
                        BY <4>2, <2>0, <1>1, <1>3
                  <4>4. h.cursor = SeqAt(M, s) /\ \A j \in 1..Len(h.batch) : h.batch[j] = M[s + j]
                        BY <4>3, <3>1, <3>2, <3>3
                  <4>5. s + Len(h.batch) <= m
                        BY <4>2, <3>5, <2>0, <1>1, <1>3
                  <4> QED BY <4>4, <4>5
            <3> QED BY <3>4, <3>5, <1>4
      <2>2. HandlerInv(M, h, s, Len(b.got), m)
            BY <2>1, <1>2 DEF HandlerInv
      <2> QED BY <2>2 DEF s
<1>10. Followed(M, h, w, b, m)
      BY <1>4, <1>7, <1>8, <1>9 DEF Followed
<1> QED BY <1>5, <1>10 DEF M

-----------------------------------------------------------------------------
(* Serving and reading.                                                      *)

LEMMA NewerIsSeq ==
  ASSUME log \in Seq(Entries), NEW cursor
  PROVE  AnySeq(Newer(cursor))
<1> DEFINE new == {i \in DOMAIN log : log[i].seq > cursor}
           T == {log[Nth(new, k)] : k \in 1..Cardinality(new)}
           rest == [k \in 1..Cardinality(new) |-> log[Nth(new, k)]]
<1>1. Cardinality(new) \in Nat
      <2>1. Len(log) \in Nat /\ new \subseteq 1..Len(log)
            OBVIOUS
      <2>2. IsFiniteSet(1..Len(log))
            BY <2>1, Interval
      <2> HIDE DEF new
      <2> QED BY <2>1, <2>2, FS_Subset, FS_CardinalityType
<1>2. rest \in Seq(T)
      <2> HIDE DEF new
      <2> QED BY <1>1
<1> QED BY <1>2 DEF AnySeq, Newer

LEMMA Reads ==
  ASSUME log \in Seq(Entries), NEW n \in 0..Len(log), Followed(log, handler, wire, client, n), Read
  PROVE  Followed(log, handler', wire, client, n)
<1> DEFINE k == Len(client.got)
           s == k + Len(wire)
<1>1. /\ Sound(log, n) /\ ClientInv(log, client, n) /\ WireInv(log, handler, wire, k, n)
      /\ HandlerInv(log, handler, s, k, n)
      BY DEF Followed
<1>2. k \in Nat /\ s \in Nat
      BY <1>1, AnyLen DEF ClientInv, WireInv
<1>3. handler.pc = "read" /\ handler' = [handler EXCEPT !.pc = "send", !.batch = Newer(handler.cursor)]
      BY DEF Read
<1>4. handler' = [pc |-> "send", cursor |-> handler.cursor, batch |-> Newer(handler.cursor)]
      BY <1>1, <1>3 DEF HandlerInv
<1>5. WireInv(log, handler', wire, k, n)
      BY <1>1, <1>3, <1>4 DEF WireInv, Final
<1> HIDE DEF s, k
<1>6. handler.batch = <<>> /\ Len(handler.batch) = 0
      BY <1>1, <1>3, AnyEmpty DEF HandlerInv
<1>7. ASSUME OnTrack(log, k, n)
      PROVE  /\ s <= n => \A j \in 1..Len(handler'.batch) : s + j <= n => handler'.batch[j] = log[s + j]
             /\ n = Len(log) => s + Len(handler'.batch) <= n
      <2>1. (s <= n => handler.cursor = SeqAt(log, s)) /\ (n = Len(log) => s <= n)
            BY <1>1, <1>2, <1>3, <1>6, <1>7 DEF HandlerInv
      <2>2. CASE s <= n
            <3>1. s \in 0..n
                  BY <2>2, <1>2
            <3> QED BY <3>1, <2>1, <1>1, <1>4, RestOfLog
      <2>3. CASE ~(s <= n)
            BY <2>1, <2>3
      <2> QED BY <2>2, <2>3
<1>8. OnTrack(log, k, n) => (s <= n => handler.cursor = SeqAt(log, s))
      BY <1>1, <1>3 DEF HandlerInv
<1>9. HandlerInv(log, handler', s, k, n)
      BY <1>4, <1>7, <1>8, NewerIsSeq DEF HandlerInv
<1> QED BY <1>1, <1>5, <1>9 DEF Followed, s, k

LEMMA Sends ==
  ASSUME log \in Seq(Entries), NEW n \in 0..Len(log), Followed(log, handler, wire, client, n), Send
  PROVE  Followed(log, handler', wire', client, n)
<1> DEFINE k == Len(client.got)
           s == k + Len(wire)
           f == [event |-> Head(handler.batch), terminal |-> NoValue]
<1>1. /\ Sound(log, n) /\ ClientInv(log, client, n) /\ WireInv(log, handler, wire, k, n)
      /\ HandlerInv(log, handler, s, k, n)
      BY DEF Followed
<1>2. k \in Nat /\ s \in Nat /\ Len(wire) \in Nat /\ AnySeq(wire) /\ s = k + Len(wire)
      BY <1>1, AnyLen DEF ClientInv, WireInv
<1>3. /\ handler.pc = "send" /\ handler.batch # <<>> /\ wire' = Append(wire, f)
      /\ handler' = [handler EXCEPT !.cursor = Head(handler.batch).seq, !.batch = Tail(@)]
      BY DEF Send
<1>4. handler' = [pc |-> "send", cursor |-> Head(handler.batch).seq, batch |-> Tail(handler.batch)]
      BY <1>1, <1>3 DEF HandlerInv
<1>5. AnySeq(handler.batch)
      BY <1>1 DEF HandlerInv
<1>6. /\ AnySeq(Tail(handler.batch)) /\ Len(handler.batch) > 0
      /\ Len(Tail(handler.batch)) = Len(handler.batch) - 1 /\ Len(handler.batch) \in Nat
      /\ Head(handler.batch) = handler.batch[1]
      /\ \A i \in 1..(Len(handler.batch) - 1) : Tail(handler.batch)[i] = handler.batch[i + 1]
      BY <1>3, <1>5, AnyTail, AnyLen
<1>7. /\ AnySeq(wire') /\ Len(wire') = Len(wire) + 1 /\ wire'[Len(wire) + 1] = f
      /\ \A i \in 1..Len(wire) : wire'[i] = wire[i]
      BY <1>2, <1>3, AnyAppend
<1>8. f.terminal = NoValue /\ f.event = handler.batch[1]
      BY <1>6
<1>9. \A j : ~Final(wire, j, handler)
      BY <1>3 DEF Final
<1> HIDE DEF s, k, f
<1>10. ASSUME OnTrack(log, k, n)
       PROVE  /\ s <= n => \A j \in 1..Len(handler.batch) : s + j <= n => handler.batch[j] = log[s + j]
              /\ n = Len(log) => s + Len(handler.batch) <= n
       BY <1>1, <1>3, <1>10 DEF HandlerInv
<1>11. OnTrack(log, k, n) => (s + 1 <= n => handler.batch[1] = log[s + 1])
       BY <1>2, <1>6, <1>10
<1>12. ASSUME OnTrack(log, k, n), NEW j \in 1..Len(wire')
       PROVE  /\ k + j <= n => wire'[j].terminal = NoValue /\ wire'[j].event = log[k + j]
              /\ n = Len(log) => k + j <= n
       <2>1. CASE j = Len(wire) + 1
             <3>1. k + j = s + 1
                   BY <2>1, <1>2
             <3>2. n = Len(log) => s + 1 <= n
                   <4>1. n = Len(log) => s + Len(handler.batch) <= n
                         BY <1>10, <1>12
                   <4>2. n \in Int /\ s \in Nat /\ Len(handler.batch) \in Nat /\ Len(handler.batch) > 0
                         BY <1>2, <1>6
                   <4> QED BY <4>1, <4>2
             <3> QED BY <2>1, <3>1, <3>2, <1>7, <1>8, <1>11, <1>12
       <2>2. CASE j # Len(wire) + 1
             <3>1. j \in 1..Len(wire)
                   BY <2>2, <1>2, <1>7
             <3> QED BY <3>1, <1>1, <1>7, <1>9, <1>12 DEF WireInv
       <2> QED BY <2>1, <2>2
<1>13. WireInv(log, handler', wire', k, n)
       BY <1>4, <1>7, <1>12 DEF WireInv
<1>14. ASSUME OnTrack(log, k, n)
       PROVE  /\ s + 1 <= n => /\ handler'.cursor = SeqAt(log, s + 1)
                               /\ \A j \in 1..Len(handler'.batch) :
                                    (s + 1) + j <= n => handler'.batch[j] = log[(s + 1) + j]
              /\ n = Len(log) => (s + 1) + Len(handler'.batch) <= n
       <2>1. n = Len(log) => (s + 1) + Len(handler'.batch) <= n
             BY <1>2, <1>4, <1>6, <1>10, <1>14
       <2>2. ASSUME s + 1 <= n PROVE handler'.cursor = SeqAt(log, s + 1)
             BY <2>2, <1>2, <1>4, <1>6, <1>11, <1>14 DEF SeqAt
       <2>3. ASSUME s + 1 <= n, NEW j \in 1..Len(handler'.batch), (s + 1) + j <= n
             PROVE  handler'.batch[j] = log[(s + 1) + j]
             <3>1. j \in 1..(Len(handler.batch) - 1) /\ j + 1 \in 1..Len(handler.batch)
                   BY <2>3, <1>4, <1>6
             <3>2. (s + 1) + j = s + (j + 1) /\ s <= n
                   BY <2>3, <3>1, <1>2
             <3>3. handler.batch[j + 1] = log[s + (j + 1)]
                   BY <2>3, <3>1, <3>2, <1>10, <1>14
             <3> QED BY <3>1, <3>2, <3>3, <1>4, <1>6
       <2> QED BY <2>1, <2>2, <2>3
<1>15. HandlerInv(log, handler', s + 1, k, n)
       BY <1>4, <1>6, <1>14 DEF HandlerInv
<1>16. s + 1 = k + Len(wire')
       BY <1>2, <1>7
<1> QED BY <1>1, <1>13, <1>15, <1>16 DEF Followed, k

LEMMA Polls ==
  ASSUME log \in Seq(Entries), NEW n \in 0..Len(log), Followed(log, handler, wire, client, n), Poll
  PROVE  Followed(log, handler', wire', client, n)
<1> DEFINE k == Len(client.got)
           s == k + Len(wire)
           f == [event |-> NoValue, terminal |-> status]
<1>1. /\ Sound(log, n) /\ ClientInv(log, client, n) /\ WireInv(log, handler, wire, k, n)
      /\ HandlerInv(log, handler, s, k, n)
      BY DEF Followed
<1>2. k \in Nat /\ s \in Nat /\ Len(wire) \in Nat /\ AnySeq(wire)
      BY <1>1, AnyLen DEF ClientInv, WireInv
<1>3. LookAtStatus /\ handler.pc = "send" /\ handler.batch = <<>>
      BY DEF Poll, LookAtStatus
<1>4. \A j : ~Final(wire, j, handler)
      BY <1>3 DEF Final
<1>5. CASE status \in Terminal
      <2>1. wire' = Append(wire, f) /\ handler' = [handler EXCEPT !.pc = "closed"]
            BY <1>3, <1>5 DEF LookAtStatus
      <2>2. handler' = [pc |-> "closed", cursor |-> handler.cursor, batch |-> <<>>]
            BY <2>1, <1>1, <1>3 DEF HandlerInv
      <2>3. /\ AnySeq(wire') /\ Len(wire') = Len(wire) + 1 /\ wire'[Len(wire) + 1] = f
            /\ \A i \in 1..Len(wire) : wire'[i] = wire[i]
            BY <2>1, <1>2, AnyAppend
      <2>4. f.terminal \in Terminal
            BY <1>5
      <2> HIDE DEF f, k, s
      <2>5. ASSUME OnTrack(log, k, n), NEW j \in 1..Len(wire')
            PROVE  /\ k + j <= n => Final(wire', j, handler')
                                      \/ (wire'[j].terminal = NoValue /\ wire'[j].event = log[k + j])
                   /\ n = Len(log) => Final(wire', j, handler') \/ k + j <= n
            <3>1. CASE j = Len(wire) + 1
                  BY <3>1, <2>2, <2>3, <2>4 DEF Final
            <3>2. CASE j # Len(wire) + 1
                  <4>1. j \in 1..Len(wire)
                        BY <3>2, <1>2, <2>3
                  <4> QED BY <4>1, <1>1, <1>4, <2>3, <2>5 DEF WireInv
            <3> QED BY <3>1, <3>2
      <2>6. WireInv(log, handler', wire', k, n)
            BY <2>2, <2>3, <2>5 DEF WireInv
      <2>7. HandlerInv(log, handler', k + Len(wire'), k, n)
            BY <2>2, AnyEmpty DEF HandlerInv
      <2> QED BY <1>1, <2>6, <2>7 DEF Followed, k
<1>6. CASE status \notin Terminal
      <2>1. wire' = wire /\ handler' = [handler EXCEPT !.pc = "read"]
            BY <1>3, <1>6 DEF LookAtStatus
      <2>2. handler' = [pc |-> "read", cursor |-> handler.cursor, batch |-> handler.batch]
            BY <2>1, <1>1 DEF HandlerInv
      <2>3. HandlerInv(log, handler', s, k, n)
            BY <2>2, <1>1, <1>3 DEF HandlerInv
      <2>4. WireInv(log, handler', wire, k, n)
            BY <2>2, <1>1, <1>4 DEF WireInv, Final
      <2> QED BY <1>1, <2>1, <2>3, <2>4 DEF Followed
<1> QED BY <1>5, <1>6

LEMMA Breaks ==
  ASSUME log \in Seq(Entries), NEW n \in 0..Len(log), Followed(log, handler, wire, client, n), Break
  PROVE  Followed(log, handler', wire', client, n)
<1> DEFINE k == Len(client.got)
<1>1. Sound(log, n) /\ ClientInv(log, client, n) /\ HandlerInv(log, handler, k + Len(wire), k, n)
      BY DEF Followed
<1>2. wire' = <<>> /\ handler' = [handler EXCEPT !.pc = "lost", !.batch = <<>>]
      BY DEF Break
<1>3. handler' = [pc |-> "lost", cursor |-> handler.cursor, batch |-> <<>>]
      BY <1>1, <1>2 DEF HandlerInv
<1> HIDE DEF k
<1>4. WireInv(log, handler', wire', k, n)
      BY <1>2, AnyEmpty DEF WireInv
<1>5. HandlerInv(log, handler', k + Len(wire'), k, n)
      BY <1>3, AnyEmpty DEF HandlerInv
<1> QED BY <1>1, <1>4, <1>5 DEF Followed, k

LEMMA Reconnects ==
  ASSUME log \in Seq(Entries), NEW n \in 0..Len(log), Followed(log, handler, wire, client, n), Reconnect
  PROVE  Followed(log, handler', wire, client, n)
<1> DEFINE k == Len(client.got)
<1>1. /\ Sound(log, n) /\ ClientInv(log, client, n) /\ WireInv(log, handler, wire, k, n)
      BY DEF Followed
<1>2. k \in Nat
      BY <1>1, AnyLen DEF ClientInv
<1>3. handler.pc = "lost" /\ wire = <<>>
      BY <1>1 DEF Reconnect, WireInv
<1>4. PICK cursor \in {client.lastId, client.cursor} :
        handler' = [pc |-> "read", cursor |-> cursor, batch |-> <<>>]
      BY DEF Reconnect, ResumeFrom
<1> HIDE DEF k
<1>5. OnTrack(log, k, n) => cursor = SeqAt(log, k) /\ k <= n
      BY <1>1, <1>4 DEF ClientInv, k
<1>6. WireInv(log, handler', wire, k, n)
      BY <1>3, AnyEmpty DEF WireInv, Final, AnySeq
<1>7. k + Len(wire) = k /\ k + Len(handler'.batch) = k /\ Len(handler'.batch) = 0
      BY <1>2, <1>3, <1>4, AnyEmpty
<1>8. HandlerInv(log, handler', k, k, n)
      BY <1>4, <1>5, <1>7, AnyEmpty DEF HandlerInv
<1> QED BY <1>1, <1>6, <1>7, <1>8 DEF Followed, k

(* What the browser is sent of the sound part it accepts.                    *)
LEMMA Accepts ==
  ASSUME log \in Seq(Entries), NEW n \in 0..Len(log), Sound(log, n), ClientInv(log, client, n),
         Len(client.got) < n
  PROVE  /\ log[Len(client.got) + 1] \in Entries
         /\ Valid(log[Len(client.got) + 1])
<1> DEFINE k == Len(client.got)
           e == log[k + 1]
<1>1. k \in Nat /\ OnTrack(log, k, n)
      BY AnyLen DEF ClientInv, OnTrack
<1>2. k + 1 \in 1..n /\ k + 1 \in 1..Len(log) /\ (k + 1) - 1 = k
      BY <1>1
<1> HIDE DEF k
<1>3. e \in Entries /\ e.seq \in Nat \ {0} /\ e.chain \in Chains
      <2>1. e \in Entries
            BY <1>2
      <2> QED BY <2>1 DEF Entries
<1>4. LinkedIn(log, k + 1)
      BY <1>2 DEF Sound
<1>5. /\ client.cursor = SeqAt(log, k)
      /\ \A c \in Chains : LastOf(log, k, c, client.parents[c])
      BY <1>1 DEF ClientInv, k
<1>6. e.seq > client.cursor
      <2>1. CASE k = 0
            BY <2>1, <1>3, <1>5 DEF SeqAt
      <2>2. CASE k # 0
            <3>1. k \in 1..n /\ client.cursor = log[k].seq /\ k < k + 1
                  BY <2>2, <1>1, <1>2, <1>5 DEF SeqAt
            <3>2. log[k].seq < e.seq
                  BY <3>1, <1>2 DEF Sound
            <3>3. log[k] \in Entries
                  BY <3>1, <1>2
            <3>4. log[k].seq \in Nat
                  BY <3>3 DEF Entries
            <3> QED BY <3>1, <3>2, <3>4, <1>3
      <2> QED BY <2>1, <2>2
<1>7. e.parent = client.parents[e.chain]
      <2>1. LastOf(log, k, e.chain, e.parent)
            BY <1>2, <1>4 DEF LinkedIn
      <2>2. LastOf(log, k, e.chain, client.parents[e.chain])
            BY <1>3, <1>5
      <2> HIDE DEF e
      <2> QED BY <2>1, <2>2, <1>1, LastOfUnique
<1> QED BY <1>3, <1>6, <1>7 DEF Valid, k

LEMMA Receives ==
  ASSUME log \in Seq(Entries), NEW n \in 0..Len(log), Followed(log, handler, wire, client, n), Receive
  PROVE  Followed(log, handler, wire', client', n)
<1> DEFINE k == Len(client.got)
           s == k + Len(wire)
           e == wire[1].event
<1>1. /\ Sound(log, n) /\ ClientInv(log, client, n) /\ WireInv(log, handler, wire, k, n)
      /\ HandlerInv(log, handler, s, k, n)
      BY DEF Followed
<1>2. k \in Nat /\ Len(wire) \in Nat /\ AnySeq(wire) /\ wire # <<>> /\ AnySeq(client.got)
      BY <1>1, AnyLen DEF ClientInv, WireInv, Receive
<1>3. /\ AnySeq(Tail(wire)) /\ Len(wire) > 0 /\ Len(Tail(wire)) = Len(wire) - 1 /\ Head(wire) = wire[1]
      /\ \A i \in 1..(Len(wire) - 1) : Tail(wire)[i] = wire[i + 1]
      BY <1>2, AnyTail
<1>4. wire' = Tail(wire) /\ handler.pc # "lost"
      BY <1>1, <1>2 DEF Receive, WireInv
<1>5. /\ client = [cursor |-> client.cursor, parents |-> client.parents, got |-> client.got,
                   lastId |-> client.lastId, done |-> client.done]
      /\ client.parents = [c \in Chains |-> client.parents[c]]
      BY <1>1 DEF ClientInv
<1>6. NoValue \notin Terminal
      BY SessionAssumption
<1>7. OnTrack(log, k, n) =>
        Final(wire, 1, handler) \/ (wire[1].terminal = NoValue /\ e = log[k + 1] /\ k + 1 <= n)
      <2>1. OnTrack(log, k, n) =>
              /\ k + 1 <= n => Final(wire, 1, handler) \/ (wire[1].terminal = NoValue /\ e = log[k + 1])
              /\ n = Len(log) => Final(wire, 1, handler) \/ k + 1 <= n
            BY <1>1, <1>2, <1>3 DEF WireInv
      <2>2. k < n => k + 1 <= n
            BY <1>2
      <2> HIDE DEF k, e
      <2> QED BY <2>1, <2>2 DEF OnTrack
<1> HIDE DEF s, k, e
(* A terminal frame is the last one.                                         *)
<1>8. CASE wire[1].terminal # NoValue
      <2>1. client' = [client EXCEPT !.done = wire[1].terminal]
            BY <1>3, <1>8 DEF Receive
      <2>2. client' = [cursor |-> client.cursor, parents |-> client.parents, got |-> client.got,
                       lastId |-> client.lastId, done |-> wire[1].terminal]
            BY <2>1, <1>5
      <2>3. ClientInv(log, client', n) /\ Len(client'.got) = k
            BY <2>2, <1>1 DEF ClientInv, k
      <2>4. OnTrack(log, k, n) => Len(wire') = 0 /\ handler.pc = "closed"
            BY <1>3, <1>4, <1>7, <1>8 DEF Final
      <2>5. WireInv(log, handler, wire', k, n)
            BY <2>4, <1>3, <1>4 DEF WireInv
      <2>6. HandlerInv(log, handler, k + Len(wire'), k, n)
            BY <2>4, <1>1 DEF HandlerInv
      <2> QED BY <2>3, <2>5, <2>6, <1>1 DEF Followed
<1>9. CASE wire[1].terminal = NoValue /\ ~OnTrack(log, k, n)
      <2>1. n < Len(log) /\ k >= n
            BY <1>2, <1>9 DEF OnTrack
      <2>2. CASE Valid(e)
            <3> DEFINE parents == [client.parents EXCEPT ![e.chain] = e.seq]
            <3>1. client' = [client EXCEPT !.lastId = e.seq, !.cursor = e.seq, !.parents[e.chain] = e.seq,
                                           !.got = Append(@, e.seq)]
                  BY <2>2, <1>3, <1>9 DEF Receive, HandleEvent, e
            <3>2. client' = [cursor |-> e.seq, parents |-> parents, got |-> Append(client.got, e.seq),
                             lastId |-> e.seq, done |-> client.done]
                  BY <3>1, <1>5
            <3>3. parents = [c \in Chains |-> parents[c]]
                  BY <1>5
            <3> HIDE DEF parents
            <3>4. /\ AnySeq(client'.got) /\ Len(client'.got) = k + 1
                  /\ \A i \in 1..k : client'.got[i] = client.got[i]
                  BY <3>2, <1>2, AnyAppend DEF k
            <3>5. ~OnTrack(log, k + 1, n)
                  BY <2>1, <1>2 DEF OnTrack
            <3>6. \A i \in 1..(k + 1) : i <= n => client'.got[i] = log[i].seq
                  <4> SUFFICES ASSUME NEW i \in 1..(k + 1), i <= n PROVE client'.got[i] = log[i].seq
                      OBVIOUS
                  <4>1. i \in 1..k
                        BY <2>1, <1>2
                  <4> QED BY <4>1, <3>4, <1>1 DEF ClientInv, k
            <3>7. ClientInv(log, client', n)
                  BY <3>2, <3>3, <3>4, <3>5, <3>6 DEF ClientInv
            <3>8. WireInv(log, handler, wire', k + 1, n)
                  BY <3>5, <1>3, <1>4 DEF WireInv
            <3>9. HandlerInv(log, handler, (k + 1) + Len(wire'), k + 1, n)
                  BY <3>5, <1>1 DEF HandlerInv
            <3> QED BY <3>4, <3>7, <3>8, <3>9, <1>1 DEF Followed
      <2>3. CASE ~Valid(e)
            <3>1. client' = [client EXCEPT !.lastId = e.seq]
                  BY <2>3, <1>3, <1>9 DEF Receive, HandleEvent, e
            <3>2. client' = [cursor |-> client.cursor, parents |-> client.parents, got |-> client.got,
                             lastId |-> e.seq, done |-> client.done]
                  BY <3>1, <1>5
            <3>3. ClientInv(log, client', n) /\ Len(client'.got) = k
                  BY <3>2, <1>1, <1>9 DEF ClientInv, k
            <3>4. WireInv(log, handler, wire', k, n)
                  BY <1>3, <1>4, <1>9 DEF WireInv
            <3>5. HandlerInv(log, handler, k + Len(wire'), k, n)
                  BY <1>1, <1>9 DEF HandlerInv
            <3> QED BY <3>3, <3>4, <3>5, <1>1 DEF Followed
      <2> QED BY <2>2, <2>3
(* The next event of the sound part is accepted.                             *)
<1>10. CASE wire[1].terminal = NoValue /\ OnTrack(log, k, n)
      <2>1. e = log[k + 1] /\ k + 1 <= n /\ k < n /\ k + 1 \in Nat \ {0}
            BY <1>2, <1>6, <1>7, <1>10 DEF Final
      <2>2. e \in Entries /\ Valid(e)
            BY <2>1, <1>1, Accepts DEF k
      <2>3. e.seq \in Nat /\ e.chain \in Chains
            BY <2>2 DEF Entries
      <2> DEFINE parents == [client.parents EXCEPT ![e.chain] = e.seq]
      <2>4. client' = [client EXCEPT !.lastId = e.seq, !.cursor = e.seq, !.parents[e.chain] = e.seq,
                                     !.got = Append(@, e.seq)]
            BY <2>2, <1>3, <1>10 DEF Receive, HandleEvent, e
      <2>5. client' = [cursor |-> e.seq, parents |-> parents, got |-> Append(client.got, e.seq),
                       lastId |-> e.seq, done |-> client.done]
            BY <2>4, <1>5
      <2>6. /\ parents = [c \in Chains |-> parents[c]] /\ parents[e.chain] = e.seq
            /\ \A c \in Chains \ {e.chain} : parents[c] = client.parents[c]
            BY <2>3, <1>5
      <2> HIDE DEF parents
      <2>7. /\ AnySeq(client'.got) /\ Len(client'.got) = k + 1 /\ client'.got[k + 1] = e.seq
            /\ \A i \in 1..k : client'.got[i] = client.got[i]
            BY <2>5, <1>2, AnyAppend DEF k
      <2>8. \A i \in 1..(k + 1) : i <= n => client'.got[i] = log[i].seq
            <3> SUFFICES ASSUME NEW i \in 1..(k + 1), i <= n PROVE client'.got[i] = log[i].seq
                OBVIOUS
            <3>1. i = k + 1 \/ i \in 1..k
                  BY <1>2
            <3>2. \A j \in 1..k : j <= n => client.got[j] = log[j].seq
                  BY <1>1 DEF ClientInv, k
            <3> QED BY <3>1, <3>2, <2>1, <2>7
      <2>9. \A c \in Chains : LastOf(log, k + 1, c, parents[c])
            <3> SUFFICES ASSUME NEW c \in Chains PROVE LastOf(log, k + 1, c, parents[c])
                OBVIOUS
            <3>1. LastOf(log, k, c, client.parents[c])
                  BY <1>1, <1>10 DEF ClientInv, k
            <3>2. CASE c = e.chain
                  BY <3>2, <2>1, <2>6, <1>2, LastOfNext
            <3>3. CASE c # e.chain
                  BY <3>1, <3>3, <2>1, <2>6, <1>2, LastOfNext
            <3> QED BY <3>2, <3>3
      <2>10. e.seq = SeqAt(log, k + 1)
            BY <2>1 DEF SeqAt
      <2>11. ClientInv(log, client', n)
            BY <2>1, <2>5, <2>6, <2>7, <2>8, <2>9, <2>10 DEF ClientInv
      <2>12. ASSUME NEW j \in 1..Len(wire')
             PROVE  /\ (k + 1) + j <= n => Final(wire', j, handler)
                         \/ (wire'[j].terminal = NoValue /\ wire'[j].event = log[(k + 1) + j])
                    /\ n = Len(log) => Final(wire', j, handler) \/ (k + 1) + j <= n
            <3>1. j + 1 \in 1..Len(wire) /\ wire'[j] = wire[j + 1] /\ (k + 1) + j = k + (j + 1)
                  BY <1>2, <1>3, <1>4
            <3>2. Final(wire, j + 1, handler) => Final(wire', j, handler)
                  <4>1. Len(wire') = Len(wire) - 1 /\ Len(wire) \in Nat /\ j \in Int
                        BY <1>2, <1>3, <1>4
                  <4>2. j + 1 = Len(wire) => j = Len(wire')
                        BY <4>1
                  <4> QED BY <3>1, <4>2 DEF Final
            <3>3. /\ k + (j + 1) <= n => Final(wire, j + 1, handler)
                         \/ (wire[j + 1].terminal = NoValue /\ wire[j + 1].event = log[k + (j + 1)])
                  /\ n = Len(log) => Final(wire, j + 1, handler) \/ k + (j + 1) <= n
                  BY <3>1, <1>1, <1>10 DEF WireInv
            <3> QED BY <3>1, <3>2, <3>3
      <2>13. WireInv(log, handler, wire', k + 1, n)
            BY <2>12, <1>3, <1>4 DEF WireInv
      <2>14. (k + 1) + Len(wire') = s
            BY <1>2, <1>3, <1>4 DEF s
      <2>15. HandlerInv(log, handler, s, k + 1, n)
            BY <1>1, <1>10 DEF HandlerInv
      <2> QED BY <2>7, <2>11, <2>13, <2>14, <2>15, <1>1 DEF Followed
<1> QED BY <1>8, <1>9, <1>10

-----------------------------------------------------------------------------
LEMMA Publishes ==
  ASSUME StreamInv, Publishing
  PROVE  StreamInv'
<1>1. PICK t \in Threads : AppendEvent(t) \/ LinkEvent(t)
      BY DEF Publishing
<1>2. PICK n \in 0..Len(log) : Followed(log, handler, wire, client, n)
      BY DEF StreamInv
<1>3. BusInv(log, seqno, last, pub, crossed) /\ chain \in Chains /\ log \in Seq(Entries)
      BY DEF StreamInv, BusInv
<1>4. UNCHANGED <<chain, handler, wire, client>>
      BY <1>1 DEF AppendEvent, LinkEvent
<1>5. CASE AppendEvent(t)
      <2>1. /\ BusInv(log', seqno', last', pub', crossed')
            /\ \E e \in Entries : log' = Append(log, e)
            BY <1>3, <1>5, Appends
      <2>2. \E m \in 0..Len(log') : Followed(log', handler, wire, client, m)
            BY <2>1, <1>2, <1>3, FollowedGrows
      <2> QED BY <2>1, <2>2, <1>3, <1>4 DEF StreamInv
<1>6. CASE LinkEvent(t)
      <2>1. BusInv(log', seqno', last', pub', crossed') /\ log' = log
            BY <1>3, <1>6, Links
      <2> QED BY <2>1, <1>2, <1>3, <1>4 DEF StreamInv
<1> QED BY <1>1, <1>5, <1>6

(* What threads do to the session leaves the readers where they are.         *)
LEMMA Proceeds ==
  ASSUME StreamInv, Start \/ (\E o \in HttpThreads : AddConstraint(o)) \/ Run
  PROVE  StreamInv'
<1>1. BusInv(log, seqno, last, pub, crossed) /\ chain \in Chains
      BY DEF StreamInv
<1>2. UNCHANGED <<log, handler, wire, client>>
      BY DEF Start, AddConstraint, Run, Number, Begin, Turn, LastEvent, RunReturns, CloseSession,
             Fail, StoreError, bus
<1>3. BusInv(log', seqno', last', pub', crossed') /\ chain' \in Chains
      <2>1. ASSUME NEW t \in Threads, Number(t)
            PROVE  BusInv(log', seqno', last', pub', crossed') /\ chain' = chain
            BY <2>1, <1>1, Numbers DEF Number
      <2>2. CASE \E o \in HttpThreads : AddConstraint(o)
            BY <2>1, <2>2, <1>1 DEF AddConstraint, Threads
      <2>3. CASE Turn \/ LastEvent
            BY <2>1, <2>3, <1>1 DEF Turn, LastEvent, Threads
      <2>4. CASE Begin
            BY <2>4, <1>1 DEF Begin, Chains
      <2>5. CASE Start \/ RunReturns \/ CloseSession \/ Fail \/ StoreError
            BY <2>5, <1>1 DEF Start, RunReturns, CloseSession, Fail, StoreError, bus
      <2> QED BY <2>2, <2>3, <2>4, <2>5 DEF Run
<1> QED BY <1>2, <1>3 DEF StreamInv

LEMMA ServesAndBrowses ==
  ASSUME StreamInv, Serve \/ Browse \/ Break
  PROVE  StreamInv'
<1>1. PICK n \in 0..Len(log) : Followed(log, handler, wire, client, n)
      BY DEF StreamInv
<1>2. log \in Seq(Entries)
      BY DEF StreamInv, BusInv
<1>3. UNCHANGED <<bus, crossed>>
      BY DEF Serve, Read, Send, Poll, Browse, Receive, Reconnect, Break
<1>4. Followed(log, handler', wire', client', n)
      <2>1. CASE Read
            BY <2>1, <1>1, <1>2, Reads DEF Read
      <2>2. CASE Send
            BY <2>2, <1>1, <1>2, Sends DEF Send
      <2>3. CASE Poll
            BY <2>3, <1>1, <1>2, Polls DEF Poll
      <2>4. CASE Receive
            BY <2>4, <1>1, <1>2, Receives DEF Receive
      <2>5. CASE Break
            BY <2>5, <1>1, <1>2, Breaks DEF Break
      <2>6. CASE Reconnect
            BY <2>6, <1>1, <1>2, Reconnects DEF Reconnect
      <2> QED BY <2>1, <2>2, <2>3, <2>4, <2>5, <2>6 DEF Serve, Browse
<1> QED BY <1>3, <1>4 DEF StreamInv, bus

LEMMA StreamInductive ==
  ASSUME StreamInv, [SessionNext]_stream
  PROVE  StreamInv'
<1>1. CASE UNCHANGED stream
      BY <1>1 DEF StreamInv, stream, session, bus
<1>2. CASE SessionNext
      BY <1>2, Publishes, Proceeds, ServesAndBrowses DEF SessionNext
<1> QED BY <1>1, <1>2

(* However many threads publish at once, and whichever handlers come and go: *)
(* up to the first overlap of two publications the log is a valid chain, and *)
(* as far as it is one, the browser has its events from the first on, each   *)
(* once and in order, as far as it got (EventBus.publish, server._events,    *)
(* app.js validEvent).                                                       *)
THEOREM WholeStreams == SessionSpec => []BrowserFollows
<1>1. SessionInit => StreamInv
      <2> SUFFICES ASSUME SessionInit PROVE StreamInv
          OBVIOUS
      <2>1. log = <<>> /\ log \in Seq(Entries) /\ Len(log) = 0 /\ wire = <<>>
            BY DEF SessionInit
      <2>2. BusInv(log, seqno, last, pub, crossed) /\ chain \in Chains
            BY <2>1 DEF SessionInit, BusInv, Quiet, Settled, LastOf, Chains
      <2>3. Sound(log, 0)
            BY <2>1 DEF Sound
      <2>4. ClientInv(log, client, 0) /\ Len(client.got) = 0
            BY <2>1, AnyEmpty DEF SessionInit, ClientInv, LastOf, SeqAt
      <2>5. WireInv(log, handler, wire, 0, 0)
            BY <2>1, AnyEmpty DEF WireInv
      <2>6. HandlerInv(log, handler, 0, 0, 0)
            BY <2>1, AnyEmpty DEF SessionInit, HandlerInv, SeqAt
      <2>7. Followed(log, handler, wire, client, 0)
            BY <2>1, <2>3, <2>4, <2>5, <2>6 DEF Followed
      <2> QED BY <2>1, <2>2, <2>7 DEF StreamInv
<1>2. StreamInv /\ [SessionNext]_stream => StreamInv'
      BY StreamInductive
<1>3. StreamInv => BrowserFollows
      <2> SUFFICES ASSUME StreamInv PROVE BrowserFollows
          OBVIOUS
      <2>1. PICK m \in 0..Len(log) : Sound(log, m) /\ ClientInv(log, client, m)
            BY DEF StreamInv, Followed
      <2>2. /\ log \in Seq(Entries) /\ Len(log) \in Nat /\ DOMAIN log = 1..Len(log)
            /\ \A i \in 1..Len(log) : crossed < 0 \/ i <= crossed => LinkedIn(log, i)
            BY DEF StreamInv, BusInv
      <2>3. \A i \in DOMAIN log : Linked(i) <=> LinkedIn(log, i)
            BY <2>2, LinkedIs
      <2>4. \A i \in DOMAIN log : (crossed < 0 \/ i <= crossed) => Linked(i)
            BY <2>2, <2>3
      <2>5. ASSUME NEW n \in 0..Len(log), \A i \in 1..n : Linked(i)
            PROVE  /\ \A i \in DOMAIN client.got : i <= n => client.got[i] = log[i].seq
                   /\ n = Len(log) => Len(client.got) <= n
            <3>1. n <= m
                  <4> SUFFICES ASSUME n > m PROVE FALSE
                      BY <2>2
                  <4>0. m \in Nat /\ n \in Nat /\ Len(log) \in Nat /\ n <= Len(log) /\ m < n
                        BY <2>2
                  <4>1. m + 1 \in 1..n /\ m + 1 \in 1..Len(log) /\ m # Len(log)
                        BY <4>0
                  <4>2. LinkedIn(log, m + 1)
                        BY <4>1, <2>3, <2>5
                  <4>3. m = Len(log) \/ ~LinkedIn(log, m + 1)
                        BY <2>1 DEF Sound
                  <4> QED BY <4>1, <4>2, <4>3
            <3>2. DOMAIN client.got = 1..Len(client.got) /\ Len(client.got) \in Nat
                  <4>1. AnySeq(client.got)
                        BY <2>1 DEF ClientInv
                  <4>2. PICK S : client.got \in Seq(S)
                        BY <4>1 DEF AnySeq
                  <4> QED BY <4>2
            <3>3. ASSUME NEW i \in DOMAIN client.got, i <= n PROVE client.got[i] = log[i].seq
                  <4>1. i \in 1..Len(client.got) /\ i <= m
                        BY <3>1, <3>2, <3>3, <2>2
                  <4> QED BY <4>1, <2>1 DEF ClientInv
            <3>4. n = Len(log) => Len(client.got) <= n
                  BY <3>1, <2>1, <2>2 DEF ClientInv, OnTrack
            <3> QED BY <3>3, <3>4
      <2> QED BY <2>4, <2>5 DEF BrowserFollows
<1> QED BY <1>1, <1>2, <1>3, PTL DEF SessionSpec

-----------------------------------------------------------------------------
(* VoicePipeline.  What a text of joined utterances has to do with what was  *)
(* said.                                                                     *)

Free(s) == \E k \in 2..Len(s) : s[k] = "using" /\ s[k - 1] # "stop"
Echo(t, s) ==
  /\ Free(t) => Free(s)
  /\ t # <<>> => s # <<>>
  /\ t # <<>> /\ t[1] = "using" => Free(s) \/ s[1] = "using"
  /\ s # <<>> /\ s[Len(s)] = "stop" => t # <<>> /\ t[Len(t)] = "stop"

LEMMA EchoSelf == ASSUME NEW s PROVE Echo(s, s)
BY DEF Echo

LEMMA FreeLeft ==
  ASSUME NEW s1 \in Seq(Phrases), NEW s2 \in Seq(Phrases), Free(s1)
  PROVE  Free(s1 \o s2)
<1>1. PICK k \in 2..Len(s1) : s1[k] = "using" /\ s1[k - 1] # "stop"
      BY DEF Free
<1>2. k \in 2..Len(s1 \o s2) /\ (s1 \o s2)[k] = s1[k] /\ (s1 \o s2)[k - 1] = s1[k - 1]
      OBVIOUS
<1> QED BY <1>1, <1>2 DEF Free

LEMMA FreeRight ==
  ASSUME NEW s1 \in Seq(Phrases), NEW s2 \in Seq(Phrases), Free(s2)
  PROVE  Free(s1 \o s2)
<1>1. PICK k \in 2..Len(s2) : s2[k] = "using" /\ s2[k - 1] # "stop"
      BY DEF Free
<1> DEFINE j == Len(s1) + k
<1>2. j \in 2..Len(s1 \o s2) /\ (s1 \o s2)[j] = s2[k] /\ (s1 \o s2)[j - 1] = s2[k - 1]
      OBVIOUS
<1> QED BY <1>1, <1>2 DEF Free

LEMMA FreeAcross ==
  ASSUME NEW s1 \in Seq(Phrases), NEW s2 \in Seq(Phrases), s1 # <<>>, s2 # <<>>,
         s1[Len(s1)] # "stop", s2[1] = "using"
  PROVE  Free(s1 \o s2)
<1> DEFINE j == Len(s1) + 1
<1>1. j \in 2..Len(s1 \o s2) /\ (s1 \o s2)[j] = s2[1] /\ (s1 \o s2)[j - 1] = s1[Len(s1)]
      OBVIOUS
<1> QED BY <1>1 DEF Free

LEMMA FreeSplits ==
  ASSUME NEW s1 \in Seq(Phrases), NEW s2 \in Seq(Phrases), Free(s1 \o s2)
  PROVE  \/ Free(s1) \/ Free(s2)
         \/ s1 # <<>> /\ s2 # <<>> /\ s1[Len(s1)] # "stop" /\ s2[1] = "using"
<1>1. PICK k \in 2..Len(s1 \o s2) : (s1 \o s2)[k] = "using" /\ (s1 \o s2)[k - 1] # "stop"
      BY DEF Free
<1>2. Len(s1 \o s2) = Len(s1) + Len(s2) /\ Len(s1) \in Nat /\ Len(s2) \in Nat
      OBVIOUS
<1>3. \A i \in 1..(Len(s1) + Len(s2)) : (s1 \o s2)[i] = IF i <= Len(s1) THEN s1[i] ELSE s2[i - Len(s1)]
      BY ConcatProperties
<1>4. CASE k <= Len(s1)
      <2>1. (s1 \o s2)[k] = s1[k] /\ (s1 \o s2)[k - 1] = s1[k - 1] /\ k \in 2..Len(s1)
            BY <1>2, <1>3, <1>4
      <2> QED BY <1>1, <2>1 DEF Free
<1>5. CASE k > Len(s1) + 1
      <2> DEFINE j == k - Len(s1)
      <2>1. (s1 \o s2)[k] = s2[j] /\ (s1 \o s2)[k - 1] = s2[j - 1] /\ j \in 2..Len(s2)
            BY <1>2, <1>3, <1>5
      <2> QED BY <1>1, <2>1 DEF Free
<1>6. CASE k = Len(s1) + 1
      <2>1. (s1 \o s2)[k] = s2[1] /\ (s1 \o s2)[k - 1] = s1[Len(s1)] /\ Len(s1) # 0 /\ Len(s2) # 0
            BY <1>2, <1>3, <1>6
      <2> QED BY <1>1, <2>1
<1> QED BY <1>2, <1>4, <1>5, <1>6

LEMMA EchoConcat ==
  ASSUME NEW t1 \in Seq(Phrases), NEW s1 \in Seq(Phrases), Echo(t1, s1),
         NEW t2 \in Seq(Phrases), NEW s2 \in Seq(Phrases), Echo(t2, s2)
  PROVE  Echo(t1 \o t2, s1 \o s2)
<1> DEFINE t == t1 \o t2
           s == s1 \o s2
<1>1. /\ s1 # <<>> => s # <<>> /\ s[1] = s1[1]
      /\ s2 # <<>> => s # <<>> /\ s[Len(s)] = s2[Len(s2)]
      /\ s1 = <<>> => s = s2
      /\ s2 = <<>> => s = s1
      /\ s = <<>> => s1 = <<>> /\ s2 = <<>>
      <2>1. s1 # <<>> => s # <<>> /\ s[1] = s1[1]
            OBVIOUS
      <2>2. s2 # <<>> => s # <<>> /\ s[Len(s)] = s2[Len(s2)]
            OBVIOUS
      <2> QED BY <2>1, <2>2
<1>2. /\ t1 # <<>> => t # <<>> /\ t[1] = t1[1]
      /\ t2 # <<>> => t # <<>> /\ t[Len(t)] = t2[Len(t2)]
      /\ t1 = <<>> => t = t2
      /\ t2 = <<>> => t = t1
      /\ t = <<>> => t1 = <<>> /\ t2 = <<>>
      <2>1. t1 # <<>> => t # <<>> /\ t[1] = t1[1]
            OBVIOUS
      <2>2. t2 # <<>> => t # <<>> /\ t[Len(t)] = t2[Len(t2)]
            OBVIOUS
      <2> QED BY <2>1, <2>2
<1>3. Free(s1) \/ Free(s2) => Free(s)
      BY FreeLeft, FreeRight
<1>4. s1 # <<>> /\ s2 # <<>> /\ s1[Len(s1)] # "stop" /\ s2[1] = "using" => Free(s)
      BY FreeAcross
<1>5. Free(t) => \/ Free(t1) \/ Free(t2)
                 \/ t1 # <<>> /\ t2 # <<>> /\ t1[Len(t1)] # "stop" /\ t2[1] = "using"
      BY FreeSplits
<1> HIDE DEF s, t
<1>6. Free(t) => Free(s)
      BY <1>3, <1>4, <1>5 DEF Echo
<1>7. t # <<>> => s # <<>>
      BY <1>1, <1>2 DEF Echo
<1>8. t # <<>> /\ t[1] = "using" => Free(s) \/ s[1] = "using"
      <2>1. CASE t1 # <<>>
            BY <1>1, <1>2, <1>3, <2>1 DEF Echo
      <2>2. CASE t1 = <<>>
            <3>1. CASE s1 = <<>>
                  BY <1>1, <1>2, <1>3, <2>2, <3>1 DEF Echo
            <3>2. CASE s1 # <<>>
                  BY <1>1, <1>2, <1>3, <1>4, <2>2, <3>2 DEF Echo
            <3> QED BY <3>1, <3>2
      <2> QED BY <2>1, <2>2
<1>9. s # <<>> /\ s[Len(s)] = "stop" => t # <<>> /\ t[Len(t)] = "stop"
      <2>1. CASE s2 # <<>>
            BY <1>1, <1>2, <2>1 DEF Echo
      <2>2. CASE s2 = <<>>
            BY <1>1, <1>2, <2>2 DEF Echo
      <2> QED BY <2>1, <2>2
<1>10. Echo(t, s)
      BY <1>6, <1>7, <1>8, <1>9 DEF Echo
<1> QED BY <1>10 DEF s, t

LEMMA EchoUnstopped ==
  ASSUME NEW s \in Seq(Phrases)
  PROVE  Unstopped(s) \in Seq(Phrases) /\ Echo(Unstopped(s), s)
<1> DEFINE Cut(n) == /\ n = 0 \/ s[n] # "dot"
                     /\ \A i \in (n + 1)..Len(s) : s[i] = "dot"
           n == CHOOSE n \in 0..Len(s) : Cut(n)
           T == {m \in 0..Len(s) : \A i \in (m + 1)..Len(s) : s[i] = "dot"}
<1>1. Len(s) \in Nat
      OBVIOUS
<1>2. \E m \in 0..Len(s) : Cut(m)
      <2>1. Len(s) \in T /\ T \in SUBSET Nat
            BY <1>1
      <2>2. PICK m \in T : \A j \in T : m <= j
            BY <2>1, LeastOf
      <2>3. ASSUME m # 0, s[m] = "dot" PROVE FALSE
            <3>1. m \in 1..Len(s) /\ m - 1 \in 0..Len(s)
                  BY <1>1, <2>2, <2>3
            <3>2. \A i \in ((m - 1) + 1)..Len(s) : i = m \/ i \in (m + 1)..Len(s)
                  BY <1>1, <3>1
            <3>3. m - 1 \in T
                  BY <2>2, <2>3, <3>1, <3>2
            <3>4. m <= m - 1
                  <4> HIDE DEF T
                  <4> QED BY <2>2, <3>3
            <3> QED BY <3>1, <3>4
      <2> QED BY <2>2, <2>3
<1>3. n \in 0..Len(s) /\ Cut(n)
      <2> HIDE DEF Cut
      <2> QED BY <1>2
<1>4. Unstopped(s) = SubSeq(s, 1, n)
      BY DEF Unstopped
<1> HIDE DEF n
<1> DEFINE t == SubSeq(s, 1, n)
<1>5. t \in Seq(Phrases) /\ Len(t) = n /\ \A i \in 1..n : t[i] = s[i]
      BY <1>1, <1>3
<1> HIDE DEF t
<1>6. Free(t) => Free(s)
      <2> SUFFICES ASSUME NEW k \in 2..Len(t), t[k] = "using", t[k - 1] # "stop" PROVE Free(s)
          BY DEF Free
      <2>1. k \in 2..Len(s) /\ s[k] = t[k] /\ s[k - 1] = t[k - 1]
            BY <1>1, <1>3, <1>5
      <2> QED BY <2>1 DEF Free
<1>7. t # <<>> => s # <<>> /\ t[1] = s[1]
      BY <1>1, <1>3, <1>5
<1>8. s # <<>> /\ s[Len(s)] = "stop" => t # <<>> /\ t[Len(t)] = "stop"
      <2> SUFFICES ASSUME s # <<>>, s[Len(s)] = "stop" PROVE n = Len(s) /\ n # 0
          BY <1>5
      <2>1. Len(s) # 0
            OBVIOUS
      <2> QED BY <1>1, <1>3, <2>1
<1> QED BY <1>4, <1>5, <1>6, <1>7, <1>8 DEF Echo, t

-----------------------------------------------------------------------------
(* What the layers hold.                                                     *)

Gaps == {"none", "pause", "long"}
Frags == [id : Nat, who : Speakers, say : Phrases, gap : Gaps]
Spoken(w) == [id : Nat, who : {w}, say : Phrases, gap : Gaps]
Holds(w) == [said : Seq(Spoken(w)) \ {<<>>}, number : Nat]

LEMMA SpokenIsHeard ==
  ASSUME NEW w \in Speakers, NEW s \in Seq(Spoken(w))
  PROVE  s \in Seq(Frags) /\ \A i \in DOMAIN s : s[i].who = w
<1>1. Spoken(w) \subseteq Frags
      BY DEF Spoken, Frags
<1>2. s \in Seq(Frags)
      BY <1>1, SeqMonotonic
<1>3. \A i \in DOMAIN s : s[i] \in Spoken(w)
      OBVIOUS
<1>4. \A f \in Spoken(w) : f.who = w
      BY DEF Spoken
<1> QED BY <1>2, <1>3, <1>4

LEMMA TextType ==
  ASSUME NEW s \in Seq(Frags)
  PROVE  /\ Text(s) \in Seq(Phrases) /\ Len(Text(s)) = Len(s)
         /\ \A i \in 1..Len(s) : Text(s)[i] = s[i].say
<1>1. \A i \in DOMAIN s : s[i] \in Frags
      OBVIOUS
<1>2. \A f \in Frags : f.say \in Phrases
      BY DEF Frags
<1>3. \A i \in DOMAIN s : s[i].say \in Phrases
      BY <1>1, <1>2
<1> QED BY <1>3 DEF Text

LEMMA TextConcat ==
  ASSUME NEW s \in Seq(Frags), NEW t \in Seq(Frags)
  PROVE  Text(s \o t) = Text(s) \o Text(t)
<1> DEFINE a == Text(s \o t)
           b == Text(s) \o Text(t)
<1>1. s \o t \in Seq(Frags) /\ Len(s \o t) = Len(s) + Len(t)
      /\ \A i \in 1..(Len(s) + Len(t)) : (s \o t)[i] = IF i <= Len(s) THEN s[i] ELSE t[i - Len(s)]
      BY ConcatProperties
<1>2. Text(s) \in Seq(Phrases) /\ Len(Text(s)) = Len(s) /\ \A i \in 1..Len(s) : Text(s)[i] = s[i].say
      BY TextType
<1>3. Text(t) \in Seq(Phrases) /\ Len(Text(t)) = Len(t) /\ \A i \in 1..Len(t) : Text(t)[i] = t[i].say
      BY TextType
<1>4. a \in Seq(Phrases) /\ Len(a) = Len(s) + Len(t) /\ \A i \in 1..(Len(s) + Len(t)) : a[i] = (s \o t)[i].say
      BY <1>1, TextType
<1>5. b \in Seq(Phrases) /\ Len(b) = Len(s) + Len(t)
      /\ \A i \in 1..(Len(s) + Len(t)) : b[i] = IF i <= Len(s) THEN Text(s)[i] ELSE Text(t)[i - Len(s)]
      <2> DEFINE p == Text(s)
                 q == Text(t)
      <2>1. p \in Seq(Phrases) /\ q \in Seq(Phrases) /\ Len(p) = Len(s) /\ Len(q) = Len(t)
            BY <1>2, <1>3
      <2> HIDE DEF p, q
      <2>2. p \o q \in Seq(Phrases) /\ Len(p \o q) = Len(p) + Len(q)
            /\ \A i \in 1..(Len(p) + Len(q)) : (p \o q)[i] = IF i <= Len(p) THEN p[i] ELSE q[i - Len(p)]
            BY <2>1, ConcatProperties
      <2> QED BY <2>1, <2>2 DEF p, q
<1> HIDE DEF a, b
<1>6. Len(s) \in Nat /\ Len(t) \in Nat
      OBVIOUS
<1>7. ASSUME NEW i \in 1..(Len(s) + Len(t)) PROVE a[i] = b[i]
      <2>1. CASE i <= Len(s)
            BY <2>1, <1>1, <1>2, <1>4, <1>5, <1>6
      <2>2. CASE ~(i <= Len(s))
            <3>1. i - Len(s) \in 1..Len(t)
                  BY <2>2, <1>6
            <3> QED BY <2>2, <3>1, <1>1, <1>3, <1>4, <1>5
      <2> QED BY <2>1, <2>2
<1>8. a = b
      BY <1>4, <1>5, <1>7, SeqEqual
<1> QED BY <1>8 DEF a, b

LEMMA SameSeq ==
  ASSUME NEW S, NEW s \in Seq(S), NEW t \in Seq(S), Len(s) = Len(t), Agree(s, t, Len(s))
  PROVE  s = t
<1>1. \A i \in 1..Len(s) : s[i] = t[i]
      BY DEF Agree
<1> QED BY <1>1, SeqEqual

LEMMA AllSaidEmpty == AllSaid(<<>>) = <<>>
<1> DEFINE us == <<>>
           saids == [i \in DOMAIN us |-> us[i].said]
<1>1. us \in Seq({}) /\ Len(us) = 0
      OBVIOUS
<1>2. saids \in Seq({}) /\ Len(saids) = 0
      <2> HIDE DEF us
      <2>1. DOMAIN us = 1..0
            BY <1>1
      <2> QED BY <2>1
<1> HIDE DEF saids
<1>3. saids = <<>>
      BY <1>2, EmptySeq
<1> QED BY <1>3, FlattenEmpty DEF AllSaid, saids

(* What the members of R say is made of S.                                   *)
Says(R, S) == \A u \in R : u.said \in Seq(S)

LEMMA AllSaidAppend ==
  ASSUME NEW S, NEW R, Says(R, S), NEW us \in Seq(R), NEW u \in R
  PROVE  AllSaid(us) \in Seq(S) /\ AllSaid(Append(us, u)) = AllSaid(us) \o u.said
<1> DEFINE saids == [i \in DOMAIN us |-> us[i].said]
           more  == [i \in DOMAIN Append(us, u) |-> Append(us, u)[i].said]
<1>1. \A i \in 1..Len(us) : us[i].said \in Seq(S)
      <2>1. \A i \in 1..Len(us) : us[i] \in R
            OBVIOUS
      <2> QED BY <2>1 DEF Says
<1>2. saids \in Seq(Seq(S)) /\ Len(saids) = Len(us) /\ \A i \in 1..Len(us) : saids[i] = us[i].said
      BY <1>1
<1>3. Append(us, u) \in Seq(R) /\ Len(Append(us, u)) = Len(us) + 1 /\ Append(us, u)[Len(us) + 1] = u
      /\ \A i \in 1..Len(us) : Append(us, u)[i] = us[i]
      BY AppendProperties
<1>4. Len(us) \in Nat /\ DOMAIN Append(us, u) = 1..(Len(us) + 1)
      BY <1>3
<1>5. \A i \in 1..(Len(us) + 1) : Append(us, u)[i].said \in Seq(S)
      <2>1. \A i \in 1..(Len(us) + 1) : Append(us, u)[i] \in R
            BY <1>3, <1>4
      <2> QED BY <2>1 DEF Says
<1>6. more \in Seq(Seq(S)) /\ Len(more) = Len(us) + 1
      /\ \A i \in 1..(Len(us) + 1) : more[i] = Append(us, u)[i].said
      BY <1>4, <1>5
<1> HIDE DEF saids, more
<1>7. Append(saids, u.said) \in Seq(Seq(S)) /\ Len(Append(saids, u.said)) = Len(us) + 1
      /\ Append(saids, u.said)[Len(us) + 1] = u.said
      /\ \A i \in 1..Len(us) : Append(saids, u.said)[i] = saids[i]
      <2>1. u.said \in Seq(S)
            BY DEF Says
      <2> QED BY <2>1, <1>2, AppendProperties
<1>8. more = Append(saids, u.said)
      <2>1. ASSUME NEW i \in 1..(Len(us) + 1) PROVE more[i] = Append(saids, u.said)[i]
            <3>1. CASE i \in 1..Len(us)
                  BY <3>1, <1>2, <1>3, <1>6, <1>7
            <3>2. CASE i = Len(us) + 1
                  BY <3>2, <1>3, <1>6, <1>7
            <3>3. i \in 1..Len(us) \/ i = Len(us) + 1
                  BY <1>4
            <3> QED BY <3>1, <3>2, <3>3
      <2> DEFINE b == Append(saids, u.said)
                 V == Seq(S)
      <2>2. more \in Seq(V) /\ b \in Seq(V) /\ Len(more) = Len(b) /\ Agree(more, b, Len(more))
            BY <2>1, <1>6, <1>7 DEF Agree
      <2> HIDE DEF b, V
      <2>3. more = b
            BY <2>2 DEF Agree
      <2> QED BY <2>3 DEF b
<1>9. FlattenSeq(Append(saids, u.said)) = FlattenSeq(saids) \o u.said /\ FlattenSeq(saids) \in Seq(S)
      <2>1. u.said \in Seq(S)
            BY DEF Says
      <2> QED BY <2>1, <1>2, FlattenAppend, FlattenType
<1> QED BY <1>8, <1>9 DEF AllSaid, saids, more

LEMMA AllSaidType ==
  ASSUME NEW S, NEW R, Says(R, S), NEW us \in Seq(R)
  PROVE  AllSaid(us) \in Seq(S)
<1> DEFINE saids == [i \in DOMAIN us |-> us[i].said]
<1>1. \A i \in 1..Len(us) : us[i].said \in Seq(S)
      <2>1. \A i \in 1..Len(us) : us[i] \in R
            OBVIOUS
      <2> QED BY <2>1 DEF Says
<1>2. saids \in Seq(Seq(S))
      BY <1>1
<1> HIDE DEF saids
<1>3. FlattenSeq(saids) \in Seq(S)
      BY <1>2, FlattenType
<1> QED BY <1>3 DEF AllSaid, saids

(* The texts of what is held, each without its closing dots.                 *)
Cleared(a) == [i \in DOMAIN a |-> Unstopped(Text(a[i]))]

LEMMA ClearedType ==
  ASSUME NEW a \in Seq(Seq(Frags))
  PROVE  /\ Cleared(a) \in Seq(Seq(Phrases)) /\ Len(Cleared(a)) = Len(a)
         /\ \A i \in 1..Len(a) : Cleared(a)[i] = Unstopped(Text(a[i]))
<1>1. ASSUME NEW i \in 1..Len(a) PROVE Unstopped(Text(a[i])) \in Seq(Phrases)
      <2> DEFINE x == a[i]
      <2>1. x \in Seq(Frags)
            OBVIOUS
      <2> HIDE DEF x
      <2>2. Text(x) \in Seq(Phrases)
            BY <2>1, TextType
      <2>3. Unstopped(Text(x)) \in Seq(Phrases)
            BY <2>2, EchoUnstopped
      <2> QED BY <2>3 DEF x
<1> DEFINE V == Seq(Phrases)
           n == Len(a)
<1>2. Cleared(a) = [i \in 1..n |-> Unstopped(Text(a[i]))] /\ n \in Nat
      BY DEF Cleared
<1>3. \A i \in 1..n : Unstopped(Text(a[i])) \in V
      BY <1>1
<1> HIDE DEF V, n
<1>4. Cleared(a) \in [1..n -> V]
      BY <1>2, <1>3
<1>5. Cleared(a) \in Seq(V) /\ Len(Cleared(a)) = n
      BY <1>2, <1>4
<1>6. \A i \in 1..n : Cleared(a)[i] = Unstopped(Text(a[i]))
      BY <1>2
<1> QED BY <1>5, <1>6 DEF V, n

LEMMA ClearedAppend ==
  ASSUME NEW a \in Seq(Seq(Frags)), NEW x \in Seq(Frags)
  PROVE  Cleared(Append(a, x)) = Append(Cleared(a), Unstopped(Text(x)))
<1> DEFINE b == Append(a, x)
           y == Unstopped(Text(x))
           l == Cleared(b)
           r == Append(Cleared(a), y)
           V == Seq(Phrases)
           c == Cleared(a)
<1>1. b \in Seq(Seq(Frags)) /\ Len(b) = Len(a) + 1 /\ b[Len(a) + 1] = x
      /\ \A i \in 1..Len(a) : b[i] = a[i]
      <2> DEFINE W == Seq(Frags)
      <2>1. a \in Seq(W) /\ x \in W
            OBVIOUS
      <2> HIDE DEF W
      <2>2. b \in Seq(W) /\ Len(b) = Len(a) + 1 /\ b[Len(a) + 1] = x /\ \A i \in 1..Len(a) : b[i] = a[i]
            BY <2>1
      <2> QED BY <2>2 DEF W
<1>2. y \in V
      <2>1. Text(x) \in Seq(Phrases)
            BY TextType
      <2> DEFINE z == Text(x)
      <2> HIDE DEF z
      <2>2. Unstopped(z) \in Seq(Phrases)
            BY <2>1, EchoUnstopped DEF z
      <2> QED BY <2>2 DEF z
<1> HIDE DEF b
<1>3. l \in Seq(V) /\ Len(l) = Len(a) + 1 /\ \A i \in 1..(Len(a) + 1) : l[i] = Unstopped(Text(b[i]))
      BY <1>1, ClearedType
<1>4. c \in Seq(V) /\ Len(c) = Len(a) /\ \A i \in 1..Len(a) : c[i] = Unstopped(Text(a[i]))
      BY ClearedType
<1> HIDE DEF c, l, V
<1>5. r \in Seq(V) /\ Len(r) = Len(a) + 1 /\ r[Len(a) + 1] = y /\ \A i \in 1..Len(a) : r[i] = c[i]
      <2> HIDE DEF y
      <2>1. Append(c, y) \in Seq(V) /\ Len(Append(c, y)) = Len(c) + 1 /\ Append(c, y)[Len(c) + 1] = y
            /\ \A i \in 1..Len(c) : Append(c, y)[i] = c[i]
            BY <1>2, <1>4
      <2> QED BY <2>1, <1>4 DEF c
<1>6. Len(a) \in Nat
      OBVIOUS
<1> HIDE DEF r
<1>7. ASSUME NEW i \in 1..(Len(a) + 1) PROVE l[i] = r[i]
      <2>1. CASE i \in 1..Len(a)
            BY <2>1, <1>1, <1>3, <1>4, <1>5
      <2>2. CASE i = Len(a) + 1
            BY <2>2, <1>1, <1>3, <1>5
      <2>3. i \in 1..Len(a) \/ i = Len(a) + 1
            BY <1>6
      <2> QED BY <2>1, <2>2, <2>3
<1>8. l = r
      <2>1. Len(l) = Len(r) /\ Agree(l, r, Len(l))
            BY <1>3, <1>5, <1>7 DEF Agree
      <2> HIDE DEF y
      <2> QED BY <2>1, <1>3, <1>5 DEF Agree
<1> QED BY <1>8 DEF l, r, b, c

LEMMA JoinedEcho ==
  ASSUME NEW a \in Seq(Seq(Frags))
  PROVE  FlattenSeq(Cleared(a)) \in Seq(Phrases) /\ Echo(FlattenSeq(Cleared(a)), Text(FlattenSeq(a)))
<1> DEFINE Good(b) == FlattenSeq(Cleared(b)) \in Seq(Phrases) /\ Echo(FlattenSeq(Cleared(b)), Text(FlattenSeq(b)))
           W == Seq(Frags)
           T == {n \in Nat : \A b \in Seq(W) : Len(b) = n => Good(b)}
<1>1. 0 \in T
      <2> SUFFICES ASSUME NEW b \in Seq(W), Len(b) = 0 PROVE Good(b)
          BY DEF T
      <2>1. b = <<>>
            <3> HIDE DEF W
            <3> QED BY EmptySeq
      <2>2. Cleared(b) \in Seq(Seq(Phrases)) /\ Len(Cleared(b)) = 0
            BY ClearedType
      <2>3. Cleared(b) = <<>>
            <3> DEFINE c == Cleared(b)
                       V == Seq(Phrases)
            <3>1. c \in Seq(V) /\ Len(c) = 0
                  BY <2>2
            <3> HIDE DEF c, V
            <3>2. c = <<>>
                  BY <3>1, EmptySeq
            <3> QED BY <3>2 DEF c
      <2>4. Text(<<>>) = <<>>
            <3>1. <<>> \in Seq(Frags) /\ Len(<<>>) = 0
                  OBVIOUS
            <3>2. Text(<<>>) \in Seq(Phrases) /\ Len(Text(<<>>)) = 0
                  BY <3>1, TextType
            <3> QED BY <3>2, EmptySeq
      <2>5. <<>> \in Seq(Phrases)
            OBVIOUS
      <2> QED BY <2>1, <2>3, <2>4, <2>5, FlattenEmpty, EchoSelf
<1>2. ASSUME NEW n \in Nat, n \in T PROVE n + 1 \in T
      <2> SUFFICES ASSUME NEW b \in Seq(W), Len(b) = n + 1 PROVE Good(b)
          BY DEF T
      <2>1. PICK s \in Seq(W), x \in W : b = Append(s, x)
            <3> HIDE DEF W
            <3>1. b # <<>>
                  OBVIOUS
            <3> QED BY <3>1, SequenceEmptyOrAppend
      <2>2. Len(s) = n
            <3> HIDE DEF W
            <3>1. Len(Append(s, x)) = Len(s) + 1 /\ Len(s) \in Nat
                  OBVIOUS
            <3> QED BY <2>1, <3>1
      <2>3. Good(s)
            BY <1>2, <2>2 DEF T
      <2> DEFINE c == Cleared(s)
                 y == Unstopped(Text(x))
      <2>4. Text(x) \in Seq(Phrases)
            BY TextType
      <2>5. y \in Seq(Phrases) /\ Echo(y, Text(x))
            BY <2>4, EchoUnstopped
      <2>6. Cleared(b) = Append(c, y)
            BY <2>1, ClearedAppend
      <2>7. c \in Seq(Seq(Phrases))
            BY ClearedType
      <2> HIDE DEF c, y
      <2>8. FlattenSeq(Cleared(b)) = FlattenSeq(c) \o y
            BY <2>5, <2>6, <2>7, FlattenAppend
      <2>9. FlattenSeq(b) = FlattenSeq(s) \o x /\ FlattenSeq(s) \in Seq(Frags)
            BY <2>1, FlattenAppend, FlattenType
      <2>10. Text(FlattenSeq(b)) = Text(FlattenSeq(s)) \o Text(x) /\ Text(FlattenSeq(s)) \in Seq(Phrases)
            BY <2>9, TextConcat, TextType
      <2>11. FlattenSeq(c) \in Seq(Phrases) /\ Echo(FlattenSeq(c), Text(FlattenSeq(s)))
            BY <2>3 DEF c
      <2>12. Echo(FlattenSeq(c) \o y, Text(FlattenSeq(s)) \o Text(x))
            BY <2>4, <2>5, <2>10, <2>11, EchoConcat
      <2>13. FlattenSeq(c) \o y \in Seq(Phrases)
            BY <2>5, <2>11
      <2> QED BY <2>8, <2>10, <2>12, <2>13
<1>3. \A n \in Nat : n \in T
      <2> HIDE DEF T
      <2> QED BY <1>1, <1>2, Induction
<1>4. Len(a) \in Nat
      OBVIOUS
<1> QED BY <1>3, <1>4 DEF T

-----------------------------------------------------------------------------
(* A claim that was acted on is an operator's, and one that prefers the left *)
(* arm holds a "using" that follows something else than a stop.              *)
Statuses == {"interrupted", "interrupt_denied", "observed", "answered", "dialogue_failed", "denied",
             "committed", "authorized"}
Acted == {"interrupted", "authorized", "committed"}
Claims == [said : Seq(Frags), status : Statuses, effect : {"none", "left", "right"}]
Meant(said, H) == \E k \in DOMAIN said :
  said[k].say = "using" /\ said[k].id - 1 \in DOMAIN H /\ H[said[k].id - 1].say # "stop"
Good(c, H) ==
  /\ c.status \in Acted => \A k \in DOMAIN c.said : c.said[k].who \in Operators
  /\ c.effect = "left" => Meant(c.said, H)
AllGood(cs, H) == \A i \in DOMAIN cs : Good(cs[i], H)
InOrder(H) == H \in Seq(Frags) /\ \A j \in DOMAIN H : H[j].id = j

LEMMA StatusKnows ==
  ASSUME NEW text, NEW who, NEW ok \in BOOLEAN
  PROVE  Status(text, who, ok) \in Statuses /\ (Status(text, who, ok) \in Acted => who \in Operators)
<1> DEFINE st == Status(text, who, ok)
<1>1. \/ st \in {"interrupted", "authorized", "committed"} /\ who \in Operators
      \/ st \in {"interrupt_denied", "observed", "answered", "dialogue_failed", "denied"}
      BY DEF Status
<1> HIDE DEF st
<1>2. st \in Statuses /\ (st \in Acted => who \in Operators)
      BY <1>1 DEF Statuses, Acted
<1> QED BY <1>2 DEF st

LEMMA CanonicalKeeps ==
  ASSUME NEW text \in Seq(Phrases)
  PROVE  /\ Canonical(text) \in Seq(Phrases) /\ Len(Canonical(text)) = Len(text)
         /\ \A i \in 1..Len(text) : /\ Canonical(text)[i] = "using" => text[i] = "using"
                                    /\ text[i] = "stop" => Canonical(text)[i] = "stop"
<1>1. CASE Canonical(text) = text
      BY <1>1
<1>2. CASE Canonical(text) = [i \in DOMAIN text |-> IF text[i] = "alto" THEN "stop" ELSE text[i]]
      <2>1. \A i \in 1..Len(text) : text[i] \in Phrases
            OBVIOUS
      <2>2. "stop" \in Phrases
            BY DEF Phrases
      <2> DEFINE c == [i \in DOMAIN text |-> IF text[i] = "alto" THEN "stop" ELSE text[i]]
      <2>3. c \in Seq(Phrases) /\ Len(c) = Len(text)
            BY <2>1, <2>2
      <2>4. \A i \in 1..Len(text) : c[i] = IF text[i] = "alto" THEN "stop" ELSE text[i]
            OBVIOUS
      <2> HIDE DEF c
      <2>5. Canonical(text) = c
            BY <1>2 DEF c
      <2> QED BY <2>3, <2>4, <2>5
<1> QED BY <1>1, <1>2 DEF Canonical

LEMMA PrefersFree ==
  ASSUME NEW text \in Seq(Phrases), Prefers(Canonical(text)) = "left"
  PROVE  Free(text)
<1> DEFINE c == Canonical(text)
<1>1. /\ c \in Seq(Phrases) /\ Len(c) = Len(text)
      /\ \A i \in 1..Len(text) : /\ c[i] = "using" => text[i] = "using"
                                 /\ text[i] = "stop" => c[i] = "stop"
      BY CanonicalKeeps
<1> HIDE DEF c
<1>2. ~Adjacent("stop", "using", c) /\ Has("using", c) /\ Head(c) # "using"
      BY DEF Prefers, Negated, c
<1>3. PICK i \in 1..Len(c) : c[i] = "using"
      BY <1>1, <1>2 DEF Has
<1>4. i # 1
      BY <1>1, <1>2, <1>3
<1>5. i - 1 \in 1..(Len(c) - 1) /\ (i - 1) + 1 = i /\ i \in 2..Len(text)
      BY <1>1, <1>3, <1>4
<1>6. c[i - 1] # "stop"
      BY <1>2, <1>3, <1>5 DEF Adjacent
<1>7. text[i] = "using" /\ text[i - 1] # "stop"
      BY <1>1, <1>3, <1>5, <1>6
<1> QED BY <1>5, <1>7 DEF Free

LEMMA ClaimGood ==
  ASSUME NEW w \in Speakers, NEW said \in Seq(Spoken(w)), said # <<>>, NEW ok \in BOOLEAN,
         NEW text \in Seq(Phrases), Echo(text, Text(said)),
         NEW H, InOrder(H), NEW o \in Nat, o + Len(said) <= Len(H),
         \A k \in 1..Len(said) : H[o + k] = said[k]
  PROVE  Claim(text, said, ok) \in Claims /\ Good(Claim(text, said, ok), H)
<1> DEFINE c == Claim(text, said, ok)
           st == Status(text, w, ok)
<1>1. said \in Seq(Frags) /\ \A i \in DOMAIN said : said[i].who = w
      BY SpokenIsHeard
<1>2. Len(said) \in Nat /\ Len(said) # 0 /\ DOMAIN said = 1..Len(said)
      OBVIOUS
<1>3. Last(said).who = w
      BY <1>1, <1>2 DEF Last
<1> HIDE DEF st
<1> DEFINE eff == IF st = "committed" THEN Prefers(Canonical(text)) ELSE "none"
<1>10. c = [said |-> said, status |-> st, effect |-> eff]
      BY <1>3 DEF Claim, st
<1>4. c.said = said /\ c.status = st /\ c.effect = eff
      /\ c = [said |-> c.said, status |-> c.status, effect |-> c.effect]
      BY <1>10
<1>5. st \in Statuses /\ (st \in Acted => w \in Operators)
      BY StatusKnows DEF st
<1>6. c.effect \in {"none", "left", "right"}
      BY <1>4 DEF Prefers
<1> HIDE DEF c
<1>7. c \in Claims
      BY <1>1, <1>4, <1>5, <1>6 DEF Claims
<1>8. ASSUME c.effect = "left" PROVE Meant(said, H)
      <2>1. Free(text)
            BY <1>4, <1>8, PrefersFree
      <2>2. Free(Text(said))
            BY <2>1 DEF Echo
      <2>3. Len(Text(said)) = Len(said) /\ \A i \in 1..Len(said) : Text(said)[i] = said[i].say
            BY <1>1, TextType
      <2>4. PICK k \in 2..Len(said) : Text(said)[k] = "using" /\ Text(said)[k - 1] # "stop"
            BY <2>2, <2>3 DEF Free
      <2>5. k \in 1..Len(said) /\ k - 1 \in 1..Len(said)
            BY <1>2, <2>4
      <2>6. said[k].say = "using" /\ said[k - 1].say # "stop"
            BY <2>3, <2>4, <2>5
      <2>7. H[o + k] = said[k] /\ H[o + (k - 1)] = said[k - 1]
            BY <2>5
      <2>8. Len(H) \in Nat /\ DOMAIN H = 1..Len(H) /\ \A j \in 1..Len(H) : H[j].id = j
            BY DEF InOrder
      <2>9. o + k \in 1..Len(H) /\ o + (k - 1) \in 1..Len(H) /\ (o + k) - 1 = o + (k - 1)
            BY <1>2, <2>5, <2>8
      <2>10. said[k].id = o + k
            BY <2>7, <2>8, <2>9
      <2>11. said[k].id - 1 \in DOMAIN H /\ H[said[k].id - 1].say # "stop"
            BY <2>6, <2>7, <2>8, <2>9, <2>10
      <2> QED BY <1>2, <2>5, <2>6, <2>11 DEF Meant
<1>9. Good(c, H)
      BY <1>1, <1>4, <1>5, <1>8 DEF Good
<1> QED BY <1>7, <1>9 DEF c

LEMMA GoodStays ==
  ASSUME NEW c \in Claims, NEW H \in Seq(Frags), NEW g \in Frags, Good(c, H)
  PROVE  Good(c, Append(H, g))
<1>1. \A j \in DOMAIN H : j \in DOMAIN Append(H, g) /\ Append(H, g)[j] = H[j]
      OBVIOUS
<1>2. Meant(c.said, H) => Meant(c.said, Append(H, g))
      BY <1>1 DEF Meant
<1> QED BY <1>2 DEF Good

-----------------------------------------------------------------------------
(* The layers.  What was heard (H) is spelled by the claims, what is held    *)
(* and the rest, which is in the buffer or on its way from it.               *)
Layers(n, b, p, h, l, c, r, q) ==
  [number |-> n, buffer |-> b, partial |-> p, held |-> h, last |-> l, claims |-> c, refused |-> r, replies |-> q]
Formed(v) == v = Layers(v.number, v.buffer, v.partial, v.held, v.last, v.claims, v.refused, v.replies)
Piped(v, rest, H) ==
  /\ Formed(v)
  /\ v.number \in Nat /\ v.last \in Nat /\ v.last <= v.number
  /\ v.claims \in Seq(Claims) /\ rest \in Seq(Frags)
  /\ v.held = <<>> \/ \E w \in Speakers : v.held \in Seq(Holds(w))
  /\ AllSaid(v.claims) \o AllSaid(v.held) \o rest = H
  /\ AllGood(v.claims, H)

LEMMA LayersFields ==
  ASSUME NEW n, NEW b, NEW p, NEW h, NEW l, NEW c, NEW r, NEW q, NEW v, v = Layers(n, b, p, h, l, c, r, q)
  PROVE  /\ Formed(v) /\ v.number = n /\ v.buffer = b /\ v.partial = p /\ v.held = h /\ v.last = l /\ v.claims = c
         /\ v.refused = r /\ v.replies = q
BY DEF Formed, Layers

(* One layer changes and the others are as they were.                        *)
LEMMA LayersExcept ==
  ASSUME NEW v, Formed(v), NEW z
  PROVE  /\ [v EXCEPT !.number = z] = Layers(z, v.buffer, v.partial, v.held, v.last, v.claims, v.refused, v.replies)
         /\ [v EXCEPT !.buffer = z] = Layers(v.number, z, v.partial, v.held, v.last, v.claims, v.refused, v.replies)
         /\ [v EXCEPT !.partial = z] = Layers(v.number, v.buffer, z, v.held, v.last, v.claims, v.refused, v.replies)
         /\ [v EXCEPT !.held = z] = Layers(v.number, v.buffer, v.partial, z, v.last, v.claims, v.refused, v.replies)
         /\ [v EXCEPT !.last = z] = Layers(v.number, v.buffer, v.partial, v.held, z, v.claims, v.refused, v.replies)
         /\ [v EXCEPT !.claims = z] = Layers(v.number, v.buffer, v.partial, v.held, v.last, z, v.refused, v.replies)
         /\ [v EXCEPT !.replies = z] = Layers(v.number, v.buffer, v.partial, v.held, v.last, v.claims, v.refused, z)
<1>1. PICK n, b, p, h, l, c, r, q : v = Layers(n, b, p, h, l, c, r, q)
      BY DEF Formed
<1>2. v.number = n /\ v.buffer = b /\ v.partial = p /\ v.held = h /\ v.last = l /\ v.claims = c /\ v.refused = r
      /\ v.replies = q
      BY <1>1, LayersFields
<1>3. [v EXCEPT !.number = z] = Layers(z, b, p, h, l, c, r, q)
      BY <1>1 DEF Layers
<1>4. [v EXCEPT !.buffer = z] = Layers(n, z, p, h, l, c, r, q)
      BY <1>1 DEF Layers
<1>5. [v EXCEPT !.partial = z] = Layers(n, b, z, h, l, c, r, q)
      BY <1>1 DEF Layers
<1>6. [v EXCEPT !.held = z] = Layers(n, b, p, z, l, c, r, q)
      BY <1>1 DEF Layers
<1>7. [v EXCEPT !.last = z] = Layers(n, b, p, h, z, c, r, q)
      BY <1>1 DEF Layers
<1>8. [v EXCEPT !.claims = z] = Layers(n, b, p, h, l, z, r, q)
      BY <1>1 DEF Layers
<1>9. [v EXCEPT !.replies = z] = Layers(n, b, p, h, l, c, r, z)
      BY <1>1 DEF Layers
<1> QED BY <1>2, <1>3, <1>4, <1>5, <1>6, <1>7, <1>8, <1>9

LEMMA ClaimsSay == Says(Claims, Frags)
BY DEF Claims, Says
LEMMA HoldsSay == ASSUME NEW w PROVE Says(Holds(w), Spoken(w)) /\ \A u \in Holds(w) : u.said # <<>>
BY DEF Holds, Says

LEMMA HeldSay ==
  ASSUME NEW w \in Speakers, NEW us \in Seq(Holds(w))
  PROVE  AllSaid(us) \in Seq(Spoken(w)) /\ (us # <<>> => AllSaid(us) # <<>>)
<1> DEFINE R == Holds(w)
           S == Spoken(w)
<1>1. Says(R, S) /\ \A u \in R : u.said # <<>>
      BY HoldsSay
<1>2. us \in Seq(R)
      OBVIOUS
<1> HIDE DEF R, S
<1>3. AllSaid(us) \in Seq(S)
      BY <1>1, <1>2, AllSaidType
<1>4. ASSUME us # <<>> PROVE AllSaid(us) # <<>>
      <2>1. PICK h \in Seq(R), u \in R : us = Append(h, u)
            BY <1>2, <1>4, SequenceEmptyOrAppend
      <2>2. AllSaid(h) \in Seq(S) /\ AllSaid(us) = AllSaid(h) \o u.said
            BY <1>1, <2>1, AllSaidAppend
      <2>3. u.said \in Seq(S) /\ u.said # <<>>
            BY <1>1 DEF Says
      <2> DEFINE a == AllSaid(h)
                 b == u.said
      <2>4. a \in Seq(S) /\ b \in Seq(S) /\ b # <<>>
            BY <2>2, <2>3
      <2> HIDE DEF a, b
      <2>5. a \o b # <<>>
            BY <2>4
      <2> QED BY <2>2, <2>5 DEF a, b
<1> QED BY <1>3, <1>4 DEF S

(* What is said next is one speaker's, and its text echoes it.               *)
Ripe(cs, w, said, text, rest, H) ==
  /\ cs \in Seq(Claims) /\ AllGood(cs, H)
  /\ w \in Speakers /\ said \in Seq(Spoken(w)) /\ said # <<>>
  /\ text \in Seq(Phrases) /\ Echo(text, Text(said))
  /\ InOrder(H) /\ rest \in Seq(Frags)
  /\ AllSaid(cs) \o said \o rest = H

(* A new claim takes its place behind the others.                            *)
LEMMA ClaimDue ==
  ASSUME NEW cs, NEW w, NEW said, NEW text, NEW rest, NEW H, Ripe(cs, w, said, text, rest, H), NEW ok \in BOOLEAN
  PROVE  /\ Append(cs, Claim(text, said, ok)) \in Seq(Claims)
         /\ AllSaid(Append(cs, Claim(text, said, ok))) \o AllSaid(<<>>) \o rest = H
         /\ AllGood(Append(cs, Claim(text, said, ok)), H)
<1> DEFINE c == Claim(text, said, ok)
           a == AllSaid(cs)
           S == Frags
<1> USE DEF Ripe
<1>1. said \in Seq(S)
      BY SpokenIsHeard
<1>2. a \in Seq(S)
      BY ClaimsSay, AllSaidType
<1>3. rest \in Seq(S)
      OBVIOUS
<1> HIDE DEF a, S
<1>4. Len(a) \in Nat /\ Len(a) + Len(said) <= Len(H) /\ \A k \in 1..Len(said) : H[Len(a) + k] = said[k]
      <2>1. (a \o said) \in Seq(S) /\ Len(a \o said) = Len(a) + Len(said) /\ Len(a) \in Nat /\ Len(said) \in Nat
            /\ \A i \in 1..(Len(a) + Len(said)) : (a \o said)[i] = IF i <= Len(a) THEN a[i] ELSE said[i - Len(a)]
            BY <1>1, <1>2, ConcatProperties
      <2> DEFINE b == a \o said
      <2>2. H = b \o rest
            BY DEF a
      <2>3. b \in Seq(S)
            BY <2>1
      <2> HIDE DEF b
      <2>4. Len(H) = Len(b) + Len(rest) /\ Len(b) \in Nat /\ Len(rest) \in Nat
            /\ \A i \in 1..Len(b) : H[i] = b[i]
            BY <1>3, <2>2, <2>3
      <2>5. ASSUME NEW k \in 1..Len(said) PROVE H[Len(a) + k] = said[k]
            <3>1. Len(a) + k \in 1..Len(b) /\ ~(Len(a) + k <= Len(a)) /\ (Len(a) + k) - Len(a) = k
                  BY <2>1 DEF b
            <3>2. H[Len(a) + k] = b[Len(a) + k]
                  BY <2>4, <3>1
            <3>3. b[Len(a) + k] = said[(Len(a) + k) - Len(a)]
                  BY <2>1, <3>1 DEF b
            <3> QED BY <3>1, <3>2, <3>3
      <2> QED BY <2>1, <2>4, <2>5 DEF b
<1>5. c \in Claims /\ Good(c, H)
      <2> DEFINE n == Len(a)
      <2>1. n \in Nat /\ n + Len(said) <= Len(H) /\ \A k \in 1..Len(said) : H[n + k] = said[k]
            BY <1>4
      <2> HIDE DEF n, c
      <2>2. Claim(text, said, ok) \in Claims /\ Good(Claim(text, said, ok), H)
            BY <2>1, ClaimGood
      <2> QED BY <2>2 DEF c
<1>6. c.said = said
      BY DEF Claim
<1> HIDE DEF c
<1>7. AllSaid(Append(cs, c)) = a \o said
      <2>1. AllSaid(Append(cs, c)) = AllSaid(cs) \o c.said
            BY <1>5, ClaimsSay, AllSaidAppend
      <2> QED BY <2>1, <1>6 DEF a
<1>8. (a \o said) \o <<>> = a \o said
      BY <1>1, <1>2
<1>9. AllSaid(Append(cs, c)) \o AllSaid(<<>>) \o rest = H
      BY <1>7, <1>8, AllSaidEmpty DEF a
<1>10. Append(cs, c) \in Seq(Claims)
      BY <1>5
<1>11. ASSUME NEW i \in DOMAIN Append(cs, c) PROVE Good(Append(cs, c)[i], H)
      <2>1. Append(cs, c)[i] = c \/ (i \in DOMAIN cs /\ Append(cs, c)[i] = cs[i])
            BY <1>5
      <2> QED BY <2>1, <1>5 DEF AllGood
<1> QED BY <1>9, <1>10, <1>11 DEF c, AllGood

(* An utterance with a number of its own, when nothing is held.              *)
Due(v, u, w, text, rest, H) ==
  /\ Formed(v) /\ v.number \in Nat /\ v.last \in Nat /\ v.held = <<>>
  /\ u.number \in Nat /\ v.last < u.number /\ u.number <= v.number
  /\ Ripe(v.claims, w, u.said, text, rest, H)

LEMMA IngestKeeps ==
  ASSUME NEW v, NEW u, NEW w, NEW text, NEW rest, NEW H, Due(v, u, w, text, rest, H), NEW ok \in BOOLEAN
  PROVE  /\ Piped(IngestFinal(v, u, text, ok), rest, H)
         /\ IngestFinal(v, u, text, ok).held = <<>> /\ IngestFinal(v, u, text, ok).buffer = v.buffer
<1> USE DEF Due
<1> DEFINE number == u.number
           said == u.said
<1> HIDE DEF number, said
<1>0. u.number = number /\ u.said = said
      BY DEF number, said
<1> DEFINE x == IngestFinal(v, u, text, ok)
           more == Append(v.claims, Claim(text, said, ok))
<1>1. more \in Seq(Claims) /\ AllSaid(more) \o AllSaid(<<>>) \o rest = H /\ AllGood(more, H)
      BY <1>0, ClaimDue
<1> HIDE DEF more
<1>2. ~(number <= v.last)
      BY <1>0
<1>3. x = [[v EXCEPT !.last = number] EXCEPT !.claims = more]
      BY <1>0, <1>2 DEF IngestFinal, more
<1>4. x = Layers(v.number, v.buffer, v.partial, v.held, number, more, v.refused, v.replies)
      <2> DEFINE y == [v EXCEPT !.last = number]
      <2>1. y = Layers(v.number, v.buffer, v.partial, v.held, number, v.claims, v.refused, v.replies)
            BY LayersExcept, Zenon
      <2>2. x = [y EXCEPT !.claims = more]
            BY <1>3
      <2> HIDE DEF y, x
      <2>3. Formed(y) /\ y.number = v.number /\ y.buffer = v.buffer /\ y.partial = v.partial /\ y.held = v.held
            /\ y.last = number /\ y.refused = v.refused /\ y.replies = v.replies
            BY <2>1, LayersFields
      <2>4. [y EXCEPT !.claims = more]
            = Layers(y.number, y.buffer, y.partial, y.held, y.last, more, y.refused, y.replies)
            BY <2>3, LayersExcept, Zenon
      <2> QED BY <2>2, <2>3, <2>4
<1> HIDE DEF x
<1>5. Formed(x) /\ x.number = v.number /\ x.buffer = v.buffer /\ x.held = <<>> /\ x.last = number /\ x.claims = more
      BY <1>4, LayersFields
<1>6. w \in Speakers /\ x.held \in Seq(Holds(w)) /\ rest \in Seq(Frags)
      BY <1>0, <1>5 DEF Ripe
<1>7. Piped(x, rest, H)
      BY <1>0, <1>1, <1>5, <1>6 DEF Piped
<1> QED BY <1>5, <1>7 DEF x

LEMMA Freshened ==
  ASSUME NEW v, Formed(v)
  PROVE  Fresh(v) = Layers(v.number + 1, v.buffer, v.partial, v.held, v.last, v.claims, v.refused, v.replies)
BY LayersExcept, ZenonT(40) DEF Fresh

Emptied(v) == [Fresh(v) EXCEPT !.held = <<>>]

LEMMA EmptiedLayers ==
  ASSUME NEW v, Formed(v)
  PROVE  Emptied(v)
         = Layers(v.number + 1, v.buffer, v.partial, <<>>, v.last, v.claims, v.refused, v.replies)
<1> DEFINE y == Fresh(v)
<1>1. y = Layers(v.number + 1, v.buffer, v.partial, v.held, v.last, v.claims, v.refused, v.replies)
      BY Freshened
<1> HIDE DEF y
<1>2. /\ Formed(y) /\ y.number = v.number + 1 /\ y.buffer = v.buffer /\ y.partial = v.partial /\ y.held = v.held
      /\ y.last = v.last /\ y.claims = v.claims /\ y.refused = v.refused /\ y.replies = v.replies
      BY <1>1, LayersFields
<1>3. [y EXCEPT !.held = <<>>]
      = Layers(y.number, y.buffer, y.partial, <<>>, y.last, y.claims, y.refused, y.replies)
      BY <1>2, LayersExcept, Zenon
<1> QED BY <1>2, <1>3 DEF y, Emptied

(* What is dispatched under the next number, with nothing held any more.     *)
Released(v, u, w, text, rest, H) ==
  /\ Formed(v) /\ v.number \in Nat /\ v.last \in Nat /\ v.last <= v.number
  /\ u.number = v.number + 1
  /\ Ripe(v.claims, w, u.said, text, rest, H)

LEMMA DispatchKeeps ==
  ASSUME NEW v, NEW u, NEW w, NEW text, NEW rest, NEW H, Released(v, u, w, text, rest, H), NEW ok \in BOOLEAN
  PROVE  /\ Piped(IngestFinal(Emptied(v), u, text, ok), rest, H)
         /\ IngestFinal(Emptied(v), u, text, ok).held = <<>>
         /\ IngestFinal(Emptied(v), u, text, ok).buffer = v.buffer
<1> DEFINE y == Emptied(v)
<1>1. y = Layers(v.number + 1, v.buffer, v.partial, <<>>, v.last, v.claims, v.refused, v.replies)
      BY EmptiedLayers DEF Released
<1> HIDE DEF y
<1>2. /\ Formed(y) /\ y.number = v.number + 1 /\ y.buffer = v.buffer /\ y.held = <<>> /\ y.last = v.last
      /\ y.claims = v.claims
      BY <1>1, LayersFields
<1>3. Due(y, u, w, text, rest, H)
      BY <1>2 DEF Released, Due
<1>4. /\ Piped(IngestFinal(y, u, text, ok), rest, H)
      /\ IngestFinal(y, u, text, ok).held = <<>> /\ IngestFinal(y, u, text, ok).buffer = y.buffer
      BY <1>3, IngestKeeps
<1> QED BY <1>2, <1>4 DEF y

LEMMA ReleaseKeeps ==
  ASSUME NEW v, NEW rest, NEW H, Piped(v, rest, H), InOrder(H), NEW ok \in BOOLEAN
  PROVE  Piped(Release(v, ok), rest, H) /\ Release(v, ok).held = <<>> /\ Release(v, ok).buffer = v.buffer
<1>1. CASE v.held = <<>>
      BY <1>1 DEF Release
<1>2. CASE v.held # <<>>
      <2>1. PICK w \in Speakers : v.held \in Seq(Holds(w))
            BY <1>2 DEF Piped
      <2> DEFINE said == AllSaid(v.held)
      <2>2. said \in Seq(Spoken(w)) /\ said # <<>>
            BY <1>2, <2>1, HeldSay
      <2> HIDE DEF said
      <2>3. said \in Seq(Frags)
            BY <2>2, SpokenIsHeard
      <2>4. Text(said) \in Seq(Phrases) /\ Echo(Text(said), Text(said))
            BY <2>3, TextType, EchoSelf
      <2>5. Ripe(v.claims, w, said, Text(said), rest, H)
            BY <2>2, <2>4 DEF Ripe, Piped, said
      <2> DEFINE u == [said |-> said, number |-> v.number + 1]
                 y == Emptied(v)
                 x == Release(v, ok)
      <2>6. Piped(x, rest, H) /\ x.held = <<>> /\ x.buffer = v.buffer
            <3>1. u.said = said /\ u.number = v.number + 1
                  OBVIOUS
            <3>2. x = IngestFinal(y, u, Text(said), ok)
                  BY <1>2 DEF Release, Emptied, said
            <3>3. Released(v, u, w, Text(said), rest, H)
                  BY <2>5, <3>1 DEF Released, Piped
            <3> HIDE DEF u, x
            <3>4. /\ Piped(IngestFinal(y, u, Text(said), ok), rest, H)
                  /\ IngestFinal(y, u, Text(said), ok).held = <<>>
                  /\ IngestFinal(y, u, Text(said), ok).buffer = v.buffer
                  BY <3>3, DispatchKeeps
            <3> QED BY <3>2, <3>4
      <2> QED BY <2>6
<1> QED BY <1>1, <1>2

LEMMA RespondKeeps ==
  ASSUME NEW v, NEW rest, NEW H, Piped(v, rest, H)
  PROVE  Piped(Respond(v), rest, H) /\ Respond(v).held = v.held /\ Respond(v).buffer = v.buffer
<1>1. CASE Respond(v) = v
      BY <1>1
<1>2. CASE Respond(v) = [v EXCEPT !.replies = Append(@, Len(v.claims))]
      <2> DEFINE x == Respond(v)
                 r == Append(v.replies, Len(v.claims))
      <2>1. x = [v EXCEPT !.replies = r]
            BY <1>2
      <2> HIDE DEF x, r
      <2>2. [v EXCEPT !.replies = r]
            = Layers(v.number, v.buffer, v.partial, v.held, v.last, v.claims, v.refused, r)
            BY LayersExcept, ZenonT(40) DEF Piped
      <2>3. Formed(x) /\ x.number = v.number /\ x.buffer = v.buffer /\ x.held = v.held /\ x.last = v.last
            /\ x.claims = v.claims
            BY <2>1, <2>2, LayersFields
      <2>4. Piped(x, rest, H)
            BY <2>3 DEF Piped
      <2> QED BY <2>3, <2>4 DEF x
<1> QED BY <1>1, <1>2 DEF Respond

LEMMA JoinedTextEchoes ==
  ASSUME NEW w \in Speakers, NEW held \in Seq(Holds(w)), NEW said \in Seq(Spoken(w)), NEW number
  PROVE  /\ JoinedText(held, [said |-> said, number |-> number]) \in Seq(Phrases)
         /\ Echo(JoinedText(held, [said |-> said, number |-> number]), Text(AllSaid(held) \o said))
<1> DEFINE a == [i \in DOMAIN held |-> held[i].said]
           S == Frags
           R == Holds(w)
<1>1. said \in Seq(S)
      BY SpokenIsHeard
<1>2. \A u \in R : u.said \in Seq(S)
      BY SpokenIsHeard, HoldsSay DEF Says
<1>3. a \in Seq(Seq(S)) /\ Len(a) = Len(held) /\ \A i \in 1..Len(held) : a[i] = held[i].said
      <2>1. held \in Seq(R)
            OBVIOUS
      <2> DEFINE V == Seq(S)
                 f == [i \in DOMAIN held |-> held[i].said]
      <2> HIDE DEF R
      <2>2. \A i \in 1..Len(held) : held[i].said \in V
            <3>1. \A i \in 1..Len(held) : held[i] \in R
                  BY <2>1
            <3> QED BY <1>2, <3>1
      <2> HIDE DEF V
      <2>3. DOMAIN held = 1..Len(held) /\ Len(held) \in Nat
            BY <2>1
      <2>4. f \in Seq(V) /\ Len(f) = Len(held) /\ \A i \in 1..Len(held) : f[i] = held[i].said
            BY <2>2, <2>3
      <2> QED BY <2>4 DEF V
<1>4. Cleared(a) = [i \in DOMAIN held |-> Unstopped(Text(held[i].said))]
      <2>1. DOMAIN a = DOMAIN held
            OBVIOUS
      <2>2. \A i \in DOMAIN held : a[i] = held[i].said
            OBVIOUS
      <2> HIDE DEF a
      <2> QED BY <2>1, <2>2 DEF Cleared
<1>5. FlattenSeq(a) = AllSaid(held)
      BY DEF AllSaid
<1> DEFINE f == FlattenSeq(Cleared(a))
           j == JoinedText(held, [said |-> said, number |-> number])
<1>6. j = f \o Text(said)
      BY <1>4 DEF JoinedText
<1> HIDE DEF a, j
<1>7. f \in Seq(Phrases) /\ Echo(f, Text(AllSaid(held)))
      BY <1>3, <1>5, JoinedEcho
<1> HIDE DEF f
<1>8. Text(said) \in Seq(Phrases) /\ Echo(Text(said), Text(said))
      BY <1>1, TextType, EchoSelf
<1>9. AllSaid(held) \in Seq(S)
      <2>1. AllSaid(held) \in Seq(Spoken(w))
            BY HeldSay
      <2> DEFINE b == AllSaid(held)
      <2> HIDE DEF b
      <2>2. b \in Seq(Spoken(w)) => b \in Seq(Frags)
            BY SpokenIsHeard
      <2> QED BY <2>1, <2>2 DEF b
<1>10. Text(AllSaid(held)) \in Seq(Phrases) /\ Text(AllSaid(held) \o said) = Text(AllSaid(held)) \o Text(said)
      BY <1>1, <1>9, TextType, TextConcat
<1>11. Echo(f \o Text(said), Text(AllSaid(held)) \o Text(said))
      BY <1>7, <1>8, <1>10, EchoConcat
<1>12. f \o Text(said) \in Seq(Phrases)
      BY <1>7, <1>8
<1> QED BY <1>6, <1>10, <1>11, <1>12 DEF j

(* An utterance joins what is held of the same speaker.                      *)
LEMMA JoinsHeld ==
  ASSUME NEW v, NEW w \in Speakers, NEW u, u.said \in Seq(Spoken(w)) \ {<<>>}, u.number \in Nat,
         u = [said |-> u.said, number |-> u.number],
         NEW H, Piped(v, u.said, H), v.held \in Seq(Holds(w)), InOrder(H)
  PROVE  LET kept == [v EXCEPT !.held = Append(@, u)]
         IN  /\ Piped(kept, <<>>, H) /\ kept.buffer = v.buffer /\ kept.held = Append(v.held, u)
             /\ Ripe(v.claims, w, AllSaid(kept.held), JoinedText(v.held, u), <<>>, H)
<1> DEFINE kept == [v EXCEPT !.held = Append(@, u)]
           h == Append(v.held, u)
           a == AllSaid(v.held)
           said == u.said
           R == Holds(w)
           S == Spoken(w)
<1>1. u \in R
      BY DEF Holds
<1>2. h \in Seq(R) /\ h # <<>>
      BY <1>1
<1>3. a \in Seq(S) /\ AllSaid(h) = a \o said
      BY <1>1, HoldsSay, AllSaidAppend
<1>4. AllSaid(h) \in Seq(S) /\ AllSaid(h) # <<>>
      BY <1>2, HeldSay
<1>5. said \in Seq(Frags) /\ a \in Seq(Frags)
      <2>1. \A q \in Seq(S) : q \in Seq(Frags)
            BY SpokenIsHeard
      <2>2. said \in Seq(S)
            OBVIOUS
      <2> HIDE DEF S, a, said
      <2> QED BY <2>1, <2>2, <1>3
<1> HIDE DEF h, kept
<1>6. kept = Layers(v.number, v.buffer, v.partial, h, v.last, v.claims, v.refused, v.replies)
      <2>1. [v EXCEPT !.held = h] = Layers(v.number, v.buffer, v.partial, h, v.last, v.claims, v.refused, v.replies)
            BY LayersExcept, ZenonT(40) DEF Piped
      <2> QED BY <2>1 DEF kept, h
<1>7. /\ Formed(kept) /\ kept.number = v.number /\ kept.buffer = v.buffer /\ kept.held = h /\ kept.last = v.last
      /\ kept.claims = v.claims
      BY <1>6, LayersFields
<1>8. AllSaid(v.claims) \in Seq(Frags)
      BY ClaimsSay, AllSaidType DEF Piped
<1>9. AllSaid(v.claims) \o AllSaid(h) \o <<>> = H
      <2> DEFINE c == AllSaid(v.claims)
      <2>1. c \in Seq(Frags)
            BY <1>8
      <2>2. c \o a \o said = H
            BY DEF Piped
      <2> HIDE DEF a, c, said
      <2>3. (c \o a) \o said = c \o (a \o said)
            BY ONLY <1>5, <2>1, ConcatAssociative
      <2>4. (c \o (a \o said)) \o <<>> = c \o (a \o said)
            BY <1>5, <2>1
      <2> QED BY <1>3, <2>2, <2>3, <2>4 DEF c
<1>10. <<>> \in Seq(Frags)
      OBVIOUS
<1>11. Piped(kept, <<>>, H)
      BY <1>2, <1>7, <1>9, <1>10 DEF Piped
<1>12. JoinedText(v.held, u) \in Seq(Phrases) /\ Echo(JoinedText(v.held, u), Text(AllSaid(h)))
      BY <1>3, JoinedTextEchoes
<1>13. Ripe(v.claims, w, AllSaid(h), JoinedText(v.held, u), <<>>, H)
      BY <1>4, <1>9, <1>10, <1>12 DEF Ripe, Piped
<1> QED BY <1>7, <1>11, <1>13 DEF h, kept

LEMMA AccumulatorKeeps ==
  ASSUME NEW v0, NEW w \in Speakers, NEW u, u.said \in Seq(Spoken(w)) \ {<<>>}, u.number \in Nat,
         u = [said |-> u.said, number |-> u.number],
         NEW H, Piped(v0, u.said, H), InOrder(H), NEW ok \in BOOLEAN
  PROVE  Piped(AccumulatorFinal(v0, u, ok), <<>>, H) /\ AccumulatorFinal(v0, u, ok).buffer = v0.buffer
<1> DEFINE v == IF v0.held # <<>> /\ Expired(v0.held, u) THEN Release(v0, ok) ELSE v0
           text == JoinedText(v.held, u)
           kept == [v EXCEPT !.held = Append(@, u)]
           joined == [said |-> AllSaid(kept.held), number |-> v.number + 1]
           told == IngestFinal(Emptied(v), joined, text, ok)
<1>1. Piped(v, u.said, H) /\ v.buffer = v0.buffer /\ (v.held = <<>> \/ (v = v0 /\ ~Expired(v.held, u)))
      <2> DEFINE r == Release(v0, ok)
      <2>1. Piped(r, u.said, H) /\ r.held = <<>> /\ r.buffer = v0.buffer
            <3> DEFINE rest == u.said
            <3>1. Piped(v0, rest, H)
                  OBVIOUS
            <3> HIDE DEF rest
            <3>2. Piped(r, rest, H) /\ r.held = <<>> /\ r.buffer = v0.buffer
                  BY <3>1, ReleaseKeeps
            <3> QED BY <3>2 DEF rest
      <2> HIDE DEF r
      <2>2. v = r \/ (v = v0 /\ (v.held = <<>> \/ ~Expired(v.held, u)))
            BY DEF r
      <2> QED BY <2>1, <2>2
<1>2. AccumulatorFinal(v0, u, ok) = IF Complete(text) THEN Respond(told)
                                    ELSE IF Len(kept.held) >= MaxUtterances THEN Respond(Release(kept, ok)) ELSE kept
      BY DEF AccumulatorFinal, Emptied
<1> HIDE DEF v
<1>3. v.held \in Seq(Holds(w))
      <2>1. CASE v.held = <<>>
            BY <2>1
      <2>2. CASE v.held # <<>> /\ ~Expired(v.held, u)
            <3>1. PICK x \in Speakers : v.held \in Seq(Holds(x))
                  BY <1>1, <2>2 DEF Piped
            <3> DEFINE l == Last(v.held)
            <3>2. l \in Holds(x)
                  BY <2>2, <3>1 DEF Last
            <3> HIDE DEF l
            <3>3. l.said \in Seq(Spoken(x)) /\ l.said # <<>>
                  BY <3>2 DEF Holds
            <3>4. Last(l.said) \in Spoken(x)
                  BY <3>3 DEF Last
            <3>5. Last(l.said).who = x
                  BY <3>4 DEF Spoken
            <3>6. Head(u.said) \in Spoken(w)
                  OBVIOUS
            <3>7. Head(u.said).who = w
                  BY <3>6 DEF Spoken
            <3>8. Head(u.said).who = Last(l.said).who
                  BY <2>2 DEF Expired, l
            <3> QED BY <3>1, <3>5, <3>7, <3>8
      <2> QED BY <1>1, <2>1, <2>2
<1>4. /\ Piped(kept, <<>>, H) /\ kept.buffer = v.buffer
      /\ Ripe(v.claims, w, AllSaid(kept.held), text, <<>>, H)
      BY <1>1, <1>3, JoinsHeld
<1> HIDE DEF text, kept
<1>5. Released(v, joined, w, text, <<>>, H)
      BY <1>1, <1>4 DEF Released, Piped
<1> HIDE DEF joined
<1>6. Piped(told, <<>>, H) /\ told.buffer = v.buffer
      BY <1>5, DispatchKeeps
<1> HIDE DEF told
<1>7. Piped(Respond(told), <<>>, H) /\ Respond(told).buffer = v.buffer
      BY <1>6, RespondKeeps
<1>8. Piped(Release(kept, ok), <<>>, H) /\ Release(kept, ok).buffer = v.buffer
      BY <1>4, ReleaseKeeps
<1>9. Piped(Respond(Release(kept, ok)), <<>>, H) /\ Respond(Release(kept, ok)).buffer = v.buffer
      BY <1>8, RespondKeeps
<1> QED BY <1>1, <1>2, <1>4, <1>7, <1>9

-----------------------------------------------------------------------------
(* The buffer is one speaker's, and with the claims and what is held it      *)
(* spells what was heard.                                                    *)
Whole(v, H) == Piped(v, v.buffer, H) /\ (v.buffer = <<>> \/ \E w \in Speakers : v.buffer \in Seq(Spoken(w)))

LEMMA OneMore == ASSUME NEW m \in Nat, NEW n \in Nat, m <= n PROVE m <= n + 1 /\ n + 1 \in Nat
OBVIOUS

LEMMA SamePipe ==
  ASSUME NEW v, NEW y, NEW rest, NEW H, Piped(v, rest, H), Formed(y), y.number \in Nat, v.last <= y.number,
         y.held = v.held, y.last = v.last, y.claims = v.claims
  PROVE  Piped(y, rest, H)
BY DEF Piped

LEMMA FreshKeeps ==
  ASSUME NEW v, NEW H, Whole(v, H)
  PROVE  Whole(Fresh(v), H) /\ Fresh(v).held = v.held /\ Fresh(v).buffer = v.buffer
<1> DEFINE y == Fresh(v)
<1>1. y = Layers(v.number + 1, v.buffer, v.partial, v.held, v.last, v.claims, v.refused, v.replies)
      BY Freshened DEF Whole, Piped
<1> HIDE DEF y
<1>2. /\ Formed(y) /\ y.number = v.number + 1 /\ y.buffer = v.buffer /\ y.held = v.held
      /\ y.last = v.last /\ y.claims = v.claims
      BY <1>1, LayersFields
<1>3. v.last <= v.number + 1 /\ v.number + 1 \in Nat
      BY OneMore DEF Whole, Piped
<1>4. Piped(y, v.buffer, H)
      BY <1>2, <1>3, SamePipe DEF Whole
<1> QED BY <1>2, <1>4 DEF Whole, y

LEMMA FlushKeeps ==
  ASSUME NEW v, NEW H, Whole(v, H), InOrder(H), NEW ok \in BOOLEAN
  PROVE  Whole(Flush(v, ok), H) /\ Piped(Flush(v, ok), <<>>, H) /\ Flush(v, ok).buffer = <<>>
<1>1. CASE v.buffer = <<>>
      BY <1>1 DEF Flush, Whole
<1>2. CASE v.buffer # <<>>
      <2> DEFINE y == Fresh(v)
                 e == [y EXCEPT !.buffer = <<>>]
                 z == [e EXCEPT !.partial = "none"]
                 u == [said |-> v.buffer, number |-> v.number + 1]
                 x == AccumulatorFinal(z, u, ok)
      <2>1. PICK w \in Speakers : v.buffer \in Seq(Spoken(w))
            BY <1>2 DEF Whole
      <2>2. y = Layers(v.number + 1, v.buffer, v.partial, v.held, v.last, v.claims, v.refused, v.replies)
            BY Freshened DEF Whole, Piped
      <2>3. Flush(v, ok) = x
            BY <1>2 DEF Flush
      <2> HIDE DEF y, x
      <2>4. /\ Formed(y) /\ y.number = v.number + 1 /\ y.partial = v.partial /\ y.held = v.held
            /\ y.last = v.last /\ y.claims = v.claims /\ y.refused = v.refused /\ y.replies = v.replies
            BY <2>2, LayersFields
      <2>5. e = Layers(y.number, <<>>, y.partial, y.held, y.last, y.claims, y.refused, y.replies)
            BY <2>4, LayersExcept, Zenon
      <2> HIDE DEF e
      <2>6. /\ Formed(e) /\ e.number = v.number + 1 /\ e.buffer = <<>> /\ e.held = v.held
            /\ e.last = v.last /\ e.claims = v.claims
            BY <2>4, <2>5, LayersFields
      <2>7. z = Layers(e.number, e.buffer, "none", e.held, e.last, e.claims, e.refused, e.replies)
            BY <2>6, LayersExcept, Zenon
      <2> HIDE DEF z
      <2>8. /\ Formed(z) /\ z.number = v.number + 1 /\ z.buffer = <<>> /\ z.held = v.held
            /\ z.last = v.last /\ z.claims = v.claims
            BY <2>6, <2>7, LayersFields
      <2>9. Piped(z, v.buffer, H)
            <3>1. v.last <= v.number + 1 /\ v.number + 1 \in Nat
                  BY OneMore DEF Whole, Piped
            <3> QED BY <2>8, <3>1, SamePipe DEF Whole
      <2>10. u.said \in Seq(Spoken(w)) \ {<<>>} /\ u.number \in Nat /\ u = [said |-> u.said, number |-> u.number]
             /\ Piped(z, u.said, H)
            <3>1. u.said = v.buffer /\ u.number = v.number + 1
                  OBVIOUS
            <3>2. v.number + 1 \in Nat
                  BY DEF Whole, Piped
            <3>3. u = [said |-> u.said, number |-> u.number]
                  OBVIOUS
            <3> HIDE DEF u
            <3> QED BY <1>2, <2>1, <2>9, <3>1, <3>2, <3>3
      <2> HIDE DEF u
      <2>11. Piped(x, <<>>, H) /\ x.buffer = z.buffer
            BY <2>10, AccumulatorKeeps DEF x
      <2>12. Whole(x, H)
            BY <2>8, <2>11 DEF Whole
      <2> QED BY <2>3, <2>8, <2>11, <2>12
<1> QED BY <1>1, <1>2

LEMMA OfferKeeps ==
  ASSUME NEW v0, NEW H, Whole(v0, H), InOrder(H), NEW w \in Speakers, NEW g \in Spoken(w), g.id = Len(H) + 1,
         NEW ok \in BOOLEAN
  PROVE  Whole(Offer(v0, g, ok), Append(H, g)) /\ InOrder(Append(H, g))
<1> DEFINE v == IF ShouldClose(v0, g) THEN Flush(v0, ok) ELSE v0
           grown == [v EXCEPT !.buffer = Append(@, g)]
           b == Append(v.buffer, g)
           more == Append(H, g)
<1>1. Whole(v, H) /\ (v.buffer = <<>> \/ ~ShouldClose(v, g))
      BY FlushKeeps
<1>2. Offer(v0, g, ok) = IF FlushesAtOnce(grown, g) THEN Flush(grown, ok) ELSE grown
      BY DEF Offer
<1> HIDE DEF v
<1>3. g.who = w /\ g \in Frags
      BY DEF Spoken, Frags
<1>4. InOrder(more)
      <2>1. H \in Seq(Frags) /\ \A j \in DOMAIN H : H[j].id = j
            BY DEF InOrder
      <2>2. more \in Seq(Frags)
            BY <1>3, <2>1
      <2>3. ASSUME NEW j \in DOMAIN more PROVE more[j].id = j
            <3>1. (j \in DOMAIN H /\ more[j] = H[j]) \/ (j = Len(H) + 1 /\ more[j] = g)
                  BY <2>1
            <3> QED BY <2>1, <3>1
      <2> QED BY <2>2, <2>3 DEF InOrder
<1>5. v.buffer \in Seq(Spoken(w))
      <2>1. CASE v.buffer = <<>>
            BY <2>1
      <2>2. CASE v.buffer # <<>>
            <3>1. PICK x \in Speakers : v.buffer \in Seq(Spoken(x))
                  BY <1>1, <2>2 DEF Whole
            <3>2. Last(v.buffer) \in Spoken(x)
                  BY <2>2, <3>1 DEF Last
            <3>3. Last(v.buffer).who = x
                  BY <3>2 DEF Spoken
            <3>4. g.who = Last(v.buffer).who
                  BY <1>1, <2>2 DEF ShouldClose
            <3> QED BY <1>3, <3>1, <3>3, <3>4
      <2> QED BY <2>1, <2>2
<1>6. b \in Seq(Spoken(w))
      BY <1>5
<1>7. v.buffer \in Seq(Frags) /\ b \in Seq(Frags)
      <2> DEFINE a == v.buffer
      <2> HIDE DEF a, b
      <2>1. a \in Seq(Spoken(w)) /\ b \in Seq(Spoken(w))
            BY <1>5, <1>6 DEF a
      <2>2. a \in Seq(Frags) /\ b \in Seq(Frags)
            BY <2>1, SpokenIsHeard
      <2> QED BY <2>2 DEF a
<1>8. AllSaid(v.claims) \o AllSaid(v.held) \o b = more
      <2> DEFINE c == AllSaid(v.claims)
                 h == AllSaid(v.held)
                 a == v.buffer
      <2>1. c \o h \o a = H
            BY <1>1 DEF Whole, Piped
      <2>2. c \in Seq(Frags)
            BY <1>1, ClaimsSay, AllSaidType DEF Whole, Piped
      <2>3. h \in Seq(Frags)
            <3>1. CASE v.held = <<>>
                  <4>1. <<>> \in Seq(Frags)
                        OBVIOUS
                  <4> QED BY <3>1, <4>1, AllSaidEmpty
            <3>2. CASE v.held # <<>>
                  <4>1. PICK x \in Speakers : v.held \in Seq(Holds(x))
                        BY <1>1, <3>2 DEF Whole, Piped
                  <4>2. h \in Seq(Spoken(x))
                        BY <4>1, HeldSay
                  <4> HIDE DEF h
                  <4> QED BY <4>2, SpokenIsHeard
            <3> QED BY <3>1, <3>2
      <2> HIDE DEF c, h
      <2> DEFINE d == c \o h
      <2>4. d \in Seq(Frags)
            BY <2>2, <2>3
      <2>5. a \in Seq(Frags) /\ b = Append(a, g) /\ d \o a = H
            BY <1>7, <2>1
      <2> HIDE DEF d, a, b
      <2>6. Append(a, g) = a \o <<g>> /\ <<g>> \in Seq(Frags) /\ Append(H, g) = H \o <<g>>
            <3>1. H \in Seq(Frags)
                  BY DEF InOrder
            <3> QED BY <1>3, <2>5, <3>1, AppendIsConcat
      <2>7. d \o (a \o <<g>>) = (d \o a) \o <<g>>
            <3> DEFINE e == <<g>>
            <3>1. e \in Seq(Frags)
                  BY <2>6
            <3> HIDE DEF e
            <3>2. d \o (a \o e) = (d \o a) \o e
                  <4>1. a \in Seq(Frags)
                        BY <2>5
                  <4> QED BY ONLY <2>4, <3>1, <4>1, ConcatAssociative
            <3> QED BY <3>2 DEF e
      <2> QED BY <2>5, <2>6, <2>7 DEF c, d, h
<1>9. AllGood(v.claims, more)
      <2>1. v.claims \in Seq(Claims) /\ AllGood(v.claims, H)
            BY <1>1 DEF Whole, Piped
      <2>2. ASSUME NEW i \in DOMAIN v.claims PROVE Good(v.claims[i], more)
            <3> DEFINE c == v.claims[i]
            <3>1. c \in Claims /\ Good(c, H)
                  BY <2>1 DEF AllGood
            <3>2. H \in Seq(Frags)
                  BY DEF InOrder
            <3> HIDE DEF c
            <3>3. Good(c, Append(H, g))
                  BY <1>3, <3>1, <3>2, GoodStays
            <3> QED BY <3>3 DEF c
      <2> QED BY <2>2 DEF AllGood
<1> HIDE DEF grown, b, more
<1>10. grown = Layers(v.number, b, v.partial, v.held, v.last, v.claims, v.refused, v.replies)
      <2>1. [v EXCEPT !.buffer = b] = Layers(v.number, b, v.partial, v.held, v.last, v.claims, v.refused, v.replies)
            BY <1>1, LayersExcept, Zenon DEF Whole, Piped
      <2> QED BY <2>1 DEF grown, b
<1>11. /\ Formed(grown) /\ grown.number = v.number /\ grown.buffer = b /\ grown.held = v.held
       /\ grown.last = v.last /\ grown.claims = v.claims
      BY <1>10, LayersFields
<1>12. Piped(grown, b, more)
      BY <1>1, <1>7, <1>8, <1>9, <1>11 DEF Whole, Piped
<1>13. Whole(grown, more)
      BY <1>6, <1>11, <1>12 DEF Whole
<1>14. Whole(Flush(grown, ok), more)
      BY <1>4, <1>13, FlushKeeps
<1> QED BY <1>2, <1>4, <1>13, <1>14 DEF more

-----------------------------------------------------------------------------
LEMMA ReleaseWhole ==
  ASSUME NEW v, NEW H, Whole(v, H), InOrder(H), NEW ok \in BOOLEAN
  PROVE  /\ Whole(Release(v, ok), H) /\ Release(v, ok).held = <<>> /\ Release(v, ok).buffer = v.buffer
         /\ Whole(Respond(Release(v, ok)), H)
<1> DEFINE y == Release(v, ok)
           z == Respond(y)
<1>1. Piped(y, v.buffer, H) /\ y.held = <<>> /\ y.buffer = v.buffer
      BY ReleaseKeeps DEF Whole
<1> HIDE DEF y
<1>2. Piped(z, v.buffer, H) /\ z.buffer = y.buffer
      BY <1>1, RespondKeeps
<1> HIDE DEF z
<1>3. Whole(y, H)
      BY <1>1 DEF Whole
<1>4. Whole(z, H)
      BY <1>1, <1>2 DEF Whole
<1> QED BY <1>1, <1>3, <1>4 DEF y, z

LEMMA CloseKeeps ==
  ASSUME NEW v, NEW H, Whole(v, H), InOrder(H), NEW ok \in BOOLEAN
  PROVE  Whole(Close(v, ok), H) /\ Close(v, ok).held = <<>> /\ Close(v, ok).buffer = <<>>
<1> DEFINE y == Flush(v, ok)
<1>1. Whole(y, H) /\ y.buffer = <<>>
      BY FlushKeeps
<1> HIDE DEF y
<1>2. Whole(Release(y, ok), H) /\ Release(y, ok).held = <<>> /\ Release(y, ok).buffer = <<>>
      BY <1>1, ReleaseWhole
<1> QED BY <1>2 DEF Close, y

(* A partial takes a number, and the runtime has seen it.                    *)
Heeded(v, hypothesis) == [Fresh(v) EXCEPT !.partial = hypothesis, !.last = v.number + 1]

LEMMA PartialKeeps ==
  ASSUME NEW v, NEW H, Whole(v, H), NEW hypothesis
  PROVE  Whole(Heeded(v, hypothesis), H)
<1> DEFINE y == Fresh(v)
           p == [y EXCEPT !.partial = hypothesis]
           n == v.number + 1
           z == [p EXCEPT !.last = n]
<1>1. y = Layers(v.number + 1, v.buffer, v.partial, v.held, v.last, v.claims, v.refused, v.replies)
      BY Freshened DEF Whole, Piped
<1>2. Heeded(v, hypothesis) = z
      BY DEF Heeded
<1>3. n \in Nat /\ v.number + 1 = n
      BY DEF Whole, Piped
<1> HIDE DEF y, z, n
<1>4. /\ Formed(y) /\ y.number = n /\ y.buffer = v.buffer /\ y.held = v.held
      /\ y.claims = v.claims
      BY <1>1, <1>3, LayersFields
<1>5. p = Layers(y.number, y.buffer, hypothesis, y.held, y.last, y.claims, y.refused, y.replies)
      BY <1>4, LayersExcept, Zenon
<1> HIDE DEF p
<1>6. /\ Formed(p) /\ p.number = n /\ p.buffer = v.buffer /\ p.held = v.held
      /\ p.claims = v.claims
      BY <1>4, <1>5, LayersFields
<1>7. z = Layers(p.number, p.buffer, p.partial, p.held, n, p.claims, p.refused, p.replies)
      BY <1>6, LayersExcept, Zenon DEF z
<1>8. /\ Formed(z) /\ z.number = n /\ z.buffer = v.buffer /\ z.held = v.held /\ z.last = n
      /\ z.claims = v.claims
      BY <1>6, <1>7, LayersFields
<1>9. n <= n
      BY <1>3
<1>10. Piped(z, v.buffer, H)
      BY <1>3, <1>8, <1>9 DEF Whole, Piped
<1> QED BY <1>2, <1>8, <1>10 DEF Whole

Played(v) == [v EXCEPT !.replies = Tail(@)]

LEMMA PlayKeeps ==
  ASSUME NEW v, NEW H, Whole(v, H)
  PROVE  Whole(Played(v), H) /\ Played(v).buffer = v.buffer /\ Played(v).held = v.held
<1> DEFINE x == Played(v)
           r == Tail(v.replies)
<1>1. x = [v EXCEPT !.replies = r]
      BY DEF Played
<1> HIDE DEF x, r
<1>2. [v EXCEPT !.replies = r]
      = Layers(v.number, v.buffer, v.partial, v.held, v.last, v.claims, v.refused, r)
      BY LayersExcept, ZenonT(40) DEF Whole, Piped
<1>3. Formed(x) /\ x.number = v.number /\ x.buffer = v.buffer /\ x.held = v.held /\ x.last = v.last
      /\ x.claims = v.claims
      BY <1>1, <1>2, LayersFields
<1>4. Piped(x, v.buffer, H)
      BY <1>3 DEF Whole, Piped
<1> QED BY <1>3, <1>4 DEF Whole, x

LEMMA BeginsWhole == Whole(PipeInit, <<>>)
<1> DEFINE none == <<>>
           c == AllSaid(none)
<1>1. PipeInit = Layers(0, none, "none", none, 0, none, none, none)
      BY DEF PipeInit, Layers
<1> HIDE DEF none
<1>2. /\ Formed(PipeInit) /\ PipeInit.number = 0 /\ PipeInit.buffer = none /\ PipeInit.held = none
      /\ PipeInit.last = 0 /\ PipeInit.claims = none
      BY <1>1, LayersFields
<1>3. c = <<>>
      BY AllSaidEmpty DEF none
<1>4. none \in Seq(Claims) /\ none \in Seq(Frags) /\ none = <<>> /\ none \o none \o none = none /\ DOMAIN none = {}
      BY DEF none
<1>5. AllSaid(none) \o AllSaid(none) \o none = none
      BY <1>3, <1>4
<1>6. AllGood(none, none)
      BY <1>4 DEF AllGood
<1>7. Piped(PipeInit, none, none)
      BY <1>2, <1>4, <1>5, <1>6 DEF Piped
<1> QED BY <1>2, <1>4, <1>7 DEF Whole

(* Once the line is drained nothing is on its way any more.                  *)
SpeechInv ==
  /\ InOrder(heard) /\ Whole(pipe, heard)
  /\ line \in {"drained", "raised", "receipt"} => pipe.buffer = <<>> /\ pipe.held = <<>>
  /\ line = "receipt" => pipe.replies = <<>>

LEMMA SpeechInvInit == VoiceInit => SpeechInv
<1> SUFFICES ASSUME VoiceInit PROVE SpeechInv
    OBVIOUS
<1>1. heard = <<>> /\ pipe = PipeInit /\ line = "open"
      BY DEF VoiceInit
<1>2. <<>> \in Seq(Frags) /\ DOMAIN <<>> = {}
      OBVIOUS
<1>3. InOrder(heard)
      BY <1>1, <1>2 DEF InOrder
<1> QED BY <1>1, <1>3, BeginsWhole DEF SpeechInv

LEMMA SpeechInvStep == SpeechInv /\ [VoiceNext]_voice => SpeechInv'
<1> SUFFICES ASSUME SpeechInv, [VoiceNext]_voice PROVE SpeechInv'
    OBVIOUS
<1>1. InOrder(heard) /\ Whole(pipe, heard)
      BY DEF SpeechInv
<1>2. CASE HearFinal
      <2>1. PICK f \in Speech, ok \in BOOLEAN :
              /\ line = "open"
              /\ LET g == [id |-> Len(heard) + 1, who |-> f.who, say |-> f.say, gap |-> f.gap]
                 IN  heard' = Append(heard, g) /\ pipe' = Offer(Fresh(pipe), g, ok)
              /\ line' = line
            BY <1>2 DEF HearFinal
      <2> DEFINE g == [id |-> Len(heard) + 1, who |-> f.who, say |-> f.say, gap |-> f.gap]
                 y == Fresh(pipe)
      <2>2. f.who \in Speakers /\ f.say \in Phrases /\ f.gap \in Gaps
            BY VoiceAssumption DEF Gaps
      <2>3. Len(heard) + 1 \in Nat
            BY <1>1 DEF InOrder
      <2>4. g \in Spoken(f.who) /\ g.id = Len(heard) + 1
            BY <2>2, <2>3 DEF Spoken
      <2>5. Whole(y, heard)
            BY <1>1, FreshKeeps
      <2>6. heard' = Append(heard, g) /\ pipe' = Offer(y, g, ok)
            BY <2>1
      <2> HIDE DEF g, y
      <2>7. Whole(Offer(y, g, ok), Append(heard, g)) /\ InOrder(Append(heard, g))
            BY <1>1, <2>2, <2>4, <2>5, OfferKeeps
      <2> QED BY <2>1, <2>6, <2>7 DEF SpeechInv
<1>3. CASE HearPartial
      <2>1. PICK hypothesis \in {"urgent", "other"} :
              /\ line = "open" /\ pipe' = Heeded(pipe, hypothesis) /\ heard' = heard /\ line' = line
            BY <1>3 DEF HearPartial, Heeded
      <2>2. Whole(pipe', heard)
            BY <1>1, <2>1, PartialKeeps
      <2> QED BY <1>1, <2>1, <2>2 DEF SpeechInv
<1>4. CASE HearSilence
      <2>1. PICK ok \in BOOLEAN : /\ line \in {"open", "ended"} /\ pipe' = Flush(pipe, ok)
                                  /\ heard' = heard /\ line' = line
            BY <1>4 DEF HearSilence
      <2>2. Whole(pipe', heard)
            BY <1>1, <2>1, FlushKeeps
      <2> QED BY <1>1, <2>1, <2>2 DEF SpeechInv
<1>5. CASE AccumulatorTick
      <2>1. PICK ok \in BOOLEAN : /\ line \in {"open", "ended"} /\ pipe' = Release(pipe, ok)
                                  /\ heard' = heard /\ line' = line
            BY <1>5 DEF AccumulatorTick
      <2>2. Whole(pipe', heard)
            BY <1>1, <2>1, ReleaseWhole
      <2> QED BY <1>1, <2>1, <2>2 DEF SpeechInv
<1>6. CASE TurnSignal
      <2>1. PICK ok \in BOOLEAN : /\ line = "open" /\ heard' = heard /\ line' = line
                                  /\ \/ pipe' = Flush(pipe, ok)
                                     \/ pipe' = Respond(Release(Flush(pipe, ok), ok))
            BY <1>6 DEF TurnSignal
      <2> DEFINE y == Flush(pipe, ok)
      <2>2. Whole(y, heard)
            BY <1>1, FlushKeeps
      <2>3. pipe' = y \/ pipe' = Respond(Release(y, ok))
            BY <2>1
      <2> HIDE DEF y
      <2>4. Whole(Respond(Release(y, ok)), heard)
            BY <1>1, <2>2, ReleaseWhole
      <2>5. Whole(pipe', heard)
            BY <2>2, <2>3, <2>4
      <2> QED BY <1>1, <2>1, <2>5 DEF SpeechInv
<1>7. CASE EndOfTranscript \/ ProviderFails \/ SocketBreaks
      BY <1>1, <1>7 DEF SpeechInv, EndOfTranscript, ProviderFails, SocketBreaks
<1>8. CASE Drain
      <2>1. PICK ok \in BOOLEAN : /\ pipe' = Close(pipe, ok) /\ heard' = heard /\ line' \in {"raised", "drained"}
            BY <1>8 DEF Drain
      <2>2. Whole(pipe', heard) /\ pipe'.buffer = <<>> /\ pipe'.held = <<>>
            BY <1>1, <2>1, CloseKeeps
      <2> QED BY <1>1, <2>1, <2>2 DEF SpeechInv
<1>9. CASE PlayReply
      <2>1. pipe.replies # <<>> /\ pipe' = Played(pipe) /\ heard' = heard /\ line' = line
            BY <1>9 DEF PlayReply, Played
      <2>2. Whole(pipe', heard) /\ pipe'.buffer = pipe.buffer /\ pipe'.held = pipe.held
            BY <1>1, <2>1, PlayKeeps
      <2> QED BY <1>1, <2>1, <2>2 DEF SpeechInv
<1>10. CASE WriteReceipt
      BY <1>1, <1>10 DEF SpeechInv, WriteReceipt
<1>11. CASE UNCHANGED voice
      BY <1>1, <1>11 DEF SpeechInv, voice
<1> QED BY <1>2, <1>3, <1>4, <1>5, <1>6, <1>7, <1>8, <1>9, <1>10, <1>11 DEF VoiceNext

LEMMA SpeechInvIntact == SpeechInv => SpeechIntact
<1> SUFFICES ASSUME SpeechInv PROVE SpeechIntact
    OBVIOUS
<1> DEFINE cs == pipe.claims
           c == AllSaid(cs)
<1>1. /\ InOrder(heard) /\ c \o AllSaid(pipe.held) \o pipe.buffer = heard
      /\ cs \in Seq(Claims) /\ AllGood(cs, heard)
      BY DEF SpeechInv, Whole, Piped
<1>2. line = "receipt" => c = heard /\ pipe.replies = <<>>
      <2> SUFFICES ASSUME line = "receipt" PROVE c = heard /\ pipe.replies = <<>>
          OBVIOUS
      <2>1. pipe.replies = <<>> /\ pipe.held = <<>> /\ pipe.buffer = <<>>
            BY DEF SpeechInv
      <2>2. c \in Seq(Frags)
            BY <1>1, ClaimsSay, AllSaidType
      <2> HIDE DEF c
      <2>3. c \o AllSaid(<<>>) \o <<>> = heard
            BY <1>1, <2>1
      <2> QED BY <2>1, <2>2, <2>3, AllSaidEmpty
<1>3. ASSUME NEW i \in DOMAIN cs
      PROVE  /\ cs[i].status \in {"interrupted", "authorized", "committed"} =>
                  \A k \in DOMAIN cs[i].said : cs[i].said[k].who \in Operators
             /\ cs[i].effect = "left" => Meant(cs[i].said, heard)
      BY <1>1 DEF AllGood, Good, Acted
<1>4. ASSUME NEW said, Meant(said, heard), said \in Seq(Frags)
      PROVE  \E k \in DOMAIN said :
               said[k].say = "using" /\ (said[k].id = 1 \/ heard[said[k].id - 1].say # "stop"
                                         \/ heard[said[k].id - 1].who # said[k].who)
      BY <1>4 DEF Meant
<1>5. ASSUME NEW i \in DOMAIN cs PROVE cs[i].said \in Seq(Frags)
      <2> DEFINE one == cs[i]
      <2>1. one \in Claims
            BY <1>1
      <2> HIDE DEF one
      <2>2. one.said \in Seq(Frags)
            BY <2>1 DEF Claims
      <2> QED BY <2>2 DEF one
<1>6. NeverInverted
      <2> SUFFICES ASSUME NEW i \in DOMAIN pipe.claims, pipe.claims[i].effect = "left"
                   PROVE  \E k \in DOMAIN pipe.claims[i].said :
                            LET f == pipe.claims[i].said[k]
                            IN  f.say = "using" /\ (f.id = 1 \/ heard[f.id - 1].say # "stop"
                                                     \/ heard[f.id - 1].who # f.who)
          BY DEF NeverInverted
      <2> DEFINE said == cs[i].said
      <2>1. Meant(said, heard) /\ said \in Seq(Frags)
            BY <1>3, <1>5
      <2> HIDE DEF said
      <2>2. \E k \in DOMAIN said :
              said[k].say = "using" /\ (said[k].id = 1 \/ heard[said[k].id - 1].say # "stop"
                                         \/ heard[said[k].id - 1].who # said[k].who)
            BY <1>4, <2>1
      <2> QED BY <2>2 DEF said
<1> QED BY <1>1, <1>2, <1>3, <1>6 DEF SpeechIntact

(* Whatever the UtteranceAggregator cuts, the IntentAccumulator holds,       *)
(* expires, joins and releases, and VoiceRuntime.ingest_final answers, for   *)
(* any speakers, authority and speech: the claims, what is held and what is  *)
(* buffered are what was heard, in order and once; a receipt is written when *)
(* every word is a claim; a claim that is acted on was spoken by operators   *)
(* only; and "stop ... using the left arm" is never an order for that arm.   *)
THEOREM SpeechStaysIntact == VoiceSpec => []SpeechIntact
<1>1. VoiceInit => SpeechInv
      BY SpeechInvInit
<1>2. SpeechInv /\ [VoiceNext]_voice => SpeechInv'
      BY SpeechInvStep
<1>3. SpeechInv => SpeechIntact
      BY SpeechInvIntact
<1> QED BY <1>1, <1>2, <1>3, PTL DEF VoiceSpec
=============================================================================
