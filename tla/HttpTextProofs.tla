--------------------------- MODULE HttpTextProofs ---------------------------
(* What httplib and the handlers read from a text, proved for every text.  *)
(* The definitions they rest on are recursive functions; the provers'      *)
(* induction is the least element of a set of naturals.                    *)
EXTENDS HttpText, FiniteSetTheorems, SequenceTheorems, TLAPS

-----------------------------------------------------------------------------
(* Induction and recursion.                                                *)

NatLess == {ss \in Nat \X Nat : ss[1] < ss[2]}

LEMMA LeastNat ==
  ASSUME NEW T, T \subseteq Nat, T # {}
  PROVE  \E n \in T : \A m \in T : n <= m
<1>1. IsWellFoundedOn(NatLess, Nat)
  BY NatLessThanWellFounded DEF OpToRel, NatLess
<1>2. PICK n \in T : \A m \in T : <<m, n>> \notin NatLess
  BY <1>1, WFMin
<1>3. \A m \in T : ~ (m < n)
  BY <1>2 DEF NatLess
<1> QED BY <1>3

(* What follows for n from all that is below it holds for every n.         *)
LEMMA Induction ==
  ASSUME NEW S, \A n \in Nat : (\A m \in 0..n - 1 : m \in S) => n \in S
  PROVE  \A n \in Nat : n \in S
<1> SUFFICES ASSUME Nat \ S # {} PROVE FALSE
  OBVIOUS
<1>1. PICK n \in Nat \ S : \A m \in Nat \ S : n <= m
  BY LeastNat
<1>2. \A m \in 0..n - 1 : m \in S
  BY <1>1
<1> QED BY <1>1, <1>2

(* A definition by recursion, f[i] == B[<<f, i>>], and what its values may *)
(* depend on: values of lower rank.                                        *)
Solvable(D, V, B) == \E f \in [D -> V] : \A i \in D : f[i] = B[<<f, i>>]

Agree(D, rank, i, g, h) == \A j \in D : rank[j] < rank[i] => g[j] = h[j]

Descends(D, V, rank, B) ==
  \A g, h \in [D -> V] : \A i \in D : Agree(D, rank, i, g, h) => B[<<g, i>>] = B[<<h, i>>]

Same(D, g, h) == \A i \in D : g[i] = h[i]

Determined(D, rank, g, h) == \A i \in D : Agree(D, rank, i, g, h) => g[i] = h[i]

LEMMA Recursion ==
  ASSUME NEW D, NEW V, V # {}, NEW top \in Nat, NEW rank \in [D -> 0..top],
         NEW B \in [[D -> V] \X D -> V], Descends(D, V, rank, B)
  PROVE  Solvable(D, V, B)
<1> DEFINE Solves(f, n) == \A i \in D : rank[i] < n => f[i] = B[<<f, i>>]
           S == {n \in Nat : \E f \in [D -> V] : Solves(f, n)}
<1>1. 0 \in S
  <2>1. PICK v \in V : TRUE
    OBVIOUS
  <2>2. [d \in D |-> v] \in [D -> V]
    OBVIOUS
  <2>3. Solves([d \in D |-> v], 0)
    OBVIOUS
  <2> QED BY <2>2, <2>3
<1>2. ASSUME NEW n \in S PROVE n + 1 \in S
  <2>1. PICK f \in [D -> V] : Solves(f, n)
    BY <1>2
  <2> DEFINE g == [i \in D |-> IF rank[i] < n THEN f[i] ELSE B[<<f, i>>]]
  <2>2. g \in [D -> V]
    OBVIOUS
  <2>3. ASSUME NEW i \in D, rank[i] < n + 1 PROVE g[i] = B[<<g, i>>]
    <3>1. \A j \in D : rank[j] < rank[i] => f[j] = g[j]
      BY <2>3, <1>2
    <3>2. B[<<f, i>>] = B[<<g, i>>]
      BY <2>2, <3>1 DEF Descends, Agree
    <3>3. g[i] = B[<<f, i>>]
      BY <2>1
    <3> QED BY <3>2, <3>3
  <2> HIDE DEF g
  <2> QED BY <2>2, <2>3
<1>3. \A n \in Nat : n \in S
  <2> HIDE DEF S
  <2>1. ASSUME NEW n \in Nat, \A m \in 0..n - 1 : m \in S PROVE n \in S
    <3>1. CASE n = 0
      BY <1>1, <3>1
    <3>2. CASE n # 0
      <4>1. n - 1 \in S
        BY <2>1, <3>2
      <4>2. n - 1 + 1 \in S
        BY <4>1, <1>2
      <4> QED BY <4>2
    <3> QED BY <3>1, <3>2
  <2> QED BY <2>1, Induction
<1>4. top + 1 \in S
  <2> HIDE DEF S
  <2> QED BY <1>3
<1>5. PICK f \in [D -> V] : Solves(f, top + 1)
  BY <1>4
<1> QED BY <1>5 DEF Solvable

(* And only one.                                                           *)
LEMMA OneSolution ==
  ASSUME NEW D, NEW top \in Nat, NEW rank \in [D -> 0..top], NEW f, NEW g,
         Determined(D, rank, f, g)
  PROVE  Same(D, f, g)
<1> DEFINE S == {n \in Nat : \A i \in D : rank[i] = n => f[i] = g[i]}
<1>1. ASSUME NEW n \in Nat, \A m \in 0..n - 1 : m \in S PROVE n \in S
  <2> SUFFICES ASSUME NEW i \in D, rank[i] = n PROVE f[i] = g[i]
    OBVIOUS
  <2>1. \A j \in D : rank[j] < rank[i] => f[j] = g[j]
    BY <1>1
  <2> QED BY <2>1 DEF Determined, Agree
<1>2. \A n \in Nat : n \in S
  <2> HIDE DEF S
  <2> QED BY <1>1, Induction
<1> QED BY <1>2 DEF Same

(* Recursion along an interval: each value from the one before it.         *)
Iterates(f, n, v, G) == f[0] = v /\ \A k \in 1..n : f[k] = G[<<f[k - 1], k>>]

LEMMA Iteration ==
  ASSUME NEW n \in Nat, NEW V, NEW v \in V, NEW G \in [V \X (1..n) -> V]
  PROVE  \E f \in [0..n -> V] : Iterates(f, n, v, G)
<1> DEFINE D == 0..n
           rank == [k \in D |-> k]
           B == [gk \in [D -> V] \X D |-> IF gk[2] = 0 THEN v ELSE G[<<gk[1][gk[2] - 1], gk[2]>>]]
<1>1. \A g \in [D -> V], k \in D : B[<<g, k>>] = IF k = 0 THEN v ELSE G[<<g[k - 1], k>>]
  OBVIOUS
<1>2. \A g \in [D -> V], k \in 1..n : g[k - 1] \in V
  OBVIOUS
<1>3. B \in [[D -> V] \X D -> V]
  <2>1. \A g \in [D -> V], k \in D : (IF k = 0 THEN v ELSE G[<<g[k - 1], k>>]) \in V
    BY <1>2
  <2> QED BY <2>1
<1>4. Descends(D, V, rank, B)
  <2> HIDE DEF B
  <2> SUFFICES ASSUME NEW g \in [D -> V], NEW h \in [D -> V], NEW i \in D,
                      Agree(D, rank, i, g, h)
               PROVE  B[<<g, i>>] = B[<<h, i>>]
    BY DEF Descends
  <2>1. i # 0 => g[i - 1] = h[i - 1]
    BY DEF Agree
  <2> QED BY <1>1, <2>1
<1>5. rank \in [D -> 0..n]
  OBVIOUS
<1>6. Solvable(D, V, B)
  <2> HIDE DEF B, rank, D
  <2>1. V # {}
    OBVIOUS
  <2> QED BY <1>3, <1>4, <1>5, <2>1, Recursion, Zenon
<1>7. PICK f \in [D -> V] : \A k \in D : f[k] = B[<<f, k>>]
  BY <1>6 DEF Solvable
<1>8. f \in [0..n -> V] /\ Iterates(f, n, v, G)
  <2>1. \A k \in D : f[k] = IF k = 0 THEN v ELSE G[<<f[k - 1], k>>]
    <3> HIDE DEF B, D
    <3> QED BY <1>1, <1>7, Zenon
  <2>2. f[0] = v
    <3>1. 0 \in D
      OBVIOUS
    <3> HIDE DEF D
    <3> QED BY <2>1, <3>1
  <2>3. \A k \in 1..n : f[k] = G[<<f[k - 1], k>>]
    BY <2>1
  <2> QED BY <2>2, <2>3 DEF Iterates
<1> QED BY <1>8

LEMMA UpTo ==
  ASSUME NEW n \in Nat, NEW S, 0 \in S, \A k \in 1..n : k - 1 \in S => k \in S
  PROVE  \A k \in 0..n : k \in S
<1> DEFINE T == {k \in Nat : k <= n => k \in S}
<1>1. ASSUME NEW k \in Nat, \A m \in 0..k - 1 : m \in T PROVE k \in T
  <2>1. CASE k = 0 \/ k > n
    BY <2>1
  <2>2. CASE k \in 1..n
    <3>1. k - 1 \in T
      BY <1>1, <2>2
    <3>2. k - 1 \in S
      BY <2>2, <3>1
    <3> QED BY <2>2, <3>2
  <2> QED BY <2>1, <2>2
<1>2. \A k \in Nat : k \in T
  <2> HIDE DEF T
  <2> QED BY <1>1, Induction
<1> QED BY <1>2

LEMMA DownFrom ==
  ASSUME NEW n \in Nat, NEW S,
         \A i \in 1..n + 1 : (\A j \in i + 1..n + 1 : j \in S) => i \in S
  PROVE  \A i \in 1..n + 1 : i \in S
<1> DEFINE T == {k \in Nat : k <= n => n + 1 - k \in S}
<1>1. ASSUME NEW k \in Nat, \A m \in 0..k - 1 : m \in T PROVE k \in T
  <2> SUFFICES ASSUME k <= n PROVE n + 1 - k \in S
    OBVIOUS
  <2>1. ASSUME NEW j \in (n + 1 - k) + 1..n + 1 PROVE j \in S
    <3>1. n + 1 - j \in T /\ n + 1 - j <= n
      BY <1>1
    <3>2. n + 1 - (n + 1 - j) = j
      OBVIOUS
    <3>3. n + 1 - (n + 1 - j) \in S
      BY <3>1
    <3> QED BY <3>2, <3>3
  <2>2. n + 1 - k \in 1..n + 1
    OBVIOUS
  <2> QED BY <2>1, <2>2
<1>2. \A k \in Nat : k \in T
  <2> HIDE DEF T
  <2> QED BY <1>1, Induction
<1>3. ASSUME NEW i \in 1..n + 1 PROVE i \in S
  <2>1. n + 1 - i \in T /\ n + 1 - i <= n
    BY <1>2
  <2>2. n + 1 - (n + 1 - i) = i
    OBVIOUS
  <2>3. n + 1 - (n + 1 - i) \in S
    BY <2>1
  <2> QED BY <2>2, <2>3
<1> QED BY <1>3

(* Recursion down a text: a piece for what is read at i, then the rest.    *)
Unrolls(f, n, piece, next) ==
  f[n + 1] = <<>> /\ \A i \in 1..n : f[i] = piece[i] \o f[next[i]]

LEMMA Unrolling ==
  ASSUME NEW n \in Nat, NEW T, NEW piece \in [1..n -> Seq(T)],
         NEW next \in [1..n -> 1..n + 1], \A i \in 1..n : next[i] > i
  PROVE  \E f \in [1..n + 1 -> Seq(T)] : Unrolls(f, n, piece, next)
<1> DEFINE D == 1..n + 1
           V == Seq(T)
           rank == [i \in D |-> n + 1 - i]
           Step(g, i) == IF i = n + 1 THEN <<>> ELSE piece[i] \o g[next[i]]
           B == [gi \in [D -> V] \X D |-> Step(gi[1], gi[2])]
<1>1. \A g \in [D -> V], i \in D : B[<<g, i>>] = Step(g, i)
  OBVIOUS
<1>2. B \in [[D -> V] \X D -> V]
  <2>1. ASSUME NEW g \in [D -> V], NEW i \in D PROVE Step(g, i) \in V
    <3>1. CASE i = n + 1
      BY <3>1, EmptySeq
    <3>2. CASE i # n + 1
      <4>1. piece[i] \in V /\ g[next[i]] \in V
        BY <3>2
      <4> QED BY <3>2, <4>1, ConcatProperties
    <3> QED BY <3>1, <3>2
  <2> HIDE DEF Step, V, D
  <2> QED BY <2>1
<1>3. Descends(D, V, rank, B)
  <2> SUFFICES ASSUME NEW g \in [D -> V], NEW h \in [D -> V], NEW i \in D,
                      Agree(D, rank, i, g, h)
               PROVE  B[<<g, i>>] = B[<<h, i>>]
    BY DEF Descends
  <2>1. ASSUME i # n + 1 PROVE next[i] \in D /\ rank[next[i]] < rank[i]
    <3>1. i \in 1..n
      BY <2>1
    <3>2. next[i] \in D /\ next[i] > i
      BY <3>1
    <3>3. rank[i] = n + 1 - i /\ rank[next[i]] = n + 1 - next[i]
      BY <3>2
    <3>4. i \in Int /\ next[i] \in Int
      BY <3>2
    <3>5. n + 1 - next[i] < n + 1 - i
      <4>1. \A a, b \in Int : a > b => n + 1 - a < n + 1 - b
        OBVIOUS
      <4> QED BY <3>2, <3>4, <4>1, Zenon
    <3>6. rank[next[i]] < rank[i]
      <4> HIDE DEF rank
      <4> QED BY <3>3, <3>5
    <3> QED BY <3>2, <3>6
  <2>2. i # n + 1 => g[next[i]] = h[next[i]]
    BY <2>1 DEF Agree
  <2>3. Step(g, i) = Step(h, i)
    BY <2>2
  <2> HIDE DEF B, Step
  <2> QED BY <1>1, <2>3
<1>4. rank \in [D -> 0..n]
  OBVIOUS
<1>5. V # {}
  BY EmptySeq
<1>6. Solvable(D, V, B)
  <2> HIDE DEF B, rank, D, V
  <2> QED BY <1>2, <1>3, <1>4, <1>5, Recursion, Zenon
<1>7. PICK f \in [D -> V] : \A i \in D : f[i] = Step(f, i)
  <2> HIDE DEF B, D, V, Step
  <2> QED BY <1>6, <1>1 DEF Solvable
<1>8. Unrolls(f, n, piece, next)
  <2>1. n + 1 \in D /\ \A i \in 1..n : i \in D /\ i # n + 1
    OBVIOUS
  <2> HIDE DEF D
  <2> QED BY <1>7, <2>1 DEF Unrolls
<1> QED BY <1>8

-----------------------------------------------------------------------------
(* Split.                                                                  *)

Texts == Seq(Int)

(* A stretch of a text.                                                    *)
LEMMA TextIndices ==
  ASSUME NEW s \in Texts
  PROVE  Len(s) \in Nat /\ DOMAIN s = 1..Len(s) /\ \A k \in 1..Len(s) : s[k] \in Int
BY DEF Texts

LEMMA Stretch ==
  ASSUME NEW s \in Texts, NEW a \in Int, NEW b \in Int, 1 <= a, a - 1 <= b, b <= Len(s)
  PROVE  /\ SubSeq(s, a, b) \in Texts
         /\ Len(SubSeq(s, a, b)) = b - a + 1
         /\ DOMAIN SubSeq(s, a, b) = 1..b - a + 1
         /\ \A k \in 1..b - a + 1 : SubSeq(s, a, b)[k] = s[a + k - 1]
<1>1. \A k \in a..b : s[k] \in Int
  <2>1. Len(s) \in Nat
    BY TextIndices
  <2> SUFFICES ASSUME NEW k \in a..b PROVE s[k] \in Int
    OBVIOUS
  <2>2. k \in 1..Len(s)
    BY <2>1
  <2> QED BY <2>2, TextIndices
<1>2. /\ SubSeq(s, a, b) \in Seq(Int)
      /\ Len(SubSeq(s, a, b)) = IF a <= b THEN b - a + 1 ELSE 0
      /\ \A k \in 1..b - a + 1 : SubSeq(s, a, b)[k] = s[a + k - 1]
  BY <1>1, SubSeqProperties
<1>3. Len(SubSeq(s, a, b)) = b - a + 1
  BY <1>2
<1>4. SubSeq(s, a, b) \in Texts
  BY <1>2 DEF Texts
<1>5. DOMAIN SubSeq(s, a, b) = 1..b - a + 1
  BY <1>3, <1>4, TextIndices
<1> QED BY <1>2, <1>3, <1>4, <1>5

LEMMA Joining ==
  ASSUME NEW s \in Texts, NEW t \in Texts
  PROVE  /\ s \o t \in Texts
         /\ Len(s \o t) = Len(s) + Len(t)
         /\ \A i \in 1..Len(s) : (s \o t)[i] = s[i]
         /\ \A j \in 1..Len(t) : (s \o t)[Len(s) + j] = t[j]
<1> DEFINE u == s \o t
<1>1. Len(s) \in Nat /\ Len(t) \in Nat
  BY TextIndices
<1>2. /\ u \in Texts
      /\ Len(u) = Len(s) + Len(t)
      /\ \A i \in 1..Len(s) + Len(t) : u[i] = IF i <= Len(s) THEN s[i] ELSE t[i - Len(s)]
  BY ConcatProperties DEF Texts
<1> HIDE DEF u
<1>3. ASSUME NEW i \in 1..Len(s) PROVE u[i] = s[i]
  BY <1>1, <1>2
<1>4. ASSUME NEW j \in 1..Len(t) PROVE u[Len(s) + j] = t[j]
  <2>1. Len(s) + j \in 1..Len(s) + Len(t) /\ ~ (Len(s) + j <= Len(s)) /\ (Len(s) + j) - Len(s) = j
    BY <1>1
  <2> QED BY <1>2, <2>1
<1> QED BY <1>2, <1>3, <1>4 DEF u

Cuts(s, c, i) == {j \in i..Len(s) : s[j] = c}

SplitAt(s, c, from, i) ==
  LET cuts == {j \in i..Len(s) : s[j] = c}
      cut == CHOOSE j \in cuts : \A k \in cuts : j <= k
  IN  IF cuts = {} THEN <<SubSeq(s, i, Len(s))>>
      ELSE <<SubSeq(s, i, cut - 1)>> \o from[cut + 1]

Cut(s, c, i) == CHOOSE j \in Cuts(s, c, i) : \A k \in Cuts(s, c, i) : j <= k

LEMMA FirstCut ==
  ASSUME NEW s \in Texts, NEW c, NEW i \in 1..Len(s) + 1, Cuts(s, c, i) # {}
  PROVE  /\ Cut(s, c, i) \in i..Len(s)
         /\ s[Cut(s, c, i)] = c
         /\ \A k \in i..Cut(s, c, i) - 1 : s[k] # c
<1>1. Len(s) \in Nat /\ Cuts(s, c, i) \subseteq Nat
  BY DEF Cuts, Texts
<1>2. \E j \in Cuts(s, c, i) : \A k \in Cuts(s, c, i) : j <= k
  BY <1>1, LeastNat
<1>3. Cut(s, c, i) \in Cuts(s, c, i) /\ \A k \in Cuts(s, c, i) : Cut(s, c, i) <= k
  BY <1>2 DEF Cut
<1>4. Cut(s, c, i) \in i..Len(s) /\ s[Cut(s, c, i)] = c
  BY <1>3 DEF Cuts
<1>5. ASSUME NEW k \in i..Cut(s, c, i) - 1 PROVE s[k] # c
  <2>1. k \in i..Len(s) /\ ~ (Cut(s, c, i) <= k)
    BY <1>1, <1>4
  <2> QED BY <1>3, <2>1 DEF Cuts
<1> QED BY <1>4, <1>5

LEMMA SplitCut ==
  ASSUME NEW s, NEW c, NEW i, NEW from
  PROVE  /\ Cuts(s, c, i) = {} => SplitAt(s, c, from, i) = <<SubSeq(s, i, Len(s))>>
         /\ Cuts(s, c, i) # {} => SplitAt(s, c, from, i)
                = <<SubSeq(s, i, Cut(s, c, i) - 1)>> \o from[Cut(s, c, i) + 1]
BY DEF SplitAt, Cuts, Cut

LEMMA SplitLocal ==
  ASSUME NEW s \in Texts, NEW c, NEW i \in 1..Len(s) + 1, NEW g, NEW h,
         \A j \in 1..Len(s) + 1 : j > i => g[j] = h[j]
  PROVE  SplitAt(s, c, g, i) = SplitAt(s, c, h, i)
<1>1. CASE Cuts(s, c, i) = {}
  BY <1>1, SplitCut
<1>2. CASE Cuts(s, c, i) # {}
  <2>1. Cut(s, c, i) \in i..Len(s)
    BY <1>2, FirstCut
  <2>2. Len(s) \in Nat
    BY DEF Texts
  <2>3. g[Cut(s, c, i) + 1] = h[Cut(s, c, i) + 1]
    BY <2>1, <2>2
  <2> QED BY <1>2, <2>3, SplitCut
<1> QED BY <1>1, <1>2

LEMMA SplitType ==
  ASSUME NEW s \in Texts, NEW c, NEW i \in 1..Len(s) + 1,
         NEW g \in [1..Len(s) + 1 -> Seq(Texts)]
  PROVE  SplitAt(s, c, g, i) \in Seq(Texts)
<1>1. Len(s) \in Nat /\ i \in Int /\ 1 <= i /\ i - 1 <= Len(s)
  BY TextIndices
<1>2. CASE Cuts(s, c, i) = {}
  <2>1. SubSeq(s, i, Len(s)) \in Texts
    BY <1>1, Stretch
  <2>2. \A t \in Texts : <<t>> \in Seq(Texts)
    OBVIOUS
  <2> QED BY <1>2, <2>1, <2>2, SplitCut, Zenon
<1>3. CASE Cuts(s, c, i) # {}
  <2>1. Cut(s, c, i) \in i..Len(s)
    BY <1>3, FirstCut
  <2>2. Cut(s, c, i) - 1 \in Int /\ i - 1 <= Cut(s, c, i) - 1 /\ Cut(s, c, i) - 1 <= Len(s)
    BY <1>1, <2>1
  <2>3. SubSeq(s, i, Cut(s, c, i) - 1) \in Texts
    BY <1>1, <2>2, Stretch
  <2>4. g[Cut(s, c, i) + 1] \in Seq(Texts)
    BY <1>1, <2>1
  <2>5. \A t \in Texts, u \in Seq(Texts) : <<t>> \o u \in Seq(Texts)
    OBVIOUS
  <2> QED BY <1>3, <2>3, <2>4, <2>5, SplitCut, Zenon
<1> QED BY <1>2, <1>3

LEMMA SplitSolves ==
  ASSUME NEW s \in Texts, NEW c
  PROVE  \E from \in [1..Len(s) + 1 -> Seq(Texts)] :
           /\ Split(s, c) = from[1]
           /\ \A i \in 1..Len(s) + 1 : from[i] = SplitAt(s, c, from, i)
<1> DEFINE D == 1..Len(s) + 1
           V == Seq(Texts)
           rank == [i \in D |-> Len(s) + 1 - i]
           B == [gi \in [D -> V] \X D |-> SplitAt(s, c, gi[1], gi[2])]
           F == CHOOSE F : F = [i \in D |-> SplitAt(s, c, F, i)]
<1>1. Len(s) \in Nat
  BY DEF Texts
<1>2. rank \in [D -> 0..Len(s)] /\ \A i, j \in D : j > i => rank[j] < rank[i]
  BY <1>1
<1>3. V # {}
  BY EmptySeq
<1>4. B \in [[D -> V] \X D -> V]
  <2>1. \A g \in [D -> V], i \in D : SplitAt(s, c, g, i) \in V
    BY SplitType
  <2> QED BY <2>1
<1>5. \A g \in [D -> V], i \in D : B[<<g, i>>] = SplitAt(s, c, g, i)
  OBVIOUS
<1>6. PICK f \in [D -> V] : \A i \in D : f[i] = SplitAt(s, c, f, i)
  <2>1. Descends(D, V, rank, B)
    <3> HIDE DEF B, rank
    <3> SUFFICES ASSUME NEW g \in [D -> V], NEW h \in [D -> V], NEW i \in D,
                        Agree(D, rank, i, g, h)
                 PROVE  B[<<g, i>>] = B[<<h, i>>]
      BY DEF Descends
    <3>1. \A j \in D : j > i => g[j] = h[j]
      BY <1>2 DEF Agree
    <3>2. SplitAt(s, c, g, i) = SplitAt(s, c, h, i)
      BY <3>1, SplitLocal
    <3> QED BY <3>2, <1>5
  <2>2. Solvable(D, V, B)
    <3> HIDE DEF B, rank, V, D
    <3> QED BY <1>1, <1>2, <1>3, <1>4, <2>1, Recursion, Zenon
  <2> HIDE DEF B, V, D
  <2> QED BY <2>2, <1>5 DEF Solvable
<1>7. F = [i \in D |-> SplitAt(s, c, F, i)]
  <2>1. f = [i \in D |-> SplitAt(s, c, f, i)]
    BY <1>6
  <2> QED BY <2>1
<1>8. Split(s, c) = F[1]
  BY DEF Split, SplitAt
<1>9. F = f
  <2> HIDE DEF F
  <2>1. Determined(D, rank, F, f)
    <3> SUFFICES ASSUME NEW i \in D, Agree(D, rank, i, F, f) PROVE F[i] = f[i]
      BY DEF Determined
    <3>1. \A j \in D : j > i => F[j] = f[j]
      BY <1>2 DEF Agree
    <3>2. SplitAt(s, c, F, i) = SplitAt(s, c, f, i)
      BY <3>1, SplitLocal
    <3> QED BY <3>2, <1>6, <1>7
  <2>2. Same(D, F, f)
    <3> HIDE DEF D, rank
    <3> QED BY <1>1, <1>2, <2>1, OneSolution, Zenon
  <2> QED BY <1>6, <1>7, <2>2 DEF Same
<1> QED BY <1>6, <1>8, <1>9

LEMMA SplitIsSeq ==
  ASSUME NEW s \in Texts, NEW c
  PROVE  Split(s, c) \in Seq(Texts)
<1>1. 1 \in 1..Len(s) + 1
  BY DEF Texts
<1>2. PICK from \in [1..Len(s) + 1 -> Seq(Texts)] : Split(s, c) = from[1]
  BY SplitSolves
<1> QED BY <1>1, <1>2

-----------------------------------------------------------------------------
(* What is read is a text of bytes.                                        *)

TextOK == text \in Seq(Byte)

LEMMA TextType == Spec => []TextOK
<1>1. Init => TextOK
  BY EmptySeq DEF Init, TextOK
<1>2. TextOK /\ [Write]_<<text, pieces>> => TextOK'
  <2> SUFFICES ASSUME TextOK, [Write]_<<text, pieces>> PROVE TextOK'
    OBVIOUS
  <2>1. CASE Write
    <3>1. PICK p \in Pieces : text' = text \o p
      BY <2>1 DEF Write
    <3>2. p \in Seq(Byte)
      BY HttpTextAssumption
    <3> QED BY <3>1, <3>2, ConcatProperties DEF TextOK
  <2>2. CASE UNCHANGED <<text, pieces>>
    BY <2>2 DEF TextOK
  <2> QED BY <2>1, <2>2
<1> QED BY <1>1, <1>2, PTL DEF Spec

LEMMA BytesAreTexts == Seq(Byte) \subseteq Texts
<1>1. Byte \subseteq Int
  BY DEF Byte
<1> QED BY <1>1, SeqMonotonic DEF Texts

-----------------------------------------------------------------------------
(* is_valid_path.                                                          *)

Count(parts, S, k) == Cardinality({i \in 1..k : parts[i] \in S})

LEMMA CountStep ==
  ASSUME NEW parts, NEW S, NEW k \in Nat
  PROVE  /\ Count(parts, S, 0) = 0
         /\ Count(parts, S, k) \in Nat
         /\ Count(parts, S, k + 1) = Count(parts, S, k) + IF parts[k + 1] \in S THEN 1 ELSE 0
<1> DEFINE C(j) == {i \in 1..j : parts[i] \in S}
<1>1. C(0) = {}
  OBVIOUS
<1>2. IsFiniteSet(C(k))
  <2>1. IsFiniteSet(1..k)
    BY FS_Interval
  <2> QED BY <2>1, FS_Subset
<1>3. C(k + 1) = IF parts[k + 1] \in S THEN C(k) \cup {k + 1} ELSE C(k)
  OBVIOUS
<1>4. k + 1 \notin C(k)
  OBVIOUS
<1>a. IsFiniteSet(C(k) \cup {k + 1})
         /\ (k + 1 \notin C(k) => Cardinality(C(k) \cup {k + 1}) = Cardinality(C(k)) + 1)
  <2> HIDE DEF C
  <2> QED BY <1>2, FS_AddElement
<1> HIDE DEF C
<1>5. Cardinality(C(0)) = 0
  BY <1>1, FS_EmptySet
<1>6. Cardinality(C(k)) \in Nat
  BY <1>2, FS_CardinalityType
<1>7. Cardinality(C(k + 1)) = Cardinality(C(k)) + IF parts[k + 1] \in S THEN 1 ELSE 0
  BY <1>a, <1>3, <1>4, <1>6
<1> QED BY <1>5, <1>6, <1>7 DEF Count, C

(* Steps down less steps up among the first k parts.                       *)
Net(parts, k) == k - Count(parts, {Up, <<>>, <<Dot>>}, k) - Count(parts, {Up}, k)

LEMMA NetStep ==
  ASSUME NEW parts, NEW k \in Nat
  PROVE  /\ Net(parts, 0) = 0
         /\ Net(parts, k) \in Int
         /\ Net(parts, k + 1) = Net(parts, k) + Levels(parts[k + 1])
<1> DEFINE S == {Up, <<>>, <<Dot>>}
<1>1. Up # <<>> /\ Up # <<Dot>>
  BY DEF Up
<1>2. /\ parts[k + 1] \in S \ {Up} => Levels(parts[k + 1]) = 0
      /\ parts[k + 1] = Up => Levels(parts[k + 1]) = -1
      /\ parts[k + 1] \notin S => Levels(parts[k + 1]) = 1
  BY <1>1 DEF Levels
<1>3. parts[k + 1] \in {Up} => parts[k + 1] \in S
  OBVIOUS
<1>4. \A j : Net(parts, j) = j - Count(parts, S, j) - Count(parts, {Up}, j)
  BY Zenon DEF Net
<1> HIDE DEF S
<1>5. /\ Count(parts, S, 0) = 0 /\ Count(parts, S, k) \in Nat
      /\ Count(parts, S, k + 1) = Count(parts, S, k) + IF parts[k + 1] \in S THEN 1 ELSE 0
  BY CountStep
<1>6. /\ Count(parts, {Up}, 0) = 0 /\ Count(parts, {Up}, k) \in Nat
      /\ Count(parts, {Up}, k + 1) = Count(parts, {Up}, k) + IF parts[k + 1] \in {Up} THEN 1 ELSE 0
  BY CountStep
<1>7. Net(parts, 0) = 0 /\ Net(parts, k) \in Int
  <2>1. Net(parts, 0) = 0 - Count(parts, S, 0) - Count(parts, {Up}, 0)
    BY <1>4
  <2>2. Net(parts, k) = k - Count(parts, S, k) - Count(parts, {Up}, k)
    BY <1>4
  <2> QED BY <1>5, <1>6, <2>1, <2>2
<1>8. /\ Net(parts, k) = k - Count(parts, S, k) - Count(parts, {Up}, k)
       /\ Net(parts, k + 1) = (k + 1) - Count(parts, S, k + 1) - Count(parts, {Up}, k + 1)
  BY <1>4
<1>9. CASE parts[k + 1] = Up
  BY <1>2, <1>3, <1>5, <1>6, <1>8, <1>7, <1>9
<1>10. CASE parts[k + 1] # Up /\ parts[k + 1] \in S
  BY <1>2, <1>5, <1>6, <1>8, <1>7, <1>10
<1>11. CASE parts[k + 1] # Up /\ parts[k + 1] \notin S
  BY <1>2, <1>5, <1>6, <1>8, <1>7, <1>11
<1> QED BY <1>7, <1>9, <1>10, <1>11

NextLevel(parts) ==
  [lk \in Int \X (1..Len(parts)) |-> IF lk[1] < 0 THEN -1 ELSE lk[1] + Levels(parts[lk[2]])]

LEMMA LevelSolves ==
  ASSUME NEW path, Split(path, Slash) \in Seq(Texts)
  PROVE  \E level :
           /\ is_valid_path(path) <=> level[Len(Split(path, Slash))] >= 0
           /\ \A k \in 0..Len(Split(path, Slash)) :
                level[k] = IF k = 0 THEN 0
                           ELSE IF level[k - 1] < 0 THEN -1
                                ELSE level[k - 1] + Levels(Split(path, Slash)[k])
<1> DEFINE parts == Split(path, Slash)
           n == Len(parts)
           L == CHOOSE L : L = [k \in 0..n |->
                  IF k = 0 THEN 0
                  ELSE IF L[k - 1] < 0 THEN -1 ELSE L[k - 1] + Levels(parts[k])]
<1>1. n \in Nat
  OBVIOUS
<1>2. NextLevel(parts) \in [Int \X (1..n) -> Int]
  <2>1. \A l \in Int, k \in 1..n : Levels(parts[k]) \in Int
    BY DEF Levels
  <2> QED BY <2>1 DEF NextLevel
<1>3. PICK f \in [0..n -> Int] : Iterates(f, n, 0, NextLevel(parts))
  <2> HIDE DEF n, parts
  <2>1. 0 \in Int
    OBVIOUS
  <2> QED BY <1>1, <1>2, <2>1, Iteration, Zenon
<1>4. f = [k \in 0..n |-> IF k = 0 THEN 0
                          ELSE IF f[k - 1] < 0 THEN -1 ELSE f[k - 1] + Levels(parts[k])]
  <2>1. \A k \in 1..n : NextLevel(parts)[<<f[k - 1], k>>]
                          = IF f[k - 1] < 0 THEN -1 ELSE f[k - 1] + Levels(parts[k])
    <3>1. \A k \in 1..n : f[k - 1] \in Int
      BY <1>1
    <3> HIDE DEF parts
    <3> QED BY <3>1 DEF NextLevel
  <2>2. ASSUME NEW k \in 0..n
        PROVE  f[k] = IF k = 0 THEN 0
                      ELSE IF f[k - 1] < 0 THEN -1 ELSE f[k - 1] + Levels(parts[k])
    <3> HIDE DEF n, parts
    <3>1. k = 0 \/ k \in 1..n
      BY <1>1
    <3> QED BY <1>3, <2>1, <3>1 DEF Iterates
  <2> HIDE DEF n, parts
  <2> QED BY <2>2
<1>5. L = [k \in 0..n |-> IF k = 0 THEN 0
                          ELSE IF L[k - 1] < 0 THEN -1 ELSE L[k - 1] + Levels(parts[k])]
  <2> HIDE DEF n, parts
  <2> QED BY <1>4
<1>6. is_valid_path(path) <=> L[n] >= 0
  BY DEF is_valid_path
<1> HIDE DEF L
<1> QED BY <1>5, <1>6

(* A path that once led out stays out: the level is that of Net until Net  *)
(* has been negative.                                                      *)
LEMMA PathInsideOf ==
  ASSUME NEW path, Split(path, Slash) \in Seq(Texts)
  PROVE  is_valid_path(path)
           <=> \A k \in 1..Len(Split(path, Slash)) : Net(Split(path, Slash), k) >= 0
<1> DEFINE parts == Split(path, Slash)
           n == Len(parts)
<1>1. PICK level :
        /\ is_valid_path(path) <=> level[n] >= 0
        /\ \A k \in 0..n : level[k] = IF k = 0 THEN 0
                                      ELSE IF level[k - 1] < 0 THEN -1
                                           ELSE level[k - 1] + Levels(parts[k])
  BY LevelSolves
<1>2. n \in Nat
  OBVIOUS
<1> HIDE DEF n, parts
<1> DEFINE inside(k) == \A j \in 0..k : Net(parts, j) >= 0
           S == {k \in Nat : k <= n =>
                   level[k] = IF inside(k) THEN Net(parts, k) ELSE -1}
<1>3. ASSUME NEW k \in Nat, \A m \in 0..k - 1 : m \in S PROVE k \in S
  <2>1. CASE k = 0
    <3>1. Net(parts, 0) = 0
      BY NetStep
    <3> QED BY <1>1, <1>2, <2>1, <3>1
  <2>2. CASE k # 0 /\ k <= n
    <3>1. PICK m \in Nat : k = m + 1
      <4>1. k - 1 \in Nat /\ k = (k - 1) + 1
        BY <2>2
      <4> QED BY <4>1
    <3>2. level[m] = IF inside(m) THEN Net(parts, m) ELSE -1
      <4>1. m \in 0..k - 1 /\ m <= n
        BY <1>2, <2>2, <3>1
      <4>2. m \in S
        BY <1>3, <4>1
      <4> QED BY <4>1, <4>2
    <3>3. level[k] = IF level[m] < 0 THEN -1 ELSE level[m] + Levels(parts[k])
      BY <1>1, <2>2, <3>1
    <3>4. Net(parts, k) = Net(parts, m) + Levels(parts[k]) /\ Net(parts, m) \in Int
      BY <3>1, NetStep
    <3>5. inside(k) <=> inside(m) /\ Net(parts, k) >= 0
      <4>1. 0..k = (0..m) \cup {k}
        BY <3>1
      <4> QED BY <4>1
    <3>6. inside(m) => Net(parts, m) >= 0
      OBVIOUS
    <3>7. Levels(parts[k]) \in -1..1
      BY DEF Levels
    <3>8. level[k] = IF inside(k) THEN Net(parts, k) ELSE -1
      <4> HIDE DEF inside
      <4> QED BY <3>2, <3>3, <3>4, <3>5, <3>6, <3>7
    <3> QED BY <3>8
  <2> QED BY <2>1, <2>2, <1>2
<1>4. \A k \in Nat : k \in S
  <2> HIDE DEF S
  <2> QED BY <1>3, Induction
<1>5. level[n] = IF inside(n) THEN Net(parts, n) ELSE -1
  BY <1>4, <1>2
<1>6. inside(n) => Net(parts, n) >= 0
  BY <1>2
<1>7. inside(n) <=> \A k \in 1..n : Net(parts, k) >= 0
  <2>1. Net(parts, 0) = 0
    BY NetStep
  <2>2. 0..n = {0} \cup 1..n
    BY <1>2
  <2> QED BY <2>1, <2>2
<1> HIDE DEF inside
<1>8. is_valid_path(path) <=> \A k \in 1..n : Net(parts, k) >= 0
  BY <1>1, <1>5, <1>6, <1>7
<1> QED BY <1>8 DEF n, parts

(* is_valid_path, proved for every path: a file is served only if its path *)
(* never leads out of base_dir_, not even to come back.                    *)
THEOREM PathsStayInside == Spec => []PathInside
<1>1. TextOK => PathInside
  <2> SUFFICES ASSUME TextOK PROVE PathInside
    OBVIOUS
  <2> DEFINE parts == Split(text, Slash)
  <2>1. parts \in Seq(Texts)
    BY BytesAreTexts, SplitIsSeq DEF TextOK
  <2>2. is_valid_path(text) <=> \A k \in 1..Len(parts) : Net(parts, k) >= 0
    BY <2>1, PathInsideOf
  <2>3. DOMAIN parts = 1..Len(parts)
    BY <2>1
  <2>4. ASSUME NEW k \in 1..Len(parts)
        PROVE  Net(parts, k) >= 0
                 <=> Count(parts, {Up}, k) <= k - Count(parts, {Up, <<>>, <<Dot>>}, k)
    <3>1. k \in Nat
      BY <2>1
    <3>2. Count(parts, {Up}, k) \in Nat /\ Count(parts, {Up, <<>>, <<Dot>>}, k) \in Nat
      BY <3>1, CountStep
    <3> QED BY <3>1, <3>2 DEF Net
  <2>5. PathInside <=> (is_valid_path(text) <=>
          \A k \in 1..Len(parts) :
            Count(parts, {Up}, k) <= k - Count(parts, {Up, <<>>, <<Dot>>}, k))
    BY <2>3 DEF PathInside, Count
  <2> HIDE DEF parts
  <2> QED BY <2>2, <2>4, <2>5
<1> QED BY <1>1, TextType, PTL

-----------------------------------------------------------------------------
(* Escapes and what decodes them.                                          *)

LEMMA HexDigits ==
  /\ \A c : hex_digit(c) \in -1..15 /\ FromHex(c) \in -1..35
  /\ \A c : hex_digit(c) # Aborted => FromHex(c) = hex_digit(c)
  /\ \A c \in {Percent, Plus, Ampersand, Equals, Letter_u} : hex_digit(c) = Aborted
<1>1. ASSUME NEW c PROVE hex_digit(c) \in -1..15 /\ FromHex(c) \in -1..35
  <2>1. /\ c \in 48..57 => hex_digit(c) = c - 48
        /\ c \in 65..70 => hex_digit(c) = c - 65 + 10
        /\ c \in 97..102 => hex_digit(c) = c - 97 + 10
        /\ c \notin (48..57) \cup (65..70) \cup (97..102) => hex_digit(c) = -1
    BY DEF hex_digit, Digits, Aborted
  <2>2. /\ c \in 48..57 => FromHex(c) = c - 48
        /\ c \in 65..90 => FromHex(c) = c - 65 + 10
        /\ c \in 97..122 => FromHex(c) = c - 97 + 10
        /\ c \notin (48..57) \cup (65..90) \cup (97..122) => FromHex(c) = -1
    BY DEF FromHex, Digits, Upper, Lower, Aborted
  <2>3. hex_digit(c) \in -1..15
    BY <2>1
  <2>4. FromHex(c) \in -1..35
    BY <2>2
  <2> QED BY <2>3, <2>4
<1>2. \A c : hex_digit(c) # Aborted => FromHex(c) = hex_digit(c)
  BY DEF hex_digit, FromHex, Digits, Upper, Lower, Aborted
<1>3. \A c \in {Percent, Plus, Ampersand, Equals, Letter_u} : hex_digit(c) = Aborted
  BY DEF hex_digit, Digits, Aborted, Percent, Plus, Ampersand, Equals, Letter_u
<1> QED BY <1>1, <1>2, <1>3

(* from_hex_to_i's loop.                                                   *)
HexValue(s, i, cnt, val) ==
  val[0] = 0 /\ \A k \in 1..cnt : val[k] = val[k - 1] * 16 + hex_digit(s[i + k - 1])

NextValue(s, i, cnt) == [vk \in Int \X (1..cnt) |-> vk[1] * 16 + hex_digit(s[i + vk[2] - 1])]

LEMMA HexSolves ==
  ASSUME NEW s, NEW i \in Int, NEW cnt \in Nat
  PROVE  \E val :
           /\ HexValue(s, i, cnt, val)
           /\ \A k \in 0..cnt : val[k] \in Nat \/ \E j \in i..i + k - 1 : ~ is_hex(s, j)
           /\ from_hex_to_i(s, i, cnt)
                = IF \A k \in i..i + cnt - 1 : is_hex(s, k) THEN val[cnt] ELSE Aborted
<1> DEFINE L == CHOOSE L : L = [k \in 0..cnt |->
                  IF k = 0 THEN 0 ELSE L[k - 1] * 16 + hex_digit(s[i + k - 1])]
<1>1. NextValue(s, i, cnt) \in [Int \X (1..cnt) -> Int]
  <2>1. \A v \in Int, k \in 1..cnt : v * 16 + hex_digit(s[i + k - 1]) \in Int
    <3>1. \A c : hex_digit(c) \in Int
      BY HexDigits
    <3> QED BY <3>1
  <2> QED BY <2>1 DEF NextValue
<1>2. PICK f \in [0..cnt -> Int] : Iterates(f, cnt, 0, NextValue(s, i, cnt))
  <2>1. 0 \in Int
    OBVIOUS
  <2> QED BY <1>1, <2>1, Iteration, Zenon
<1>3. f = [k \in 0..cnt |-> IF k = 0 THEN 0 ELSE f[k - 1] * 16 + hex_digit(s[i + k - 1])]
  <2>1. ASSUME NEW k \in 1..cnt
        PROVE  f[k] = f[k - 1] * 16 + hex_digit(s[i + k - 1])
    <3>1. f[k - 1] \in Int
      OBVIOUS
    <3>2. f[k] = NextValue(s, i, cnt)[<<f[k - 1], k>>]
      BY <1>2 DEF Iterates
    <3> QED BY <3>1, <3>2 DEF NextValue
  <2>2. ASSUME NEW k \in 0..cnt
        PROVE  f[k] = IF k = 0 THEN 0 ELSE f[k - 1] * 16 + hex_digit(s[i + k - 1])
    <3>1. k = 0 \/ k \in 1..cnt
      OBVIOUS
    <3> QED BY <1>2, <2>1, <3>1 DEF Iterates
  <2> QED BY <2>2
<1>4. L = [k \in 0..cnt |-> IF k = 0 THEN 0 ELSE L[k - 1] * 16 + hex_digit(s[i + k - 1])]
  BY <1>3
<1>5. from_hex_to_i(s, i, cnt)
        = IF \A k \in i..i + cnt - 1 : is_hex(s, k) THEN L[cnt] ELSE Aborted
  BY DEF from_hex_to_i
<1> HIDE DEF L
<1>6. HexValue(s, i, cnt, L)
  <2>1. L[0] = 0
    BY <1>4
  <2>2. ASSUME NEW k \in 1..cnt PROVE L[k] = L[k - 1] * 16 + hex_digit(s[i + k - 1])
    BY <1>4
  <2> QED BY <2>1, <2>2 DEF HexValue
<1>7. \A k \in 0..cnt : L[k] \in Nat \/ \E j \in i..i + k - 1 : ~ is_hex(s, j)
  <2> DEFINE S == {k \in 0..cnt : L[k] \in Nat \/ \E j \in i..i + k - 1 : ~ is_hex(s, j)}
  <2>1. 0 \in S
    BY <1>6 DEF HexValue
  <2>2. ASSUME NEW k \in 1..cnt, k - 1 \in S
        PROVE  L[k] \in Nat \/ \E j \in i..i + k - 1 : ~ is_hex(s, j)
    <3>1. CASE \E j \in i..i + k - 1 : ~ is_hex(s, j)
      BY <3>1
    <3>2. CASE \A j \in i..i + k - 1 : is_hex(s, j)
      <4>1. L[k - 1] \in Nat
        BY <2>2, <3>2
      <4>2. hex_digit(s[i + k - 1]) \in 0..15
        <5>1. is_hex(s, i + k - 1)
          BY <3>2
        <5> QED BY <5>1, HexDigits DEF is_hex, Aborted
      <4>3. L[k] = L[k - 1] * 16 + hex_digit(s[i + k - 1])
        BY <1>6 DEF HexValue
      <4>4. L[k] \in Nat
        <5>1. \A v \in Nat, d \in 0..15 : v * 16 + d \in Nat
          OBVIOUS
        <5> HIDE DEF S
        <5> QED BY <4>1, <4>2, <4>3, <5>1, Zenon
      <4> QED BY <4>4
    <3> QED BY <3>1, <3>2
  <2>3. \A k \in 1..cnt : k - 1 \in S => k \in S
    BY <2>2
  <2>4. \A k \in 0..cnt : k \in S
    <3> HIDE DEF S
    <3> QED BY <2>1, <2>3, UpTo
  <2> QED BY <2>4
<1> QED BY <1>5, <1>6, <1>7

(* Two digits.                                                             *)
LEMMA TwoDigits ==
  ASSUME NEW s, NEW i \in Int, is_hex(s, i), is_hex(s, i + 1)
  PROVE  from_hex_to_i(s, i, 2) = hex_digit(s[i]) * 16 + hex_digit(s[i + 1])
<1>1. PICK val :
        /\ HexValue(s, i, 2, val)
        /\ from_hex_to_i(s, i, 2)
             = IF \A k \in i..i + 2 - 1 : is_hex(s, k) THEN val[2] ELSE Aborted
  BY HexSolves
<1>2. val[1] = hex_digit(s[i])
  <2>1. val[0] = 0 /\ val[1] = val[1 - 1] * 16 + hex_digit(s[i + 1 - 1])
    BY <1>1 DEF HexValue
  <2>2. hex_digit(s[i]) \in Int
    BY HexDigits
  <2> QED BY <2>1, <2>2
<1>3. val[2] = val[1] * 16 + hex_digit(s[i + 1])
  <2>1. val[2] = val[2 - 1] * 16 + hex_digit(s[i + 2 - 1])
    BY <1>1 DEF HexValue
  <2> QED BY <2>1
<1>4. \A k \in i..i + 2 - 1 : is_hex(s, k)
  <2>1. i..i + 2 - 1 = {i, i + 1}
    OBVIOUS
  <2> QED BY <2>1
<1> QED BY <1>1, <1>2, <1>3, <1>4

(* What UrlDecode reads at i, and where it goes on.                        *)
UrlPiece(str, i) ==
  CASE str[i] = Plus    -> <<Space>>
    [] str[i] = Percent ->
         IF i + 2 > Len(str) \/ Aborted \in {FromHex(str[i + 1]), FromHex(str[i + 2])}
           THEN <<Aborted>>
           ELSE <<(FromHex(str[i + 1]) * 16 + FromHex(str[i + 2])) % 256>>
    [] OTHER            -> <<str[i]>>

UrlNext(str, i) ==
  IF str[i] # Percent THEN i + 1
  ELSE IF i + 2 > Len(str) \/ Aborted \in {FromHex(str[i + 1]), FromHex(str[i + 2])}
    THEN Len(str) + 1 ELSE i + 3

UrlDecodeAt(str, from, i) ==
  IF i > Len(str) THEN <<>> ELSE
  CASE str[i] = Plus    -> <<Space>> \o from[i + 1]
    [] str[i] = Percent ->
         IF i + 2 > Len(str) \/ Aborted \in {FromHex(str[i + 1]), FromHex(str[i + 2])}
           THEN <<Aborted>>
           ELSE <<(FromHex(str[i + 1]) * 16 + FromHex(str[i + 2])) % 256>> \o from[i + 3]
    [] OTHER            -> <<str[i]>> \o from[i + 1]

LEMMA UrlDecodeSolves ==
  ASSUME NEW str \in Texts
  PROVE  \E from :
           /\ UrlDecode(str) = from[1]
           /\ \A i \in 1..Len(str) + 1 : from[i] = UrlDecodeAt(str, from, i)
<1> DEFINE n == Len(str)
           F == CHOOSE F : F = [i \in 1..Len(str) + 1 |-> UrlDecodeAt(str, F, i)]
           piece == [i \in 1..n |-> UrlPiece(str, i)]
           next == [i \in 1..n |-> UrlNext(str, i)]
<1>1. n \in Nat /\ \A i \in 1..n : str[i] \in Int
  BY DEF Texts
<1>2. \A a : FromHex(a) \in Int
  BY HexDigits
<1>3. ASSUME NEW i \in 1..n PROVE UrlPiece(str, i) \in Seq(Int)
  <2>1. CASE str[i] = Plus
    <3>1. Percent # Plus
      BY DEF Percent, Plus
    <3>2. UrlPiece(str, i) = <<Space>>
      BY <2>1, <3>1 DEF UrlPiece
    <3> QED BY <3>2 DEF Space
  <2>2. CASE str[i] = Percent
    <3>1. Percent # Plus
      BY DEF Percent, Plus
    <3>2. (FromHex(str[i + 1]) * 16 + FromHex(str[i + 2])) % 256 \in Int
      BY <1>2
    <3>3. UrlPiece(str, i) \in {<<Aborted>>, <<(FromHex(str[i + 1]) * 16 + FromHex(str[i + 2])) % 256>>}
      BY <2>2, <3>1 DEF UrlPiece
    <3>4. <<Aborted>> \in Seq(Int)
      BY DEF Aborted
    <3>5. \A val \in Int : <<val>> \in Seq(Int)
      OBVIOUS
    <3> QED BY <3>2, <3>3, <3>4, <3>5, Zenon
  <2>3. CASE str[i] # Plus /\ str[i] # Percent
    <3>1. UrlPiece(str, i) = <<str[i]>>
      BY <2>3 DEF UrlPiece
    <3> QED BY <1>1, <3>1
  <2> QED BY <2>1, <2>2, <2>3
<1>4. ASSUME NEW i \in 1..n PROVE UrlNext(str, i) \in 1..n + 1 /\ UrlNext(str, i) > i
  BY <1>1 DEF UrlNext
<1>5. PICK f \in [1..n + 1 -> Seq(Int)] : Unrolls(f, n, piece, next)
  <2>1. piece \in [1..n -> Seq(Int)] /\ next \in [1..n -> 1..n + 1]
    BY <1>3, <1>4
  <2>2. \A i \in 1..n : next[i] > i
    BY <1>4
  <2> HIDE DEF piece, next, n
  <2> QED BY <1>1, <2>1, <2>2, Unrolling
<1>6. ASSUME NEW i \in 1..n + 1 PROVE f[i] = UrlDecodeAt(str, f, i)
  <2>1. CASE i = n + 1
    BY <1>1, <1>5, <2>1 DEF Unrolls, UrlDecodeAt
  <2>2. CASE i \in 1..n
    <3>1. f[i] = UrlPiece(str, i) \o f[UrlNext(str, i)]
      <4>1. piece[i] = UrlPiece(str, i) /\ next[i] = UrlNext(str, i)
        BY <2>2
      <4> HIDE DEF piece, next
      <4> QED BY <1>5, <2>2, <4>1 DEF Unrolls
    <3>2. <<Aborted>> \o f[n + 1] = <<Aborted>>
      BY <1>5 DEF Unrolls
    <3>3. ~ (i > Len(str)) /\ Plus # Percent
      BY <1>1, <2>2 DEF Plus, Percent
    <3>4. CASE str[i] = Plus
      BY <3>1, <3>3, <3>4, Zenon DEF UrlPiece, UrlNext, UrlDecodeAt
    <3>5. CASE str[i] = Percent
      <4> DEFINE bad == i + 2 > Len(str) \/ Aborted \in {FromHex(str[i + 1]), FromHex(str[i + 2])}
      <4>1. CASE bad
        <5>1. UrlPiece(str, i) = <<Aborted>> /\ UrlNext(str, i) = n + 1
          BY <3>3, <3>5, <4>1 DEF UrlPiece, UrlNext
        <5>2. UrlDecodeAt(str, f, i) = <<Aborted>>
          BY <3>3, <3>5, <4>1 DEF UrlDecodeAt
        <5> QED BY <3>1, <3>2, <5>1, <5>2
      <4>2. CASE ~ bad
        <5>1. /\ UrlPiece(str, i) = <<(FromHex(str[i + 1]) * 16 + FromHex(str[i + 2])) % 256>>
              /\ UrlNext(str, i) = i + 3
          BY <3>3, <3>5, <4>2, Zenon DEF UrlPiece, UrlNext
        <5>2. UrlDecodeAt(str, f, i)
                = <<(FromHex(str[i + 1]) * 16 + FromHex(str[i + 2])) % 256>> \o f[i + 3]
          BY <3>3, <3>5, <4>2, Zenon DEF UrlDecodeAt
        <5> QED BY <3>1, <5>1, <5>2
      <4> QED BY <4>1, <4>2
    <3>6. CASE str[i] # Plus /\ str[i] # Percent
      BY <3>1, <3>3, <3>6 DEF UrlPiece, UrlNext, UrlDecodeAt
    <3> QED BY <3>4, <3>5, <3>6
  <2> QED BY <1>1, <2>1, <2>2
<1>7. f = [i \in 1..Len(str) + 1 |-> UrlDecodeAt(str, f, i)]
  <2> HIDE DEF piece, next
  <2> QED BY <1>6
<1>8. F = [i \in 1..Len(str) + 1 |-> UrlDecodeAt(str, F, i)]
  BY <1>7
<1>9. UrlDecode(str) = F[1]
  BY DEF UrlDecode, UrlDecodeAt
<1> HIDE DEF F
<1> QED BY <1>8, <1>9

(* What decode_url reads at i, and where it goes on.                       *)
HttpPiece(s, i) ==
  IF s[i] = Percent /\ i < Len(s)
    THEN IF s[i + 1] = Letter_u
           THEN LET val == from_hex_to_i(s, i + 2, 4) IN
                  IF val = Aborted THEN <<s[i]>> ELSE to_utf8(val)
           ELSE LET val == from_hex_to_i(s, i + 1, 2) IN
                  IF val = Aborted THEN <<s[i]>> ELSE <<val>>
  ELSE <<IF s[i] = Plus THEN Space ELSE s[i]>>

HttpNext(s, i) ==
  IF s[i] = Percent /\ i < Len(s)
    THEN IF s[i + 1] = Letter_u
           THEN IF from_hex_to_i(s, i + 2, 4) = Aborted THEN i + 1 ELSE i + 6
           ELSE IF from_hex_to_i(s, i + 1, 2) = Aborted THEN i + 1 ELSE i + 3
  ELSE i + 1

HttpDecodeAt(s, from, i) ==
  IF i > Len(s) THEN <<>>
  ELSE IF s[i] = Percent /\ i < Len(s)
    THEN IF s[i + 1] = Letter_u
           THEN LET val == from_hex_to_i(s, i + 2, 4) IN
                  IF val = Aborted THEN <<s[i]>> \o from[i + 1]
                                   ELSE to_utf8(val) \o from[i + 6]
           ELSE LET val == from_hex_to_i(s, i + 1, 2) IN
                  IF val = Aborted THEN <<s[i]>> \o from[i + 1]
                                   ELSE <<val>> \o from[i + 3]
  ELSE <<IF s[i] = Plus THEN Space ELSE s[i]>> \o from[i + 1]

LEMMA HexType ==
  ASSUME NEW s \in Texts, NEW i \in Int, NEW cnt \in Nat
  PROVE  /\ from_hex_to_i(s, i, cnt) \in Int
         /\ from_hex_to_i(s, i, cnt) # Aborted => \A k \in i..i + cnt - 1 : k \in 1..Len(s)
<1>1. PICK val :
        /\ \A k \in 0..cnt : val[k] \in Nat \/ \E j \in i..i + k - 1 : ~ is_hex(s, j)
        /\ from_hex_to_i(s, i, cnt)
             = IF \A k \in i..i + cnt - 1 : is_hex(s, k) THEN val[cnt] ELSE Aborted
  BY HexSolves
<1>2. cnt \in 0..cnt
  OBVIOUS
<1>3. val[cnt] \in Nat \/ \E j \in i..i + cnt - 1 : ~ is_hex(s, j)
  BY <1>1, <1>2
<1>4. CASE \A k \in i..i + cnt - 1 : is_hex(s, k)
  <2>1. \A k \in i..i + cnt - 1 : k \in 1..Len(s)
    BY <1>4 DEF is_hex, Texts
  <2> QED BY <1>1, <1>3, <1>4, <2>1
<1>5. CASE \E k \in i..i + cnt - 1 : ~ is_hex(s, k)
  <2>1. from_hex_to_i(s, i, cnt) = Aborted
    BY <1>1, <1>5
  <2> QED BY <2>1 DEF Aborted
<1> QED BY <1>4, <1>5

LEMMA HttpDecodeSolves ==
  ASSUME NEW s \in Texts
  PROVE  \E from :
           /\ decode_url(s) = from[1]
           /\ \A i \in 1..Len(s) + 1 : from[i] = HttpDecodeAt(s, from, i)
<1> DEFINE n == Len(s)
           F == CHOOSE F : F = [i \in 1..Len(s) + 1 |-> HttpDecodeAt(s, F, i)]
           piece == [i \in 1..n |-> HttpPiece(s, i)]
           next == [i \in 1..n |-> HttpNext(s, i)]
<1>1. n \in Nat /\ \A i \in 1..n : s[i] \in Int
  BY DEF Texts
<1>2. \A i \in 1..n : /\ from_hex_to_i(s, i + 2, 4) \in Int
                      /\ from_hex_to_i(s, i + 2, 4) # Aborted => i + 6 <= n + 1
                      /\ from_hex_to_i(s, i + 1, 2) \in Int
                      /\ from_hex_to_i(s, i + 1, 2) # Aborted => i + 3 <= n + 1
  <2> TAKE i \in 1..n
  <2>1. i + 5 \in i + 2..i + 2 + 4 - 1 /\ i + 2 \in i + 1..i + 1 + 2 - 1
    OBVIOUS
  <2>2. /\ from_hex_to_i(s, i + 2, 4) \in Int
        /\ from_hex_to_i(s, i + 2, 4) # Aborted => i + 5 \in 1..n
    BY <2>1, HexType
  <2>3. /\ from_hex_to_i(s, i + 1, 2) \in Int
        /\ from_hex_to_i(s, i + 1, 2) # Aborted => i + 2 \in 1..n
    BY <2>1, HexType
  <2> QED BY <1>1, <2>2, <2>3
<1>3. ASSUME NEW i \in 1..n PROVE HttpPiece(s, i) \in Seq(Int)
  <2>1. \A val \in Int : to_utf8(val) \in Seq(Int) /\ <<val>> \in Seq(Int)
    <3> TAKE val \in Int
    <3> DEFINE two == <<192 + val \div 64, 128 + (val % 64)>>
               three == <<224 + val \div 4096, 128 + ((val \div 64) % 64), 128 + (val % 64)>>
    <3>1. to_utf8(val) \in {<<val>>, two, <<>>, three}
      BY DEF to_utf8
    <3>2. <<val>> \in Seq(Int) /\ <<>> \in Seq(Int)
      OBVIOUS
    <3>3. /\ val \div 64 \in Int /\ val % 64 \in Int
          /\ val \div 4096 \in Int /\ (val \div 64) % 64 \in Int
      OBVIOUS
    <3>4. two \in Seq(Int) /\ three \in Seq(Int)
      BY <3>3
    <3> HIDE DEF two, three
    <3> QED BY <3>1, <3>2, <3>4, Zenon
  <2>2. <<s[i]>> \in Seq(Int) /\ <<Space>> \in Seq(Int)
    BY <1>1 DEF Space
  <2> DEFINE u == from_hex_to_i(s, i + 2, 4)
             v == from_hex_to_i(s, i + 1, 2)
  <2>3. HttpPiece(s, i) \in {<<s[i]>>, <<Space>>, to_utf8(u), <<v>>}
    BY DEF HttpPiece
  <2>4. u \in Int /\ v \in Int
    BY <1>2
  <2> HIDE DEF u, v
  <2> QED BY <2>1, <2>2, <2>3, <2>4
<1>4. ASSUME NEW i \in 1..n PROVE HttpNext(s, i) \in 1..n + 1 /\ HttpNext(s, i) > i
  <2>1. HttpNext(s, i) \in {i + 1, i + 3, i + 6}
    BY DEF HttpNext
  <2>2. HttpNext(s, i) = i + 1 \/ HttpNext(s, i) <= n + 1
    BY <1>2 DEF HttpNext
  <2> QED BY <1>1, <2>1, <2>2
<1>5. PICK f \in [1..n + 1 -> Seq(Int)] : Unrolls(f, n, piece, next)
  <2>1. piece \in [1..n -> Seq(Int)] /\ next \in [1..n -> 1..n + 1]
    BY <1>3, <1>4
  <2>2. \A i \in 1..n : next[i] > i
    BY <1>4
  <2> HIDE DEF piece, next, n
  <2> QED BY <1>1, <2>1, <2>2, Unrolling
<1>6. ASSUME NEW i \in 1..n + 1 PROVE f[i] = HttpDecodeAt(s, f, i)
  <2>1. CASE i = n + 1
    BY <1>1, <1>5, <2>1 DEF Unrolls, HttpDecodeAt
  <2>2. CASE i \in 1..n
    <3>1. f[i] = HttpPiece(s, i) \o f[HttpNext(s, i)]
      <4>1. piece[i] = HttpPiece(s, i) /\ next[i] = HttpNext(s, i)
        BY <2>2
      <4> HIDE DEF piece, next
      <4> QED BY <1>5, <2>2, <4>1 DEF Unrolls
    <3>2. ~ (i > Len(s))
      BY <1>1, <2>2
    <3>3. HttpPiece(s, i) \o f[HttpNext(s, i)] = HttpDecodeAt(s, f, i)
      <4>1. CASE s[i] = Percent /\ i < Len(s) /\ s[i + 1] = Letter_u
        <5>1. CASE from_hex_to_i(s, i + 2, 4) = Aborted
          BY <3>2, <4>1, <5>1, Zenon DEF HttpPiece, HttpNext, HttpDecodeAt
        <5>2. CASE from_hex_to_i(s, i + 2, 4) # Aborted
          BY <3>2, <4>1, <5>2, Zenon DEF HttpPiece, HttpNext, HttpDecodeAt
        <5> QED BY <5>1, <5>2
      <4>2. CASE s[i] = Percent /\ i < Len(s) /\ s[i + 1] # Letter_u
        <5>1. CASE from_hex_to_i(s, i + 1, 2) = Aborted
          BY <3>2, <4>2, <5>1, Zenon DEF HttpPiece, HttpNext, HttpDecodeAt
        <5>2. CASE from_hex_to_i(s, i + 1, 2) # Aborted
          BY <3>2, <4>2, <5>2, Zenon DEF HttpPiece, HttpNext, HttpDecodeAt
        <5> QED BY <5>1, <5>2
      <4>3. CASE ~ (s[i] = Percent /\ i < Len(s))
        BY <3>2, <4>3, Zenon DEF HttpPiece, HttpNext, HttpDecodeAt
      <4> QED BY <4>1, <4>2, <4>3
    <3> QED BY <3>1, <3>3
  <2> QED BY <1>1, <2>1, <2>2
<1>7. f = [i \in 1..Len(s) + 1 |-> HttpDecodeAt(s, f, i)]
  <2> HIDE DEF piece, next
  <2> QED BY <1>6
<1>8. F = [i \in 1..Len(s) + 1 |-> HttpDecodeAt(s, F, i)]
  BY <1>7
<1>9. decode_url(s) = F[1]
  BY DEF decode_url, HttpDecodeAt
<1> HIDE DEF F
<1> QED BY <1>8, <1>9

(* On a well escaped text the two decoders read the same, from any place.  *)
LEMMA SameDecoding ==
  ASSUME NEW s \in Texts, WellEscaped(s)
  PROVE  UrlDecode(s) = decode_url(s)
<1>1. PICK u : /\ UrlDecode(s) = u[1]
               /\ \A i \in 1..Len(s) + 1 : u[i] = UrlDecodeAt(s, u, i)
  BY UrlDecodeSolves
<1>2. PICK h : /\ decode_url(s) = h[1]
               /\ \A i \in 1..Len(s) + 1 : h[i] = HttpDecodeAt(s, h, i)
  BY HttpDecodeSolves
<1> DEFINE n == Len(s)
           S == {i \in 1..n + 1 : u[i] = h[i]}
<1>3. n \in Nat /\ DOMAIN s = 1..n
  BY DEF Texts
<1>4. ASSUME NEW i \in 1..n + 1, \A j \in i + 1..n + 1 : j \in S PROVE u[i] = h[i]
  <2>1. u[i] = UrlDecodeAt(s, u, i) /\ h[i] = HttpDecodeAt(s, h, i)
    BY <1>1, <1>2
  <2>2. CASE i = n + 1
    BY <1>3, <2>1, <2>2 DEF UrlDecodeAt, HttpDecodeAt
  <2>3. CASE i \in 1..n
    <3>1. ~ (i > Len(s)) /\ Plus # Percent
      BY <1>3, <2>3 DEF Plus, Percent
    <3>2. u[i + 1] = h[i + 1]
      BY <1>4, <2>3
    <3>3. CASE s[i] = Percent
      <4> DEFINE a == hex_digit(s[i + 1])
                 b == hex_digit(s[i + 2])
      <4>1. is_hex(s, i + 1) /\ is_hex(s, i + 2)
        BY <1>3, <2>3, <3>3 DEF WellEscaped
      <4>2. i + 2 \in 1..n
        BY <1>3, <4>1 DEF is_hex
      <4>3. a # Aborted /\ b # Aborted /\ a \in -1..15 /\ b \in -1..15
        BY <4>1, HexDigits DEF is_hex
      <4>4. FromHex(s[i + 1]) = a /\ FromHex(s[i + 2]) = b /\ s[i + 1] # Letter_u
        BY <4>3, HexDigits
      <4>5. from_hex_to_i(s, i + 1, 2) = a * 16 + b
        <5>1. i + 1 \in Int /\ i + 2 = i + 1 + 1
          OBVIOUS
        <5>2. is_hex(s, (i + 1) + 1)
          BY <4>1, <5>1
        <5>3. from_hex_to_i(s, i + 1, 2) = a * 16 + hex_digit(s[(i + 1) + 1])
          BY <4>1, <5>1, <5>2, TwoDigits
        <5> QED BY <5>1, <5>3
      <4> HIDE DEF a, b
      <4>6. (a * 16 + b) % 256 = a * 16 + b /\ a * 16 + b # Aborted
        BY <4>3 DEF Aborted
      <4>7. u[i + 3] = h[i + 3]
        <5>1. i + 3 \in i + 1..n + 1
          BY <4>2
        <5> QED BY <1>4, <5>1
      <4>8. UrlDecodeAt(s, u, i) = <<(a * 16 + b) % 256>> \o u[i + 3]
        <5>1. ~ (i + 2 > Len(s)) /\ Aborted \notin {FromHex(s[i + 1]), FromHex(s[i + 2])}
          BY <1>3, <4>2, <4>3, <4>4
        <5> QED BY <3>1, <3>3, <4>4, <5>1, Zenon DEF UrlDecodeAt
      <4>9. HttpDecodeAt(s, h, i) = <<a * 16 + b>> \o h[i + 3]
        <5>1. i < Len(s)
          BY <1>3, <4>2
        <5> QED BY <3>1, <3>3, <4>4, <4>5, <4>6, <5>1, Zenon DEF HttpDecodeAt
      <4> QED BY <2>1, <4>6, <4>7, <4>8, <4>9
    <3>4. CASE s[i] # Percent
      <4>1. UrlDecodeAt(s, u, i) = <<IF s[i] = Plus THEN Space ELSE s[i]>> \o u[i + 1]
        BY <3>1, <3>4 DEF UrlDecodeAt
      <4>2. HttpDecodeAt(s, h, i) = <<IF s[i] = Plus THEN Space ELSE s[i]>> \o h[i + 1]
        BY <3>1, <3>4, Zenon DEF HttpDecodeAt
      <4> QED BY <2>1, <3>2, <4>1, <4>2
    <3> QED BY <3>3, <3>4
  <2> QED BY <1>3, <2>2, <2>3
<1>5. \A i \in 1..n + 1 : i \in S
  <2>1. \A i \in 1..n + 1 : (\A j \in i + 1..n + 1 : j \in S) => i \in S
    BY <1>4
  <2> HIDE DEF S, n
  <2> QED BY <1>3, <2>1, DownFrom
<1>6. 1 \in S
  BY <1>3, <1>5
<1> QED BY <1>1, <1>2, <1>6

LEMMA SplitOne ==
  ASSUME NEW c
  PROVE  Split(<<>>, c) = <<<<>>>>
<1>1. <<>> \in Texts /\ Len(<<>>) = 0
  BY EmptySeq DEF Texts
<1>2. PICK from \in [1..Len(<<>>) + 1 -> Seq(Texts)] :
        /\ Split(<<>>, c) = from[1]
        /\ \A i \in 1..Len(<<>>) + 1 : from[i] = SplitAt(<<>>, c, from, i)
  BY <1>1, SplitSolves
<1>3. from[1] = SplitAt(<<>>, c, from, 1)
  BY <1>1, <1>2
<1>4. {j \in 1..Len(<<>>) : <<>>[j] = c} = {}
  BY <1>1
<1>5. SubSeq(<<>>, 1, Len(<<>>)) = <<>>
  BY <1>1, SubSeqEmpty
<1> QED BY <1>2, <1>3, <1>4, <1>5 DEF SplitAt

(* No escape straddles a separator.                                        *)
LEMMA StretchEscaped ==
  ASSUME NEW s \in Texts, WellEscaped(s), NEW c \in {Ampersand, Equals},
         NEW i \in Int, NEW b \in Int, 1 <= i, i - 1 <= b, b <= Len(s),
         b = Len(s) \/ s[b + 1] = c
  PROVE  WellEscaped(SubSeq(s, i, b))
<1> DEFINE t == SubSeq(s, i, b)
<1>1. DOMAIN t = 1..b - i + 1 /\ \A k \in 1..b - i + 1 : t[k] = s[i + k - 1]
  BY Stretch
<1>2. Len(s) \in Nat /\ DOMAIN s = 1..Len(s)
  BY TextIndices
<1>3. Len(s) \in Nat
  BY TextIndices
<1>4. hex_digit(c) = Aborted
  BY HexDigits
<1> HIDE DEF t
<1>5. ASSUME NEW k \in DOMAIN t, t[k] = Percent PROVE is_hex(t, k + 1) /\ is_hex(t, k + 2)
  <2>1. PICK j \in Int : j = i + k - 1
    BY <1>1
  <2>2. k \in Int /\ k = j - i + 1 /\ i <= j /\ j <= b /\ s[j] = Percent
    BY <1>1, <1>5, <2>1
  <2>3. j \in 1..Len(s)
    BY <1>3, <2>2
  <2>4. is_hex(s, j + 1) /\ is_hex(s, j + 2)
    BY <1>2, <2>2, <2>3 DEF WellEscaped
  <2>5. /\ j + 2 <= Len(s)
        /\ hex_digit(s[j + 1]) # Aborted /\ hex_digit(s[j + 2]) # Aborted
    <3>1. j + 2 \in DOMAIN s /\ hex_digit(s[j + 1]) # Aborted /\ hex_digit(s[j + 2]) # Aborted
      BY <2>4 DEF is_hex
    <3>2. j + 2 \in 1..Len(s)
      BY <1>2, <3>1
    <3> QED BY <1>3, <3>1, <3>2
  <2>6. s[b + 1] = c => j # b /\ j + 1 # b
    <3>1. s[b + 1] = c => hex_digit(s[b + 1]) = Aborted
      BY <1>4
    <3>2. j = b => hex_digit(s[b + 1]) # Aborted
      BY <2>5
    <3>3. j + 1 = b => hex_digit(s[b + 1]) # Aborted
      <4>1. j + 1 = b => b + 1 = j + 2
        OBVIOUS
      <4> QED BY <2>5, <4>1
    <3> QED BY <3>1, <3>2, <3>3
  <2>7. j + 2 <= b
    <3>1. CASE b = Len(s)
      BY <2>5, <3>1
    <3>2. CASE s[b + 1] = c
      BY <2>2, <2>6, <3>2
    <3> QED BY <3>1, <3>2
  <2>8. k + 1 \in 1..b - i + 1 /\ k + 2 \in 1..b - i + 1
    BY <2>2, <2>7
  <2>9. t[k + 1] = s[j + 1] /\ t[k + 2] = s[j + 2]
    <3>1. i + ((k + 1) - 1) = j + 1 /\ i + ((k + 2) - 1) = j + 2
      BY <2>2
    <3>2. t[k + 1] = s[i + ((k + 1) - 1)] /\ t[k + 2] = s[i + ((k + 2) - 1)]
      BY <1>1, <2>8, Zenon
    <3> QED BY <3>1, <3>2
  <2> QED BY <1>1, <2>4, <2>8, <2>9 DEF is_hex
<1> QED BY <1>5 DEF WellEscaped, t

(* Every piece Split returns is a stretch that c, or nothing, follows.     *)
LEMMA SplitEscaped ==
  ASSUME NEW s \in Texts, WellEscaped(s), NEW c \in {Ampersand, Equals}
  PROVE  \A p \in DOMAIN Split(s, c) : WellEscaped(Split(s, c)[p])
<1> DEFINE n == Len(s)
           Good(parts) == \A p \in DOMAIN parts : WellEscaped(parts[p])
<1>1. PICK from \in [1..n + 1 -> Seq(Texts)] :
        /\ Split(s, c) = from[1]
        /\ \A i \in 1..n + 1 : from[i] = SplitAt(s, c, from, i)
  BY SplitSolves
<1>2. n \in Nat
  BY TextIndices
<1> DEFINE S == {i \in 1..n + 1 : Good(from[i])}
<1>3. ASSUME NEW i \in 1..n + 1, \A j \in i + 1..n + 1 : j \in S PROVE Good(from[i])
  <2>1. from[i] = SplitAt(s, c, from, i)
    BY <1>1
  <2>2. i \in Int /\ 1 <= i /\ i - 1 <= n
    BY <1>2
  <2>3. CASE Cuts(s, c, i) = {}
    <3>1. from[i] = <<SubSeq(s, i, n)>>
      BY <2>1, <2>3, SplitCut
    <3>2. WellEscaped(SubSeq(s, i, n))
      BY <1>2, <2>2, StretchEscaped
    <3>3. DOMAIN from[i] = {1} /\ from[i][1] = SubSeq(s, i, n)
      <4> DEFINE t == SubSeq(s, i, n)
      <4> HIDE DEF t
      <4> QED BY <3>1 DEF t
    <3> QED BY <3>2, <3>3
  <2>4. CASE Cuts(s, c, i) # {}
    <3> DEFINE cut == Cut(s, c, i)
    <3>1. cut \in i..n /\ s[cut] = c
      BY <2>4, FirstCut
    <3>2. from[i] = <<SubSeq(s, i, cut - 1)>> \o from[cut + 1]
      BY <2>1, <2>4, SplitCut
    <3> HIDE DEF cut
    <3>3. cut \in Int /\ i - 1 <= cut - 1 /\ cut - 1 <= n /\ cut - 1 + 1 = cut
      BY <1>2, <2>2, <3>1
    <3>4. WellEscaped(SubSeq(s, i, cut - 1))
      <4>1. cut - 1 \in Int
        BY <3>3
      <4> HIDE DEF n
      <4>2. s[(cut - 1) + 1] = c
        BY <3>1, <3>3
      <4> QED BY <1>2, <2>2, <3>3, <4>1, <4>2, StretchEscaped DEF n
    <3>5. cut + 1 \in i + 1..n + 1 /\ cut + 1 \in 1..n + 1
      BY <1>2, <2>2, <3>1
    <3>6. Good(from[cut + 1])
      BY <1>3, <3>5
    <3>7. from[cut + 1] \in Seq(Texts) /\ SubSeq(s, i, cut - 1) \in Texts
      BY <1>1, <2>2, <3>3, <3>5, Stretch
    <3>8. ASSUME NEW p \in DOMAIN from[i] PROVE WellEscaped(from[i][p])
      <4> DEFINE head == SubSeq(s, i, cut - 1)
                 tail == from[cut + 1]
      <4> HIDE DEF head, tail
      <4>1. head \in Texts /\ tail \in Seq(Texts)
        BY <3>7 DEF head, tail
      <4>2. from[i] = <<head>> \o tail
        BY <3>2 DEF head, tail
      <4>3. \/ p = 1 /\ from[i][p] = head
            \/ p - 1 \in DOMAIN tail /\ from[i][p] = tail[p - 1]
        BY <4>1, <4>2
      <4> QED BY <3>4, <3>6, <4>3 DEF head, tail
    <3> QED BY <3>8
  <2> QED BY <2>3, <2>4
<1>4. \A i \in 1..n + 1 : i \in S
  <2>1. \A i \in 1..n + 1 : (\A j \in i + 1..n + 1 : j \in S) => i \in S
    BY <1>3
  <2> HIDE DEF S, n
  <2> QED BY <1>2, <2>1, DownFrom
<1>5. 1 \in S
  BY <1>2, <1>4
<1> QED BY <1>1, <1>5

(* A field with one = and a key is read as these two.                      *)
LEMMA ReadsField ==
  ASSUME NEW s \in Texts, Len(Split(s, Equals)) = 2, Split(s, Equals)[1] # <<>>
  PROVE  KeyValue(s) = <<Split(s, Equals)[1], decode_url(Split(s, Equals)[2])>>
<1> DEFINE parts == Split(s, Equals)
           I == {i \in 1..Len(parts) : parts[i] # <<>>}
<1>1. s # <<>>
  <2>1. Len(<<<<>>>>) = 1
    OBVIOUS
  <2> QED BY <2>1, SplitOne
<1>2. split(s, Equals) = parts
  BY <1>1 DEF split
<1>3. Min(I) = 1
  <2>1. 1 \in I /\ \A y \in I : 1 <= y
    OBVIOUS
  <2>2. \A x \in I : (\A y \in I : x <= y) => x = 1
    <3>1. I \subseteq 1..2
      OBVIOUS
    <3> HIDE DEF I
    <3> QED BY <2>1, <3>1
  <2> HIDE DEF I
  <2> QED BY <2>1, <2>2 DEF Min
<1>4. SelectInSeq(parts, LAMBDA p : p # <<>>) = 1
  BY <1>3 DEF SelectInSeq
<1> HIDE DEF parts, I
<1>5. 1 < Len(parts) /\ parts[Len(parts)] = parts[2]
  BY DEF parts
<1>6. KeyValue(s) = LET key == SelectInSeq(parts, LAMBDA p : p # <<>>)
                    IN  IF key = 0 THEN <<<<>>, <<>>>>
                        ELSE <<parts[key], IF key < Len(parts) THEN decode_url(parts[Len(parts)]) ELSE <<>>>>
  BY <1>2 DEF KeyValue
<1>7. KeyValue(s) = <<parts[1], decode_url(parts[2])>>
  BY <1>4, <1>5, <1>6
<1> QED BY <1>7 DEF parts

LEMMA ReadTwice ==
  ASSUME NEW s \in Texts, WellEscaped(s), ProperForm(s)
  PROVE  LET form == ParseBody(s)
         IN  Range(parse_query_text(s)) = {<<key, form[key]>> : key \in DOMAIN form}
<1> DEFINE kvs == Split(s, Ampersand)
           kv(i) == Split(kvs[i], Equals)
           form == ParseBody(s)
           taken == {i \in DOMAIN kvs : Len(kv(i)) = 2}
           last(key) == CHOOSE i \in taken :
                          kv(i)[1] = key /\ \A j \in taken : kv(j)[1] = key => j <= i
<1>1. kvs \in Seq(Texts) /\ DOMAIN kvs = 1..Len(kvs) /\ Len(kvs) \in Nat
  <2>1. kvs \in Seq(Texts)
    BY SplitIsSeq
  <2> HIDE DEF kvs
  <2> QED BY <2>1
<1>2. ASSUME NEW i \in DOMAIN kvs
      PROVE  /\ kvs[i] \in Texts /\ WellEscaped(kvs[i])
             /\ kv(i) \in Seq(Texts)
             /\ Len(kv(i)) = 2 /\ kv(i)[1] # <<>>
             /\ \A j \in DOMAIN kvs : kv(j)[1] = kv(i)[1] => j = i
  <2>1. kvs[i] \in Texts
    <3> HIDE DEF kvs
    <3> QED BY <1>1
  <2>2. WellEscaped(kvs[i])
    BY SplitEscaped
  <2>3. kv(i) \in Seq(Texts)
    BY <2>1, SplitIsSeq
  <2> QED BY <2>1, <2>2, <2>3 DEF ProperForm
<1>3. s # <<>>
  <2>1. s = <<>> => kvs = <<<<>>>>
    BY SplitOne
  <2>2. s = <<>> => 1 \in DOMAIN kvs /\ kvs[1] = <<>>
    BY <2>1
  <2>3. Len(Split(<<>>, Equals)) = 1
    BY SplitOne
  <2> QED BY <1>2, <2>2, <2>3
<1>4. ASSUME NEW i \in DOMAIN kvs
      PROVE  KeyValue(kvs[i]) = <<kv(i)[1], UrlDecode(kv(i)[2])>>
  <2>1. KeyValue(kvs[i]) = <<kv(i)[1], decode_url(kv(i)[2])>>
    <3> HIDE DEF kvs
    <3> QED BY <1>2, ReadsField
  <2>2. kv(i)[2] \in Texts /\ 2 \in DOMAIN kv(i)
    <3>1. kv(i) \in Seq(Texts) /\ Len(kv(i)) = 2
      BY <1>2
    <3> HIDE DEF kv
    <3> QED BY <3>1
  <2>3. WellEscaped(kv(i)[2])
    BY <1>2, <2>2, SplitEscaped
  <2>4. UrlDecode(kv(i)[2]) = decode_url(kv(i)[2])
    BY <2>2, <2>3, SameDecoding
  <2> QED BY <2>1, <2>4
<1>5. form = [key \in {kv(i)[1] : i \in taken} |-> UrlDecode(kv(last(key))[2])]
  BY DEF ParseBody
<1>6. ASSUME NEW i \in DOMAIN kvs PROVE i \in taken /\ last(kv(i)[1]) = i
  <2>1. taken = DOMAIN kvs
    BY <1>2
  <2> HIDE DEF kvs, kv, taken
  <2>2. i \in Int
    BY <1>1
  <2>3. \A j \in taken : kv(j)[1] = kv(i)[1] => j <= i
    BY <1>2, <2>1, <2>2
  <2>4. \A k \in taken : kv(k)[1] = kv(i)[1] => k = i
    BY <1>2, <2>1
  <2> QED BY <2>1, <2>3, <2>4
<1>7. Range(parse_query_text(s)) = {KeyValue(kvs[i]) : i \in DOMAIN kvs}
  <2>1. parse_query_text(s) = [i \in DOMAIN kvs |-> KeyValue(kvs[i])]
    BY <1>3 DEF parse_query_text, split
  <2> HIDE DEF kvs
  <2> QED BY <2>1 DEF Range
<1>8. taken \subseteq DOMAIN kvs
  OBVIOUS
<1> HIDE DEF kvs, kv, last, form, taken
<1>9. /\ DOMAIN form = {kv(i)[1] : i \in DOMAIN kvs}
      /\ \A i \in DOMAIN kvs : form[kv(i)[1]] = UrlDecode(kv(i)[2])
  BY <1>5, <1>6, <1>8
<1>10. {KeyValue(kvs[i]) : i \in DOMAIN kvs} = {<<key, form[key]>> : key \in DOMAIN form}
  BY <1>4, <1>9
<1> QED BY <1>7, <1>10 DEF form

(* UrlDecode and ParseBody against decode_url and parse_query_text: the    *)
(* two readers of a form agree, proved for every well escaped text.        *)
THEOREM ReadersAgree == Spec => []DecodersAgree
<1>1. TextOK => DecodersAgree
  <2>1. TextOK => text \in Texts
    BY BytesAreTexts DEF TextOK
  <2> QED BY <2>1, SameDecoding, ReadTwice DEF DecodersAgree
<1> QED BY <1>1, TextType, PTL

-----------------------------------------------------------------------------
(* A text written piece by piece, and read piece by piece.                 *)

(* Where each piece ends in the text.                                      *)
Ends(seqs, at) == at[0] = 0 /\ \A k \in 1..Len(seqs) : at[k] = at[k - 1] + Len(seqs[k])

(* The first k pieces stand one after the other in t.                      *)
Joined(t, seqs, at, k) ==
  /\ t \in Texts /\ Len(t) = at[k] /\ at[k] \in Nat
  /\ \A i \in 0..k : at[i] \in Nat /\ at[i] <= at[k]
  /\ \A i \in 1..k : \A j \in 1..Len(seqs[i]) : t[at[i - 1] + j] = seqs[i][j]
  /\ \A p \in 1..at[k] : \E i \in 1..k : \E j \in 1..Len(seqs[i]) : p = at[i - 1] + j

LEMMA InPiece ==
  ASSUME NEW t, NEW seqs, NEW at, NEW k, Joined(t, seqs, at, k)
  PROVE  \A p \in 1..Len(t) : \E i \in 1..k : \E j \in 1..Len(seqs[i]) : t[p] = seqs[i][j]
<1> SUFFICES ASSUME NEW p \in 1..Len(t)
             PROVE  \E i \in 1..k : \E j \in 1..Len(seqs[i]) : t[p] = seqs[i][j]
  OBVIOUS
<1>1. PICK i \in 1..k : \E j \in 1..Len(seqs[i]) : p = at[i - 1] + j
  BY DEF Joined
<1>2. PICK j \in 1..Len(seqs[i]) : p = at[i - 1] + j
  BY <1>1
<1>3. t[p] = seqs[i][j]
  BY <1>2 DEF Joined
<1> QED BY <1>3

LEMMA JoinedOneMore ==
  ASSUME NEW seqs \in Seq(Texts), NEW at, Ends(seqs, at), NEW k \in 1..Len(seqs), NEW t,
         Joined(t, seqs, at, k - 1)
  PROVE  Joined(t \o seqs[k], seqs, at, k)
<1> DEFINE u == seqs[k]
           s == t \o u
<1>1. t \in Texts /\ u \in Texts /\ k \in Nat /\ k - 1 \in Nat
  BY DEF Joined
<1>2. Len(t) = at[k - 1] /\ at[k - 1] \in Nat /\ at[k] = at[k - 1] + Len(u) /\ Len(u) \in Nat
  <2>1. Len(u) \in Nat
    BY <1>1, TextIndices
  <2> QED BY <2>1 DEF Joined, Ends
<1> HIDE DEF u
<1>3. /\ s \in Texts /\ Len(s) = at[k] /\ at[k] \in Nat
      /\ \A i \in 1..at[k - 1] : s[i] = t[i]
      /\ \A j \in 1..Len(u) : s[at[k - 1] + j] = u[j]
  <2>1. /\ s \in Texts /\ Len(s) = Len(t) + Len(u)
        /\ \A i \in 1..Len(t) : s[i] = t[i]
        /\ \A j \in 1..Len(u) : s[Len(t) + j] = u[j]
    BY <1>1, Joining
  <2> HIDE DEF s
  <2> QED BY <1>2, <2>1
<1> HIDE DEF s
<1>4. ASSUME NEW i \in 0..k PROVE at[i] \in Nat /\ at[i] <= at[k]
  <2>1. CASE i = k
    BY <1>3, <2>1
  <2>2. CASE i \in 0..k - 1
    <3>1. at[i] \in Nat /\ at[i] <= at[k - 1]
      BY <2>2 DEF Joined
    <3> QED BY <1>2, <3>1
  <2> QED BY <1>1, <2>1, <2>2
<1>5. ASSUME NEW i \in 1..k, NEW j \in 1..Len(seqs[i]) PROVE s[at[i - 1] + j] = seqs[i][j]
  <2>1. CASE i = k
    BY <1>3, <2>1 DEF u
  <2>2. CASE i \in 1..k - 1
    <3>1. t[at[i - 1] + j] = seqs[i][j]
      BY <2>2 DEF Joined
    <3>2. at[i] = at[i - 1] + Len(seqs[i])
      BY DEF Ends
    <3>3. at[i] \in Nat /\ at[i - 1] \in Nat /\ at[i] <= at[k - 1]
      <4>1. i \in 0..k - 1 /\ i - 1 \in 0..k - 1
        BY <1>1, <2>2
      <4> QED BY <4>1 DEF Joined
    <3>4. Len(seqs[i]) \in Nat
      <4>1. seqs[i] \in Texts
        OBVIOUS
      <4> QED BY <4>1, TextIndices
    <3>5. at[i - 1] + j \in 1..at[k - 1]
      BY <1>2, <3>2, <3>3, <3>4, SMTT(30)
    <3> QED BY <1>3, <3>1, <3>5
  <2> QED BY <1>1, <2>1, <2>2
<1>6. ASSUME NEW p \in 1..at[k]
      PROVE  \E i \in 1..k : \E j \in 1..Len(seqs[i]) : p = at[i - 1] + j
  <2>1. CASE p \in 1..at[k - 1]
    <3>1. \E i \in 1..k - 1 : \E j \in 1..Len(seqs[i]) : p = at[i - 1] + j
      BY <2>1 DEF Joined
    <3>2. \A i \in 1..k - 1 : i \in 1..k
      BY <1>1
    <3> QED BY <3>1, <3>2
  <2>2. CASE p \notin 1..at[k - 1]
    <3>1. p - at[k - 1] \in 1..Len(u) /\ p = at[k - 1] + (p - at[k - 1])
      BY <1>2, <1>3, <2>2
    <3>2. k \in 1..k
      BY <1>1
    <3> QED BY <3>1, <3>2 DEF u
  <2> QED BY <2>1, <2>2
<1> QED BY <1>3, <1>4, <1>5, <1>6 DEF Joined, s, u

(* The pieces of FlattenSeq(seqs).                                         *)
LEMMA Flattened ==
  ASSUME NEW seqs \in Seq(Texts)
  PROVE  \E at : Ends(seqs, at) /\ Joined(FlattenSeq(seqs), seqs, at, Len(seqs))
<1> DEFINE n == Len(seqs)
           F == CHOOSE F : F = [i \in 1..Len(seqs) |-> IF i = 1 THEN seqs[i] ELSE F[i - 1] \o seqs[i]]
           G == [tk \in Texts \X (1..n) |-> tk[1] \o seqs[tk[2]]]
           H == [ak \in Nat \X (1..n) |-> ak[1] + Len(seqs[ak[2]])]
<1>1. n \in Nat /\ DOMAIN seqs = 1..n /\ \A k \in 1..n : seqs[k] \in Texts
  OBVIOUS
<1>2. G \in [Texts \X (1..n) -> Texts]
  <2>1. \A t \in Texts, k \in 1..n : t \o seqs[k] \in Texts
    BY <1>1, ConcatProperties DEF Texts
  <2> QED BY <2>1
<1>3. H \in [Nat \X (1..n) -> Nat]
  <2>1. \A k \in 1..n : Len(seqs[k]) \in Nat
    BY <1>1, TextIndices
  <2> QED BY <2>1
<1>4. PICK at \in [0..n -> Nat] : Iterates(at, n, 0, H)
  <2>1. 0 \in Nat
    OBVIOUS
  <2> HIDE DEF n, H
  <2> QED BY <1>1, <1>3, <2>1, Iteration, Zenon
<1>5. Ends(seqs, at)
  <2>1. ASSUME NEW k \in 1..n PROVE at[k] = at[k - 1] + Len(seqs[k])
    <3>1. at[k - 1] \in Nat
      BY <1>1
    <3>2. at[k] = H[<<at[k - 1], k>>]
      BY <1>4 DEF Iterates
    <3> QED BY <3>1, <3>2
  <2>2. at[0] = 0
    BY <1>4 DEF Iterates
  <2> QED BY <2>1, <2>2 DEF Ends
<1>6. <<>> \in Texts /\ Len(<<>>) = 0
  BY EmptySeq DEF Texts
<1>7. PICK f \in [0..n -> Texts] : Iterates(f, n, <<>>, G)
  <2> HIDE DEF n, G
  <2> QED BY <1>1, <1>2, <1>6, Iteration, Zenon
<1>8. ASSUME NEW k \in 1..n PROVE f[k] = f[k - 1] \o seqs[k]
  <2>1. f[k - 1] \in Texts
    BY <1>1
  <2>2. f[k] = G[<<f[k - 1], k>>]
    BY <1>7 DEF Iterates
  <2> QED BY <2>1, <2>2
<1>9. F = [i \in 1..n |-> IF i = 1 THEN seqs[i] ELSE F[i - 1] \o seqs[i]]
  <2> DEFINE g == [i \in 1..n |-> f[i]]
  <2>1. ASSUME NEW i \in 1..n PROVE g[i] = IF i = 1 THEN seqs[i] ELSE g[i - 1] \o seqs[i]
    <3>1. CASE i = 1
      <4>1. f[1] = f[0] \o seqs[1] /\ f[0] = <<>>
        <5>1. 1 - 1 = 0
          OBVIOUS
        <5> QED BY <1>7, <1>8, <3>1, <5>1 DEF Iterates
      <4>2. <<>> \o seqs[1] = seqs[1]
        BY <1>1, <3>1, ConcatEmptySeq DEF Texts
      <4> QED BY <3>1, <4>1, <4>2
    <3>2. CASE i # 1
      <4>1. i - 1 \in 1..n
        BY <1>1, <3>2
      <4>2. g[i - 1] = f[i - 1] /\ g[i] = f[i]
        BY <4>1
      <4> HIDE DEF g
      <4> QED BY <1>8, <3>2, <4>2
    <3> QED BY <3>1, <3>2
  <2>2. g = [i \in 1..n |-> IF i = 1 THEN seqs[i] ELSE g[i - 1] \o seqs[i]]
    BY <2>1
  <2> HIDE DEF g
  <2> QED BY <2>2
<1>10. CASE n = 0
  <2>1. seqs = <<>> /\ FlattenSeq(seqs) = <<>>
    BY <1>1, <1>10 DEF FlattenSeq
  <2>2. at[0] = 0
    BY <1>5 DEF Ends
  <2>3. Joined(<<>>, seqs, at, 0)
    BY <1>6, <2>2 DEF Joined
  <2> QED BY <1>5, <1>10, <2>1, <2>3
<1>11. CASE n # 0
  <2>1. FlattenSeq(seqs) = F[n]
    BY <1>11 DEF FlattenSeq
  <2> HIDE DEF F
  <2> DEFINE S == {k \in 0..n : k # 0 => Joined(F[k], seqs, at, k)}
  <2>2. 0 \in S
    BY <1>1
  <2>3. ASSUME NEW k \in 1..n, k - 1 \in S PROVE Joined(F[k], seqs, at, k)
    <3>1. CASE k = 1
      <4>1. Joined(<<>>, seqs, at, 1 - 1)
        <5>1. at[0] = 0 /\ 1 - 1 = 0
          BY <1>5 DEF Ends
        <5>2. Joined(<<>>, seqs, at, 0)
          BY <1>6, <5>1 DEF Joined
        <5> QED BY <5>1, <5>2
      <4>2. Joined(<<>> \o seqs[1], seqs, at, 1)
        BY <1>5, <3>1, <4>1, JoinedOneMore
      <4>3. <<>> \o seqs[1] = seqs[1]
        BY <1>1, <3>1, ConcatEmptySeq DEF Texts
      <4>4. F[1] = seqs[1]
        BY <1>9, <3>1
      <4> QED BY <3>1, <4>2, <4>3, <4>4
    <3>2. CASE k # 1
      <4>1. Joined(F[k - 1], seqs, at, k - 1)
        BY <1>1, <2>3, <3>2
      <4>2. Joined(F[k - 1] \o seqs[k], seqs, at, k)
        BY <1>5, <4>1, JoinedOneMore
      <4>3. F[k] = F[k - 1] \o seqs[k]
        BY <1>9, <3>2
      <4> QED BY <4>2, <4>3
    <3> QED BY <3>1, <3>2
  <2>4. \A k \in 1..n : k - 1 \in S => k \in S
    BY <2>3
  <2>5. \A k \in 0..n : k \in S
    <3> HIDE DEF S, n
    <3> QED BY <1>1, <2>2, <2>4, UpTo
  <2>6. Joined(F[n], seqs, at, n)
    BY <1>1, <1>11, <2>5
  <2> QED BY <1>5, <2>1, <2>6
<1> QED BY <1>10, <1>11

(* Read piece by piece, one byte each, a text comes back.                  *)
LEMMA Spelled ==
  ASSUME NEW t \in Texts, NEW at, NEW from, at[0] = 0, from[at[Len(t)] + 1] = <<>>,
         \A k \in 1..Len(t) : from[at[k - 1] + 1] = <<t[k]>> \o from[at[k] + 1]
  PROVE  from[1] = t
<1> DEFINE n == Len(t)
           S == {i \in 1..n + 1 : from[at[i - 1] + 1] = SubSeq(t, i, n)}
<1>1. n \in Nat
  BY TextIndices
<1>2. ASSUME NEW i \in 1..n + 1, \A j \in i + 1..n + 1 : j \in S
      PROVE  from[at[i - 1] + 1] = SubSeq(t, i, n)
  <2>1. CASE i = n + 1
    <3>1. SubSeq(t, i, n) = <<>>
      BY <1>1, <2>1, SubSeqEmpty
    <3>2. i - 1 = n
      BY <1>1, <2>1
    <3> QED BY <3>1, <3>2
  <2>2. CASE i \in 1..n
    <3>1. i + 1 \in S /\ (i + 1) - 1 = i
      <4>1. i + 1 \in i + 1..n + 1 /\ (i + 1) - 1 = i
        BY <1>1, <2>2
      <4> HIDE DEF S, n
      <4> QED BY <1>2, <4>1
    <3>2. from[at[i] + 1] = SubSeq(t, i + 1, n)
      BY <3>1
    <3>3. SubSeq(t, i, n) = <<t[i]>> \o SubSeq(t, i + 1, n)
      <4>1. n \in i..Len(t)
        BY <1>1, <2>2
      <4> QED BY <2>2, <4>1, SubSeqRecursiveFirst DEF Texts
    <3> QED BY <2>2, <3>2, <3>3
  <2> QED BY <1>1, <2>1, <2>2
<1>3. \A i \in 1..n + 1 : i \in S
  <2>1. \A i \in 1..n + 1 : (\A j \in i + 1..n + 1 : j \in S) => i \in S
    BY <1>2
  <2> HIDE DEF S, n
  <2> QED BY <1>1, <2>1, DownFrom
<1>4. from[at[1 - 1] + 1] = SubSeq(t, 1, n)
  BY <1>1, <1>3
<1>5. SubSeq(t, 1, n) = t
  BY SubSeqFull DEF Texts
<1>6. at[1 - 1] + 1 = 1
  <2>1. 1 - 1 = 0
    OBVIOUS
  <2> QED BY <2>1
<1> QED BY <1>4, <1>5, <1>6

(* Searching for one byte.                                                 *)
LEMMA FindByte ==
  ASSUME NEW s \in Texts, NEW c, NEW i \in Nat \ {0}
  PROVE  Find(s, <<c>>, i) = IF Cuts(s, c, i) = {} THEN 0 ELSE Cut(s, c, i)
<1> DEFINE found == {j \in i..Len(s) - Len(<<c>>) + 1 : SubSeq(s, j, j + Len(<<c>>) - 1) = <<c>>}
<1>1. Len(<<c>>) = 1 /\ Len(s) \in Nat
  BY TextIndices
<1>2. i..Len(s) - Len(<<c>>) + 1 = i..Len(s)
  BY <1>1
<1>3. ASSUME NEW j \in i..Len(s)
      PROVE  SubSeq(s, j, j + Len(<<c>>) - 1) = <<c>> <=> s[j] = c
  <2>1. j + Len(<<c>>) - 1 = j
    BY <1>1
  <2>2. Len(SubSeq(s, j, j)) = 1 /\ SubSeq(s, j, j) \in Texts
    BY <1>1, Stretch
  <2>3. SubSeq(s, j, j)[1] = s[j]
    <3>1. 1 \in 1..j - j + 1 /\ j + 1 - 1 = j
      OBVIOUS
    <3>2. SubSeq(s, j, j)[1] = s[j + 1 - 1]
      BY <1>1, <3>1, Stretch
    <3> QED BY <3>1, <3>2
  <2>4. SubSeq(s, j, j) = <<s[j]>>
    <3> DEFINE u == SubSeq(s, j, j)
    <3>1. u \in Seq(Int) /\ Len(u) = 1 /\ u[1] = s[j]
      BY <2>2, <2>3 DEF Texts
    <3> HIDE DEF u
    <3>2. u = <<u[1]>>
      BY <3>1
    <3> QED BY <3>1, <3>2 DEF u
  <2> QED BY <2>1, <2>4
<1>4. found = Cuts(s, c, i)
  BY <1>2, <1>3 DEF Cuts
<1>5. Find(s, <<c>>, i) = IF found = {} THEN 0 ELSE CHOOSE j \in found : \A k \in found : j <= k
  BY DEF Find
<1> HIDE DEF found
<1> QED BY <1>4, <1>5 DEF Cut

LEMMA NotFound ==
  ASSUME NEW s \in Texts, NEW c, \A j \in 1..Len(s) : s[j] # c
  PROVE  Find(s, <<c>>, 1) = 0
<1>1. Cuts(s, c, 1) = {}
  BY DEF Cuts
<1> QED BY <1>1, FindByte

(* Escapes.                                                                *)
LEMMA HexOfByte ==
  ASSUME NEW c \in Byte
  PROVE  /\ hex_digit(ToHex(c \div 16)) = c \div 16
         /\ hex_digit(ToHex(c % 16)) = c % 16
         /\ c \div 16 \in 0..15 /\ c % 16 \in 0..15 /\ (c \div 16) * 16 + (c % 16) = c
         /\ {ToHex(c \div 16), ToHex(c % 16)} \subseteq Digits \cup 65..70
<1>1. c \div 16 \in 0..15 /\ c % 16 \in 0..15 /\ (c \div 16) * 16 + (c % 16) = c
  BY DEF Byte
<1>2. ASSUME NEW d \in 0..15
      PROVE  hex_digit(ToHex(d)) = d /\ ToHex(d) \in Digits \cup 65..70
  BY DEF hex_digit, ToHex, Digits
<1> QED BY <1>1, <1>2

LEMMA EscapeType ==
  ASSUME NEW c \in Byte, NEW e, e = <<Percent, ToHex(c \div 16), ToHex(c % 16)>>
  PROVE  /\ e \in Texts /\ Len(e) = 3
         /\ e[1] = Percent /\ e[2] = ToHex(c \div 16) /\ e[3] = ToHex(c % 16)
         /\ \A j \in 1..Len(e) : e[j] \in {Percent} \cup Digits \cup 65..70
<1>1. ToHex(c \div 16) \in Digits \cup 65..70 /\ ToHex(c % 16) \in Digits \cup 65..70
  BY HexOfByte
<1>2. Digits \cup 65..70 \subseteq Int /\ Percent \in Int
  BY DEF Digits, Percent
<1> DEFINE h == ToHex(c \div 16)
           l == ToHex(c % 16)
<1>3. h \in Int /\ l \in Int /\ h \in Digits \cup 65..70 /\ l \in Digits \cup 65..70 /\ e = <<Percent, h, l>>
  BY <1>1, <1>2
<1> HIDE DEF h, l
<1>4. e \in Texts /\ Len(e) = 3 /\ e[1] = Percent /\ e[2] = h /\ e[3] = l
  BY <1>2, <1>3 DEF Texts
<1>5. \A j \in 1..Len(e) : e[j] \in {Percent} \cup Digits \cup 65..70
  <2>1. \A j \in 1..Len(e) : j = 1 \/ j = 2 \/ j = 3
    BY <1>4
  <2> QED BY <1>3, <1>4, <2>1
<1> QED BY <1>4, <1>5 DEF h, l

LEMMA PlainType ==
  ASSUME NEW c \in Int, NEW e, e = <<c>>
  PROVE  e \in Texts /\ Len(e) = 1 /\ e[1] = c /\ \A j \in 1..Len(e) : e[j] = c
<1>1. e \in Texts /\ Len(e) = 1 /\ e[1] = c
  BY DEF Texts
<1>2. \A j \in 1..Len(e) : j = 1
  BY <1>1
<1> QED BY <1>1, <1>2

(* A byte that UrlEncode does not write as an escape.                      *)
Unescaped(c) == c \in Digits \cup Upper \cup Lower \cup {45, 95, 46, 126, Space}

LEMMA EncodedByteType ==
  ASSUME NEW c \in Byte
  PROVE  /\ EncodedByte(c) \in Texts
         /\ \A j \in 1..Len(EncodedByte(c)) : EncodedByte(c)[j] \notin {Ampersand, Equals}
         /\ Unescaped(c) => /\ Len(EncodedByte(c)) = 1
                            /\ EncodedByte(c)[1] = IF c = Space THEN Plus ELSE c
                            /\ EncodedByte(c)[1] # Percent
         /\ ~ Unescaped(c) => EncodedByte(c) = <<Percent, ToHex(c \div 16), ToHex(c % 16)>>
<1> DEFINE e == EncodedByte(c)
<1>1. c \in Int
  BY DEF Byte
<1>2. CASE c = Space
  <2>1. e = <<Plus>>
    BY <1>2 DEF EncodedByte, Space, Digits, Upper, Lower
  <2>2. Plus \in Int /\ Plus \notin {Ampersand, Equals, Percent}
    BY DEF Plus, Ampersand, Equals, Percent
  <2> HIDE DEF e
  <2>3. e \in Texts /\ Len(e) = 1 /\ e[1] = Plus /\ \A j \in 1..Len(e) : e[j] = Plus
    BY <2>1, <2>2, PlainType
  <2> QED BY <1>2, <2>2, <2>3 DEF e, Unescaped
<1>3. CASE Unescaped(c) /\ c # Space
  <2>1. e = <<c>>
    BY <1>3 DEF EncodedByte, Unescaped
  <2>2. c \notin {Ampersand, Equals, Percent}
    BY <1>3 DEF Unescaped, Digits, Upper, Lower, Ampersand, Equals, Percent
  <2> HIDE DEF e
  <2>3. e \in Texts /\ Len(e) = 1 /\ e[1] = c /\ \A j \in 1..Len(e) : e[j] = c
    BY <1>1, <2>1, PlainType
  <2> QED BY <1>3, <2>2, <2>3 DEF e
<1>4. CASE ~ Unescaped(c)
  <2>1. e = <<Percent, ToHex(c \div 16), ToHex(c % 16)>>
    BY <1>4 DEF EncodedByte, Unescaped
  <2>2. Ampersand \notin {Percent} \cup Digits \cup 65..70 /\ Equals \notin {Percent} \cup Digits \cup 65..70
    BY DEF Ampersand, Equals, Percent, Digits
  <2> HIDE DEF e
  <2>3. e \in Texts /\ \A j \in 1..Len(e) : e[j] \in {Percent} \cup Digits \cup 65..70
    BY <2>1, EscapeType
  <2> QED BY <1>4, <2>1, <2>2, <2>3 DEF e
<1> QED BY <1>2, <1>3, <1>4 DEF Unescaped

LEMMA EncodedTexts ==
  ASSUME NEW t \in Seq(Byte)
  PROVE  /\ [i \in DOMAIN t |-> EncodedByte(t[i])] \in Seq(Texts)
         /\ Len([i \in DOMAIN t |-> EncodedByte(t[i])]) = Len(t)
<1>1. DOMAIN t = 1..Len(t) /\ Len(t) \in Nat /\ \A i \in 1..Len(t) : t[i] \in Byte
  OBVIOUS
<1>2. \A i \in DOMAIN t : EncodedByte(t[i]) \in Texts
  BY <1>1, EncodedByteType
<1> QED BY <1>1, <1>2

(* UrlEncode never writes a separator, and UrlDecode reads what it wrote.  *)
LEMMA EncodedClean ==
  ASSUME NEW t \in Seq(Byte)
  PROVE  /\ UrlEncode(t) \in Texts
         /\ \A p \in 1..Len(UrlEncode(t)) : UrlEncode(t)[p] \notin {Ampersand, Equals}
<1> DEFINE seqs == [i \in DOMAIN t |-> EncodedByte(t[i])]
           u == UrlEncode(t)
<1>1. seqs \in Seq(Texts) /\ Len(seqs) = Len(t)
  BY EncodedTexts
<1>2. PICK at : Joined(u, seqs, at, Len(seqs))
  <2> HIDE DEF seqs
  <2>1. \E at : Joined(FlattenSeq(seqs), seqs, at, Len(seqs))
    BY <1>1, Flattened
  <2> QED BY <2>1 DEF UrlEncode, seqs
<1>3. \A i \in 1..Len(seqs) : seqs[i] = EncodedByte(t[i]) /\ t[i] \in Byte
  <2>1. DOMAIN t = 1..Len(t)
    OBVIOUS
  <2> QED BY <1>1, <2>1
<1> HIDE DEF seqs, u
<1>4. u \in Texts
  BY <1>2 DEF Joined
<1>5. ASSUME NEW p \in 1..Len(u) PROVE u[p] \notin {Ampersand, Equals}
  <2> DEFINE n == Len(seqs)
  <2>1. Joined(u, seqs, at, n)
    BY <1>2
  <2>2. \A i \in 1..n : seqs[i] = EncodedByte(t[i]) /\ t[i] \in Byte
    BY <1>3
  <2> HIDE DEF n
  <2>3. PICK i \in 1..n : \E j \in 1..Len(seqs[i]) : u[p] = seqs[i][j]
    BY <2>1, InPiece
  <2> QED BY <2>2, <2>3, EncodedByteType
<1> QED BY <1>4, <1>5 DEF u

LEMMA DecodesEncoded ==
  ASSUME NEW t \in Seq(Byte)
  PROVE  UrlDecode(UrlEncode(t)) = t
<1> DEFINE seqs == [i \in DOMAIN t |-> EncodedByte(t[i])]
           u == UrlEncode(t)
           n == Len(t)
<1>1. seqs \in Seq(Texts) /\ Len(seqs) = n /\ n \in Nat
  BY EncodedTexts
<1>2. PICK at : Ends(seqs, at) /\ Joined(u, seqs, at, n)
  <2> HIDE DEF seqs
  <2>1. \E at : Ends(seqs, at) /\ Joined(FlattenSeq(seqs), seqs, at, Len(seqs))
    BY <1>1, Flattened
  <2> QED BY <1>1, <2>1 DEF UrlEncode, seqs
<1>3. \A i \in 1..n : seqs[i] = EncodedByte(t[i]) /\ t[i] \in Byte
  <2>1. DOMAIN t = 1..Len(t)
    OBVIOUS
  <2> QED BY <1>1, <2>1
<1> HIDE DEF seqs, u
<1>4. u \in Texts /\ Len(u) = at[n]
  BY <1>2 DEF Joined
<1>5. PICK from : /\ UrlDecode(u) = from[1]
                  /\ \A i \in 1..Len(u) + 1 : from[i] = UrlDecodeAt(u, from, i)
  BY <1>4, UrlDecodeSolves
<1>6. at[n] \in Nat /\ at[n] + 1 \in 1..Len(u) + 1 /\ at[n] + 1 > Len(u)
  BY <1>2, <1>4 DEF Joined
<1>7. from[at[n] + 1] = <<>>
  BY <1>5, <1>6 DEF UrlDecodeAt
<1>8. ASSUME NEW k \in 1..n
      PROVE  from[at[k - 1] + 1] = <<t[k]>> \o from[at[k] + 1]
  <2> DEFINE e == seqs[k]
             c == t[k]
             p == at[k - 1] + 1
  <2>1. e = EncodedByte(c) /\ c \in Byte
    BY <1>3
  <2>2. at[k - 1] \in Nat /\ at[k] \in Nat /\ at[k] <= Len(u) /\ at[k] = at[k - 1] + Len(e)
    <3>1. k \in 0..n /\ k - 1 \in 0..n
      BY <1>1
    <3> QED BY <1>1, <1>2, <1>4, <3>1 DEF Joined, Ends
  <2>3. \A j \in 1..Len(e) : u[at[k - 1] + j] = e[j]
    BY <1>2 DEF Joined
  <2>4. Plus # Percent
    BY DEF Plus, Percent
  <2> HIDE DEF e, c
  <2>5. CASE Unescaped(c)
    <3>1. Len(e) = 1 /\ e[1] # Percent /\ e[1] = IF c = Space THEN Plus ELSE c
      BY <2>1, <2>5, EncodedByteType
    <3>2. u[p] = e[1] /\ p \in 1..Len(u) + 1 /\ ~ (p > Len(u)) /\ at[k] + 1 = p + 1
      BY <1>4, <2>2, <2>3, <3>1
    <3>3. from[p] = UrlDecodeAt(u, from, p)
      BY <1>5, <3>2
    <3> HIDE DEF p
    <3>4. CASE c = Space
      <4>1. UrlDecodeAt(u, from, p) = <<Space>> \o from[p + 1]
        BY <2>4, <3>1, <3>2, <3>4 DEF UrlDecodeAt
      <4> QED BY <3>2, <3>3, <3>4, <4>1 DEF c, p
    <3>5. CASE c # Space
      <4>1. c # Plus
        BY <2>5 DEF Unescaped, Plus, Digits, Upper, Lower, Space
      <4>2. UrlDecodeAt(u, from, p) = <<c>> \o from[p + 1]
        BY <3>1, <3>2, <3>5, <4>1 DEF UrlDecodeAt
      <4> QED BY <3>2, <3>3, <4>2 DEF c, p
    <3> QED BY <3>4, <3>5
  <2>6. CASE ~ Unescaped(c)
    <3> DEFINE a == ToHex(c \div 16)
               b == ToHex(c % 16)
    <3>1. Len(e) = 3 /\ e[1] = Percent /\ e[2] = a /\ e[3] = b
      <4>1. e = <<Percent, a, b>>
        BY <2>1, <2>6, EncodedByteType
      <4> QED BY <2>1, <4>1, EscapeType
    <3>2. /\ p \in 1..Len(u) + 1 /\ ~ (p > Len(u)) /\ ~ (p + 2 > Len(u)) /\ at[k] + 1 = p + 3
          /\ u[p] = Percent /\ u[p + 1] = a /\ u[p + 2] = b
      <4> HIDE DEF a, b
      <4>1. at[k - 1] + 2 = p + 1 /\ at[k - 1] + 3 = p + 2
        BY <2>2
      <4>2. u[p] = Percent /\ u[p + 1] = a /\ u[p + 2] = b
        BY <2>3, <3>1, <4>1
      <4>3. Len(u) \in Nat
        BY <1>4, TextIndices
      <4>4. p \in 1..Len(u) + 1 /\ ~ (p > Len(u)) /\ ~ (p + 2 > Len(u)) /\ at[k] + 1 = p + 3
        BY <2>2, <3>1, <4>3
      <4> QED BY <4>2, <4>4
    <3>3. from[p] = UrlDecodeAt(u, from, p)
      BY <1>5, <3>2
    <3>4. FromHex(a) = c \div 16 /\ FromHex(b) = c % 16
      <4>1. /\ hex_digit(a) = c \div 16 /\ hex_digit(b) = c % 16
            /\ c \div 16 \in 0..15 /\ c % 16 \in 0..15
        BY <2>1, HexOfByte
      <4>2. hex_digit(a) # Aborted /\ hex_digit(b) # Aborted
        BY <4>1 DEF Aborted
      <4> HIDE DEF a, b
      <4> QED BY <4>1, <4>2, HexDigits
    <3>5. FromHex(a) # Aborted /\ FromHex(b) # Aborted
      <4>1. c \div 16 \in 0..15 /\ c % 16 \in 0..15
        BY <2>1, HexOfByte
      <4> HIDE DEF a, b
      <4> QED BY <3>4, <4>1 DEF Aborted
    <3>6. (FromHex(a) * 16 + FromHex(b)) % 256 = c
      <4>1. (c \div 16) * 16 + (c % 16) = c
        BY <2>1, HexOfByte
      <4>2. c % 256 = c
        <5>1. \A d \in Byte : d % 256 = d
          BY DEF Byte
        <5> QED BY <2>1, <5>1
      <4> HIDE DEF a, b
      <4> QED BY <3>4, <4>1, <4>2
    <3> HIDE DEF a, b, p
    <3>7. UrlDecodeAt(u, from, p) = <<(FromHex(a) * 16 + FromHex(b)) % 256>> \o from[p + 3]
      BY <2>4, <3>2, <3>5, Zenon DEF UrlDecodeAt
    <3> QED BY <3>2, <3>3, <3>6, <3>7 DEF c, p
  <2> QED BY <2>5, <2>6
<1>9. at[0] = 0
  BY <1>2 DEF Ends
<1>10. t \in Texts
  BY BytesAreTexts
<1>11. from[1] = t
  BY <1>7, <1>8, <1>9, <1>10, Spelled
<1> QED BY <1>5, <1>11 DEF u

(* Two stretches and one separator.                                        *)
LEMMA SplitTwo ==
  ASSUME NEW c \in Int, NEW a \in Texts, NEW b \in Texts,
         \A j \in 1..Len(a) : a[j] # c, \A j \in 1..Len(b) : b[j] # c
  PROVE  Split((a \o <<c>>) \o b, c) = <<a, b>>
<1> DEFINE ac == a \o <<c>>
           s == ac \o b
           m == Len(a) + 1
           n == Len(s)
<1>1. Len(a) \in Nat /\ Len(b) \in Nat
  BY TextIndices
<1>2. <<c>> \in Texts /\ Len(<<c>>) = 1
  BY DEF Texts
<1>3. /\ ac \in Texts /\ Len(ac) = m
      /\ \A i \in 1..Len(a) : ac[i] = a[i]
      /\ ac[m] = c
  <2>1. /\ ac \in Texts /\ Len(ac) = Len(a) + Len(<<c>>)
        /\ \A i \in 1..Len(a) : ac[i] = a[i]
        /\ \A j \in 1..Len(<<c>>) : ac[Len(a) + j] = <<c>>[j]
    BY <1>2, Joining
  <2>2. 1 \in 1..Len(<<c>>)
    BY <1>2
  <2> HIDE DEF ac
  <2> QED BY <1>2, <2>1, <2>2
<1> HIDE DEF ac
<1>4. /\ s \in Texts /\ n = m + Len(b)
      /\ \A i \in 1..m : s[i] = ac[i]
      /\ \A j \in 1..Len(b) : s[m + j] = b[j]
  <2>1. /\ s \in Texts /\ Len(s) = Len(ac) + Len(b)
        /\ \A i \in 1..Len(ac) : s[i] = ac[i]
        /\ \A j \in 1..Len(b) : s[Len(ac) + j] = b[j]
    BY <1>3, Joining
  <2> HIDE DEF s
  <2> QED BY <1>3, <2>1
<1> HIDE DEF s
<1>5. n \in Nat /\ m \in 1..n /\ m + 1 \in 1..n + 1 /\ 1 \in 1..n + 1
  BY <1>1, <1>4
<1>6. (\A i \in 1..Len(a) : s[i] = a[i]) /\ s[m] = c
  BY <1>1, <1>3, <1>4
<1>7. \A j \in 1..n : s[j] = c <=> j = m
  <2> SUFFICES ASSUME NEW j \in 1..n PROVE s[j] = c <=> j = m
    OBVIOUS
  <2>1. CASE j \in 1..Len(a)
    BY <1>1, <1>6, <2>1
  <2>2. CASE j = m
    BY <1>6, <2>2
  <2>3. CASE j > m
    <3>1. j - m \in 1..Len(b) /\ m + (j - m) = j
      BY <1>1, <1>4, <1>5, <2>3
    <3>2. s[m + (j - m)] = b[j - m]
      BY <1>4, <3>1
    <3> QED BY <2>3, <1>5, <3>1, <3>2
  <2> QED BY <1>1, <1>5, <2>1, <2>2, <2>3
<1>8. Cuts(s, c, 1) = {m} /\ Cuts(s, c, m + 1) = {}
  <2> HIDE DEF m
  <2> QED BY <1>5, <1>7 DEF Cuts
<1>9. Cut(s, c, 1) = m
  <2>1. Cut(s, c, 1) \in 1..n /\ s[Cut(s, c, 1)] = c
    <3>1. Cuts(s, c, 1) # {} /\ 1 \in 1..n + 1 /\ s \in Texts
      BY <1>4, <1>5, <1>8
    <3> HIDE DEF m
    <3> QED BY <3>1, FirstCut
  <2> QED BY <1>7, <2>1
<1>10. PICK from :
         /\ Split(s, c) = from[1]
         /\ \A i \in 1..n + 1 : from[i] = SplitAt(s, c, from, i)
  <2>1. \E from \in [1..n + 1 -> Seq(Texts)] :
          /\ Split(s, c) = from[1]
          /\ \A i \in 1..n + 1 : from[i] = SplitAt(s, c, from, i)
    BY <1>4, SplitSolves, ZenonT(30)
  <2> QED BY <2>1
<1>11. from[1] = <<SubSeq(s, 1, m - 1)>> \o from[m + 1]
  <2>1. from[1] = SplitAt(s, c, from, 1)
    BY <1>5, <1>10
  <2>2. Cuts(s, c, 1) # {}
    BY <1>8
  <2> HIDE DEF m
  <2>3. from[1] = <<SubSeq(s, 1, Cut(s, c, 1) - 1)>> \o from[Cut(s, c, 1) + 1]
    BY <2>1, <2>2, SplitCut
  <2> QED BY <1>9, <2>3
<1>12. from[m + 1] = <<SubSeq(s, m + 1, n)>>
  <2>1. from[m + 1] = SplitAt(s, c, from, m + 1)
    BY <1>5, <1>10
  <2> QED BY <1>8, <2>1, SplitCut
<1>13. SubSeq(s, 1, m - 1) = a
  <2> DEFINE t == SubSeq(s, 1, m - 1)
  <2>1. /\ t \in Texts /\ Len(t) = m - 1 - 1 + 1
        /\ \A k \in 1..m - 1 - 1 + 1 : t[k] = s[1 + k - 1]
    BY <1>1, <1>4, <1>5, Stretch
  <2> HIDE DEF t
  <2>2. Len(t) = Len(a)
    BY <1>1, <2>1
  <2>3. \A k \in 1..Len(t) : t[k] = a[k]
    <3> SUFFICES ASSUME NEW k \in 1..Len(t) PROVE t[k] = a[k]
      OBVIOUS
    <3>1. k \in 1..m - 1 - 1 + 1 /\ 1 + k - 1 = k /\ k \in 1..Len(a)
      BY <1>1, <2>2
    <3> QED BY <1>6, <2>1, <3>1
  <2>4. t = a
    BY <2>1, <2>2, <2>3, SeqEqual DEF Texts
  <2> QED BY <2>4 DEF t
<1>14. SubSeq(s, m + 1, n) = b
  <2> DEFINE t == SubSeq(s, m + 1, n)
  <2>1. /\ t \in Texts /\ Len(t) = n - (m + 1) + 1
        /\ \A k \in 1..n - (m + 1) + 1 : t[k] = s[m + 1 + k - 1]
    BY <1>1, <1>4, <1>5, Stretch
  <2> HIDE DEF t
  <2>2. Len(t) = Len(b)
    BY <1>1, <1>4, <2>1
  <2>3. \A k \in 1..Len(t) : t[k] = b[k]
    <3> SUFFICES ASSUME NEW k \in 1..Len(t) PROVE t[k] = b[k]
      OBVIOUS
    <3>1. k \in 1..n - (m + 1) + 1 /\ m + 1 + k - 1 = m + k /\ k \in 1..Len(b)
      BY <1>1, <1>4, <2>2
    <3>2. s[m + k] = b[k]
      BY <1>4, <3>1
    <3> QED BY <2>1, <3>1, <3>2
  <2>4. t = b
    BY <2>1, <2>2, <2>3, SeqEqual DEF Texts
  <2> QED BY <2>4 DEF t
<1>15. <<a>> \o <<b>> = <<a, b>>
  <2> DEFINE ab == <<a>> \o <<b>>
  <2>1. <<a>> \in Seq(Texts) /\ <<b>> \in Seq(Texts) /\ Len(<<a>>) = 1 /\ Len(<<b>>) = 1
    OBVIOUS
  <2>2. /\ ab \in Seq(Texts) /\ Len(ab) = 2
        /\ \A i \in 1..2 : ab[i] = IF i <= 1 THEN <<a>>[i] ELSE <<b>>[i - 1]
    BY <2>1, ConcatProperties
  <2> HIDE DEF ab
  <2>3. ab[1] = a /\ ab[2] = b
    BY <2>2
  <2>4. ab = <<a, b>>
    BY <2>2, <2>3
  <2> QED BY <2>4 DEF ab
<1> QED BY <1>10, <1>11, <1>12, <1>13, <1>14, <1>15 DEF s, ac

(* No byte c in a text.                                                    *)
Clean(s, c) == \A j \in 1..Len(s) : s[j] # c

LEMMA CleanJoin ==
  ASSUME NEW s \in Texts, NEW t \in Texts, NEW c, Clean(s, c), Clean(t, c)
  PROVE  Clean(s \o t, c)
<1> DEFINE u == s \o t
<1>1. /\ Len(u) = Len(s) + Len(t)
      /\ \A i \in 1..Len(s) : u[i] = s[i]
      /\ \A j \in 1..Len(t) : u[Len(s) + j] = t[j]
  BY Joining
<1>2. Len(s) \in Nat /\ Len(t) \in Nat
  BY TextIndices
<1> HIDE DEF u
<1>3. ASSUME NEW j \in 1..Len(u) PROVE u[j] # c
  <2>1. CASE j \in 1..Len(s)
    BY <1>1, <2>1 DEF Clean
  <2>2. CASE j \notin 1..Len(s)
    <3>1. j - Len(s) \in 1..Len(t) /\ Len(s) + (j - Len(s)) = j
      BY <1>1, <1>2, <2>2
    <3> QED BY <1>1, <3>1 DEF Clean
  <2> QED BY <2>1, <2>2
<1> QED BY <1>3 DEF u, Clean

LEMMA CleanByte ==
  ASSUME NEW c \in Int, NEW d \in Int, d # c
  PROVE  <<d>> \in Texts /\ Clean(<<d>>, c)
BY PlainType DEF Clean

LEMMA FieldSplit ==
  ASSUME NEW k \in {107, 108}, NEW t \in Seq(Byte)
  PROVE  LET field == (<<k>> \o <<Equals>>) \o UrlEncode(t)
         IN  /\ field \in Texts /\ Clean(field, Ampersand)
             /\ Split(field, Equals) = <<<<k>>, UrlEncode(t)>>
<1> DEFINE u == UrlEncode(t)
           ke == <<k>> \o <<Equals>>
<1>1. u \in Texts /\ Clean(u, Ampersand) /\ Clean(u, Equals)
  BY EncodedClean DEF Clean
<1>2. /\ <<k>> \in Texts /\ Clean(<<k>>, Ampersand) /\ Clean(<<k>>, Equals)
      /\ <<Equals>> \in Texts /\ Clean(<<Equals>>, Ampersand)
  <2>1. /\ k \in Int /\ Equals \in Int /\ Ampersand \in Int
        /\ k # Equals /\ k # Ampersand /\ Equals # Ampersand
    BY DEF Equals, Ampersand
  <2> QED BY <2>1, CleanByte
<1>3. ke \in Texts /\ Clean(ke, Ampersand)
  BY <1>2, CleanJoin, Joining
<1> HIDE DEF u
<1>4. Split(ke \o u, Equals) = <<<<k>>, u>>
  <2>1. Equals \in Int
    BY DEF Equals
  <2> QED BY <1>1, <1>2, <2>1, SplitTwo DEF Clean
<1> HIDE DEF ke
<1>5. ke \o u \in Texts /\ Clean(ke \o u, Ampersand)
  BY <1>1, <1>3, CleanJoin, Joining
<1> QED BY <1>4, <1>5 DEF u, ke

LEMMA TwoFields ==
  ASSUME NEW t \in Seq(Byte), NEW r \in Seq(Byte)
  PROVE  LET body == <<107>> \o <<Equals>> \o UrlEncode(t) \o <<Ampersand>>
                       \o <<108>> \o <<Equals>> \o UrlEncode(r)
             form == ParseBody(body)
         IN  DOMAIN form = {<<107>>, <<108>>} /\ form[<<107>>] = t /\ form[<<108>>] = r
<1> DEFINE key == <<107>>
           other == <<108>>
           one == (key \o <<Equals>>) \o UrlEncode(t)
           two == (other \o <<Equals>>) \o UrlEncode(r)
           body == (((one \o <<Ampersand>>) \o other) \o <<Equals>>) \o UrlEncode(r)
           form == ParseBody(body)
           kvs == Split(body, Ampersand)
           kv(i) == Split(kvs[i], Equals)
           taken == {i \in DOMAIN kvs : Len(kv(i)) = 2}
           last(k) == CHOOSE i \in taken : kv(i)[1] = k /\ \A j \in taken : kv(j)[1] = k => j <= i
<1>1. one \in Texts /\ Clean(one, Ampersand) /\ Split(one, Equals) = <<key, UrlEncode(t)>>
  BY FieldSplit
<1>2. two \in Texts /\ Clean(two, Ampersand) /\ Split(two, Equals) = <<other, UrlEncode(r)>>
  BY FieldSplit
<1>3. body = (one \o <<Ampersand>>) \o two
  <2>1. /\ <<Ampersand>> \in Texts /\ other \in Texts /\ <<Equals>> \in Texts
        /\ UrlEncode(r) \in Texts
    BY EncodedClean DEF Texts, Ampersand, Equals
  <2> HIDE DEF one, other
  <2>2. one \o <<Ampersand>> \in Texts
    BY <1>1, <2>1, Joining
  <2> DEFINE oa == one \o <<Ampersand>>
  <2> HIDE DEF oa
  <2>3. oa \in Texts
    BY <2>2 DEF oa
  <2>4. (oa \o other) \o <<Equals>> = oa \o (other \o <<Equals>>) /\ other \o <<Equals>> \in Texts
    BY <2>1, <2>3, ConcatAssociative, Joining, SMTT(30) DEF Texts
  <2>5. (oa \o (other \o <<Equals>>)) \o UrlEncode(r) = oa \o ((other \o <<Equals>>) \o UrlEncode(r))
    <3> DEFINE oe == other \o <<Equals>>
               u == UrlEncode(r)
    <3>1. oa \in Seq(Int) /\ oe \in Seq(Int) /\ u \in Seq(Int)
      BY <2>1, <2>3, <2>4 DEF Texts
    <3> HIDE DEF oe, u
    <3>2. (oa \o oe) \o u = oa \o (oe \o u)
      BY <3>1, ConcatAssociative
    <3> QED BY <3>2 DEF oe, u
  <2> QED BY <2>4, <2>5 DEF oa
<1> HIDE DEF one, two
<1>4. kvs = <<one, two>>
  <2>1. Ampersand \in Int
    BY DEF Ampersand
  <2> HIDE DEF body
  <2> QED BY <1>1, <1>2, <1>3, <2>1, SplitTwo DEF Clean
<1>5. form = [k \in {kv(i)[1] : i \in taken} |-> UrlDecode(kv(last(k))[2])]
  BY DEF ParseBody
<1> HIDE DEF body, kvs
<1>6. DOMAIN kvs = {1, 2} /\ kvs[1] = one /\ kvs[2] = two
  BY <1>4
<1>7. kv(1) = <<key, UrlEncode(t)>> /\ kv(2) = <<other, UrlEncode(r)>>
  BY <1>1, <1>2, <1>6
<1>8. key # other
  OBVIOUS
<1> HIDE DEF kv, key, other
<1>9. /\ Len(kv(1)) = 2 /\ kv(1)[1] = key /\ kv(1)[2] = UrlEncode(t)
      /\ Len(kv(2)) = 2 /\ kv(2)[1] = other /\ kv(2)[2] = UrlEncode(r)
  BY <1>7
<1>10. taken = {1, 2}
  BY <1>6, <1>9
<1> HIDE DEF taken
<1>11. last(key) = 1 /\ last(other) = 2
  <2>1. \A i \in taken : kv(i)[1] = key <=> i = 1
    BY <1>8, <1>9, <1>10
  <2>2. \A i \in taken : kv(i)[1] = other <=> i = 2
    BY <1>8, <1>9, <1>10
  <2>3. last(key) = 1
    BY <1>10, <2>1
  <2>4. last(other) = 2
    BY <1>10, <2>2
  <2> QED BY <2>3, <2>4
<1> HIDE DEF last, form
<1>12. DOMAIN form = {key, other}
  BY <1>5, <1>9, <1>10
<1>13. form[key] = UrlDecode(UrlEncode(t)) /\ form[other] = UrlDecode(UrlEncode(r))
  BY <1>5, <1>9, <1>11, <1>12
<1>14. DOMAIN form = {key, other} /\ form[key] = t /\ form[other] = r
  BY <1>12, <1>13, DecodesEncoded
<1> QED BY <1>14 DEF form, body, key, other, one

(* UrlEncode, ParseBody and UrlDecode: a field arrives whatever its bytes  *)
(* are, and its neighbour with it, proved for every text.                  *)
THEOREM FieldsArrive == Spec => []FieldArrives
<1>1. ASSUME TextOK PROVE FieldArrives
  <2>1. Reverse(text) \in Seq(Byte)
    <3>1. Len(text) \in Nat /\ \A i \in 1..Len(text) : text[Len(text) - i + 1] \in Byte
      BY <1>1 DEF TextOK
    <3> QED BY <3>1 DEF Reverse
  <2> QED BY <1>1, <2>1, TwoFields DEF FieldArrives, TextOK
<1> QED BY <1>1, TextType, PTL

(* What encode_url writes for one byte.                                    *)
PathByte(c) == IF c \in Escaped THEN Escape(c) ELSE <<c>>

LEMMA PathByteType ==
  ASSUME NEW c \in Byte, c # Percent, c # Question
  PROVE  /\ PathByte(c) \in Texts /\ Clean(PathByte(c), Question)
         /\ c \in Escaped => PathByte(c) = <<Percent, ToHex(c \div 16), ToHex(c % 16)>>
         /\ c \notin Escaped => /\ Len(PathByte(c)) = 1 /\ PathByte(c)[1] = c
                                /\ c # Percent /\ c # Plus
         /\ Len(PathByte(c)) # 0
<1> DEFINE e == PathByte(c)
<1>1. c \in Int
  BY DEF Byte
<1>2. CASE c \in Escaped
  <2>1. e = <<Percent, ToHex(c \div 16), ToHex(c % 16)>>
    BY <1>2 DEF PathByte, Escape
  <2>2. Question \notin {Percent} \cup Digits \cup 65..70
    BY DEF Question, Percent, Digits
  <2> HIDE DEF e
  <2>3. e \in Texts /\ Len(e) = 3 /\ \A j \in 1..Len(e) : e[j] \in {Percent} \cup Digits \cup 65..70
    BY <2>1, EscapeType
  <2>4. Clean(e, Question)
    BY <2>2, <2>3 DEF Clean
  <2> QED BY <1>2, <2>1, <2>3, <2>4 DEF e
<1>3. CASE c \notin Escaped
  <2>1. e = <<c>>
    BY <1>3 DEF PathByte
  <2>2. c # Plus
    BY <1>3 DEF Escaped
  <2> HIDE DEF e
  <2>3. e \in Texts /\ Len(e) = 1 /\ e[1] = c /\ \A j \in 1..Len(e) : e[j] = c
    BY <1>1, <2>1, PlainType
  <2>4. Clean(e, Question)
    BY <2>3 DEF Clean
  <2> QED BY <1>3, <2>2, <2>3, <2>4 DEF e
<1> QED BY <1>2, <1>3

(* A path that encode_url takes whole.                                     *)
Plain(t) == \A i \in 1..Len(t) : t[i] \notin {NUL, Percent, Question}

LEMMA EncodesAll ==
  ASSUME NEW t \in Seq(Byte), Plain(t)
  PROVE  encode_url(t) = FlattenSeq([i \in DOMAIN t |-> PathByte(t[i])])
<1>1. Find(t, <<NUL>>, 1) = 0
  <2>1. t \in Texts /\ \A j \in 1..Len(t) : t[j] # NUL
    BY BytesAreTexts DEF Plain
  <2> QED BY <2>1, NotFound
<1> QED BY <1>1 DEF encode_url, CString, PathByte

LEMMA PathTexts ==
  ASSUME NEW t \in Seq(Byte), Plain(t)
  PROVE  /\ [i \in DOMAIN t |-> PathByte(t[i])] \in Seq(Texts)
         /\ Len([i \in DOMAIN t |-> PathByte(t[i])]) = Len(t)
<1>1. DOMAIN t = 1..Len(t) /\ Len(t) \in Nat /\ \A i \in 1..Len(t) : t[i] \in Byte
  OBVIOUS
<1>2. \A i \in DOMAIN t : PathByte(t[i]) \in Texts
  BY <1>1, PathByteType DEF Plain
<1> QED BY <1>1, <1>2

(* It writes no ?, and decode_url reads what it wrote.                     *)
LEMMA PathRoundTrip ==
  ASSUME NEW t \in Seq(Byte), Plain(t)
  PROVE  /\ encode_url(t) \in Texts /\ Clean(encode_url(t), Question)
         /\ t # <<>> => encode_url(t) # <<>>
         /\ decode_url(encode_url(t)) = t
<1> DEFINE seqs == [i \in DOMAIN t |-> PathByte(t[i])]
           u == encode_url(t)
           n == Len(t)
<1>1. seqs \in Seq(Texts) /\ Len(seqs) = n /\ n \in Nat
  BY PathTexts
<1>2. PICK at : Ends(seqs, at) /\ Joined(u, seqs, at, n)
  <2> HIDE DEF seqs
  <2>1. \E at : Ends(seqs, at) /\ Joined(FlattenSeq(seqs), seqs, at, Len(seqs))
    BY <1>1, Flattened
  <2> QED BY <1>1, <2>1, EncodesAll DEF seqs
<1>3. \A i \in 1..n : /\ seqs[i] = PathByte(t[i]) /\ t[i] \in Byte
                      /\ t[i] # Percent /\ t[i] # Question
  <2>1. DOMAIN t = 1..Len(t)
    OBVIOUS
  <2> QED BY <1>1, <2>1 DEF Plain
<1> HIDE DEF seqs, u
<1>4. u \in Texts /\ Len(u) = at[n] /\ Len(u) \in Nat
  BY <1>2 DEF Joined
<1>5. Clean(u, Question)
  <2> SUFFICES ASSUME NEW p \in 1..Len(u) PROVE u[p] # Question
    BY DEF Clean
  <2>1. PICK i \in 1..n : \E j \in 1..Len(seqs[i]) : u[p] = seqs[i][j]
    BY <1>2, InPiece
  <2> QED BY <1>3, <2>1, PathByteType DEF Clean
<1>6. ASSUME NEW k \in 1..n
      PROVE  /\ at[k - 1] \in Nat /\ at[k] \in Nat /\ at[k] <= Len(u)
             /\ at[k] = at[k - 1] + Len(seqs[k])
             /\ \A j \in 1..Len(seqs[k]) : u[at[k - 1] + j] = seqs[k][j]
  <2>1. k \in 0..n /\ k - 1 \in 0..n
    BY <1>1
  <2> QED BY <1>1, <1>2, <1>4, <2>1 DEF Joined, Ends
<1>7. t # <<>> => u # <<>>
  <2> SUFFICES ASSUME t # <<>> PROVE u # <<>>
    OBVIOUS
  <2>1. 1 \in 1..n
    BY <1>1
  <2>2. Len(seqs[1]) # 0 /\ seqs[1] \in Texts
    BY <1>1, <1>3, <2>1, PathByteType
  <2>3. Len(seqs[1]) \in Nat
    BY <2>2, TextIndices
  <2>4. at[1] # 0 /\ at[1] <= Len(u) /\ at[1] \in Nat
    BY <1>6, <2>1, <2>2, <2>3
  <2>5. Len(u) # 0
    BY <1>4, <2>4
  <2> QED BY <2>5
<1>8. PICK from : /\ decode_url(u) = from[1]
                  /\ \A i \in 1..Len(u) + 1 : from[i] = HttpDecodeAt(u, from, i)
  BY <1>4, HttpDecodeSolves
<1>9. from[at[n] + 1] = <<>>
  <2>1. at[n] + 1 \in 1..Len(u) + 1 /\ at[n] + 1 > Len(u)
    BY <1>4
  <2> QED BY <1>8, <2>1 DEF HttpDecodeAt
<1>10. ASSUME NEW k \in 1..n
       PROVE  from[at[k - 1] + 1] = <<t[k]>> \o from[at[k] + 1]
  <2> DEFINE e == seqs[k]
             c == t[k]
             p == at[k - 1] + 1
  <2>1. e = PathByte(c) /\ c \in Byte /\ c # Percent /\ c # Question
    BY <1>3
  <2>2. /\ at[k - 1] \in Nat /\ at[k] \in Nat /\ at[k] <= Len(u) /\ at[k] = at[k - 1] + Len(e)
        /\ \A j \in 1..Len(e) : u[at[k - 1] + j] = e[j]
    BY <1>6
  <2>3. at[k - 1] \in Nat /\ at[k] \in Nat /\ at[k] <= Len(u) /\ at[k] = at[k - 1] + Len(e)
    BY <2>2
  <2>4. Len(u) \in Nat
    BY <1>4
  <2> HIDE DEF e, c
  <2>5. CASE c \notin Escaped
    <3>1. Len(e) = 1 /\ e[1] = c /\ c # Percent /\ c # Plus
      BY <2>1, <2>5, PathByteType
    <3>2. u[p] = c /\ p \in 1..Len(u) + 1 /\ ~ (p > Len(u)) /\ at[k] + 1 = p + 1
      BY <1>4, <2>2, <3>1
    <3> HIDE DEF p
    <3>3. from[p] = HttpDecodeAt(u, from, p)
      BY <1>8, <3>2
    <3>4. HttpDecodeAt(u, from, p) = <<c>> \o from[p + 1]
      BY <3>1, <3>2 DEF HttpDecodeAt
    <3> QED BY <3>2, <3>3, <3>4 DEF c, p
  <2>6. CASE c \in Escaped
    <3> DEFINE a == ToHex(c \div 16)
               b == ToHex(c % 16)
    <3>1. Len(e) = 3 /\ e[1] = Percent /\ e[2] = a /\ e[3] = b
      <4>1. e = <<Percent, a, b>>
        BY <2>1, <2>6, PathByteType
      <4> QED BY <2>1, <4>1, EscapeType
    <3>2. /\ p \in 1..Len(u) + 1 /\ ~ (p > Len(u)) /\ p < Len(u) /\ p + 2 <= Len(u)
          /\ at[k] + 1 = p + 3
          /\ u[p] = Percent /\ u[p + 1] = a /\ u[p + 2] = b
      <4> HIDE DEF a, b
      <4>1. at[k - 1] + 2 = p + 1 /\ at[k - 1] + 3 = p + 2
        BY <2>2
      <4>2. u[p] = Percent /\ u[p + 1] = a /\ u[p + 2] = b
        BY <2>2, <3>1, <4>1
      <4>3. /\ p \in 1..Len(u) + 1 /\ ~ (p > Len(u)) /\ p < Len(u) /\ p + 2 <= Len(u)
            /\ at[k] + 1 = p + 3
        <5>1. p \in Int /\ 1 <= p /\ p + 2 <= Len(u) /\ at[k] + 1 = p + 3
          BY <2>3, <2>4, <3>1
        <5> HIDE DEF p
        <5> QED BY <2>4, <5>1
      <4> QED BY <4>2, <4>3
    <3>3. from[p] = HttpDecodeAt(u, from, p)
      BY <1>8, <3>2
    <3>4. /\ hex_digit(a) = c \div 16 /\ hex_digit(b) = c % 16
          /\ c \div 16 \in 0..15 /\ c % 16 \in 0..15 /\ (c \div 16) * 16 + (c % 16) = c
      BY <2>1, HexOfByte
    <3>5. hex_digit(a) # Aborted /\ hex_digit(b) # Aborted
      <4> HIDE DEF a, b
      <4> QED BY <3>4 DEF Aborted
    <3> HIDE DEF a, b
    <3>6. a # Letter_u
      BY <3>5, HexDigits
    <3>7. p \in Int /\ p + 1 + 1 = p + 2 /\ p + 1 \in DOMAIN u /\ p + 2 \in DOMAIN u
      <4>1. p \in Int /\ p + 2 <= Len(u) /\ 1 <= p
        BY <2>3, <3>2
      <4>2. p + 1 + 1 = p + 2 /\ p + 1 \in 1..Len(u) /\ p + 2 \in 1..Len(u)
        <5> HIDE DEF p
        <5> QED BY <2>4, <4>1
      <4>3. DOMAIN u = 1..Len(u)
        BY <1>4, TextIndices
      <4> QED BY <4>1, <4>2, <4>3
    <3> HIDE DEF p
    <3>8. is_hex(u, p + 1) /\ is_hex(u, (p + 1) + 1)
      BY <3>2, <3>5, <3>7 DEF is_hex
    <3>9. from_hex_to_i(u, p + 1, 2) = c
      <4>1. from_hex_to_i(u, p + 1, 2) = hex_digit(u[p + 1]) * 16 + hex_digit(u[(p + 1) + 1])
        <5>1. p + 1 \in Int
          BY <3>7
        <5> QED BY <3>8, <5>1, TwoDigits
      <4>2. u[(p + 1) + 1] = b
        BY <3>2, <3>7
      <4> QED BY <3>2, <3>4, <4>1, <4>2
    <3>10. c # Aborted
      BY <2>1 DEF Byte, Aborted
    <3>11. HttpDecodeAt(u, from, p) = <<c>> \o from[p + 3]
      BY <3>2, <3>6, <3>9, <3>10, Zenon DEF HttpDecodeAt
    <3> QED BY <3>2, <3>3, <3>11 DEF c, p
  <2> QED BY <2>5, <2>6
<1>11. at[0] = 0
  BY <1>2 DEF Ends
<1>12. t \in Texts
  BY BytesAreTexts
<1>13. from[1] = t
  BY <1>9, <1>10, <1>11, <1>12, Spelled
<1> QED BY <1>4, <1>5, <1>7, <1>8, <1>13 DEF u

(* encode_url and decode_url: the path asked for is the path routed,       *)
(* proved for every path of the kind that encode_url takes whole.          *)
THEOREM PathsArrive == Spec => []PathArrives
<1>1. ASSUME TextOK, text # <<>>, {NUL, Percent, Question} \cap Range(text) = {}
      PROVE  parse_target(encode_url(text)) = [ok |-> TRUE, path |-> text, params |-> <<>>]
  <2> DEFINE u == encode_url(text)
  <2>1. text \in Seq(Byte) /\ Plain(text)
    <3>1. \A i \in 1..Len(text) : text[i] \in Range(text)
      BY <1>1 DEF TextOK, Range
    <3> QED BY <1>1, <3>1 DEF TextOK, Plain
  <2>2. u \in Texts /\ Clean(u, Question) /\ u # <<>> /\ decode_url(u) = text
    BY <1>1, <2>1, PathRoundTrip
  <2> HIDE DEF u
  <2>3. Find(u, <<Question>>, 1) = 0
    BY <2>2, NotFound DEF Clean
  <2>4. parse_query_text(<<>>) = <<>>
    BY DEF parse_query_text, split
  <2>5. parse_target(u) = [ok |-> TRUE, path |-> text, params |-> <<>>]
    BY <2>2, <2>3, <2>4 DEF parse_target
  <2> QED BY <2>5 DEF u
<1>2. TextOK => PathArrives
  BY <1>1 DEF PathArrives
<1> QED BY <1>2, TextType, PTL

-----------------------------------------------------------------------------
(* stream_line_reader: what it returns is the line, in whichever buffer.   *)

(* The reader that has read the first k bytes of t.                        *)
Read(t, k, size) ==
  [fixed    |-> SubSeq(t, 1, IF k < size THEN k ELSE size - 1),
   glowable |-> IF k < size THEN <<>> ELSE SubSeq(t, 1, k)]

LEMMA OneByteMore ==
  ASSUME NEW t \in Texts, NEW k \in 1..Len(t)
  PROVE  Append(SubSeq(t, 1, k - 1), t[k]) = SubSeq(t, 1, k)
<1> DEFINE u == SubSeq(t, 1, k - 1)
           v == SubSeq(t, 1, k)
<1>1. Len(t) \in Nat /\ k \in Nat /\ 1 <= k /\ k <= Len(t) /\ t[k] \in Int
  BY TextIndices
<1>2. u \in Texts /\ Len(u) = k - 1 /\ \A i \in 1..k - 1 : u[i] = t[i]
  <2>1. (k - 1) - 1 + 1 = k - 1 /\ \A i \in 1..k - 1 : 1 + i - 1 = i
    BY <1>1
  <2>2. 1 - 1 <= k - 1 /\ k - 1 <= Len(t) /\ k - 1 \in Int
    BY <1>1
  <2>3. u \in Texts /\ Len(u) = (k - 1) - 1 + 1 /\ \A i \in 1..(k - 1) - 1 + 1 : u[i] = t[1 + i - 1]
    BY <2>2, Stretch
  <2> HIDE DEF u
  <2> QED BY <2>1, <2>3
<1>3. v \in Texts /\ Len(v) = k /\ \A i \in 1..k : v[i] = t[i]
  <2>1. k - 1 + 1 = k /\ \A i \in 1..k : 1 + i - 1 = i
    BY <1>1
  <2>2. 1 - 1 <= k /\ k <= Len(t) /\ k \in Int
    BY <1>1
  <2>3. v \in Texts /\ Len(v) = k - 1 + 1 /\ \A i \in 1..k - 1 + 1 : v[i] = t[1 + i - 1]
    BY <2>2, Stretch
  <2> HIDE DEF v
  <2> QED BY <2>1, <2>3
<1> HIDE DEF u, v
<1>4. Append(u, t[k]) \in Texts /\ Len(Append(u, t[k])) = k
  BY <1>1, <1>2 DEF Texts
<1>5. \A i \in 1..k : Append(u, t[k])[i] = v[i]
  BY <1>1, <1>2, <1>3, SMTT(30) DEF Texts
<1>6. Append(u, t[k]) = v
  BY <1>3, <1>4, <1>5 DEF Texts
<1> QED BY <1>6 DEF u, v

LEMMA FirstBytes ==
  ASSUME NEW t \in Texts, NEW k \in 0..Len(t)
  PROVE  Len(SubSeq(t, 1, k)) = k /\ (k = Len(t) => SubSeq(t, 1, k) = t)
<1> DEFINE v == SubSeq(t, 1, k)
<1>1. Len(t) \in Nat /\ k \in Int /\ 0 <= k /\ k <= Len(t)
  BY TextIndices
<1>2. v \in Texts /\ Len(v) = k /\ \A i \in 1..k : v[i] = t[i]
  <2>1. k - 1 + 1 = k /\ \A i \in 1..k : 1 + i - 1 = i
    BY <1>1
  <2>2. 1 - 1 <= k /\ k <= Len(t) /\ k \in Int
    BY <1>1
  <2>3. v \in Texts /\ Len(v) = k - 1 + 1 /\ \A i \in 1..k - 1 + 1 : v[i] = t[1 + i - 1]
    BY <2>2, Stretch
  <2> HIDE DEF v
  <2> QED BY <2>1, <2>3
<1> HIDE DEF v
<1>3. k = Len(t) => v = t
  BY <1>2 DEF Texts
<1> QED BY <1>2, <1>3 DEF v

LEMMA ReaderStep ==
  ASSUME NEW t \in Texts, NEW size \in Nat, size >= 1, NEW k \in 1..Len(t)
  PROVE  AppendByte(Read(t, k - 1, size), t[k], size) = Read(t, k, size)
<1> DEFINE r == Read(t, k - 1, size)
<1>1. Len(t) \in Nat /\ k \in Int /\ 1 <= k /\ k <= Len(t) /\ k - 1 \in 0..Len(t)
  BY TextIndices
<1>2. /\ Append(SubSeq(t, 1, k - 1), t[k]) = SubSeq(t, 1, k)
      /\ Len(SubSeq(t, 1, k - 1)) = k - 1
  BY <1>1, OneByteMore, FirstBytes
<1>3. CASE k < size
  <2>1. r = [fixed |-> SubSeq(t, 1, k - 1), glowable |-> <<>>]
    BY <1>1, <1>3 DEF Read
  <2>2. Read(t, k, size) = [fixed |-> SubSeq(t, 1, k), glowable |-> <<>>]
    BY <1>1, <1>3 DEF Read
  <2>3. k - 1 < size - 1
    BY <1>1, <1>3
  <2> HIDE DEF r
  <2>4. AppendByte(r, t[k], size) = [fixed |-> SubSeq(t, 1, k), glowable |-> <<>>]
    BY <1>2, <2>1, <2>3 DEF AppendByte
  <2> QED BY <2>2, <2>4 DEF r
<1>4. CASE k = size
  <2>1. r = [fixed |-> SubSeq(t, 1, k - 1), glowable |-> <<>>]
    BY <1>1, <1>4 DEF Read
  <2>2. Read(t, k, size) = [fixed |-> SubSeq(t, 1, k - 1), glowable |-> SubSeq(t, 1, k)]
    BY <1>1, <1>4 DEF Read
  <2>3. ~ (k - 1 < size - 1)
    BY <1>1, <1>4
  <2> HIDE DEF r
  <2>4. AppendByte(r, t[k], size) = [fixed |-> SubSeq(t, 1, k - 1), glowable |-> SubSeq(t, 1, k)]
    BY <1>2, <2>1, <2>3 DEF AppendByte
  <2> QED BY <2>2, <2>4 DEF r
<1>5. CASE k > size
  <2>1. r = [fixed |-> SubSeq(t, 1, size - 1), glowable |-> SubSeq(t, 1, k - 1)]
    <3>1. ~ (k - 1 < size)
      BY <1>1, <1>5
    <3> QED BY <3>1, Zenon DEF Read
  <2>2. Read(t, k, size) = [fixed |-> SubSeq(t, 1, size - 1), glowable |-> SubSeq(t, 1, k)]
    BY <1>1, <1>5 DEF Read
  <2>3. Len(SubSeq(t, 1, size - 1)) = size - 1 /\ ~ (size - 1 < size - 1)
    <3>1. size - 1 \in 0..Len(t) /\ ~ (size - 1 < size - 1)
      BY <1>1, <1>5
    <3> QED BY <3>1, FirstBytes
  <2>4. SubSeq(t, 1, k - 1) # <<>>
    <3>1. k - 1 # 0
      BY <1>1, <1>5
    <3>2. Len(<<>>) = 0
      OBVIOUS
    <3> QED BY <1>2, <3>1, <3>2, Zenon
  <2> HIDE DEF r
  <2>5. AppendByte(r, t[k], size) = [fixed |-> SubSeq(t, 1, size - 1), glowable |-> SubSeq(t, 1, k)]
    BY <1>2, <2>1, <2>3, <2>4 DEF AppendByte
  <2> QED BY <2>2, <2>5 DEF r
<1> QED BY <1>1, <1>3, <1>4, <1>5

(* A text without a NUL is whole as a C string.                            *)
LEMMA WholeCString ==
  ASSUME NEW t \in Texts, \A j \in 1..Len(t) : t[j] # NUL
  PROVE  CString(t) = t
<1>1. Find(t, <<NUL>>, 1) = 0
  BY NotFound
<1> QED BY <1>1 DEF CString

LEMMA CStringType ==
  ASSUME NEW t \in Texts
  PROVE  CString(t) \in Texts
<1> DEFINE nul == Find(t, <<NUL>>, 1)
<1>1. Len(t) \in Nat
  BY TextIndices
<1>2. nul = 0 \/ nul \in 1..Len(t)
  <2>1. 1 \in Nat \ {0} /\ 1 \in 1..Len(t) + 1
    BY <1>1
  <2>2. nul = IF Cuts(t, NUL, 1) = {} THEN 0 ELSE Cut(t, NUL, 1)
    BY <2>1, FindByte
  <2>3. Cuts(t, NUL, 1) # {} => Cut(t, NUL, 1) \in 1..Len(t)
    BY <2>1, FirstCut
  <2> QED BY <2>2, <2>3
<1>3. CString(t) = IF nul = 0 THEN t ELSE SubSeq(t, 1, nul - 1)
  BY DEF CString
<1> HIDE DEF nul
<1>4. nul # 0 => SubSeq(t, 1, nul - 1) \in Texts
  <2> SUFFICES ASSUME nul # 0 PROVE SubSeq(t, 1, nul - 1) \in Texts
    OBVIOUS
  <2>1. 1 \in Int /\ nul - 1 \in Int /\ 1 <= 1 /\ 1 - 1 <= nul - 1 /\ nul - 1 <= Len(t)
    BY <1>1, <1>2
  <2> QED BY <2>1, Stretch
<1> QED BY <1>3, <1>4

(* getline reads the line to its end, or its first NUL, whatever the size  *)
(* of the fixed buffer.                                                    *)
LEMMA ReadsLine ==
  ASSUME NEW s \in Texts, NEW i, NEW size \in Nat, size >= 1,
         SubSeq(s, i, LineEnd(s, i)) \in Texts
  PROVE  getline(s, i, size) = CString(SubSeq(s, i, LineEnd(s, i)))
<1> DEFINE line == SubSeq(s, i, LineEnd(s, i))
           n == Len(line)
           R == CHOOSE R : R = [k \in 0..n |->
                  IF k = 0 THEN [fixed |-> <<>>, glowable |-> <<>>]
                  ELSE AppendByte(R[k - 1], line[k], size)]
           f == [k \in 0..n |-> Read(line, k, size)]
<1>1. n \in Nat /\ line \in Texts
  BY TextIndices
<1>2. getline(s, i, size) = ptr(R[n])
  BY DEF getline
<1> HIDE DEF line
<1>3. Read(line, 0, size) = [fixed |-> <<>>, glowable |-> <<>>]
  <2>1. Len(SubSeq(line, 1, 0)) = 0
    BY <1>1, FirstBytes
  <2>2. SubSeq(line, 1, 0) = <<>>
    OBVIOUS
  <2> QED BY <2>2 DEF Read
<1>4. \A k \in 1..n : AppendByte(Read(line, k - 1, size), line[k], size) = Read(line, k, size)
  BY <1>1, ReaderStep
<1>5. f = [k \in 0..n |-> IF k = 0 THEN [fixed |-> <<>>, glowable |-> <<>>]
                          ELSE AppendByte(f[k - 1], line[k], size)]
  <2>1. ASSUME NEW k \in 0..n
        PROVE  f[k] = IF k = 0 THEN [fixed |-> <<>>, glowable |-> <<>>]
                      ELSE AppendByte(f[k - 1], line[k], size)
    <3>1. k = 0 \/ (k # 0 /\ k \in 1..n /\ k - 1 \in 0..n)
      BY <1>1
    <3>2. f[k] = Read(line, k, size)
      OBVIOUS
    <3>3. k - 1 \in 0..n => f[k - 1] = Read(line, k - 1, size)
      OBVIOUS
    <3> HIDE DEF f, n
    <3> QED BY <1>3, <1>4, <3>1, <3>2, <3>3, Zenon
  <2>2. f = [k \in 0..n |-> f[k]]
    OBVIOUS
  <2> HIDE DEF f, n
  <2> QED BY <2>1, <2>2, Zenon
<1>6. R = [k \in 0..n |-> IF k = 0 THEN [fixed |-> <<>>, glowable |-> <<>>]
                          ELSE AppendByte(R[k - 1], line[k], size)]
  <2> HIDE DEF f, n
  <2> QED BY <1>5
<1> HIDE DEF R, f
<1>7. R[n] = Read(line, n, size)
  <2> DEFINE S == {k \in 0..n : R[k] = Read(line, k, size)}
  <2>1. 0 \in S
    BY <1>1, <1>3, <1>6
  <2>2. ASSUME NEW k \in 1..n, k - 1 \in S
        PROVE  k \in S
    <3>1. k \in 0..n /\ k # 0
      BY <1>1
    <3>2. R[k] = AppendByte(R[k - 1], line[k], size)
      <4> HIDE DEF n
      <4> QED BY <1>6, <3>1
    <3>3. R[k - 1] = Read(line, k - 1, size)
      BY <2>2
    <3> HIDE DEF n
    <3> QED BY <1>4, <3>1, <3>2, <3>3
  <2>3. \A k \in 0..n : k \in S
    <3> HIDE DEF S, n
    <3> QED BY <1>1, <2>1, <2>2, UpTo
  <2> QED BY <1>1, <2>3
<1>8. ptr(Read(line, n, size)) = CString(line)
  <2>1. SubSeq(line, 1, n) = line /\ (n # 0 => line # <<>>)
    <3>1. SubSeq(line, 1, n) = line
      BY <1>1, FirstBytes
    <3> QED BY <3>1
  <2>2. CASE n < size
    BY <2>1, <2>2 DEF Read, ptr
  <2>3. CASE ~ (n < size)
    <3>1. n # 0
      BY <1>1, <2>3
    <3> HIDE DEF n
    <3> QED BY <2>1, <2>3, <3>1 DEF Read, ptr
  <2> QED BY <2>2, <2>3
<1> QED BY <1>2, <1>7, <1>8 DEF line

-----------------------------------------------------------------------------
(* Headers.                                                                *)

LEMMA StretchIs ==
  ASSUME NEW s \in Texts, NEW t \in Texts, NEW a \in Int, NEW b \in Int,
         1 <= a, b = (a - 1) + Len(t), b <= Len(s), \A j \in 1..Len(t) : s[(a - 1) + j] = t[j]
  PROVE  SubSeq(s, a, b) = t
<1> DEFINE u == SubSeq(s, a, b)
           n == Len(t)
<1>1. n \in Nat /\ Len(s) \in Nat
  BY TextIndices
<1>2. a - 1 <= b /\ b - a + 1 = n
  BY <1>1
<1>3. u \in Texts /\ Len(u) = n /\ \A j \in 1..n : u[j] = s[a + j - 1]
  <2> HIDE DEF n
  <2>1. u \in Texts /\ Len(u) = b - a + 1 /\ \A j \in 1..b - a + 1 : u[j] = s[a + j - 1]
    BY <1>2, Stretch
  <2> HIDE DEF u
  <2> QED BY <1>2, <2>1
<1>4. \A j \in 1..n : a + j - 1 = (a - 1) + j
  BY <1>1
<1>5. \A j \in 1..n : u[j] = t[j]
  <2> HIDE DEF u
  <2> QED BY <1>3, <1>4
<1> HIDE DEF u
<1>6. u = t
  <2>1. u \in Seq(Int) /\ t \in Seq(Int) /\ Len(u) = Len(t)
    BY <1>3 DEF Texts
  <2>2. \A j \in 1..Len(u) : u[j] = t[j]
    BY <1>5, <2>1
  <2> QED BY <2>1, <2>2, SeqEqual
<1> QED BY <1>6 DEF u

(* The first c from i on, when it is known where that is.                  *)
LEMMA FirstAt ==
  ASSUME NEW s \in Texts, NEW c, NEW i \in Nat \ {0}, NEW e \in i..Len(s),
         s[e] = c, \A k \in i..e - 1 : s[k] # c
  PROVE  Find(s, <<c>>, i) = e
<1>1. Len(s) \in Nat /\ i \in 1..Len(s) + 1
  BY TextIndices
<1>2. e \in Cuts(s, c, i) /\ Cuts(s, c, i) # {}
  BY DEF Cuts
<1> DEFINE f == Cut(s, c, i)
<1>3. f \in i..Len(s) /\ s[f] = c /\ \A k \in i..f - 1 : s[k] # c
  BY <1>1, <1>2, FirstCut
<1>4. Find(s, <<c>>, i) = f
  BY <1>2, FindByte
<1> HIDE DEF f
<1>5. ~ (e < f)
  <2>1. e < f => e \in i..f - 1
    BY <1>1, <1>3
  <2> QED BY <1>3, <2>1
<1>6. ~ (f < e)
  <2>1. f < e => f \in i..e - 1
    BY <1>1, <1>3
  <2> QED BY <1>3, <2>1
<1>7. f = e
  BY <1>1, <1>3, <1>5, <1>6
<1> QED BY <1>4, <1>7

HeaderLine(line, t) ==
  /\ line \in Texts /\ Len(line) = Len(t) + 5
  /\ line[1] = 107 /\ line[2] = Colon /\ line[3] = Space
  /\ \A j \in 1..Len(t) : line[3 + j] = t[j]
  /\ line[Len(t) + 4] = CR /\ line[Len(t) + 5] = LF

LEMMA LineBreak ==
  CRLF \in Texts /\ Len(CRLF) = 2 /\ CRLF[1] = CR /\ CRLF[2] = LF
BY DEF Texts, CRLF, CR, LF

LEMMA HeaderShape ==
  ASSUME NEW t \in Texts, \A j \in 1..Len(t) : t[j] # NUL
  PROVE  HeaderLine(write_header(<<107>>, t), t)
<1> DEFINE a == <<107>>
           b == <<Colon, Space>>
           n == Len(t)
           ab == a \o b
           abt == ab \o t
           line == abt \o CRLF
<1>1. a \in Texts /\ Len(a) = 1 /\ a[1] = 107
  BY DEF Texts
<1>2. b \in Texts /\ Len(b) = 2 /\ b[1] = Colon /\ b[2] = Space
  BY DEF Texts, Colon, Space
<1>3. CRLF \in Texts /\ Len(CRLF) = 2 /\ CRLF[1] = CR /\ CRLF[2] = LF
  BY LineBreak
<1>4. write_header(<<107>>, t) = line
  <2>1. a # <<>> /\ \A j \in 1..Len(a) : a[j] # NUL
    BY DEF NUL
  <2>2. CString(a) = a /\ CString(t) = t
    BY <1>1, <2>1, WholeCString
  <2> QED BY <2>2 DEF write_header
<1>5. n \in Nat
  BY TextIndices
<1> HIDE DEF a, b
<1>6. ab \in Texts /\ Len(ab) = 3 /\ ab[1] = 107 /\ ab[2] = Colon /\ ab[3] = Space
  <2>1. /\ ab \in Texts /\ Len(ab) = Len(a) + Len(b)
        /\ \A i \in 1..Len(a) : ab[i] = a[i]
        /\ \A j \in 1..Len(b) : ab[Len(a) + j] = b[j]
    BY <1>1, <1>2, Joining, ZenonT(30)
  <2> HIDE DEF ab
  <2>2. ab[1] = a[1] /\ ab[1 + 1] = b[1] /\ ab[1 + 2] = b[2]
    BY <1>1, <1>2, <2>1
  <2> QED BY <1>1, <1>2, <2>1, <2>2
<1> HIDE DEF ab
<1>7. /\ abt \in Texts /\ Len(abt) = 3 + n
      /\ \A i \in 1..3 : abt[i] = ab[i]
      /\ \A j \in 1..n : abt[3 + j] = t[j]
  <2>1. ab \in Texts /\ t \in Texts
    BY <1>6
  <2>2. /\ abt \in Texts /\ Len(abt) = Len(ab) + Len(t)
        /\ \A i \in 1..Len(ab) : abt[i] = ab[i]
        /\ \A j \in 1..Len(t) : abt[Len(ab) + j] = t[j]
    BY <2>1, Joining
  <2> HIDE DEF abt
  <2> QED BY <1>6, <2>2
<1> HIDE DEF abt
<1>8. /\ line \in Texts /\ Len(line) = (3 + n) + 2
      /\ \A i \in 1..3 + n : line[i] = abt[i]
      /\ \A j \in 1..2 : line[(3 + n) + j] = CRLF[j]
  <2>1. /\ line \in Texts /\ Len(line) = Len(abt) + Len(CRLF)
        /\ \A i \in 1..Len(abt) : line[i] = abt[i]
        /\ \A j \in 1..Len(CRLF) : line[Len(abt) + j] = CRLF[j]
    BY <1>3, <1>7, Joining
  <2> HIDE DEF line
  <2> QED BY <1>3, <1>7, <2>1
<1> HIDE DEF line, n
<1>9. (3 + n) + 2 = n + 5 /\ (3 + n) + 1 = n + 4 /\ \A j \in 1..n : 3 + j \in 1..3 + n
  BY <1>5
<1>10. 1 \in 1..3 + n /\ 2 \in 1..3 + n /\ 3 \in 1..3 + n
  BY <1>5
<1>11. line[n + 4] = CR /\ line[n + 5] = LF
  <2>1. 1 \in 1..2 /\ 2 \in 1..2
    OBVIOUS
  <2>2. line[(3 + n) + 1] = CRLF[1] /\ line[(3 + n) + 2] = CRLF[2]
    BY <1>8, <2>1, Zenon
  <2> QED BY <1>3, <1>9, <2>2, Zenon
<1>12. line[1] = 107 /\ line[2] = Colon /\ line[3] = Space
  <2>1. abt[1] = ab[1] /\ abt[2] = ab[2] /\ abt[3] = ab[3]
    BY <1>7
  <2> QED BY <1>6, <1>8, <1>10, <2>1, Zenon
<1>13. \A j \in 1..n : line[3 + j] = t[j]
  BY <1>7, <1>8, <1>9, Zenon
<1>14. HeaderLine(line, t)
  <2>1. line \in Texts /\ Len(line) = n + 5
    BY <1>8, <1>9, Zenon
  <2> QED BY <1>11, <1>12, <1>13, <2>1, Zenon DEF HeaderLine, n
<1> QED BY <1>4, <1>14

(* The line ends where it should, and is read as it was written.           *)
LEMMA HeaderIsLine ==
  ASSUME NEW t \in Texts, NEW line, HeaderLine(line, t), NEW size \in Nat, size >= 1,
         \A j \in 1..Len(t) : t[j] \notin {NUL, LF}
  PROVE  getline(line \o CRLF, 1, size) = line
<1> DEFINE n == Len(t)
           s == line \o CRLF
<1>1. n \in Nat
  BY TextIndices
<1>2. line \in Texts /\ Len(line) = n + 5
  BY DEF HeaderLine
<1>3. /\ s \in Texts /\ Len(s) = Len(line) + 2
      /\ \A i \in 1..Len(line) : s[i] = line[i]
  <2>1. CRLF \in Texts /\ Len(CRLF) = 2
    BY LineBreak
  <2>2. /\ s \in Texts /\ Len(s) = Len(line) + Len(CRLF)
        /\ \A i \in 1..Len(line) : s[i] = line[i]
    BY <1>2, <2>1, Joining
  <2> HIDE DEF s
  <2> QED BY <2>1, <2>2
<1>4. ASSUME NEW k \in 1..n + 4 PROVE line[k] \notin {NUL, LF}
  <2>1. k = 1 \/ k = 2 \/ k = 3 \/ k = n + 4 \/ k - 3 \in 1..n
    BY <1>1
  <2>2. 3 + (k - 3) = k
    OBVIOUS
  <2>3. k - 3 \in 1..n => line[k] = t[k - 3]
    BY <2>2 DEF HeaderLine
  <2>4. CR \notin {NUL, LF} /\ 107 \notin {NUL, LF} /\ Colon \notin {NUL, LF} /\ Space \notin {NUL, LF}
    BY DEF NUL, LF, CR, Colon, Space
  <2> HIDE DEF n
  <2>5. /\ line[1] = 107 /\ line[2] = Colon /\ line[3] = Space
        /\ line[n + 4] = CR
    BY DEF HeaderLine, n
  <2>6. k - 3 \in 1..n => t[k - 3] \notin {NUL, LF}
    BY DEF n
  <2> QED BY <2>1, <2>3, <2>4, <2>5, <2>6
<1>5. LineEnd(s, 1) = n + 5
  <2>1. 1 \in Nat \ {0} /\ n + 5 \in 1..Len(s) /\ (n + 5) - 1 = n + 4
    <3> HIDE DEF n, s
    <3> QED BY <1>1, <1>2, <1>3
  <2>2. line[n + 5] = LF /\ n + 5 \in 1..Len(line)
    <3>1. line[n + 5] = LF
      BY DEF HeaderLine
    <3> HIDE DEF n
    <3> QED BY <1>1, <1>2, <3>1
  <2> HIDE DEF s, n
  <2>3. s[n + 5] = LF
    BY <1>3, <2>2
  <2>4. \A k \in 1..(n + 5) - 1 : s[k] # LF
    <3> SUFFICES ASSUME NEW k \in 1..n + 4 PROVE s[k] # LF
      BY <2>1
    <3>1. k \in 1..Len(line)
      BY <1>1, <1>2
    <3> QED BY <1>3, <1>4, <3>1
  <2>5. Find(s, <<LF>>, 1) = n + 5
    BY <1>3, <2>1, <2>3, <2>4, FirstAt
  <2>6. n + 5 # 0
    BY <1>1
  <2> QED BY <2>5, <2>6 DEF LineEnd
<1>6. SubSeq(s, 1, n + 5) = line
  <2>1. 1 \in Int /\ n + 5 \in Int /\ n + 5 = (1 - 1) + Len(line) /\ n + 5 <= Len(s)
    <3> HIDE DEF n, s
    <3> QED BY <1>1, <1>2, <1>3
  <2>2. \A j \in 1..Len(line) : (1 - 1) + j = j
    BY <1>1, <1>2
  <2> HIDE DEF s, n
  <2>3. \A j \in 1..Len(line) : s[(1 - 1) + j] = line[j]
    BY <1>3, <2>2
  <2>4. 1 <= 1
    OBVIOUS
  <2> QED BY <1>2, <1>3, <2>1, <2>3, <2>4, StretchIs, Zenon
<1> HIDE DEF s, n
<1>7. getline(s, 1, size) = CString(SubSeq(s, 1, LineEnd(s, 1)))
  BY <1>2, <1>3, <1>5, <1>6, ReadsLine
<1>8. CString(line) = line
  <2>1. ASSUME NEW k \in 1..Len(line) PROVE line[k] # NUL
    <3>1. k \in 1..n + 4 \/ k = n + 5
      BY <1>1, <1>2
    <3>2. line[n + 5] # NUL
      BY DEF HeaderLine, n, LF, NUL
    <3> QED BY <1>4, <3>1, <3>2
  <2> QED BY <1>2, <2>1, WholeCString
<1> QED BY <1>5, <1>6, <1>7, <1>8 DEF s

LEMMA EndsWithCRLF ==
  ASSUME NEW line \in Texts, Len(line) >= 2,
         line[Len(line) - 1] = CR, line[Len(line)] = LF
  PROVE  IsSuffix(CRLF, line)
<1> DEFINE a == Reverse(CRLF)
           b == Reverse(line)
           n == Len(line)
<1>1. n \in Nat /\ n >= 2
  BY TextIndices
<1>2. a = <<LF, CR>> /\ Len(a) = 2
  BY DEF Reverse, CRLF
<1>3. b \in Texts /\ Len(b) = n /\ \A i \in 1..n : b[i] = line[n - i + 1]
  <2>1. \A i \in 1..n : n - i + 1 \in 1..n
    BY <1>1
  <2>2. \A i \in 1..n : line[n - i + 1] \in Int
    BY <2>1, TextIndices
  <2>3. b = [i \in 1..n |-> line[(n - i) + 1]]
    BY DEF Reverse
  <2> HIDE DEF b, n
  <2> QED BY <1>1, <2>2, <2>3 DEF Texts
<1> HIDE DEF a, b
<1>4. b[1] = LF /\ b[2] = CR
  <2>1. 1 \in 1..n /\ 2 \in 1..n /\ n - 1 + 1 = n /\ n - 2 + 1 = n - 1
    BY <1>1
  <2> QED BY <1>3, <2>1
<1>5. SubSeq(b, 1, 2) = a
  <2>1. a \in Texts /\ a[1] = LF /\ a[2] = CR
    BY <1>2 DEF Texts, LF, CR
  <2>2. 1 \in Int /\ 2 \in Int /\ 1 <= 1 /\ 2 = (1 - 1) + Len(a) /\ 2 <= Len(b)
    BY <1>1, <1>2, <1>3
  <2>3. \A j \in 1..Len(a) : b[(1 - 1) + j] = a[j]
    BY <1>2, <1>4, <2>1
  <2> QED BY <1>3, <2>1, <2>2, <2>3, StretchIs
<1>6. SubSeq(a, 1, 2) = a
  <2>1. a \in Texts /\ 2 \in 0..Len(a)
    BY <1>2 DEF Texts, LF, CR
  <2> QED BY <1>2, <2>1, FirstBytes
<1>7. IsPrefix(a, b)
  BY <1>1, <1>2, <1>3, <1>5, <1>6 DEF IsPrefix
<1> QED BY <1>7 DEF IsSuffix, a, b

(* Where the value stands, with the space before it or without.            *)
LEMMA HeaderValues ==
  ASSUME NEW t \in Texts, NEW line, HeaderLine(line, t), Len(t) # 0,
         \A j \in 1..Len(t) : t[j] \notin {NUL, CR, LF},
         t[1] \notin White, t[Len(t)] \notin White
  PROVE  /\ <<4, Len(t) + 3>> \in Values(line, 2)
         /\ \A v \in Values(line, 2) : /\ v = <<v[1], v[2]>> /\ v[1] \in Int /\ v[1] <= 4
                                       /\ v[2] = Len(t) + 3
<1> DEFINE n == Len(t)
           end == Len(line) - 2
           firsts == {a \in 2 + 1..end : \A k \in 2 + 1..a - 1 : line[k] \in White}
           lasts == {b \in 2 + 1..end : \A k \in b + 1..end : line[k] \in White}
<1>1. n \in Nat /\ n >= 1
  <2>1. n \in Nat /\ n # 0
    BY TextIndices
  <2> HIDE DEF n
  <2> QED BY <2>1
<1>2. end = n + 3
  <2>1. Len(line) = n + 5
    BY DEF HeaderLine
  <2> HIDE DEF n
  <2> QED BY <1>1, <2>1
<1>3. /\ line[3] = Space /\ line[4] = t[1] /\ line[n + 3] = t[n]
      /\ \A k \in 4..n + 3 : line[k] \notin {CR, LF}
  <2>1. line[3] = Space /\ \A j \in 1..n : line[3 + j] = t[j]
    BY DEF HeaderLine
  <2>2. \A j \in 1..n : t[j] \notin {CR, LF}
    OBVIOUS
  <2> HIDE DEF n
  <2>3. line[4] = t[1]
    <3>1. 1 \in 1..n /\ 3 + 1 = 4
      BY <1>1
    <3>2. line[3 + 1] = t[1]
      BY <2>1, <3>1
    <3> QED BY <3>1, <3>2
  <2>4. line[n + 3] = t[n]
    <3>1. n \in 1..n /\ 3 + n = n + 3
      BY <1>1
    <3>2. line[3 + n] = t[n]
      BY <2>1, <3>1
    <3> QED BY <3>1, <3>2
  <2>5. ASSUME NEW k \in 4..n + 3 PROVE line[k] \notin {CR, LF}
    <3>1. k - 3 \in 1..n /\ 3 + (k - 3) = k
      BY <1>1
    <3>2. line[3 + (k - 3)] = t[k - 3]
      BY <2>1, <3>1
    <3>3. line[k] = t[k - 3]
      BY <3>1, <3>2
    <3> QED BY <2>2, <3>1, <3>3
  <2> QED BY <2>1, <2>3, <2>4, <2>5
<1>4. t[1] \notin White /\ t[n] \notin White
  OBVIOUS
<1> HIDE DEF n, end
<1>5. 4 \in firsts
  <2>1. 4 \in 2 + 1..end /\ \A k \in 2 + 1..4 - 1 : k = 3
    BY <1>1, <1>2
  <2>2. Space \in White
    BY DEF White
  <2> QED BY <1>3, <2>1, <2>2
<1>6. n + 3 \in lasts
  BY <1>1, <1>2
<1>7. ASSUME NEW a \in firsts PROVE a \in Int /\ a <= 4
  <2>1. a \in Int /\ a >= 3 /\ \A k \in 2 + 1..a - 1 : line[k] \in White
    OBVIOUS
  <2>2. a > 4 => 4 \in 2 + 1..a - 1
    BY <2>1
  <2> HIDE DEF firsts
  <2>3. ~ (a > 4)
    BY <1>3, <1>4, <2>1, <2>2
  <2> QED BY <2>1, <2>3
<1>8. ASSUME NEW b \in lasts PROVE b = n + 3
  <2>1. b \in Int /\ b <= end /\ \A k \in b + 1..end : line[k] \in White
    OBVIOUS
  <2>2. b < n + 3 => n + 3 \in b + 1..end
    BY <1>1, <1>2, <2>1
  <2> HIDE DEF lasts
  <2>3. ~ (b < n + 3)
    BY <1>3, <1>4, <2>1, <2>2
  <2> QED BY <1>1, <1>2, <2>1, <2>3
<1>9. Values(line, 2) = {v \in firsts \X lasts :
                           v[1] <= v[2] /\ \A k \in v[1]..v[2] : line[k] \notin {CR, LF}}
  BY DEF Values, end
<1> HIDE DEF firsts, lasts
<1>10. <<4, n + 3>> \in Values(line, 2)
  <2> DEFINE m == n + 3
  <2>1. 4 <= m /\ m \in lasts /\ \A k \in 4..m : line[k] \notin {CR, LF}
    BY <1>1, <1>3, <1>6
  <2> HIDE DEF m
  <2>2. <<4, m>> \in firsts \X lasts /\ <<4, m>>[1] = 4 /\ <<4, m>>[2] = m
    BY <1>5, <2>1
  <2> QED BY <1>9, <2>1, <2>2 DEF m
<1>11. ASSUME NEW v \in Values(line, 2)
       PROVE  v = <<v[1], v[2]>> /\ v[1] \in Int /\ v[1] <= 4 /\ v[2] = n + 3
  <2>1. v \in firsts \X lasts
    BY <1>9
  <2>2. v = <<v[1], v[2]>> /\ v[1] \in firsts /\ v[2] \in lasts
    BY <2>1
  <2> QED BY <1>7, <1>8, <2>2
<1> QED BY <1>10, <1>11 DEF n

LEMMA ReadsHeader ==
  ASSUME NEW t \in Texts, NEW line, HeaderLine(line, t), Len(t) # 0,
         \A j \in 1..Len(t) : t[j] \notin {NUL, CR, LF},
         t[1] \notin White, t[Len(t)] \notin White
  PROVE  read_header(line) = [ok |-> TRUE, key |-> <<107>>, val |-> t]
<1> DEFINE n == Len(t)
           m == n + 3
           best(v) == \A w \in Values(line, 2) : v[1] > w[1] \/ (v[1] = w[1] /\ v[2] <= w[2])
           val == CHOOSE v \in Values(line, 2) : best(v)
<1>1. n \in Nat /\ n >= 1
  <2>1. n \in Nat /\ n # 0
    BY TextIndices
  <2> HIDE DEF n
  <2> QED BY <2>1
<1>2. /\ line \in Texts /\ Len(line) = n + 5
      /\ line[1] = 107 /\ line[2] = Colon /\ line[3] = Space
      /\ \A j \in 1..n : line[3 + j] = t[j]
      /\ line[n + 4] = CR /\ line[n + 5] = LF
  BY DEF HeaderLine
<1>3. /\ <<4, m>> \in Values(line, 2)
      /\ \A v \in Values(line, 2) : v = <<v[1], v[2]>> /\ v[1] \in Int /\ v[1] <= 4 /\ v[2] = m
  BY HeaderValues
<1>4. key_end(line) = 2
  <2>1. 2 \in 2..Len(line) /\ \A k \in 1..2 - 1 : k = 1
    <3> HIDE DEF n
    <3> QED BY <1>1, <1>2
  <2>2. 107 \notin {CR, LF}
    BY DEF CR, LF
  <2>3. 2 \in Colons(line)
    BY <1>2, <1>3, <2>1, <2>2 DEF Colons
  <2>4. \A j \in Colons(line) : j \in Int /\ 2 <= j
    BY DEF Colons
  <2> DEFINE first == CHOOSE i \in Colons(line) : \A j \in Colons(line) : i <= j
  <2>5. key_end(line) = first
    BY <2>3 DEF key_end
  <2>6. first \in Colons(line) /\ \A j \in Colons(line) : first <= j
    BY <2>3, <2>4
  <2> HIDE DEF first
  <2>7. first = 2
    BY <2>3, <2>4, <2>6
  <2> QED BY <2>5, <2>7
<1>5. IsSuffix(CRLF, line)
  <2> HIDE DEF n
  <2>1. Len(line) >= 2 /\ Len(line) - 1 = n + 4 /\ Len(line) = n + 5
    BY <1>1, <1>2
  <2> QED BY <1>2, <2>1, EndsWithCRLF
<1>6. val = <<4, m>>
  <2> HIDE DEF m
  <2>1. ASSUME NEW w \in Values(line, 2)
        PROVE  4 > w[1] \/ (4 = w[1] /\ m <= w[2])
    <3>1. w[1] \in Int /\ w[1] <= 4 /\ w[2] = m
      BY <1>3
    <3>2. m \in Int
      BY <1>1 DEF m
    <3> QED BY <3>1, <3>2
  <2>2. <<4, m>>[1] = 4 /\ <<4, m>>[2] = m
    OBVIOUS
  <2>3. best(<<4, m>>)
    BY <2>1, <2>2
  <2> HIDE DEF best
  <2>4. val \in Values(line, 2) /\ best(val)
    BY <1>3, <2>3
  <2> HIDE DEF val
  <2>5. val[1] > 4 \/ val[1] = 4
    BY <1>3, <2>2, <2>4 DEF best
  <2>6. val = <<val[1], val[2]>> /\ val[1] \in Int /\ val[1] <= 4 /\ val[2] = m
    BY <1>3, <2>4
  <2>7. val[1] = 4
    BY <2>5, <2>6
  <2> QED BY <2>6, <2>7
<1>7. SubSeq(line, 1, 2 - 1) = <<107>>
  <2> DEFINE u == SubSeq(line, 1, 1)
  <2> HIDE DEF n
  <2>1. 1 - 1 <= 1 /\ 1 <= Len(line) /\ 1 \in 1..1 - 1 + 1 /\ 1 - 1 + 1 = 1
    BY <1>1, <1>2
  <2>2. u \in Texts /\ Len(u) = 1 - 1 + 1 /\ \A k \in 1..1 - 1 + 1 : u[k] = line[1 + k - 1]
    BY <1>2, <2>1, Stretch
  <2> HIDE DEF u
  <2>3. u \in Seq(Int) /\ Len(u) = 1 /\ u[1] = 107
    BY <1>2, <2>1, <2>2 DEF Texts
  <2>4. u = <<107>>
    BY <2>3
  <2> QED BY <2>4 DEF u
<1>8. SubSeq(line, 4, m) = t
  <2> DEFINE a == 4
  <2>1. a - 1 = 3
    OBVIOUS
  <2>2. a \in Int /\ m \in Int /\ 1 <= a /\ m = 3 + n /\ m <= n + 5
    <3> HIDE DEF n
    <3> QED BY <1>1
  <2>3. m = 3 + Len(t) /\ m <= Len(line)
    BY <1>2, <2>2
  <2>4. \A j \in 1..Len(t) : line[3 + j] = t[j]
    BY <1>2
  <2> HIDE DEF m, n, a
  <2>5. m = (a - 1) + Len(t) /\ \A j \in 1..Len(t) : line[(a - 1) + j] = t[j]
    BY <2>1, <2>3, <2>4, Zenon
  <2>6. line \in Texts /\ a \in Int /\ m \in Int /\ 1 <= a /\ m <= Len(line)
    BY <1>2, <2>2, <2>3
  <2>7. SubSeq(line, a, m) = t
    BY <2>5, <2>6, StretchIs, Zenon
  <2> QED BY <2>7 DEF a
<1>9. read_header(line) =
        IF key_end(line) = 0 \/ ~ IsSuffix(CRLF, line)
          THEN [ok |-> FALSE, key |-> <<>>, val |-> <<>>]
          ELSE [ok  |-> TRUE, key |-> SubSeq(line, 1, key_end(line) - 1),
                val |-> SubSeq(line, val[1], val[2])]
  BY <1>4 DEF read_header
<1> HIDE DEF val, m
<1>10. val[1] = 4 /\ val[2] = m /\ ~ (2 = 0)
  BY <1>6
<1> QED BY <1>4, <1>5, <1>7, <1>8, <1>9, <1>10

(* A header arrives, whatever the size of the reader's buffer, proved for  *)
(* every value without line breaks, NULs and white space at its ends.      *)
THEOREM HeadersArrive == Spec => []HeaderArrives
<1>1. ASSUME TextOK, text # <<>>, {NUL, CR, LF} \cap Range(text) = {},
             {text[1], text[Len(text)]} \cap White = {},
             NEW size \in {2, 4, Len(text) + 5, Len(text) + 6}
      PROVE  read_header(getline(write_header(<<107>>, text) \o CRLF, 1, size))
               = [ok |-> TRUE, key |-> <<107>>, val |-> text]
  <2> DEFINE line == write_header(<<107>>, text)
  <2>1. text \in Texts
    BY <1>1, BytesAreTexts DEF TextOK
  <2>3. \A j \in 1..Len(text) : text[j] \notin {NUL, CR, LF}
    <3>1. \A j \in 1..Len(text) : text[j] \in Range(text)
      BY <1>1 DEF TextOK, Range
    <3> QED BY <1>1, <3>1
  <2>2. HeaderLine(line, text)
    BY <2>1, <2>3, HeaderShape
  <2>4. Len(text) # 0 /\ size \in Nat /\ size >= 1
    BY <1>1 DEF TextOK
  <2> HIDE DEF line
  <2>5. getline(line \o CRLF, 1, size) = line
    BY <2>1, <2>2, <2>3, <2>4, HeaderIsLine
  <2>6. text[1] \notin White /\ text[Len(text)] \notin White
    BY <1>1
  <2>7. read_header(line) = [ok |-> TRUE, key |-> <<107>>, val |-> text]
    BY <2>1, <2>2, <2>3, <2>4, <2>6, ReadsHeader
  <2> QED BY <2>5, <2>7 DEF line
<1>2. TextOK => HeaderArrives
  BY <1>1 DEF HeaderArrives
<1> QED BY <1>2, TextType, PTL

-----------------------------------------------------------------------------
(* std::string::find of a text.                                            *)

(* s has the text p at k.                                                  *)
Matches(s, p, k) == \A j \in 1..Len(p) : s[(k - 1) + j] = p[j]

LEMMA MatchIs ==
  ASSUME NEW s \in Texts, NEW p \in Texts, NEW k \in Int, 1 <= k, (k + Len(p)) - 1 <= Len(s)
  PROVE  SubSeq(s, k, k + Len(p) - 1) = p <=> Matches(s, p, k)
<1> DEFINE L == Len(p)
           b == k + L - 1
<1>1. L \in Nat /\ Len(s) \in Nat
  BY TextIndices
<1>2. b \in Int /\ b = (k - 1) + L /\ b <= Len(s) /\ k - 1 <= b /\ b - k + 1 = L
  <2> HIDE DEF L
  <2> QED BY <1>1 DEF L
<1>3. ASSUME Matches(s, p, k) PROVE SubSeq(s, k, b) = p
  <2> HIDE DEF b
  <2> QED BY <1>2, <1>3, StretchIs DEF Matches
<1>4. ASSUME SubSeq(s, k, b) = p PROVE Matches(s, p, k)
  <2> HIDE DEF b, L
  <2>1. \A j \in 1..L : SubSeq(s, k, b)[j] = s[k + j - 1]
    BY <1>2, Stretch
  <2>2. \A j \in 1..L : k + j - 1 = (k - 1) + j
    BY <1>1
  <2>3. \A j \in 1..L : s[(k - 1) + j] = p[j]
    BY <1>4, <2>1, <2>2
  <2> QED BY <2>3 DEF Matches, L
<1> QED BY <1>3, <1>4

Found(s, p, i) == {k \in i..Len(s) - Len(p) + 1 : SubSeq(s, k, k + Len(p) - 1) = p}

LEMMA FindIs ==
  ASSUME NEW s, NEW p, NEW i
  PROVE  Find(s, p, i) = IF Found(s, p, i) = {} THEN 0
                         ELSE CHOOSE k \in Found(s, p, i) : \A j \in Found(s, p, i) : k <= j
BY DEF Find, Found

LEMMA FoundIs ==
  ASSUME NEW s \in Texts, NEW p \in Texts, NEW i \in Nat \ {0}
  PROVE  \A k : k \in Found(s, p, i)
                  <=> k \in Int /\ i <= k /\ (k + Len(p)) - 1 <= Len(s) /\ Matches(s, p, k)
<1> DEFINE L == Len(p)
<1>1. L \in Nat /\ Len(s) \in Nat
  BY TextIndices
<1> SUFFICES ASSUME NEW k
    PROVE  k \in Found(s, p, i)
             <=> k \in Int /\ i <= k /\ (k + Len(p)) - 1 <= Len(s) /\ Matches(s, p, k)
  OBVIOUS
<1>2. k \in i..Len(s) - L + 1 <=> k \in Int /\ i <= k /\ (k + L) - 1 <= Len(s)
  <2> HIDE DEF L
  <2> QED BY <1>1
<1>3. k \in Int /\ i <= k => 1 <= k
  OBVIOUS
<1> QED BY <1>2, <1>3, MatchIs DEF Found

LEMMA FindRange ==
  ASSUME NEW s \in Texts, NEW p \in Texts, NEW i \in Nat \ {0}
  PROVE  \/ /\ Find(s, p, i) = 0
            /\ \A k \in Int : i <= k /\ (k + Len(p)) - 1 <= Len(s) => ~ Matches(s, p, k)
         \/ /\ Find(s, p, i) \in Int /\ i <= Find(s, p, i)
            /\ (Find(s, p, i) + Len(p)) - 1 <= Len(s)
            /\ Matches(s, p, Find(s, p, i))
<1> DEFINE S == Found(s, p, i)
<1>1. \A k : k \in S <=> k \in Int /\ i <= k /\ (k + Len(p)) - 1 <= Len(s) /\ Matches(s, p, k)
  BY FoundIs
<1>2. Find(s, p, i) = IF S = {} THEN 0 ELSE CHOOSE k \in S : \A j \in S : k <= j
  BY FindIs
<1> HIDE DEF S
<1>3. CASE S = {}
  BY <1>1, <1>2, <1>3
<1>4. CASE S # {}
  <2>1. S \subseteq Nat
    <3>1. \A k \in Int : i <= k => k \in Nat
      OBVIOUS
    <3> QED BY <1>1, <3>1
  <2>2. \E k \in S : \A j \in S : k <= j
    BY <1>4, <2>1, LeastNat
  <2>3. Find(s, p, i) \in S
    BY <1>2, <1>4, <2>2
  <2> QED BY <1>1, <2>3
<1> QED BY <1>3, <1>4

LEMMA FindAt ==
  ASSUME NEW s \in Texts, NEW p \in Texts, NEW i \in Nat \ {0}, NEW e \in Int,
         i <= e, (e + Len(p)) - 1 <= Len(s), Matches(s, p, e),
         \A k \in i..e - 1 : ~ Matches(s, p, k)
  PROVE  Find(s, p, i) = e
<1> DEFINE S == Found(s, p, i)
<1>1. \A k : k \in S <=> k \in Int /\ i <= k /\ (k + Len(p)) - 1 <= Len(s) /\ Matches(s, p, k)
  BY FoundIs
<1>2. Find(s, p, i) = IF S = {} THEN 0 ELSE CHOOSE k \in S : \A j \in S : k <= j
  BY FindIs
<1> HIDE DEF S
<1>3. e \in S /\ \A k \in S : k \in Int
  BY <1>1
<1>4. \A k \in S : e <= k
  <2> SUFFICES ASSUME NEW k \in S, k < e PROVE FALSE
    BY <1>3
  <2>1. k \in i..e - 1
    BY <1>1
  <2> QED BY <1>1, <2>1
<1> DEFINE f == CHOOSE k \in S : \A j \in S : k <= j
<1>5. f \in S /\ \A j \in S : f <= j
  BY <1>3, <1>4
<1>6. Find(s, p, i) = f
  BY <1>2, <1>3
<1> HIDE DEF f
<1>7. f = e
  BY <1>3, <1>4, <1>5
<1> QED BY <1>6, <1>7

-----------------------------------------------------------------------------
(* multipart/form-data.                                                    *)

Boundary == <<98>>
DashBoundary == <<Dash, Dash>> \o Boundary

LEMMA JoinIs ==
  ASSUME NEW a \in Texts, NEW b \in Texts, NEW c \in Texts, Len(c) = Len(a) + Len(b),
         \A i \in 1..Len(a) : c[i] = a[i], \A j \in 1..Len(b) : c[Len(a) + j] = b[j]
  PROVE  a \o b = c
<1> DEFINE d == a \o b
<1>1. Len(a) \in Nat /\ Len(b) \in Nat
  BY TextIndices
<1>2. /\ d \in Texts /\ Len(d) = Len(a) + Len(b)
      /\ \A i \in 1..Len(a) : d[i] = a[i]
      /\ \A j \in 1..Len(b) : d[Len(a) + j] = b[j]
  BY Joining
<1> HIDE DEF d
<1>3. ASSUME NEW i \in 1..Len(d) PROVE d[i] = c[i]
  <2>1. i \in 1..Len(a) \/ (i - Len(a) \in 1..Len(b) /\ Len(a) + (i - Len(a)) = i)
    BY <1>1, <1>2
  <2>2. CASE i \in 1..Len(a)
    BY <1>2, <2>2
  <2>3. CASE i - Len(a) \in 1..Len(b) /\ Len(a) + (i - Len(a)) = i
    <3> DEFINE j == i - Len(a)
    <3>1. j \in 1..Len(b) /\ Len(a) + j = i
      BY <2>3
    <3> HIDE DEF j
    <3> QED BY <1>2, <3>1
  <2> QED BY <2>1, <2>2, <2>3
<1>4. d = c
  <2>1. d \in Seq(Int) /\ c \in Seq(Int) /\ Len(d) = Len(c)
    BY <1>2 DEF Texts
  <2> QED BY <1>3, <2>1, SeqEqual
<1> QED BY <1>4 DEF d

LEMMA Patterns ==
  /\ CRLF = <<13, 10>> /\ CRLF \o CRLF = <<13, 10, 13, 10>>
  /\ DashBoundary = <<45, 45, 98>> /\ CRLF \o DashBoundary = <<13, 10, 45, 45, 98>>
  /\ CRLF \o <<Dash, Dash>> \o Boundary = <<13, 10, 45, 45, 98>>
  /\ CRLF \in Texts /\ CRLF \o CRLF \in Texts
  /\ DashBoundary \in Texts /\ CRLF \o DashBoundary \in Texts
  /\ Len(CRLF) = 2 /\ Len(CRLF \o CRLF) = 4 /\ Len(DashBoundary) = 3 /\ Len(CRLF \o DashBoundary) = 5
<1>1. <<45, 45>> \o <<98>> = <<45, 45, 98>>
  <2> DEFINE a == <<45, 45>>
             b == <<98>>
             c == <<45, 45, 98>>
  <2>1. a \in Texts /\ b \in Texts /\ c \in Texts
    BY DEF Texts
  <2>2. Len(a) = 2 /\ Len(b) = 1 /\ Len(c) = Len(a) + Len(b)
    OBVIOUS
  <2>3. (\A i \in 1..2 : c[i] = a[i]) /\ (\A j \in 1..1 : c[2 + j] = b[j])
    OBVIOUS
  <2> HIDE DEF a, b, c
  <2>4. (\A i \in 1..Len(a) : c[i] = a[i]) /\ (\A j \in 1..Len(b) : c[Len(a) + j] = b[j])
    BY <2>2, <2>3
  <2>5. a \o b = c
    BY <2>1, <2>2, <2>4, JoinIs
  <2> QED BY <2>5 DEF a, b, c
<1>2. <<13, 10>> \o <<13, 10>> = <<13, 10, 13, 10>>
  <2> DEFINE a == <<13, 10>>
             b == <<13, 10>>
             c == <<13, 10, 13, 10>>
  <2>1. a \in Texts /\ b \in Texts /\ c \in Texts
    BY DEF Texts
  <2>2. Len(a) = 2 /\ Len(b) = 2 /\ Len(c) = Len(a) + Len(b)
    OBVIOUS
  <2>3. (\A i \in 1..2 : c[i] = a[i]) /\ (\A j \in 1..2 : c[2 + j] = b[j])
    OBVIOUS
  <2> HIDE DEF a, b, c
  <2>4. (\A i \in 1..Len(a) : c[i] = a[i]) /\ (\A j \in 1..Len(b) : c[Len(a) + j] = b[j])
    BY <2>2, <2>3
  <2>5. a \o b = c
    BY <2>1, <2>2, <2>4, JoinIs
  <2> QED BY <2>5 DEF a, b, c
<1>3. <<13, 10>> \o <<45, 45, 98>> = <<13, 10, 45, 45, 98>>
  <2> DEFINE a == <<13, 10>>
             b == <<45, 45, 98>>
             c == <<13, 10, 45, 45, 98>>
  <2>1. a \in Texts /\ b \in Texts /\ c \in Texts
    BY DEF Texts
  <2>2. Len(a) = 2 /\ Len(b) = 3 /\ Len(c) = Len(a) + Len(b)
    OBVIOUS
  <2>3. (\A i \in 1..2 : c[i] = a[i]) /\ (\A j \in 1..3 : c[2 + j] = b[j])
    OBVIOUS
  <2> HIDE DEF a, b, c
  <2>4. (\A i \in 1..Len(a) : c[i] = a[i]) /\ (\A j \in 1..Len(b) : c[Len(a) + j] = b[j])
    BY <2>2, <2>3
  <2>5. a \o b = c
    BY <2>1, <2>2, <2>4, JoinIs
  <2> QED BY <2>5 DEF a, b, c
<1>4. <<13, 10>> \o <<45, 45>> = <<13, 10, 45, 45>>
  <2> DEFINE a == <<13, 10>>
             b == <<45, 45>>
             c == <<13, 10, 45, 45>>
  <2>1. a \in Texts /\ b \in Texts /\ c \in Texts
    BY DEF Texts
  <2>2. Len(a) = 2 /\ Len(b) = 2 /\ Len(c) = Len(a) + Len(b)
    OBVIOUS
  <2>3. (\A i \in 1..2 : c[i] = a[i]) /\ (\A j \in 1..2 : c[2 + j] = b[j])
    OBVIOUS
  <2> HIDE DEF a, b, c
  <2>4. (\A i \in 1..Len(a) : c[i] = a[i]) /\ (\A j \in 1..Len(b) : c[Len(a) + j] = b[j])
    BY <2>2, <2>3
  <2>5. a \o b = c
    BY <2>1, <2>2, <2>4, JoinIs
  <2> QED BY <2>5 DEF a, b, c
<1>5. <<13, 10, 45, 45>> \o <<98>> = <<13, 10, 45, 45, 98>>
  <2> DEFINE a == <<13, 10, 45, 45>>
             b == <<98>>
             c == <<13, 10, 45, 45, 98>>
  <2>1. a \in Texts /\ b \in Texts /\ c \in Texts
    BY DEF Texts
  <2>2. Len(a) = 4 /\ Len(b) = 1 /\ Len(c) = Len(a) + Len(b)
    OBVIOUS
  <2>3. (\A i \in 1..4 : c[i] = a[i]) /\ (\A j \in 1..1 : c[4 + j] = b[j])
    OBVIOUS
  <2> HIDE DEF a, b, c
  <2>4. (\A i \in 1..Len(a) : c[i] = a[i]) /\ (\A j \in 1..Len(b) : c[Len(a) + j] = b[j])
    BY <2>2, <2>3
  <2>5. a \o b = c
    BY <2>1, <2>2, <2>4, JoinIs
  <2> QED BY <2>5 DEF a, b, c
<1>6. CRLF = <<13, 10>> /\ DashBoundary = <<45, 45, 98>>
  BY <1>1 DEF CRLF, CR, LF, DashBoundary, Dash, Boundary
<1>7. /\ <<13, 10>> \in Texts /\ <<13, 10, 13, 10>> \in Texts
      /\ <<45, 45, 98>> \in Texts /\ <<13, 10, 45, 45, 98>> \in Texts
  BY DEF Texts
<1>8. /\ Len(<<13, 10>>) = 2 /\ Len(<<13, 10, 13, 10>>) = 4
      /\ Len(<<45, 45, 98>>) = 3 /\ Len(<<13, 10, 45, 45, 98>>) = 5
  OBVIOUS
<1>9. CRLF \o <<Dash, Dash>> \o Boundary = <<13, 10, 45, 45, 98>>
  BY <1>4, <1>5, <1>6 DEF Dash, Boundary
<1>10. CRLF \o CRLF = <<13, 10, 13, 10>> /\ CRLF \o DashBoundary = <<13, 10, 45, 45, 98>>
  BY <1>2, <1>3, <1>6, Zenon
<1>11. /\ CRLF \in Texts /\ CRLF \o CRLF \in Texts
       /\ DashBoundary \in Texts /\ CRLF \o DashBoundary \in Texts
  BY <1>6, <1>7, <1>10, Zenon
<1>12. /\ Len(CRLF) = 2 /\ Len(CRLF \o CRLF) = 4
       /\ Len(DashBoundary) = 3 /\ Len(CRLF \o DashBoundary) = 5
  BY <1>6, <1>8, <1>10, Zenon
<1> QED BY <1>6, <1>9, <1>10, <1>11, <1>12, Zenon

LEMMA MatchesEach ==
  ASSUME NEW s, NEW k \in Int
  PROVE  /\ Matches(s, CRLF, k) <=> s[k] = 13 /\ s[k + 1] = 10
         /\ Matches(s, CRLF \o CRLF, k)
              <=> s[k] = 13 /\ s[k + 1] = 10 /\ s[k + 2] = 13 /\ s[k + 3] = 10
         /\ Matches(s, DashBoundary, k) <=> s[k] = 45 /\ s[k + 1] = 45 /\ s[k + 2] = 98
         /\ Matches(s, CRLF \o DashBoundary, k)
              <=> /\ s[k] = 13 /\ s[k + 1] = 10 /\ s[k + 2] = 45
                  /\ s[k + 3] = 45 /\ s[k + 4] = 98
<1>1. /\ (k - 1) + 1 = k /\ (k - 1) + 2 = k + 1 /\ (k - 1) + 3 = k + 2
      /\ (k - 1) + 4 = k + 3 /\ (k - 1) + 5 = k + 4
  OBVIOUS
<1>2. Matches(s, <<13, 10>>, k) <=> s[k] = 13 /\ s[k + 1] = 10
  <2>1. 1..2 = {1, 2} /\ Len(<<13, 10>>) = 2
    OBVIOUS
  <2>2. Matches(s, <<13, 10>>, k) <=> s[(k - 1) + 1] = 13 /\ s[(k - 1) + 2] = 10
    BY <2>1 DEF Matches
  <2> QED BY <1>1, <2>2
<1>3. Matches(s, <<13, 10, 13, 10>>, k)
        <=> s[k] = 13 /\ s[k + 1] = 10 /\ s[k + 2] = 13 /\ s[k + 3] = 10
  <2>1. 1..4 = {1, 2, 3, 4} /\ Len(<<13, 10, 13, 10>>) = 4
    OBVIOUS
  <2>2. Matches(s, <<13, 10, 13, 10>>, k)
          <=> /\ s[(k - 1) + 1] = 13 /\ s[(k - 1) + 2] = 10
              /\ s[(k - 1) + 3] = 13 /\ s[(k - 1) + 4] = 10
    BY <2>1 DEF Matches
  <2> QED BY <1>1, <2>2
<1>4. Matches(s, <<45, 45, 98>>, k) <=> s[k] = 45 /\ s[k + 1] = 45 /\ s[k + 2] = 98
  <2>1. 1..3 = {1, 2, 3} /\ Len(<<45, 45, 98>>) = 3
    OBVIOUS
  <2>2. Matches(s, <<45, 45, 98>>, k)
          <=> s[(k - 1) + 1] = 45 /\ s[(k - 1) + 2] = 45 /\ s[(k - 1) + 3] = 98
    BY <2>1 DEF Matches
  <2> QED BY <1>1, <2>2
<1>5. Matches(s, <<13, 10, 45, 45, 98>>, k)
        <=> s[k] = 13 /\ s[k + 1] = 10 /\ s[k + 2] = 45 /\ s[k + 3] = 45 /\ s[k + 4] = 98
  <2>1. 1..5 = {1, 2, 3, 4, 5} /\ Len(<<13, 10, 45, 45, 98>>) = 5
    OBVIOUS
  <2>2. Matches(s, <<13, 10, 45, 45, 98>>, k)
          <=> /\ s[(k - 1) + 1] = 13 /\ s[(k - 1) + 2] = 10
              /\ s[(k - 1) + 3] = 45 /\ s[(k - 1) + 4] = 45 /\ s[(k - 1) + 5] = 98
    BY <2>1 DEF Matches
  <2> QED BY <1>1, <2>2
<1> QED BY <1>2, <1>3, <1>4, <1>5, Patterns

(* A part of the body: its header lines, its content c, and the boundary   *)
(* after it.                                                               *)
PartAt(s, pos, n, c) ==
  /\ s[pos] = 1000 + n /\ s[pos + 1] = 13 /\ s[pos + 2] = 10
  /\ s[pos + 3] = 1000 /\ s[pos + 4] = 13 /\ s[pos + 5] = 10
  /\ s[pos + 6] = 13 /\ s[pos + 7] = 10
  /\ \A j \in 1..Len(c) : s[(pos + 7) + j] = c[j]

EndsAt(s, e) ==
  /\ s[e] = 13 /\ s[e + 1] = 10 /\ s[e + 2] = 45 /\ s[e + 3] = 45 /\ s[e + 4] = 98
  /\ e + 4 <= Len(s)

NoBoundary(c) == Find(c, CRLF \o DashBoundary, 1) = 0

(* The boundary after the content is the first one: the content has none,  *)
(* and none begins in it and ends after it.                                *)
LEMMA PartEnds ==
  ASSUME NEW s \in Texts, NEW pos \in Nat \ {0}, NEW n, NEW c \in Texts, NEW e \in Int,
         PartAt(s, pos, n, c), e = (pos + 8) + Len(c), EndsAt(s, e), NoBoundary(c)
  PROVE  part_end(s, DashBoundary, pos + 8) = e
<1> DEFINE m == Len(c)
           F == CRLF \o DashBoundary
<1>1. m \in Nat /\ e = (pos + 8) + m
  BY TextIndices
<1>2. F \in Texts /\ Len(F) = 5
  BY Patterns
<1>3. \A j \in 1..m : s[(pos + 7) + j] = c[j]
  BY DEF PartAt
<1>4. \A k \in Int : 1 <= k /\ (k + 5) - 1 <= m => ~ Matches(c, F, k)
  <2>1. 1 \in Nat \ {0}
    OBVIOUS
  <2>2. Find(c, F, 1) = 0
    BY DEF NoBoundary
  <2> HIDE DEF F, m
  <2>3. \/ /\ Find(c, F, 1) = 0
           /\ \A k \in Int : 1 <= k /\ (k + Len(F)) - 1 <= Len(c) => ~ Matches(c, F, k)
        \/ 1 <= Find(c, F, 1)
    BY <1>2, <2>1, FindRange
  <2>4. \A k \in Int : 1 <= k /\ (k + Len(F)) - 1 <= Len(c) => ~ Matches(c, F, k)
    BY <2>2, <2>3
  <2> QED BY <1>2, <2>4 DEF m
<1> HIDE DEF m
<1>5. ASSUME NEW k \in pos + 8..e - 1, Matches(s, F, k)
      PROVE  FALSE
  <2>1. k \in Int /\ pos + 8 <= k /\ k <= e - 1
    OBVIOUS
  <2>2. s[k] = 13 /\ s[k + 1] = 10 /\ s[k + 2] = 45 /\ s[k + 3] = 45 /\ s[k + 4] = 98
    BY <1>5, <2>1, MatchesEach
  <2>3. CASE e \in {k + 1, k + 2, k + 3, k + 4}
    <3>1. s[e] = 13
      BY DEF EndsAt
    <3>2. s[e] \in {10, 45, 98}
      BY <2>2, <2>3
    <3> QED BY <3>1, <3>2
  <2>4. CASE k + 5 <= e
    <3> DEFINE j == k - (pos + 7)
    <3>1. /\ j \in Int /\ 1 <= j /\ (j + 5) - 1 <= m
          /\ (pos + 7) + j = k /\ (pos + 7) + (j + 1) = k + 1 /\ (pos + 7) + (j + 2) = k + 2
          /\ (pos + 7) + (j + 3) = k + 3 /\ (pos + 7) + (j + 4) = k + 4
      BY <1>1, <2>1, <2>4
    <3> HIDE DEF j
    <3>2. {j, j + 1, j + 2, j + 3, j + 4} \subseteq 1..m
      BY <1>1, <3>1
    <3>3. c[j] = 13 /\ c[j + 1] = 10 /\ c[j + 2] = 45 /\ c[j + 3] = 45 /\ c[j + 4] = 98
      <4>1. \A x \in Int, y \in 1..m : x = (pos + 7) + y => s[x] = c[y]
        BY <1>3
      <4>2. k \in Int /\ k + 1 \in Int /\ k + 2 \in Int /\ k + 3 \in Int /\ k + 4 \in Int
        BY <2>1
      <4>3. /\ s[k] = c[j] /\ s[k + 1] = c[j + 1] /\ s[k + 2] = c[j + 2]
            /\ s[k + 3] = c[j + 3] /\ s[k + 4] = c[j + 4]
        BY <3>1, <3>2, <4>1, <4>2
      <4> QED BY <2>2, <4>3
    <3>4. Matches(c, F, j)
      BY <3>1, <3>3, MatchesEach
    <3> QED BY <1>4, <3>1, <3>4
  <2>5. e \in {k + 1, k + 2, k + 3, k + 4} \/ k + 5 <= e
    BY <2>1
  <2> QED BY <2>3, <2>4, <2>5
<1>6. Matches(s, F, e) /\ e + 4 <= Len(s)
  BY MatchesEach DEF EndsAt
<1>7. pos + 8 \in Nat \ {0} /\ pos + 8 <= e /\ (e + Len(F)) - 1 <= Len(s)
  <2>1. Len(s) \in Nat /\ Len(F) = 5
    BY <1>2, TextIndices
  <2> HIDE DEF F
  <2> QED BY <1>1, <1>6, <2>1
<1> HIDE DEF F
<1>8. Find(s, F, pos + 8) = e
  BY <1>2, <1>5, <1>6, <1>7, FindAt
<1> QED BY <1>8 DEF part_end, F

HeaderText(n) == (<<1000 + n>> \o <<13>>) \o <<10, 1000>>

(* The headers end at the first empty line, and name the part.             *)
LEMMA PartHeader ==
  ASSUME NEW s \in Texts, NEW pos \in Nat \ {0}, NEW n \in 1..9, NEW c \in Texts,
         PartAt(s, pos, n, c), pos + 7 <= Len(s)
  PROVE  /\ Find(s, CRLF \o CRLF, pos) = pos + 4
         /\ SubSeq(s, pos, pos + 1) # CRLF
         /\ SubSeq(s, pos, pos + 3) = HeaderText(n)
<1> DEFINE B == CRLF \o CRLF
<1>1. B \in Texts /\ Len(B) = 4 /\ CRLF \in Texts /\ Len(CRLF) = 2 /\ Len(s) \in Nat
  BY Patterns, TextIndices
<1>2. /\ s[pos] = 1000 + n /\ s[pos + 1] = 13 /\ s[pos + 2] = 10
      /\ s[pos + 3] = 1000 /\ s[pos + 4] = 13 /\ s[pos + 5] = 10
      /\ s[pos + 6] = 13 /\ s[pos + 7] = 10
  BY DEF PartAt
<1>3. 1000 + n # 13
  OBVIOUS
<1>4. Matches(s, B, pos + 4)
  <2>1. pos + 4 \in Int /\ (pos + 4) + 1 = pos + 5 /\ (pos + 4) + 2 = pos + 6 /\ (pos + 4) + 3 = pos + 7
    OBVIOUS
  <2> QED BY <1>2, <2>1, MatchesEach
<1>5. ASSUME NEW k \in pos..(pos + 4) - 1 PROVE ~ Matches(s, B, k)
  <2>1. k \in Int /\ (k = pos \/ k = pos + 1 \/ k = pos + 2 \/ k = pos + 3)
    OBVIOUS
  <2>2. (pos + 1) + 2 = pos + 3
    OBVIOUS
  <2>3. Matches(s, B, k) => s[k] = 13 /\ s[k + 2] = 13
    BY <2>1, MatchesEach
  <2> QED BY <1>2, <1>3, <2>1, <2>2, <2>3
<1>6. Find(s, B, pos) = pos + 4
  <2>1. pos + 4 \in Int /\ pos <= pos + 4 /\ ((pos + 4) + Len(B)) - 1 <= Len(s)
    <3> HIDE DEF B
    <3> QED BY <1>1
  <2> HIDE DEF B
  <2> QED BY <1>1, <1>4, <1>5, <2>1, FindAt
<1>7. SubSeq(s, pos, pos + 1) # CRLF
  <2>1. ~ Matches(s, CRLF, pos)
    BY <1>2, <1>3, MatchesEach
  <2>2. pos \in Int /\ 1 <= pos /\ (pos + Len(CRLF)) - 1 <= Len(s) /\ pos + Len(CRLF) - 1 = pos + 1
    BY <1>1
  <2>3. SubSeq(s, pos, pos + Len(CRLF) - 1) = CRLF <=> Matches(s, CRLF, pos)
    BY <1>1, <2>2, MatchIs
  <2> QED BY <2>1, <2>2, <2>3
<1>8. SubSeq(s, pos, pos + 3) = (<<1000 + n>> \o <<13>>) \o <<10, 1000>>
  <2> DEFINE a == <<1000 + n>>
             b == <<13>>
             h == <<1000 + n, 13>>
             d == <<10, 1000>>
             w == <<1000 + n, 13, 10, 1000>>
  <2>1. /\ a \in Texts /\ b \in Texts /\ h \in Texts /\ d \in Texts /\ w \in Texts
        /\ Len(a) = 1 /\ Len(b) = 1 /\ Len(h) = 2 /\ Len(d) = 2 /\ Len(w) = 4
    BY DEF Texts
  <2>2. a \o b = h
    <3>1. (\A i \in 1..1 : h[i] = a[i]) /\ (\A j \in 1..1 : h[1 + j] = b[j])
      OBVIOUS
    <3> HIDE DEF a, b, h, d, w
    <3>2. (\A i \in 1..Len(a) : h[i] = a[i]) /\ (\A j \in 1..Len(b) : h[Len(a) + j] = b[j])
      BY <2>1, <3>1
    <3>3. Len(h) = Len(a) + Len(b)
      BY <2>1
    <3> QED BY <2>1, <3>2, <3>3, JoinIs
  <2>3. h \o d = w
    <3>1. (\A i \in 1..2 : w[i] = h[i]) /\ (\A j \in 1..2 : w[2 + j] = d[j])
      OBVIOUS
    <3> HIDE DEF a, b, h, d, w
    <3>2. (\A i \in 1..Len(h) : w[i] = h[i]) /\ (\A j \in 1..Len(d) : w[Len(h) + j] = d[j])
      BY <2>1, <3>1
    <3>3. Len(w) = Len(h) + Len(d)
      BY <2>1
    <3> QED BY <2>1, <3>2, <3>3, JoinIs
  <2>4. \A j \in 1..4 : s[(pos - 1) + j] = w[j]
    <3>1. (pos - 1) + 1 = pos /\ (pos - 1) + 2 = pos + 1 /\ (pos - 1) + 3 = pos + 2 /\ (pos - 1) + 4 = pos + 3
      OBVIOUS
    <3>2. w[1] = 1000 + n /\ w[2] = 13 /\ w[3] = 10 /\ w[4] = 1000
      OBVIOUS
    <3> HIDE DEF w
    <3>3. /\ s[(pos - 1) + 1] = w[1] /\ s[(pos - 1) + 2] = w[2]
          /\ s[(pos - 1) + 3] = w[3] /\ s[(pos - 1) + 4] = w[4]
      BY <1>2, <3>1, <3>2
    <3>4. \A j \in 1..4 : j = 1 \/ j = 2 \/ j = 3 \/ j = 4
      OBVIOUS
    <3> QED BY <3>3, <3>4, Zenon
  <2> HIDE DEF a, b, h, d, w
  <2>5. pos + 3 \in Int /\ pos \in Int /\ 1 <= pos /\ pos + 3 = (pos - 1) + Len(w) /\ pos + 3 <= Len(s)
    BY <1>1, <2>1
  <2>6. \A j \in 1..Len(w) : s[(pos - 1) + j] = w[j]
    BY <2>1, <2>4
  <2>7. SubSeq(s, pos, pos + 3) = w
    BY <2>1, <2>5, <2>6, StretchIs
  <2> QED BY <2>2, <2>3, <2>7, ZenonT(30) DEF a, b, d
<1> QED BY <1>6, <1>7, <1>8 DEF HeaderText

LEMMA ReadsPart ==
  ASSUME NEW s \in Texts, NEW pos \in Nat \ {0}, NEW n \in 1..9, NEW c \in Texts, NEW e \in Int,
         PartAt(s, pos, n, c), e = (pos + 8) + Len(c), EndsAt(s, e), NoBoundary(c),
         NEW crlf, crlf = Find(s, CRLF, e + 5)
  PROVE  read_part(s, DashBoundary, pos)
           = [name   |-> {n},
              offset |-> pos + 8,
              length |-> Len(c),
              next   |-> IF crlf = 0 THEN 0 ELSE crlf + 2]
<1> DEFINE blank == Find(s, CRLF \o CRLF, pos)
           header == Split(SubSeq(s, pos, blank - 1), CR)
           start == IF SubSeq(s, pos, pos + 1) = CRLF THEN pos + 2
                    ELSE IF blank = 0 THEN 0 ELSE blank + 4
           stop == IF start = 0 THEN 0 ELSE part_end(s, DashBoundary, start)
           name == {x \in 1..9 : \E i \in DOMAIN header : Disposition(x)[1] \in Range(header[i])}
           found == IF stop = 0 THEN 0 ELSE Find(s, CRLF, stop + 2 + Len(DashBoundary))
<1>1. Len(c) \in Nat /\ Len(s) \in Nat /\ pos + 7 <= Len(s)
  <2>1. Len(c) \in Nat /\ Len(s) \in Nat /\ e + 4 <= Len(s)
    BY TextIndices DEF EndsAt
  <2> QED BY <2>1
<1>2. read_part(s, DashBoundary, pos)
        = [name |-> name, offset |-> start, length |-> stop - start,
           next |-> IF found = 0 THEN 0 ELSE found + 2]
  BY DEF read_part
<1>3. /\ blank = pos + 4 /\ SubSeq(s, pos, pos + 1) # CRLF
      /\ SubSeq(s, pos, pos + 3) = HeaderText(n)
  BY <1>1, PartHeader
<1> HIDE DEF blank
<1>4. start = pos + 8 /\ start # 0
  BY <1>3
<1> HIDE DEF start
<1>5. stop = e /\ stop # 0 /\ stop - start = Len(c)
  <2>1. part_end(s, DashBoundary, pos + 8) = e
    BY PartEnds
  <2>2. e # 0 /\ e - (pos + 8) = Len(c)
    BY <1>1
  <2> QED BY <1>4, <2>1, <2>2
<1> HIDE DEF stop
<1>6. found = crlf
  <2>1. e + 2 + Len(DashBoundary) = e + 5
    BY Patterns
  <2> QED BY <1>5, <2>1
<1> HIDE DEF found
<1>7. header = <<<<1000 + n>>, <<10, 1000>>>>
  <2> DEFINE a == <<1000 + n>>
             d == <<10, 1000>>
  <2>1. a \in Texts /\ d \in Texts /\ 13 \in Int
    BY DEF Texts
  <2>2. (\A j \in 1..Len(a) : a[j] # 13) /\ (\A j \in 1..Len(d) : d[j] # 13)
    OBVIOUS
  <2>3. SubSeq(s, pos, blank - 1) = (a \o <<13>>) \o d
    <3>1. blank - 1 = pos + 3
      BY <1>3
    <3> QED BY <1>3, <3>1, ZenonT(30) DEF HeaderText
  <2> HIDE DEF a, d
  <2>4. Split((a \o <<13>>) \o d, 13) = <<a, d>>
    BY <2>1, <2>2, SplitTwo
  <2>5. header = Split(SubSeq(s, pos, blank - 1), 13)
    BY DEF CR
  <2>6. header = <<a, d>>
    BY <2>3, <2>4, <2>5, Zenon
  <2> QED BY <2>6 DEF a, d
<1> HIDE DEF header
<1>8. name = {n}
  <2>1. DOMAIN header = {1, 2}
    BY <1>7
  <2>2. Range(header[1]) = {1000 + n}
    <3>1. header[1] = <<1000 + n>>
      BY <1>7
    <3>2. Range(<<1000 + n>>) = {1000 + n}
      BY DEF Range
    <3> QED BY <3>1, <3>2
  <2>3. Range(header[2]) = {10, 1000}
    <3>1. header[2] = <<10, 1000>>
      BY <1>7
    <3>2. Range(<<10, 1000>>) = {10, 1000}
      BY DEF Range
    <3> QED BY <3>1, <3>2
  <2>4. ASSUME NEW x \in 1..9
        PROVE  (\E i \in DOMAIN header : Disposition(x)[1] \in Range(header[i])) <=> x = n
    <3>1. 1000 + x \in {1000 + n} <=> x = n
      OBVIOUS
    <3>2. 1000 + x \notin {10, 1000}
      OBVIOUS
    <3>4. (\E i \in DOMAIN header : Disposition(x)[1] \in Range(header[i]))
            <=> 1000 + x \in {1000 + n} \/ 1000 + x \in {10, 1000}
      <4> DEFINE v == Disposition(x)[1]
      <4>1. v = 1000 + x
        BY DEF Disposition
      <4> HIDE DEF v
      <4>2. (\E i \in {1, 2} : v \in Range(header[i]))
              <=> v \in Range(header[1]) \/ v \in Range(header[2])
        BY Zenon
      <4>3. (\E i \in DOMAIN header : v \in Range(header[i]))
              <=> v \in Range(header[1]) \/ v \in Range(header[2])
        BY <2>1, <4>2
      <4> DEFINE one == {1000 + n}
                 two == {10, 1000}
      <4>4. Range(header[1]) = one /\ Range(header[2]) = two
        BY <2>2, <2>3
      <4> HIDE DEF one, two
      <4>5. (\E i \in DOMAIN header : v \in Range(header[i])) <=> v \in one \/ v \in two
        BY <4>3, <4>4, Zenon
      <4> QED BY <4>1, <4>5 DEF v, one, two
    <3> QED BY <3>1, <3>2, <3>4
  <2> QED BY <2>4
<1> HIDE DEF name
<1> QED BY <1>2, <1>4, <1>5, <1>6, <1>8

(* One turn goes forward.                                                  *)
LEMMA PartForward ==
  ASSUME NEW s \in Texts, NEW pos \in 1..Len(s)
  PROVE  LET next == read_part(s, DashBoundary, pos).next
         IN  next = 0 \/ (next \in 1..Len(s) + 1 /\ next > pos)
<1> DEFINE blank == Find(s, CRLF \o CRLF, pos)
           start == IF SubSeq(s, pos, pos + 1) = CRLF THEN pos + 2
                    ELSE IF blank = 0 THEN 0 ELSE blank + 4
           stop == IF start = 0 THEN 0 ELSE part_end(s, DashBoundary, start)
           found == IF stop = 0 THEN 0 ELSE Find(s, CRLF, stop + 2 + Len(DashBoundary))
           next == read_part(s, DashBoundary, pos).next
<1>1. next = IF found = 0 THEN 0 ELSE found + 2
  BY DEF read_part
<1>2. /\ Len(s) \in Nat /\ pos \in Nat \ {0} /\ Len(DashBoundary) = 3
      /\ CRLF \in Texts /\ Len(CRLF) = 2 /\ CRLF \o CRLF \in Texts /\ CRLF \o DashBoundary \in Texts
  BY Patterns, TextIndices
<1>3. blank = 0 \/ (blank \in Int /\ pos <= blank)
  BY <1>2, FindRange
<1> HIDE DEF blank
<1>4. start = 0 \/ (start \in Nat \ {0} /\ pos < start)
  BY <1>2, <1>3
<1> HIDE DEF start
<1>5. stop = 0 \/ (stop \in Int /\ pos < stop)
  <2>1. start # 0 => Find(s, CRLF \o DashBoundary, start) = 0
          \/ (Find(s, CRLF \o DashBoundary, start) \in Int
                /\ start <= Find(s, CRLF \o DashBoundary, start))
    BY <1>2, <1>4, FindRange
  <2> QED BY <1>2, <1>4, <2>1 DEF part_end
<1> HIDE DEF stop
<1>6. found = 0 \/ (found \in Int /\ pos < found /\ found + 1 <= Len(s))
  <2> DEFINE i == stop + 2 + Len(DashBoundary)
  <2>1. stop # 0 => i \in Nat \ {0} /\ pos < i
    BY <1>2, <1>5
  <2>2. found = IF stop = 0 THEN 0 ELSE Find(s, CRLF, i)
    OBVIOUS
  <2> HIDE DEF i, found
  <2>3. stop # 0 => Find(s, CRLF, i) = 0
          \/ /\ Find(s, CRLF, i) \in Int /\ i <= Find(s, CRLF, i)
             /\ (Find(s, CRLF, i) + Len(CRLF)) - 1 <= Len(s)
    BY <1>2, <2>1, FindRange
  <2> DEFINE f == Find(s, CRLF, i)
  <2>4. stop # 0 => f = 0 \/ (f \in Int /\ i <= f /\ (f + 2) - 1 <= Len(s))
    BY <1>2, <2>3
  <2>5. found = IF stop = 0 THEN 0 ELSE f
    BY <2>2
  <2> HIDE DEF f
  <2>6. stop # 0 => i \in Int
    BY <2>1
  <2> QED BY <1>2, <2>1, <2>4, <2>5, <2>6
<1> HIDE DEF found, next
<1>7. next = 0 \/ (next \in 1..Len(s) + 1 /\ next > pos)
  BY <1>1, <1>2, <1>6
<1> QED BY <1>7 DEF next

FilesFrom(s, from, pos) ==
  IF pos > Len(s) THEN <<>>
  ELSE LET part == read_part(s, DashBoundary, pos)
       IN  <<part>> \o (IF part.next = 0 THEN <<>> ELSE from[part.next])

LEMMA FilesSolve ==
  ASSUME NEW s \in Texts
  PROVE  \E from :
           /\ \A pos \in 1..Len(s) + 1 : from[pos] = FilesFrom(s, from, pos)
           /\ parse_multipart_formdata(Boundary, s)
                = LET first == Find(s, CRLF, 1 + Len(DashBoundary))
                      files == from[first + 2]
                  IN  IF \/ Find(s, DashBoundary, 1) # 1 \/ first = 0
                         \/ \E i \in DOMAIN files : files[i].next = 0
                        THEN <<>> ELSE files
<1> DEFINE n == Len(s)
           part(i) == read_part(s, DashBoundary, i)
           T == {part(i) : i \in 1..n}
           F == CHOOSE F : F = [pos \in 1..Len(s) + 1 |-> FilesFrom(s, F, pos)]
           piece == [i \in 1..n |-> <<part(i)>>]
           next == [i \in 1..n |-> IF part(i).next = 0 THEN n + 1 ELSE part(i).next]
<1>1. n \in Nat
  BY TextIndices
<1>2. \A i \in 1..n : part(i).next = 0 \/ (part(i).next \in 1..n + 1 /\ part(i).next > i)
  BY PartForward
<1>3. PICK f \in [1..n + 1 -> Seq(T)] : Unrolls(f, n, piece, next)
  <2>1. piece \in [1..n -> Seq(T)]
    <3>1. \A i \in 1..n : part(i) \in T
      OBVIOUS
    <3> HIDE DEF T, part
    <3>2. \A i \in 1..n : <<part(i)>> \in Seq(T)
      BY <3>1
    <3> QED BY <3>2
  <2> HIDE DEF part, T
  <2>2. next \in [1..n -> 1..n + 1] /\ \A i \in 1..n : next[i] > i
    <3>1. ASSUME NEW i \in 1..n
          PROVE  LET x == IF part(i).next = 0 THEN n + 1 ELSE part(i).next
                 IN  x \in 1..n + 1 /\ x > i
      <4> HIDE DEF n
      <4> QED BY <1>1, <1>2
    <3> HIDE DEF n
    <3> QED BY <3>1
  <2> HIDE DEF piece, next, n
  <2> QED BY <1>1, <2>1, <2>2, Unrolling
<1>4. ASSUME NEW pos \in 1..n + 1 PROVE f[pos] = FilesFrom(s, f, pos)
  <2>1. CASE pos = n + 1
    BY <1>1, <1>3, <2>1 DEF Unrolls, FilesFrom
  <2>2. CASE pos \in 1..n
    <3>1. ~ (pos > Len(s))
      BY <1>1, <2>2
    <3>2. piece[pos] = <<part(pos)>>
          /\ next[pos] = IF part(pos).next = 0 THEN n + 1 ELSE part(pos).next
      BY <2>2
    <3>3. f[pos] = piece[pos] \o f[next[pos]] /\ f[n + 1] = <<>>
      <4> HIDE DEF piece, next, n
      <4> QED BY <1>3, <2>2 DEF Unrolls
    <3>4. FilesFrom(s, f, pos)
            = <<part(pos)>> \o (IF part(pos).next = 0 THEN <<>> ELSE f[part(pos).next])
      BY <3>1, Zenon DEF FilesFrom
    <3> HIDE DEF piece, next, n, part
    <3> QED BY <3>2, <3>3, <3>4, Zenon
  <2> QED BY <1>1, <2>1, <2>2
<1>5. f = [pos \in 1..Len(s) + 1 |-> FilesFrom(s, f, pos)]
  <2> HIDE DEF piece, next, T, part
  <2> QED BY <1>4
<1>6. F = [pos \in 1..Len(s) + 1 |-> FilesFrom(s, F, pos)]
  BY <1>5
<1>7. parse_multipart_formdata(Boundary, s)
        = LET first == Find(s, CRLF, 1 + Len(DashBoundary))
              files == F[first + 2]
          IN  IF \/ Find(s, DashBoundary, 1) # 1 \/ first = 0
                 \/ \E i \in DOMAIN files : files[i].next = 0
                THEN <<>> ELSE files
  BY DEF parse_multipart_formdata, FilesFrom, DashBoundary
<1> HIDE DEF F
<1> QED BY <1>6, <1>7

(* What a browser sends before the content of part n.                      *)
Preamble(n) == <<45, 45, 98, 13, 10, 1000 + n, 13, 10, 1000, 13, 10, 13, 10>>

LEMMA PreambleIs ==
  ASSUME NEW n \in Int
  PROVE  <<Dash, Dash>> \o Boundary \o CRLF \o Disposition(n) \o CRLF \o ContentType \o CRLF \o CRLF
           = Preamble(n)
<1>1. <<45, 45, 98>> \o <<13, 10>>
         = <<45, 45, 98, 13, 10>>
  <2> DEFINE a == <<45, 45, 98>>
             b == <<13, 10>>
             c == <<45, 45, 98, 13, 10>>
  <2>1. a \in Texts /\ b \in Texts /\ c \in Texts
    BY DEF Texts
  <2>2. Len(a) = 3 /\ Len(b) = 2 /\ Len(c) = Len(a) + Len(b)
    OBVIOUS
  <2>3. (\A i \in 1..3 : c[i] = a[i]) /\ (\A j \in 1..2 : c[3 + j] = b[j])
    OBVIOUS
  <2> HIDE DEF a, b, c
  <2>4. (\A i \in 1..Len(a) : c[i] = a[i]) /\ (\A j \in 1..Len(b) : c[Len(a) + j] = b[j])
    BY <2>2, <2>3
  <2>5. a \o b = c
    BY <2>1, <2>2, <2>4, JoinIs
  <2> QED BY <2>5 DEF a, b, c
<1>2. <<45, 45, 98, 13, 10>> \o <<1000 + n>>
         = <<45, 45, 98, 13, 10, 1000 + n>>
  <2> DEFINE a == <<45, 45, 98, 13, 10>>
             b == <<1000 + n>>
             c == <<45, 45, 98, 13, 10, 1000 + n>>
  <2>1. a \in Texts /\ b \in Texts /\ c \in Texts
    BY DEF Texts
  <2>2. Len(a) = 5 /\ Len(b) = 1 /\ Len(c) = Len(a) + Len(b)
    OBVIOUS
  <2>3. (\A i \in 1..5 : c[i] = a[i]) /\ (\A j \in 1..1 : c[5 + j] = b[j])
    OBVIOUS
  <2> HIDE DEF a, b, c
  <2>4. (\A i \in 1..Len(a) : c[i] = a[i]) /\ (\A j \in 1..Len(b) : c[Len(a) + j] = b[j])
    BY <2>2, <2>3
  <2>5. a \o b = c
    BY <2>1, <2>2, <2>4, JoinIs
  <2> QED BY <2>5 DEF a, b, c
<1>3. <<45, 45, 98, 13, 10, 1000 + n>> \o <<13, 10>>
         = <<45, 45, 98, 13, 10, 1000 + n, 13, 10>>
  <2> DEFINE a == <<45, 45, 98, 13, 10, 1000 + n>>
             b == <<13, 10>>
             c == <<45, 45, 98, 13, 10, 1000 + n, 13, 10>>
  <2>1. a \in Texts /\ b \in Texts /\ c \in Texts
    BY DEF Texts
  <2>2. Len(a) = 6 /\ Len(b) = 2 /\ Len(c) = Len(a) + Len(b)
    OBVIOUS
  <2>3. (\A i \in 1..6 : c[i] = a[i]) /\ (\A j \in 1..2 : c[6 + j] = b[j])
    OBVIOUS
  <2> HIDE DEF a, b, c
  <2>4. (\A i \in 1..Len(a) : c[i] = a[i]) /\ (\A j \in 1..Len(b) : c[Len(a) + j] = b[j])
    BY <2>2, <2>3
  <2>5. a \o b = c
    BY <2>1, <2>2, <2>4, JoinIs
  <2> QED BY <2>5 DEF a, b, c
<1>4. <<45, 45, 98, 13, 10, 1000 + n, 13, 10>> \o <<1000>>
         = <<45, 45, 98, 13, 10, 1000 + n, 13, 10, 1000>>
  <2> DEFINE a == <<45, 45, 98, 13, 10, 1000 + n, 13, 10>>
             b == <<1000>>
             c == <<45, 45, 98, 13, 10, 1000 + n, 13, 10, 1000>>
  <2>1. a \in Texts /\ b \in Texts /\ c \in Texts
    BY DEF Texts
  <2>2. Len(a) = 8 /\ Len(b) = 1 /\ Len(c) = Len(a) + Len(b)
    OBVIOUS
  <2>3. (\A i \in 1..8 : c[i] = a[i]) /\ (\A j \in 1..1 : c[8 + j] = b[j])
    OBVIOUS
  <2> HIDE DEF a, b, c
  <2>4. (\A i \in 1..Len(a) : c[i] = a[i]) /\ (\A j \in 1..Len(b) : c[Len(a) + j] = b[j])
    BY <2>2, <2>3
  <2>5. a \o b = c
    BY <2>1, <2>2, <2>4, JoinIs
  <2> QED BY <2>5 DEF a, b, c
<1>5. <<45, 45, 98, 13, 10, 1000 + n, 13, 10, 1000>> \o <<13, 10>>
         = <<45, 45, 98, 13, 10, 1000 + n, 13, 10, 1000, 13, 10>>
  <2> DEFINE a == <<45, 45, 98, 13, 10, 1000 + n, 13, 10, 1000>>
             b == <<13, 10>>
             c == <<45, 45, 98, 13, 10, 1000 + n, 13, 10, 1000, 13, 10>>
  <2>1. a \in Texts /\ b \in Texts /\ c \in Texts
    BY DEF Texts
  <2>2. Len(a) = 9 /\ Len(b) = 2 /\ Len(c) = Len(a) + Len(b)
    OBVIOUS
  <2>3. (\A i \in 1..9 : c[i] = a[i]) /\ (\A j \in 1..2 : c[9 + j] = b[j])
    OBVIOUS
  <2> HIDE DEF a, b, c
  <2>4. (\A i \in 1..Len(a) : c[i] = a[i]) /\ (\A j \in 1..Len(b) : c[Len(a) + j] = b[j])
    BY <2>2, <2>3
  <2>5. a \o b = c
    BY <2>1, <2>2, <2>4, JoinIs
  <2> QED BY <2>5 DEF a, b, c
<1>6. <<45, 45, 98, 13, 10, 1000 + n, 13, 10, 1000, 13, 10>> \o <<13, 10>>
         = <<45, 45, 98, 13, 10, 1000 + n, 13, 10, 1000, 13, 10, 13, 10>>
  <2> DEFINE a == <<45, 45, 98, 13, 10, 1000 + n, 13, 10, 1000, 13, 10>>
             b == <<13, 10>>
             c == <<45, 45, 98, 13, 10, 1000 + n, 13, 10, 1000, 13, 10, 13, 10>>
  <2>1. a \in Texts /\ b \in Texts /\ c \in Texts
    BY DEF Texts
  <2>2. Len(a) = 11 /\ Len(b) = 2 /\ Len(c) = Len(a) + Len(b)
    OBVIOUS
  <2>3. (\A i \in 1..11 : c[i] = a[i]) /\ (\A j \in 1..2 : c[11 + j] = b[j])
    OBVIOUS
  <2> HIDE DEF a, b, c
  <2>4. (\A i \in 1..Len(a) : c[i] = a[i]) /\ (\A j \in 1..Len(b) : c[Len(a) + j] = b[j])
    BY <2>2, <2>3
  <2>5. a \o b = c
    BY <2>1, <2>2, <2>4, JoinIs
  <2> QED BY <2>5 DEF a, b, c
<1> DEFINE c == <<13, 10>>
           d == <<1000 + n>>
           k == <<1000>>
           p0 == <<45, 45, 98>>
           p1 == <<45, 45, 98, 13, 10>>
           p2 == <<45, 45, 98, 13, 10, 1000 + n>>
           p3 == <<45, 45, 98, 13, 10, 1000 + n, 13, 10>>
           p4 == <<45, 45, 98, 13, 10, 1000 + n, 13, 10, 1000>>
           p5 == <<45, 45, 98, 13, 10, 1000 + n, 13, 10, 1000, 13, 10>>
           p6 == <<45, 45, 98, 13, 10, 1000 + n, 13, 10, 1000, 13, 10, 13, 10>>
<1>7. /\ <<Dash, Dash>> \o Boundary = p0 /\ CRLF = c
      /\ Disposition(n) = d /\ ContentType = k /\ Preamble(n) = p6
  BY Patterns DEF Disposition, ContentType, DashBoundary, Preamble
<1>8. /\ p0 \o c = p1 /\ p1 \o d = p2 /\ p2 \o c = p3
      /\ p3 \o k = p4 /\ p4 \o c = p5 /\ p5 \o c = p6
  BY <1>1, <1>2, <1>3, <1>4, <1>5, <1>6
<1> HIDE DEF c, d, k, p0, p1, p2, p3, p4, p5, p6
<1> QED BY <1>7, <1>8

(* A part as it is sent.                                                   *)
SentPart(u, n, c) ==
  /\ u \in Texts /\ Len(u) = Len(c) + 15
  /\ \A i \in 1..13 : u[i] = Preamble(n)[i]
  /\ \A j \in 1..Len(c) : u[13 + j] = c[j]
  /\ u[Len(c) + 14] = 13 /\ u[Len(c) + 15] = 10

LEMMA SentPartIs ==
  ASSUME NEW n \in Int, NEW c \in Texts
  PROVE  SentPart(Preamble(n) \o c \o CRLF, n, c)
<1> DEFINE p == Preamble(n)
           m == Len(c)
           pc == p \o c
           u == pc \o CRLF
<1>1. p \in Texts /\ Len(p) = 13 /\ CRLF \in Texts /\ Len(CRLF) = 2 /\ CRLF[1] = 13 /\ CRLF[2] = 10
  <2>1. p \in Texts /\ Len(p) = 13
    BY DEF Texts, Preamble
  <2> HIDE DEF p
  <2> QED BY <2>1, LineBreak DEF CR, LF
<1>2. m \in Nat
  BY TextIndices
<1> HIDE DEF p
<1>3. /\ pc \in Texts /\ Len(pc) = 13 + m
      /\ \A i \in 1..13 : pc[i] = p[i]
      /\ \A j \in 1..m : pc[13 + j] = c[j]
  <2>1. c \in Texts
    OBVIOUS
  <2>2. /\ pc \in Texts /\ Len(pc) = Len(p) + Len(c)
        /\ \A i \in 1..Len(p) : pc[i] = p[i]
        /\ \A j \in 1..Len(c) : pc[Len(p) + j] = c[j]
    BY <1>1, <2>1, Joining
  <2> HIDE DEF pc
  <2> QED BY <1>1, <2>2
<1> HIDE DEF pc
<1>4. /\ u \in Texts /\ Len(u) = (13 + m) + 2
      /\ \A i \in 1..13 + m : u[i] = pc[i]
      /\ \A j \in 1..2 : u[(13 + m) + j] = CRLF[j]
  <2>1. /\ u \in Texts /\ Len(u) = Len(pc) + Len(CRLF)
        /\ \A i \in 1..Len(pc) : u[i] = pc[i]
        /\ \A j \in 1..Len(CRLF) : u[Len(pc) + j] = CRLF[j]
    BY <1>1, <1>3, Joining, ZenonT(30)
  <2> HIDE DEF u, m
  <2> QED BY <1>1, <1>3, <2>1
<1> HIDE DEF u, m
<1>5. \A i \in 1..13 : i \in 1..13 + m
  BY <1>2
<1>6. \A j \in 1..m : 13 + j \in 1..13 + m
  BY <1>2
<1>7. (13 + m) + 2 = m + 15 /\ (13 + m) + 1 = m + 14 /\ 1 \in 1..2 /\ 2 \in 1..2
  BY <1>2
<1>8. u[m + 14] = 13 /\ u[m + 15] = 10
  <2>1. u[(13 + m) + 1] = CRLF[1] /\ u[(13 + m) + 2] = CRLF[2]
    BY <1>4, <1>7, Zenon
  <2> QED BY <1>1, <1>7, <2>1, Zenon
<1>9. u \in Texts /\ Len(u) = m + 15
  BY <1>4, <1>7, Zenon
<1>10. (\A i \in 1..13 : u[i] = p[i]) /\ (\A j \in 1..m : u[13 + j] = c[j])
  BY <1>3, <1>4, <1>5, <1>6, Zenon
<1>11. SentPart(u, n, c)
  BY <1>8, <1>9, <1>10, Zenon DEF SentPart, m, p
<1> QED BY <1>11 DEF u, pc, p

(* Where it stands in the body.                                            *)
LEMMA SentPartAt ==
  ASSUME NEW s, NEW a \in Nat, NEW u, NEW n \in Int, NEW c \in Texts, SentPart(u, n, c),
         \A j \in 1..Len(u) : s[a + j] = u[j]
  PROVE  /\ s[a + 1] = 45 /\ s[a + 2] = 45 /\ s[a + 3] = 98 /\ s[a + 4] = 13 /\ s[a + 5] = 10
         /\ PartAt(s, a + 6, n, c)
         /\ s[(a + Len(c)) + 14] = 13 /\ s[(a + Len(c)) + 15] = 10
<1> DEFINE m == Len(c)
<1>1. m \in Nat
  BY TextIndices
<1>2. /\ Len(u) = m + 15
      /\ \A i \in 1..13 : u[i] = Preamble(n)[i]
      /\ \A j \in 1..m : u[13 + j] = c[j]
      /\ u[m + 14] = 13 /\ u[m + 15] = 10
  BY DEF SentPart
<1> HIDE DEF m
<1>3. \A j \in 1..m + 15 : s[a + j] = u[j]
  BY <1>2
<1>4. /\ Preamble(n)[1] = 45 /\ Preamble(n)[2] = 45 /\ Preamble(n)[3] = 98
      /\ Preamble(n)[4] = 13 /\ Preamble(n)[5] = 10 /\ Preamble(n)[6] = 1000 + n
      /\ Preamble(n)[7] = 13 /\ Preamble(n)[8] = 10 /\ Preamble(n)[9] = 1000
      /\ Preamble(n)[10] = 13 /\ Preamble(n)[11] = 10
      /\ Preamble(n)[12] = 13 /\ Preamble(n)[13] = 10
  BY DEF Preamble
<1>5. \A i \in 1..13 : s[a + i] = Preamble(n)[i]
  <2>1. \A i \in 1..13 : i \in 1..m + 15
    BY <1>1
  <2> QED BY <1>2, <1>3, <2>1, Zenon
<1>6. /\ s[a + 1] = 45 /\ s[a + 2] = 45 /\ s[a + 3] = 98 /\ s[a + 4] = 13 /\ s[a + 5] = 10
      /\ s[a + 6] = 1000 + n /\ s[a + 7] = 13 /\ s[a + 8] = 10
      /\ s[a + 9] = 1000 /\ s[a + 10] = 13 /\ s[a + 11] = 10 /\ s[a + 12] = 13 /\ s[a + 13] = 10
  <2>1. /\ s[a + 1] = Preamble(n)[1] /\ s[a + 2] = Preamble(n)[2] /\ s[a + 3] = Preamble(n)[3]
        /\ s[a + 4] = Preamble(n)[4] /\ s[a + 5] = Preamble(n)[5] /\ s[a + 6] = Preamble(n)[6]
        /\ s[a + 7] = Preamble(n)[7] /\ s[a + 8] = Preamble(n)[8] /\ s[a + 9] = Preamble(n)[9]
        /\ s[a + 10] = Preamble(n)[10] /\ s[a + 11] = Preamble(n)[11]
        /\ s[a + 12] = Preamble(n)[12] /\ s[a + 13] = Preamble(n)[13]
    BY <1>5
  <2> QED BY <1>4, <2>1
<1>7. /\ (a + 6) + 1 = a + 7 /\ (a + 6) + 2 = a + 8 /\ (a + 6) + 3 = a + 9
      /\ (a + 6) + 4 = a + 10 /\ (a + 6) + 5 = a + 11 /\ (a + 6) + 6 = a + 12
      /\ (a + 6) + 7 = a + 13
  OBVIOUS
<1>8. ASSUME NEW j \in 1..m PROVE s[((a + 6) + 7) + j] = c[j]
  <2>1. 13 + j \in 1..m + 15 /\ a + (13 + j) = ((a + 6) + 7) + j
    BY <1>1
  <2>2. s[a + (13 + j)] = u[13 + j] /\ u[13 + j] = c[j]
    BY <1>2, <1>3, <2>1
  <2> QED BY <2>1, <2>2
<1>9. PartAt(s, a + 6, n, c)
  BY <1>6, <1>7, <1>8 DEF PartAt, m
<1>10. s[(a + m) + 14] = 13 /\ s[(a + m) + 15] = 10
  <2>1. /\ m + 14 \in 1..m + 15 /\ m + 15 \in 1..m + 15
        /\ a + (m + 14) = (a + m) + 14 /\ a + (m + 15) = (a + m) + 15
    BY <1>1
  <2>2. s[a + (m + 14)] = 13 /\ s[a + (m + 15)] = 10
    BY <1>2, <1>3, <2>1
  <2> QED BY <2>1, <2>2
<1> QED BY <1>6, <1>9, <1>10 DEF m

Closing == <<45, 45, 98, 45, 45, 13, 10>>

LEMMA JoinThree ==
  ASSUME NEW a \in Texts, NEW b \in Texts, NEW c \in Texts
  PROVE  (a \o b) \o c = a \o (b \o c)
<1>1. a \in Seq(Int) /\ b \in Seq(Int) /\ c \in Seq(Int)
  BY DEF Texts
<1> QED BY <1>1, ConcatAssociative

(* The last boundary.                                                      *)
LEMMA LastBoundary ==
  ASSUME NEW x \in Texts
  PROVE  x \o <<Dash, Dash>> \o Boundary \o <<Dash, Dash>> \o CRLF = x \o Closing
<1>1. <<45, 45, 98>> \o <<45, 45>>
         = <<45, 45, 98, 45, 45>>
  <2> DEFINE a == <<45, 45, 98>>
             b == <<45, 45>>
             c == <<45, 45, 98, 45, 45>>
  <2>1. a \in Texts /\ b \in Texts /\ c \in Texts
    BY DEF Texts
  <2>2. Len(a) = 3 /\ Len(b) = 2 /\ Len(c) = Len(a) + Len(b)
    OBVIOUS
  <2>3. (\A i \in 1..3 : c[i] = a[i]) /\ (\A j \in 1..2 : c[3 + j] = b[j])
    OBVIOUS
  <2> HIDE DEF a, b, c
  <2>4. (\A i \in 1..Len(a) : c[i] = a[i]) /\ (\A j \in 1..Len(b) : c[Len(a) + j] = b[j])
    BY <2>2, <2>3
  <2>5. a \o b = c
    BY <2>1, <2>2, <2>4, JoinIs
  <2> QED BY <2>5 DEF a, b, c
<1>2. <<45, 45, 98, 45, 45>> \o <<13, 10>>
         = <<45, 45, 98, 45, 45, 13, 10>>
  <2> DEFINE a == <<45, 45, 98, 45, 45>>
             b == <<13, 10>>
             c == <<45, 45, 98, 45, 45, 13, 10>>
  <2>1. a \in Texts /\ b \in Texts /\ c \in Texts
    BY DEF Texts
  <2>2. Len(a) = 5 /\ Len(b) = 2 /\ Len(c) = Len(a) + Len(b)
    OBVIOUS
  <2>3. (\A i \in 1..5 : c[i] = a[i]) /\ (\A j \in 1..2 : c[5 + j] = b[j])
    OBVIOUS
  <2> HIDE DEF a, b, c
  <2>4. (\A i \in 1..Len(a) : c[i] = a[i]) /\ (\A j \in 1..Len(b) : c[Len(a) + j] = b[j])
    BY <2>2, <2>3
  <2>5. a \o b = c
    BY <2>1, <2>2, <2>4, JoinIs
  <2> QED BY <2>5 DEF a, b, c
<1> DEFINE d == <<Dash, Dash>>
           p0 == <<45, 45, 98>>
           p1 == <<45, 45, 98, 45, 45>>
<1>3. d \o Boundary = p0 /\ CRLF = <<13, 10>> /\ d = <<45, 45>>
  BY Patterns DEF Dash, DashBoundary
<1>4. p0 \o d = p1 /\ p1 \o CRLF = Closing
  BY <1>1, <1>2, <1>3 DEF Closing
<1>5. /\ d \in Texts /\ Boundary \in Texts /\ CRLF \in Texts
      /\ p0 \in Texts /\ p1 \in Texts
  <2>1. CRLF \in Texts
    BY Patterns
  <2> QED BY <2>1 DEF Texts, Dash, Boundary
<1> HIDE DEF d, p0, p1
<1>6. x \o d \o Boundary = x \o p0
  <2>1. (x \o d) \o Boundary = x \o (d \o Boundary)
    BY <1>5, JoinThree
  <2>2. d \o Boundary = p0
    BY <1>3
  <2> QED BY <2>1, <2>2
<1>7. (x \o p0) \o d = x \o p1
  BY <1>4, <1>5, JoinThree
<1>8. (x \o p1) \o CRLF = x \o Closing
  BY <1>4, <1>5, JoinThree
<1>9. x \o d \o Boundary \o d \o CRLF = x \o Closing
  BY <1>6, <1>7, <1>8
<1> QED BY <1>9 DEF d

(* The whole body: where its parts and its boundaries are.                 *)
Contents(t, r) == <<t, r>>
SentParts(t, r) == [n \in DOMAIN Contents(t, r) |-> Preamble(n) \o Contents(t, r)[n] \o CRLF]

LEMMA MultipartIs ==
  ASSUME NEW t \in Texts, NEW r \in Texts
  PROVE  /\ SentParts(t, r) \in Seq(Texts) /\ Len(SentParts(t, r)) = 2
         /\ SentPart(SentParts(t, r)[1], 1, t) /\ SentPart(SentParts(t, r)[2], 2, r)
         /\ multipart(Boundary, <<t, r>>) = FlattenSeq(SentParts(t, r)) \o Closing
<1> DEFINE cs == Contents(t, r)
           seqs == SentParts(t, r)
<1>1. DOMAIN cs = 1..2 /\ cs[1] = t /\ cs[2] = r /\ cs = <<t, r>>
  BY DEF Contents
<1> HIDE DEF cs
<1>2. seqs = [n \in 1..2 |-> Preamble(n) \o cs[n] \o CRLF]
  BY <1>1 DEF SentParts, cs
<1> HIDE DEF seqs
<1>3. SentPart(seqs[1], 1, t) /\ SentPart(seqs[2], 2, r)
  <2>1. seqs[1] = Preamble(1) \o t \o CRLF /\ seqs[2] = Preamble(2) \o r \o CRLF
    <3>1. seqs[1] = Preamble(1) \o cs[1] \o CRLF /\ seqs[2] = Preamble(2) \o cs[2] \o CRLF
      BY <1>2
    <3> QED BY <1>1, <3>1, Zenon
  <2>2. 1 \in Int /\ 2 \in Int
    OBVIOUS
  <2> QED BY <2>1, <2>2, SentPartIs
<1>4. seqs \in Seq(Texts) /\ Len(seqs) = 2
  <2>1. seqs[1] \in Texts /\ seqs[2] \in Texts
    BY <1>3 DEF SentPart
  <2>2. DOMAIN seqs = 1..2 /\ seqs = [n \in 1..2 |-> seqs[n]]
    BY <1>2
  <2>3. \A n \in 1..2 : seqs[n] \in Texts
    BY <2>1
  <2> QED BY <2>2, <2>3
<1>5. seqs = [n \in DOMAIN <<t, r>> |->
                <<Dash, Dash>> \o Boundary \o CRLF \o Disposition(n) \o CRLF \o ContentType \o CRLF
                  \o CRLF \o <<t, r>>[n] \o CRLF]
  <2>1. \A n \in 1..2 : Preamble(n) \o cs[n] \o CRLF
          = <<Dash, Dash>> \o Boundary \o CRLF \o Disposition(n) \o CRLF \o ContentType \o CRLF
              \o CRLF \o cs[n] \o CRLF
    <3>1. \A n \in 1..2 : n \in Int
      OBVIOUS
    <3> QED BY <3>1, PreambleIs
  <2>2. seqs = [n \in DOMAIN cs |->
                  <<Dash, Dash>> \o Boundary \o CRLF \o Disposition(n) \o CRLF \o ContentType \o CRLF
                    \o CRLF \o cs[n] \o CRLF]
    BY <1>1, <1>2, <2>1
  <2> QED BY <1>1, <2>2, Zenon
<1>6. FlattenSeq(seqs) \in Texts
  BY <1>4, Flattened DEF Joined
<1>7. multipart(Boundary, <<t, r>>)
        = FlattenSeq(seqs) \o <<Dash, Dash>> \o Boundary \o <<Dash, Dash>> \o CRLF
  BY <1>5, Zenon DEF multipart
<1>8. multipart(Boundary, <<t, r>>) = FlattenSeq(seqs) \o Closing
  BY <1>6, <1>7, LastBoundary, Zenon
<1> QED BY <1>3, <1>4, <1>8 DEF seqs

Layout(s, t, r, m) ==
  /\ s \in Texts /\ Len(s) = (m + m) + 37
  /\ s[1] = 45 /\ s[2] = 45 /\ s[3] = 98 /\ s[4] = 13 /\ s[5] = 10
  /\ PartAt(s, 6, 1, t)
  /\ EndsAt(s, m + 14) /\ s[m + 19] = 13 /\ s[m + 20] = 10
  /\ PartAt(s, m + 21, 2, r)
  /\ EndsAt(s, (m + m) + 29)
  /\ s[(m + m) + 34] = 45 /\ s[(m + m) + 35] = 45
  /\ s[(m + m) + 36] = 13 /\ s[(m + m) + 37] = 10

LEMMA BodyLayout ==
  ASSUME NEW t \in Texts, NEW r \in Texts, Len(r) = Len(t)
  PROVE  Layout(multipart(Boundary, <<t, r>>), t, r, Len(t))
<1> DEFINE seqs == SentParts(t, r)
           x == FlattenSeq(seqs)
           s == x \o Closing
           m == Len(t)
<1>1. /\ seqs \in Seq(Texts) /\ Len(seqs) = 2
      /\ SentPart(seqs[1], 1, t) /\ SentPart(seqs[2], 2, r)
      /\ multipart(Boundary, <<t, r>>) = s
  BY MultipartIs
<1> HIDE DEF seqs
<1>2. m \in Nat /\ Len(r) = m
  BY TextIndices
<1>3. Len(seqs[1]) = m + 15 /\ Len(seqs[2]) = m + 15
  BY <1>1 DEF SentPart
<1>4. PICK at : Ends(seqs, at) /\ Joined(x, seqs, at, Len(seqs))
  BY <1>1, Flattened
<1>5. at[0] = 0 /\ at[1] = m + 15 /\ at[2] = (m + m) + 30
  <2>1. at[0] = 0 /\ \A k \in 1..2 : at[k] = at[k - 1] + Len(seqs[k])
    BY <1>1, <1>4 DEF Ends
  <2> HIDE DEF m
  <2>2. at[1] = at[0] + Len(seqs[1]) /\ at[2] = at[1] + Len(seqs[2])
    <3>1. 1 \in 1..2 /\ 2 \in 1..2 /\ 1 - 1 = 0 /\ 2 - 1 = 1
      OBVIOUS
    <3> QED BY <2>1, <3>1
  <2> QED BY <1>2, <1>3, <2>1, <2>2
<1> HIDE DEF x, m
<1>6. /\ x \in Texts /\ Len(x) = (m + m) + 30
      /\ \A j \in 1..m + 15 : x[0 + j] = seqs[1][j]
      /\ \A j \in 1..m + 15 : x[(m + 15) + j] = seqs[2][j]
  <2>1. /\ x \in Texts /\ Len(x) = at[2]
        /\ \A i \in 1..2 : \A j \in 1..Len(seqs[i]) : x[at[i - 1] + j] = seqs[i][j]
    BY <1>1, <1>4 DEF Joined
  <2>2. 1 \in 1..2 /\ 2 \in 1..2 /\ 1 - 1 = 0 /\ 2 - 1 = 1
    OBVIOUS
  <2>3. /\ \A j \in 1..Len(seqs[1]) : x[at[1 - 1] + j] = seqs[1][j]
        /\ \A j \in 1..Len(seqs[2]) : x[at[2 - 1] + j] = seqs[2][j]
    BY <2>1, <2>2
  <2> QED BY <1>3, <1>5, <2>1, <2>2, <2>3, ZenonT(30)
<1>7. /\ Closing \in Texts /\ Len(Closing) = 7
      /\ Closing[1] = 45 /\ Closing[2] = 45 /\ Closing[3] = 98 /\ Closing[4] = 45
      /\ Closing[5] = 45 /\ Closing[6] = 13 /\ Closing[7] = 10
  BY DEF Closing, Texts
<1>8. /\ s \in Texts /\ Len(s) = ((m + m) + 30) + 7
      /\ \A i \in 1..(m + m) + 30 : s[i] = x[i]
      /\ \A j \in 1..7 : s[((m + m) + 30) + j] = Closing[j]
  <2>0. x \in Texts /\ Closing \in Texts
    BY <1>6, <1>7
  <2>1. /\ s \in Texts /\ Len(s) = Len(x) + Len(Closing)
        /\ \A i \in 1..Len(x) : s[i] = x[i]
        /\ \A j \in 1..Len(Closing) : s[Len(x) + j] = Closing[j]
    BY <2>0, Joining
  <2> HIDE DEF s
  <2> QED BY <1>6, <1>7, <2>1
<1> HIDE DEF s
<1>9. ASSUME NEW j \in 1..m + 15
      PROVE  s[0 + j] = seqs[1][j] /\ s[(m + 15) + j] = seqs[2][j]
  <2>1. 0 + j \in 1..(m + m) + 30 /\ (m + 15) + j \in 1..(m + m) + 30
    BY <1>2
  <2>2. x[0 + j] = seqs[1][j] /\ x[(m + 15) + j] = seqs[2][j]
    BY <1>6
  <2>3. s[0 + j] = x[0 + j] /\ s[(m + 15) + j] = x[(m + 15) + j]
    BY <1>8, <2>1
  <2> QED BY <2>2, <2>3, Zenon
<1>10. /\ s[1] = 45 /\ s[2] = 45 /\ s[3] = 98 /\ s[4] = 13 /\ s[5] = 10
       /\ PartAt(s, 6, 1, t) /\ s[m + 14] = 13 /\ s[m + 15] = 10
  <2> DEFINE a == 0
  <2>1. \A j \in 1..Len(seqs[1]) : s[a + j] = seqs[1][j]
    BY <1>3, <1>9
  <2>2. a \in Nat /\ 1 \in Int
    OBVIOUS
  <2>3. /\ a + 1 = 1 /\ a + 2 = 2 /\ a + 3 = 3 /\ a + 4 = 4 /\ a + 5 = 5 /\ a + 6 = 6
        /\ (a + m) + 14 = m + 14 /\ (a + m) + 15 = m + 15
    BY <1>2
  <2> HIDE DEF a
  <2>4. /\ s[a + 1] = 45 /\ s[a + 2] = 45 /\ s[a + 3] = 98 /\ s[a + 4] = 13 /\ s[a + 5] = 10
        /\ PartAt(s, a + 6, 1, t) /\ s[(a + Len(t)) + 14] = 13 /\ s[(a + Len(t)) + 15] = 10
    BY <1>1, <2>1, <2>2, SentPartAt
  <2>5. s[(a + m) + 14] = 13 /\ s[(a + m) + 15] = 10
    BY <2>4 DEF m
  <2> QED BY <2>3, <2>4, <2>5
<1>11. /\ s[m + 16] = 45 /\ s[m + 17] = 45 /\ s[m + 18] = 98 /\ s[m + 19] = 13 /\ s[m + 20] = 10
       /\ PartAt(s, m + 21, 2, r) /\ s[(m + m) + 29] = 13 /\ s[(m + m) + 30] = 10
  <2> DEFINE a == m + 15
  <2>1. a \in Nat
    BY <1>2
  <2>2. \A j \in 1..Len(seqs[2]) : s[a + j] = seqs[2][j]
    BY <1>3, <1>9
  <2>3. /\ a + 1 = m + 16 /\ a + 2 = m + 17 /\ a + 3 = m + 18 /\ a + 4 = m + 19 /\ a + 5 = m + 20
        /\ a + 6 = m + 21 /\ (a + m) + 14 = (m + m) + 29 /\ (a + m) + 15 = (m + m) + 30
    BY <1>2
  <2>4. 2 \in Int
    OBVIOUS
  <2> HIDE DEF a
  <2>5. /\ s[a + 1] = 45 /\ s[a + 2] = 45 /\ s[a + 3] = 98 /\ s[a + 4] = 13 /\ s[a + 5] = 10
        /\ PartAt(s, a + 6, 2, r) /\ s[(a + Len(r)) + 14] = 13 /\ s[(a + Len(r)) + 15] = 10
    BY <1>1, <2>1, <2>2, <2>4, SentPartAt, SMTT(30)
  <2>6. s[(a + m) + 14] = 13 /\ s[(a + m) + 15] = 10
    BY <1>2, <2>5
  <2> QED BY <2>3, <2>5, <2>6
<1>12. /\ s[(m + m) + 31] = 45 /\ s[(m + m) + 32] = 45 /\ s[(m + m) + 33] = 98
       /\ s[(m + m) + 34] = 45 /\ s[(m + m) + 35] = 45
       /\ s[(m + m) + 36] = 13 /\ s[(m + m) + 37] = 10
  <2> DEFINE b == (m + m) + 30
  <2>1. /\ b + 1 = (m + m) + 31 /\ b + 2 = (m + m) + 32 /\ b + 3 = (m + m) + 33
        /\ b + 4 = (m + m) + 34 /\ b + 5 = (m + m) + 35 /\ b + 6 = (m + m) + 36
        /\ b + 7 = (m + m) + 37
    BY <1>2
  <2>2. \A j \in 1..7 : s[b + j] = Closing[j]
    BY <1>8
  <2> HIDE DEF b
  <2>3. /\ s[b + 1] = 45 /\ s[b + 2] = 45 /\ s[b + 3] = 98 /\ s[b + 4] = 45
        /\ s[b + 5] = 45 /\ s[b + 6] = 13 /\ s[b + 7] = 10
    BY <1>7, <2>2
  <2> QED BY <2>1, <2>3
<1>13. s \in Texts /\ Len(s) = (m + m) + 37
  BY <1>2, <1>8
<1>14. EndsAt(s, m + 14)
  <2>1. /\ (m + 14) + 1 = m + 15 /\ (m + 14) + 2 = m + 16 /\ (m + 14) + 3 = m + 17
        /\ (m + 14) + 4 = m + 18 /\ m + 18 <= Len(s)
    BY <1>2, <1>13
  <2> QED BY <1>10, <1>11, <2>1 DEF EndsAt
<1>15. EndsAt(s, (m + m) + 29)
  <2>1. /\ ((m + m) + 29) + 1 = (m + m) + 30 /\ ((m + m) + 29) + 2 = (m + m) + 31
        /\ ((m + m) + 29) + 3 = (m + m) + 32 /\ ((m + m) + 29) + 4 = (m + m) + 33
        /\ (m + m) + 33 <= Len(s)
    BY <1>2, <1>13
  <2> QED BY <1>11, <1>12, <2>1 DEF EndsAt
<1>16. Layout(s, t, r, m)
  BY <1>10, <1>11, <1>12, <1>13, <1>14, <1>15 DEF Layout
<1> QED BY <1>1, <1>16 DEF m

FirstPart(m) == [name |-> {1}, offset |-> 14, length |-> m, next |-> m + 21]
SecondPart(m) == [name |-> {2}, offset |-> m + 29, length |-> m, next |-> (m + m) + 38]

LEMMA JoinOnes ==
  ASSUME NEW a, NEW b
  PROVE  <<a>> \o <<b>> = <<a, b>> /\ <<a>> \o <<>> = <<a>>
<1> DEFINE S == {a, b}
           x == <<a>>
           y == <<b>>
           z == <<a, b>>
           v == x \o y
<1>1. /\ x \in Seq(S) /\ y \in Seq(S) /\ z \in Seq(S)
      /\ Len(x) = 1 /\ Len(y) = 1 /\ Len(z) = 2
      /\ x[1] = a /\ y[1] = b /\ z[1] = a /\ z[2] = b
  OBVIOUS
<1> HIDE DEF S, x, y, z
<1>2. /\ v \in Seq(S) /\ Len(v) = Len(x) + Len(y)
      /\ \A i \in 1..Len(x) + Len(y) : v[i] = IF i <= Len(x) THEN x[i] ELSE y[i - Len(x)]
  BY <1>1, ConcatProperties
<1> HIDE DEF v
<1>3. Len(v) = 2 /\ v[1] = a /\ v[2] = b
  BY <1>1, <1>2
<1>4. v = z
  BY <1>1, <1>2, <1>3, SeqEqual
<1>5. x \o <<>> = x
  BY <1>1
<1> QED BY <1>4, <1>5 DEF v, x, y, z

LEMMA FirstPartRead ==
  ASSUME NEW t \in Texts, NEW s \in Texts, NoBoundary(t), PartAt(s, 6, 1, t),
         EndsAt(s, Len(t) + 14), Find(s, CRLF, (Len(t) + 14) + 5) = Len(t) + 19
  PROVE  read_part(s, DashBoundary, 6) = FirstPart(Len(t))
<1> DEFINE e == Len(t) + 14
           pos == 6
           n == 1
           crlf == Find(s, CRLF, e + 5)
<1>1. Len(t) \in Nat
  BY TextIndices
<1>2. pos + 8 = 14 /\ (Len(t) + 19) + 2 = Len(t) + 21 /\ Len(t) + 19 # 0
  BY <1>1
<1>3. pos \in Nat \ {0} /\ n \in 1..9 /\ e \in Int /\ e = (pos + 8) + Len(t)
  BY <1>1
<1>4. crlf = Len(t) + 19
  OBVIOUS
<1>5. EndsAt(s, e) /\ PartAt(s, pos, n, t)
  OBVIOUS
<1> HIDE DEF e, pos, n
<1>6. crlf = Find(s, CRLF, e + 5)
  OBVIOUS
<1> HIDE DEF crlf
<1>7. read_part(s, DashBoundary, pos)
        = [name |-> {n}, offset |-> pos + 8, length |-> Len(t),
           next |-> IF crlf = 0 THEN 0 ELSE crlf + 2]
  BY <1>3, <1>5, <1>6, ReadsPart, SMTT(60)
<1>8. read_part(s, DashBoundary, pos) = FirstPart(Len(t))
  BY <1>1, <1>2, <1>4, <1>7 DEF FirstPart, n
<1> QED BY <1>8 DEF pos

LEMMA PartsRead ==
  ASSUME NEW t \in Texts, NEW r \in Texts, NEW m, m = Len(t), m = Len(r),
         NEW s, Layout(s, t, r, m), NoBoundary(t), NoBoundary(r)
  PROVE  parse_multipart_formdata(Boundary, s) = <<FirstPart(m), SecondPart(m)>>
<1>1. m \in Nat /\ Len(t) = m /\ Len(r) = m
  BY TextIndices
<1>2. /\ s \in Texts /\ Len(s) = (m + m) + 37
      /\ s[1] = 45 /\ s[2] = 45 /\ s[3] = 98 /\ s[4] = 13 /\ s[5] = 10
      /\ PartAt(s, 6, 1, t)
      /\ EndsAt(s, m + 14) /\ s[m + 19] = 13 /\ s[m + 20] = 10
      /\ PartAt(s, m + 21, 2, r)
      /\ EndsAt(s, (m + m) + 29)
      /\ s[(m + m) + 34] = 45 /\ s[(m + m) + 35] = 45
      /\ s[(m + m) + 36] = 13 /\ s[(m + m) + 37] = 10
  BY DEF Layout
<1>3. /\ CRLF \in Texts /\ Len(CRLF) = 2 /\ DashBoundary \in Texts /\ Len(DashBoundary) = 3
  BY Patterns
<1>4. Find(s, DashBoundary, 1) = 1
  <2> DEFINE e == 1
  <2>1. /\ e \in Nat \ {0} /\ e \in Int /\ e <= e /\ (e + Len(DashBoundary)) - 1 <= Len(s)
        /\ e + 1 = 2 /\ e + 2 = 3 /\ \A k \in e..e - 1 : FALSE
    BY <1>1, <1>2, <1>3
  <2>2. s[e] = 45
    BY <1>2
  <2> HIDE DEF e
  <2>3. Matches(s, DashBoundary, e)
    BY <1>2, <2>1, <2>2, MatchesEach
  <2>4. \A k \in e..e - 1 : ~ Matches(s, DashBoundary, k)
    BY <2>1
  <2>5. Find(s, DashBoundary, e) = e
    BY <1>2, <1>3, <2>1, <2>3, <2>4, FindAt
  <2> QED BY <2>5 DEF e
<1>5. ASSUME NEW i \in Nat \ {0}, NEW e \in Int, i <= e, e + 1 <= Len(s),
             s[e] = 13, s[e + 1] = 10, \A k \in i..e - 1 : s[k] # 13
      PROVE  Find(s, CRLF, i) = e
  <2>1. (e + Len(CRLF)) - 1 <= Len(s)
    BY <1>3, <1>5
  <2>2. Matches(s, CRLF, e)
    BY <1>5, MatchesEach
  <2>3. \A k \in i..e - 1 : ~ Matches(s, CRLF, k)
    <3>1. \A k \in i..e - 1 : k \in Int
      OBVIOUS
    <3> QED BY <1>5, <3>1, MatchesEach
  <2>4. i <= e
    BY <1>5
  <2> QED BY <1>2, <1>3, <2>1, <2>2, <2>3, <2>4, FindAt
<1>6. Find(s, CRLF, 1 + Len(DashBoundary)) = 4
  <2> DEFINE i == 1 + Len(DashBoundary)
  <2>1. i = 4
    BY <1>3
  <2>2. 4 \in Nat \ {0} /\ 4 \in Int /\ 4 <= 4 /\ 4 + 1 <= Len(s) /\ 4 + 1 = 5
        /\ \A k \in 4..4 - 1 : s[k] # 13
    BY <1>1, <1>2
  <2>3. Find(s, CRLF, 4) = 4
    BY <1>2, <1>5, <2>2
  <2> QED BY <2>1, <2>3
<1>7. Find(s, CRLF, (m + 14) + 5) = m + 19
  <2> DEFINE i == (m + 14) + 5
             e == m + 19
  <2>1. /\ i \in Nat \ {0} /\ e \in Int /\ i <= e /\ e + 1 <= Len(s) /\ e + 1 = m + 20
        /\ \A k \in i..e - 1 : FALSE
    BY <1>1, <1>2, SMTT(30)
  <2>2. s[e] = 13
    BY <1>2
  <2> HIDE DEF i, e
  <2>3. s[e + 1] = 10
    BY <1>2, <2>1
  <2>4. Find(s, CRLF, i) = e
    BY <1>5, <2>1, <2>2, <2>3
  <2> QED BY <2>4 DEF i, e
<1>8. Find(s, CRLF, ((m + m) + 29) + 5) = (m + m) + 36
  <2> DEFINE i == ((m + m) + 29) + 5
             e == (m + m) + 36
  <2>1. /\ i \in Nat \ {0} /\ e \in Int /\ i <= e /\ e + 1 <= Len(s) /\ e + 1 = (m + m) + 37
        /\ \A k \in i..e - 1 : k = (m + m) + 34 \/ k = (m + m) + 35
    <3> DEFINE w == m + m
    <3>1. w \in Nat /\ Len(s) = w + 37
      BY <1>1, <1>2
    <3>2. i = (w + 29) + 5 /\ e = w + 36
      OBVIOUS
    <3> HIDE DEF w, i, e
    <3>3. /\ i \in Nat \ {0} /\ e \in Int /\ i <= e /\ e + 1 <= Len(s) /\ e + 1 = w + 37
          /\ \A k \in i..e - 1 : k = w + 34 \/ k = w + 35
      BY <3>1, <3>2
    <3> QED BY <3>3 DEF w
  <2>2. s[e] = 13
    BY <1>2
  <2> HIDE DEF i, e
  <2>3. s[e + 1] = 10
    BY <1>2, <2>1
  <2>4. \A k \in i..e - 1 : s[k] # 13
    BY <1>2, <2>1, SMTT(30)
  <2>5. Find(s, CRLF, i) = e
    BY <1>5, <2>1, <2>2, <2>3, <2>4
  <2> QED BY <2>5 DEF i, e
<1>9. read_part(s, DashBoundary, 6) = FirstPart(m)
  <2>1. EndsAt(s, Len(t) + 14) /\ PartAt(s, 6, 1, t) /\ Find(s, CRLF, (Len(t) + 14) + 5) = Len(t) + 19
    BY <1>1, <1>2, <1>7
  <2>2. read_part(s, DashBoundary, 6) = FirstPart(Len(t))
    BY <1>2, <2>1, FirstPartRead
  <2> QED BY <2>2
<1>10. read_part(s, DashBoundary, m + 21) = SecondPart(m)
  <2> DEFINE e == (m + m) + 29
             pos == m + 21
             crlf == Find(s, CRLF, e + 5)
  <2>1. /\ pos \in Nat \ {0} /\ 2 \in 1..9 /\ e \in Int /\ e = (pos + 8) + Len(r)
        /\ pos + 8 = m + 29 /\ ((m + m) + 36) + 2 = (m + m) + 38 /\ (m + m) + 36 # 0
    BY <1>1
  <2>2. crlf = (m + m) + 36
    BY <1>8
  <2>3. EndsAt(s, e) /\ PartAt(s, pos, 2, r)
    BY <1>2
  <2> HIDE DEF e, pos
  <2>4. read_part(s, DashBoundary, pos)
          = [name |-> {2}, offset |-> pos + 8, length |-> Len(r),
             next |-> IF crlf = 0 THEN 0 ELSE crlf + 2]
    <3> HIDE DEF crlf
    <3>1. crlf = Find(s, CRLF, e + 5)
      BY DEF crlf
    <3> QED BY <1>2, <2>1, <2>3, <3>1, ReadsPart, SMTT(60)
  <2> HIDE DEF crlf
  <2>5. read_part(s, DashBoundary, pos) = SecondPart(m)
    BY <1>1, <2>1, <2>2, <2>4 DEF SecondPart
  <2> QED BY <2>5 DEF pos
<1>11. PICK from :
         /\ \A pos \in 1..Len(s) + 1 : from[pos] = FilesFrom(s, from, pos)
         /\ parse_multipart_formdata(Boundary, s)
              = LET first == Find(s, CRLF, 1 + Len(DashBoundary))
                    files == from[first + 2]
                IN  IF \/ Find(s, DashBoundary, 1) # 1 \/ first = 0
                       \/ \E i \in DOMAIN files : files[i].next = 0
                      THEN <<>> ELSE files
  BY <1>2, FilesSolve
<1> DEFINE p == FirstPart(m)
           q == SecondPart(m)
<1>12. p.next = m + 21 /\ p.next # 0 /\ q.next = (m + m) + 38 /\ q.next # 0
  BY <1>1 DEF FirstPart, SecondPart
<1> HIDE DEF p, q
<1>13. from[(m + m) + 38] = <<>>
  <2>1. (m + m) + 38 \in 1..Len(s) + 1 /\ (m + m) + 38 > Len(s)
    BY <1>1, <1>2
  <2> QED BY <1>11, <2>1 DEF FilesFrom
<1>14. from[m + 21] = <<q>> \o <<>>
  <2>1. m + 21 \in 1..Len(s) + 1 /\ ~ (m + 21 > Len(s))
    BY <1>1, <1>2
  <2>2. from[m + 21] = FilesFrom(s, from, m + 21)
    BY <1>11, <2>1
  <2>3. FilesFrom(s, from, m + 21) = <<q>> \o (IF q.next = 0 THEN <<>> ELSE from[q.next])
    BY <1>10, <2>1, Zenon DEF FilesFrom, q
  <2> QED BY <1>12, <1>13, <2>2, <2>3
<1>15. from[6] = <<p>> \o from[m + 21]
  <2>1. 6 \in 1..Len(s) + 1 /\ ~ (6 > Len(s))
    BY <1>1, <1>2
  <2>2. from[6] = FilesFrom(s, from, 6)
    BY <1>11, <2>1
  <2>3. FilesFrom(s, from, 6) = <<p>> \o (IF p.next = 0 THEN <<>> ELSE from[p.next])
    BY <1>9, <2>1, Zenon DEF FilesFrom, p
  <2> QED BY <1>12, <2>2, <2>3
<1>16. from[6] = <<p, q>>
  <2>1. <<q>> \o <<>> = <<q>> /\ <<p>> \o <<q>> = <<p, q>>
    BY JoinOnes
  <2> QED BY <1>14, <1>15, <2>1
<1>17. ~ \E i \in DOMAIN from[6] : from[6][i].next = 0
  <2>1. DOMAIN <<p, q>> = {1, 2} /\ <<p, q>>[1] = p /\ <<p, q>>[2] = q
    OBVIOUS
  <2> QED BY <1>12, <1>16, <2>1
<1>18. parse_multipart_formdata(Boundary, s) = from[6]
  <2>1. 4 + 2 = 6 /\ 4 # 0
    OBVIOUS
  <2> QED BY <1>4, <1>6, <1>11, <1>17, <2>1
<1> QED BY <1>16, <1>18 DEF p, q

(* The parts of a multipart body are its contents, proved for all contents *)
(* without the boundary.                                                   *)
THEOREM PartsArriveWhole == Spec => []PartsArrive
<1>1. ASSUME TextOK, NoBoundary(text), NoBoundary(Reverse(text))
      PROVE  LET body == multipart(Boundary, <<text, Reverse(text)>>)
                 parts == parse_multipart_formdata(Boundary, body)
             IN  /\ Len(parts) = 2
                 /\ \A n \in 1..2 :
                      /\ parts[n].name = {n}
                      /\ SubSeq(body, parts[n].offset, parts[n].offset + parts[n].length - 1)
                           = <<text, Reverse(text)>>[n]
  <2> DEFINE t == text
             r == Reverse(text)
             m == Len(t)
             s == multipart(Boundary, <<t, r>>)
             p == FirstPart(m)
             q == SecondPart(m)
             parts == parse_multipart_formdata(Boundary, s)
  <2>1. t \in Texts /\ r \in Texts /\ Len(r) = m /\ m \in Nat
    <3>1. t \in Seq(Byte)
      BY <1>1 DEF TextOK
    <3>2. r \in Seq(Byte) /\ Len(r) = Len(t)
      <4>1. r = [i \in 1..m |-> t[(m - i) + 1]]
        BY DEF Reverse
      <4>2. \A i \in 1..m : (m - i) + 1 \in 1..m
        BY <3>1
      <4>3. \A i \in 1..m : t[(m - i) + 1] \in Byte
        BY <3>1, <4>2
      <4> HIDE DEF r, t
      <4> QED BY <3>1, <4>1, <4>3
    <3> QED BY <3>1, <3>2, BytesAreTexts
  <2>2. NoBoundary(t) /\ NoBoundary(r)
    BY <1>1
  <2> HIDE DEF t, r, m
  <2>3. Layout(s, t, r, m)
    BY <2>1, BodyLayout DEF m
  <2> HIDE DEF s
  <2>4. parts = <<p, q>>
    BY <2>1, <2>2, <2>3, PartsRead DEF m
  <2> HIDE DEF parts
  <2>5. /\ p.name = {1} /\ p.offset = 14 /\ p.length = m
        /\ q.name = {2} /\ q.offset = m + 29 /\ q.length = m
    BY DEF FirstPart, SecondPart
  <2> HIDE DEF p, q
  <2>6. s \in Texts /\ Len(s) = (m + m) + 37 /\ PartAt(s, 6, 1, t) /\ PartAt(s, m + 21, 2, r)
    BY <2>3 DEF Layout
  <2>7. SubSeq(s, 14, 14 + m - 1) = t
    <3> DEFINE a == 14
               b == 14 + m - 1
    <3>1. a \in Int /\ b \in Int /\ 1 <= a /\ b = (a - 1) + m /\ b <= Len(s)
      BY <2>1, <2>6
    <3>2. \A j \in 1..m : s[(6 + 7) + j] = t[j]
      BY <2>6 DEF PartAt, m
    <3>3. a - 1 = 6 + 7
      OBVIOUS
    <3> HIDE DEF a, b
    <3>4. \A j \in 1..Len(t) : s[(a - 1) + j] = t[j]
      BY <3>2, <3>3 DEF m
    <3>5. b = (a - 1) + Len(t)
      BY <3>1 DEF m
    <3>6. SubSeq(s, a, b) = t
      BY <2>1, <2>6, <3>1, <3>4, <3>5, StretchIs
    <3> QED BY <3>6 DEF a, b
  <2>8. SubSeq(s, m + 29, m + 29 + m - 1) = r
    <3> DEFINE a == m + 29
               b == m + 29 + m - 1
    <3>1. a \in Int /\ b \in Int /\ 1 <= a /\ b = (a - 1) + m /\ b <= Len(s)
      BY <2>1, <2>6
    <3>2. \A j \in 1..m : s[((m + 21) + 7) + j] = r[j]
      BY <2>1, <2>6 DEF PartAt
    <3>3. a - 1 = (m + 21) + 7
      BY <2>1
    <3> HIDE DEF a, b
    <3>4. \A j \in 1..Len(r) : s[(a - 1) + j] = r[j]
      BY <2>1, <3>2, <3>3
    <3>5. b = (a - 1) + Len(r)
      BY <2>1, <3>1
    <3>6. SubSeq(s, a, b) = r
      BY <2>1, <2>6, <3>1, <3>4, <3>5, StretchIs
    <3> QED BY <3>6 DEF a, b
  <2>9. Len(parts) = 2 /\ parts[1] = p /\ parts[2] = q
    BY <2>4
  <2>10. <<t, r>>[1] = t /\ <<t, r>>[2] = r
    OBVIOUS
  <2>11. ASSUME NEW n \in 1..2
         PROVE  /\ parts[n].name = {n}
                /\ SubSeq(s, parts[n].offset, parts[n].offset + parts[n].length - 1) = <<t, r>>[n]
    <3>1. CASE n = 1
      BY <2>5, <2>7, <2>9, <2>10, <3>1
    <3>2. CASE n = 2
      BY <2>5, <2>8, <2>9, <2>10, <3>2
    <3> QED BY <3>1, <3>2
  <2> QED BY <2>9, <2>11 DEF parts, s, t, r
<1>2. ASSUME TextOK PROVE PartsArrive
  <2>1. CRLF \o <<Dash, Dash>> \o Boundary = CRLF \o DashBoundary
    BY Patterns
  <2>2. (\A n \in 1..2 : Find(<<text, Reverse(text)>>[n], CRLF \o <<Dash, Dash>> \o Boundary, 1) = 0)
          => NoBoundary(text) /\ NoBoundary(Reverse(text))
    <3> DEFINE F == CRLF \o <<Dash, Dash>> \o Boundary
               cs == <<text, Reverse(text)>>
    <3>1. cs[1] = text /\ cs[2] = Reverse(text) /\ 1 \in 1..2 /\ 2 \in 1..2
      OBVIOUS
    <3> HIDE DEF F, cs
    <3>2. (\A n \in 1..2 : Find(cs[n], F, 1) = 0) => Find(text, F, 1) = 0 /\ Find(Reverse(text), F, 1) = 0
      BY <3>1
    <3>3. F = CRLF \o DashBoundary
      BY <2>1 DEF F
    <3>4. (\A n \in 1..2 : Find(cs[n], F, 1) = 0) => NoBoundary(text) /\ NoBoundary(Reverse(text))
      BY <3>2, <3>3, Zenon DEF NoBoundary
    <3> QED BY <3>4 DEF F, cs
  <2> QED BY <1>1, <1>2, <2>2, Zenon DEF PartsArrive, Boundary
<1>3. TextOK => PartsArrive
  BY <1>2
<1> QED BY <1>3, TextType, PTL

-----------------------------------------------------------------------------
(* Chunks.                                                                 *)

(* One more digit.                                                         *)
LEMMA OneMoreDigit ==
  ASSUME NEW s, NEW m \in Nat, \A j \in 1..m + 1 : is_hex(s, j)
  PROVE  /\ from_hex_to_i(s, 1, m) \in Int
         /\ from_hex_to_i(s, 1, m + 1) = from_hex_to_i(s, 1, m) * 16 + hex_digit(s[m + 1])
<1> DEFINE n == m + 1
<1>1. n \in Nat /\ 1 \in Int
  OBVIOUS
<1>2. PICK w :
        /\ HexValue(s, 1, n, w)
        /\ \A k \in 0..n : w[k] \in Nat \/ \E j \in 1..1 + k - 1 : ~ is_hex(s, j)
        /\ from_hex_to_i(s, 1, n)
             = IF \A k \in 1..1 + n - 1 : is_hex(s, k) THEN w[n] ELSE Aborted
  <2> HIDE DEF n
  <2> QED BY <1>1, HexSolves
<1>3. PICK v :
        /\ HexValue(s, 1, m, v)
        /\ \A k \in 0..m : v[k] \in Nat \/ \E j \in 1..1 + k - 1 : ~ is_hex(s, j)
        /\ from_hex_to_i(s, 1, m)
             = IF \A k \in 1..1 + m - 1 : is_hex(s, k) THEN v[m] ELSE Aborted
  BY <1>1, HexSolves
<1>4. (\A k \in 1..1 + n - 1 : is_hex(s, k)) /\ (\A k \in 1..1 + m - 1 : is_hex(s, k))
  OBVIOUS
<1>5. from_hex_to_i(s, 1, n) = w[n] /\ from_hex_to_i(s, 1, m) = v[m]
  BY <1>2, <1>3, <1>4
<1>6. v[m] \in Nat
  <2>1. m \in 0..m
    OBVIOUS
  <2> QED BY <1>3, <1>4, <2>1
<1>7. \A k \in 0..m : w[k] = v[k]
  <2> DEFINE S == {k \in 0..m : w[k] = v[k]}
  <2>1. 0 \in S
    BY <1>2, <1>3 DEF HexValue
  <2>2. ASSUME NEW k \in 1..m, k - 1 \in S PROVE k \in S
    <3>1. w[k] = w[k - 1] * 16 + hex_digit(s[1 + k - 1])
      BY <1>2 DEF HexValue
    <3>2. v[k] = v[k - 1] * 16 + hex_digit(s[1 + k - 1])
      BY <1>3 DEF HexValue
    <3>3. w[k - 1] = v[k - 1]
      BY <2>2
    <3> QED BY <3>1, <3>2, <3>3
  <2>3. \A k \in 0..m : k \in S
    <3> HIDE DEF S
    <3> QED BY <2>1, <2>2, UpTo
  <2> QED BY <2>3
<1>8. w[n] = w[m] * 16 + hex_digit(s[m + 1])
  <2>1. n \in 1..n /\ n - 1 = m /\ 1 + n - 1 = m + 1
    OBVIOUS
  <2>2. w[n] = w[n - 1] * 16 + hex_digit(s[1 + n - 1])
    <3> HIDE DEF n
    <3> QED BY <1>2, <2>1 DEF HexValue
  <2> HIDE DEF n
  <2> QED BY <2>1, <2>2
<1>9. m \in 0..m
  OBVIOUS
<1> QED BY <1>5, <1>6, <1>7, <1>8, <1>9

(* w writes the number k in hex, whatever follows it.                      *)
Spells(w, k) ==
  /\ w \in Texts /\ Len(w) >= 1
  /\ \A j \in 1..Len(w) : w[j] \in Digits \cup 97..102
  /\ \A s \in Texts : Len(w) <= Len(s) /\ (\A j \in 1..Len(w) : s[j] = w[j])
                        => from_hex_to_i(s, 1, Len(w)) = k

(* A digit, and what it reads as.                                          *)
HexByte(d) == IF d < 10 THEN 48 + d ELSE 87 + d

LEMMA HexByteReads ==
  /\ \A d \in 0..15 : HexByte(d) \in Digits \cup 97..102 /\ hex_digit(HexByte(d)) = d
  /\ \A c \in Digits \cup 97..102 : hex_digit(c) # Aborted /\ c # LF /\ c # CR /\ c # NUL /\ c \in Int
<1>1. ASSUME NEW d \in 0..15
      PROVE  HexByte(d) \in Digits \cup 97..102 /\ hex_digit(HexByte(d)) = d
  <2>1. CASE d < 10
    BY <2>1 DEF HexByte, hex_digit, Digits
  <2>2. CASE ~ (d < 10)
    BY <2>2 DEF HexByte, hex_digit, Digits
  <2> QED BY <2>1, <2>2
<1>2. \A c \in Digits \cup 97..102 : hex_digit(c) # Aborted /\ c # LF /\ c # CR /\ c # NUL /\ c \in Int
  BY DEF hex_digit, Digits, Aborted, LF, CR, NUL
<1> QED BY <1>1, <1>2

(* The first digits of a text that begins with w.                          *)
LEMMA DigitsOf ==
  ASSUME NEW w \in Texts, \A j \in 1..Len(w) : w[j] \in Digits \cup 97..102,
         NEW s \in Texts, Len(w) <= Len(s), \A j \in 1..Len(w) : s[j] = w[j]
  PROVE  \A j \in 1..Len(w) : is_hex(s, j)
<1>1. ASSUME NEW j \in 1..Len(w) PROVE is_hex(s, j)
  <2>1. j \in DOMAIN s
    BY TextIndices
  <2>2. hex_digit(s[j]) # Aborted
    BY HexByteReads
  <2> QED BY <2>1, <2>2 DEF is_hex
<1> QED BY <1>1

LEMMA SpellsDigit ==
  ASSUME NEW d \in 0..15
  PROVE  Spells(<<HexByte(d)>>, d)
<1> DEFINE c == HexByte(d)
           w == <<c>>
<1>1. c \in Digits \cup 97..102 /\ hex_digit(c) = d /\ c \in Int
  BY HexByteReads
<1>2. w \in Texts /\ Len(w) = 1 /\ w[1] = c /\ \A j \in 1..Len(w) : w[j] = c
  <2> HIDE DEF c
  <2> QED BY <1>1, PlainType DEF w
<1> HIDE DEF c, w
<1>3. \A j \in 1..Len(w) : w[j] \in Digits \cup 97..102
  BY <1>1, <1>2
<1>4. ASSUME NEW s \in Texts, Len(w) <= Len(s), \A j \in 1..Len(w) : s[j] = w[j]
      PROVE  from_hex_to_i(s, 1, Len(w)) = d
  <2>1. \A j \in 1..Len(w) : is_hex(s, j)
    BY <1>2, <1>3, <1>4, DigitsOf
  <2>2. \A j \in 1..0 + 1 : is_hex(s, j)
    BY <1>2, <2>1
  <2>3. from_hex_to_i(s, 1, 0 + 1) = from_hex_to_i(s, 1, 0) * 16 + hex_digit(s[0 + 1])
    BY <2>2, OneMoreDigit
  <2>4. from_hex_to_i(s, 1, 0) = 0
    <3>1. PICK v : /\ HexValue(s, 1, 0, v)
                   /\ from_hex_to_i(s, 1, 0)
                        = IF \A k \in 1..1 + 0 - 1 : is_hex(s, k) THEN v[0] ELSE Aborted
      BY HexSolves
    <3> QED BY <3>1 DEF HexValue
  <2>5. s[1] = c
    BY <1>2, <1>4
  <2>6. d \in Int
    OBVIOUS
  <2> QED BY <1>1, <1>2, <2>3, <2>4, <2>5, <2>6
<1>5. Len(w) >= 1
  BY <1>2
<1>6. Spells(w, d)
  BY <1>2, <1>3, <1>4, <1>5 DEF Spells
<1> QED BY <1>6 DEF w, c

LEMMA SpellsMore ==
  ASSUME NEW k \in Nat, NEW w, Spells(w, k), NEW d \in 0..15
  PROVE  Spells(w \o <<HexByte(d)>>, k * 16 + d)
<1> DEFINE c == HexByte(d)
           e == <<c>>
           u == w \o e
           m == Len(w)
<1>1. c \in Digits \cup 97..102 /\ hex_digit(c) = d /\ c \in Int
  BY HexByteReads
<1>2. e \in Texts /\ Len(e) = 1 /\ e[1] = c
  <2> HIDE DEF c
  <2> QED BY <1>1, PlainType
<1>3. w \in Texts /\ m >= 1 /\ m \in Nat /\ \A j \in 1..m : w[j] \in Digits \cup 97..102
  BY TextIndices DEF Spells
<1> HIDE DEF c, e
<1>4. u \in Texts /\ Len(u) = m + 1 /\ (\A j \in 1..m : u[j] = w[j]) /\ u[m + 1] = c
  <2>1. /\ w \o e \in Texts /\ Len(w \o e) = Len(w) + Len(e)
        /\ \A i \in 1..Len(w) : (w \o e)[i] = w[i]
        /\ \A j \in 1..Len(e) : (w \o e)[Len(w) + j] = e[j]
    BY <1>2, <1>3, Joining
  <2>2. 1 \in 1..Len(e)
    BY <1>2
  <2>3. (w \o e)[Len(w) + 1] = e[1]
    BY <2>1, <2>2
  <2> QED BY <1>2, <2>1, <2>3
<1>5. \A j \in 1..Len(u) : u[j] \in Digits \cup 97..102
  <2>1. ASSUME NEW j \in 1..m + 1 PROVE u[j] \in Digits \cup 97..102
    <3>1. j \in 1..m \/ j = m + 1
      BY <1>3
    <3> HIDE DEF u, m
    <3> QED BY <1>1, <1>3, <1>4, <3>1
  <2> QED BY <1>4, <2>1
<1>6. ASSUME NEW s \in Texts, Len(u) <= Len(s), \A j \in 1..Len(u) : s[j] = u[j]
      PROVE  from_hex_to_i(s, 1, Len(u)) = k * 16 + d
  <2> HIDE DEF u
  <2>1. \A j \in 1..Len(u) : is_hex(s, j)
    BY <1>4, <1>5, <1>6, DigitsOf
  <2>2. from_hex_to_i(s, 1, m + 1) = from_hex_to_i(s, 1, m) * 16 + hex_digit(s[m + 1])
    <3> HIDE DEF m
    <3> QED BY <1>3, <1>4, <2>1, OneMoreDigit
  <2>3. m <= Len(s) /\ \A j \in 1..m : s[j] = w[j]
    <3>1. Len(s) \in Nat
      BY TextIndices
    <3>2. \A j \in 1..m : j \in 1..Len(u)
      BY <1>3, <1>4
    <3> QED BY <1>3, <1>4, <1>6, <3>1, <3>2
  <2>4. from_hex_to_i(s, 1, m) = k
    BY <2>3 DEF Spells
  <2>5. s[m + 1] = c
    <3>1. m + 1 \in 1..Len(u)
      BY <1>3, <1>4
    <3> QED BY <1>4, <1>6, <3>1
  <2> QED BY <1>1, <1>4, <2>2, <2>4, <2>5
<1>7. Len(u) >= 1
  BY <1>3, <1>4
<1>8. Spells(u, k * 16 + d)
  <2> HIDE DEF u
  <2> QED BY <1>4, <1>5, <1>6, <1>7 DEF Spells
<1> QED BY <1>8 DEF u, e, c

(* The digits from_i_to_hex puts in front are those of k \div 16.          *)
HexAt(ret, k) ==
  IF k < 16 THEN <<HexByte(k)>> ELSE ret[k \div 16] \o <<HexByte(k % 16)>>

LEMMA Sixteenths ==
  ASSUME NEW k \in Nat
  PROVE  /\ k % 16 \in 0..15 /\ k \div 16 \in Nat /\ k = (k \div 16) * 16 + (k % 16)
         /\ k >= 16 => k \div 16 < k
OBVIOUS

LEMMA HexSpelled ==
  ASSUME NEW n \in Nat
  PROVE  Spells(from_i_to_hex(n), n)
<1> DEFINE D == 0..n
           V == Texts
           rank == [k \in D |-> k]
           B == [gk \in [D -> V] \X D |-> HexAt(gk[1], gk[2])]
           R == CHOOSE R : R = [k \in D |-> HexAt(R, k)]
<1>1. rank \in [D -> 0..n] /\ \A k \in D : rank[k] = k
  OBVIOUS
<1>2. V # {}
  BY EmptySeq DEF Texts
<1>3. \A k \in D : k >= 16 => k \div 16 \in D /\ k \div 16 < k
  BY Sixteenths
<1>4. \A d \in 0..15 : <<HexByte(d)>> \in V
  BY SpellsDigit DEF Spells
<1>5. B \in [[D -> V] \X D -> V]
  <2>1. ASSUME NEW g \in [D -> V], NEW k \in D PROVE HexAt(g, k) \in V
    <3>1. CASE k < 16
      <4>1. k \in 0..15
        BY <3>1
      <4> HIDE DEF V
      <4> QED BY <1>4, <3>1, <4>1 DEF HexAt
    <3>2. CASE ~ (k < 16)
      <4>1. k % 16 \in 0..15 /\ k \div 16 \in D
        BY <1>3, <3>2, Sixteenths
      <4>2. g[k \div 16] \in Texts
        BY <4>1
      <4>3. <<HexByte(k % 16)>> \in Texts
        BY <1>4, <4>1
      <4>4. HexAt(g, k) = g[k \div 16] \o <<HexByte(k % 16)>>
        BY <3>2 DEF HexAt
      <4> QED BY <4>2, <4>3, <4>4, Joining
    <3> QED BY <3>1, <3>2
  <2> QED BY <2>1
<1>6. \A g \in [D -> V], k \in D : B[<<g, k>>] = HexAt(g, k)
  OBVIOUS
<1>7. PICK f \in [D -> V] : \A k \in D : f[k] = HexAt(f, k)
  <2>1. Descends(D, V, rank, B)
    <3> SUFFICES ASSUME NEW g \in [D -> V], NEW h \in [D -> V], NEW k \in D,
                        Agree(D, rank, k, g, h)
                 PROVE  B[<<g, k>>] = B[<<h, k>>]
      <4> HIDE DEF B, rank
      <4> QED BY DEF Descends
    <3> HIDE DEF B, rank
    <3>1. k >= 16 => g[k \div 16] = h[k \div 16]
      <4>1. \A j \in D : j < k => g[j] = h[j]
        BY <1>1 DEF Agree
      <4> QED BY <1>3, <4>1
    <3>2. HexAt(g, k) = HexAt(h, k)
      BY <3>1 DEF HexAt
    <3> QED BY <1>6, <3>2
  <2>2. Solvable(D, V, B)
    <3> HIDE DEF B, rank, V, D
    <3> QED BY <1>1, <1>2, <1>5, <2>1, Recursion, Zenon
  <2> HIDE DEF B, V, D
  <2> QED BY <2>2, <1>6 DEF Solvable
<1>8. R = [k \in D |-> HexAt(R, k)]
  <2>1. f = [k \in D |-> HexAt(f, k)]
    BY <1>7
  <2> QED BY <2>1
<1>9. from_i_to_hex(n) = R[n]
  BY DEF from_i_to_hex, HexAt, HexByte
<1> HIDE DEF R
<1>10. ASSUME NEW k \in Nat, \A m \in 0..k - 1 : m <= n => Spells(R[m], m), k <= n
       PROVE  Spells(R[k], k)
  <2>1. k \in D /\ R[k] = HexAt(R, k)
    BY <1>8, <1>10
  <2>2. CASE k < 16
    <3>1. k \in 0..15
      BY <2>2
    <3> QED BY <2>1, <2>2, <3>1, SpellsDigit DEF HexAt
  <2>3. CASE ~ (k < 16)
    <3> DEFINE q == k \div 16
               d == k % 16
    <3>1. q \in Nat /\ d \in 0..15 /\ k = q * 16 + d /\ q < k
      BY <2>3, Sixteenths
    <3>2. R[k] = R[q] \o <<HexByte(d)>>
      BY <2>1, <2>3 DEF HexAt
    <3> HIDE DEF q, d
    <3>3. q \in 0..k - 1 /\ q <= n
      BY <1>10, <3>1
    <3>4. Spells(R[q], q)
      BY <1>10, <3>3
    <3>5. Spells(R[q] \o <<HexByte(d)>>, q * 16 + d)
      BY <3>1, <3>4, SpellsMore
    <3> QED BY <3>1, <3>2, <3>5
  <2> QED BY <2>2, <2>3
<1>11. \A k \in Nat : k <= n => Spells(R[k], k)
  <2> DEFINE S == {k \in Nat : k <= n => Spells(R[k], k)}
  <2>1. ASSUME NEW k \in Nat, \A m \in 0..k - 1 : m \in S PROVE k \in S
    BY <1>10, <2>1
  <2>2. \A k \in Nat : k \in S
    <3> HIDE DEF S
    <3> QED BY <2>1, Induction
  <2> QED BY <2>2
<1> QED BY <1>9, <1>11

(* The line of digits before a chunk reads as the number they write.       *)
LEMMA ChunkLength ==
  ASSUME NEW k \in Nat, k <= INT_MAX, NEW w, Spells(w, k),
         NEW line \in Texts, Len(line) = Len(w) + 2,
         \A j \in 1..Len(w) : line[j] = w[j], line[Len(w) + 1] = CR
  PROVE  chunk_len(line) = k
<1> DEFINE m == Len(w)
           counts == {n \in 1..Len(line) :
                        (\A j \in 1..n : is_hex(line, j)) /\ ~ is_hex(line, n + 1)}
<1>1. w \in Texts /\ m \in Nat /\ m >= 1 /\ \A j \in 1..m : w[j] \in Digits \cup 97..102
  BY TextIndices DEF Spells
<1>2. m <= Len(line) /\ m \in 1..Len(line)
  BY <1>1
<1>3. \A j \in 1..m : is_hex(line, j)
  BY <1>1, <1>2, DigitsOf
<1>4. ~ is_hex(line, m + 1)
  BY DEF is_hex, hex_digit, CR, Digits, Aborted
<1>5. counts = {m}
  <2>1. m \in counts
    BY <1>2, <1>3, <1>4
  <2>2. ASSUME NEW n \in counts PROVE n = m
    <3>1. n \in Nat /\ (\A j \in 1..n : is_hex(line, j)) /\ ~ is_hex(line, n + 1) /\ n >= 1
      OBVIOUS
    <3> HIDE DEF counts, m
    <3>2. ~ (n > m)
      <4>1. n > m => m + 1 \in 1..n
        BY <1>1, <3>1
      <4> QED BY <1>4, <3>1, <4>1
    <3>3. ~ (n < m)
      <4>1. n < m => n + 1 \in 1..m
        BY <1>1, <3>1
      <4> QED BY <1>3, <3>1, <4>1
    <3> QED BY <1>1, <3>1, <3>2, <3>3
  <2> HIDE DEF counts, m
  <2> QED BY <2>1, <2>2
<1> DEFINE len == from_hex_to_i(line, 1, CHOOSE n \in counts : TRUE)
<1>6. chunk_len(line) = IF counts = {} \/ len > INT_MAX THEN Aborted ELSE len
  BY DEF chunk_len
<1>7. counts # {} /\ (CHOOSE n \in counts : TRUE) = m
  <2> HIDE DEF counts
  <2> QED BY <1>5
<1>8. from_hex_to_i(line, 1, m) = k
  BY <1>2 DEF Spells
<1>9. len = k
  <2> HIDE DEF counts
  <2> QED BY <1>7, <1>8, Zenon
<1>10. ~ (k > INT_MAX)
  BY DEF INT_MAX
<1> HIDE DEF counts, len
<1> QED BY <1>6, <1>7, <1>9, <1>10

(* A chunk has a length, or stoi throws.                                   *)
LEMMA ChunkLenType ==
  ASSUME NEW line \in Texts
  PROVE  chunk_len(line) \in Nat \cup {Aborted}
<1> DEFINE counts == {n \in 1..Len(line) :
                        (\A j \in 1..n : is_hex(line, j)) /\ ~ is_hex(line, n + 1)}
           len == from_hex_to_i(line, 1, CHOOSE n \in counts : TRUE)
<1>1. chunk_len(line) = IF counts = {} \/ len > INT_MAX THEN Aborted ELSE len
  BY DEF chunk_len
<1>2. ASSUME NEW n \in Nat PROVE from_hex_to_i(line, 1, n) \in Nat \cup {Aborted}
  <2>1. PICK val :
          /\ \A k \in 0..n : val[k] \in Nat \/ \E j \in 1..1 + k - 1 : ~ is_hex(line, j)
          /\ from_hex_to_i(line, 1, n)
               = IF \A k \in 1..1 + n - 1 : is_hex(line, k) THEN val[n] ELSE Aborted
    BY HexSolves
  <2>2. n \in 0..n
    OBVIOUS
  <2>3. val[n] \in Nat \/ \E j \in 1..1 + n - 1 : ~ is_hex(line, j)
    BY <2>1, <2>2
  <2> QED BY <2>1, <2>3
<1>3. counts # {} => (CHOOSE n \in counts : TRUE) \in Nat
  <2>1. counts # {} => (CHOOSE n \in counts : TRUE) \in counts
    OBVIOUS
  <2>2. counts \subseteq Nat
    OBVIOUS
  <2> HIDE DEF counts
  <2> QED BY <2>1, <2>2
<1> HIDE DEF counts
<1> QED BY <1>1, <1>2, <1>3

(* A line ends where it begins or later, within the stream, and getline    *)
(* returns it, up to a NUL.                                                *)
LEMMA LineIs ==
  ASSUME NEW s \in Texts, NEW i \in 1..Len(s)
  PROVE  /\ LineEnd(s, i) \in i..Len(s)
         /\ getline(s, i, 16) = CString(SubSeq(s, i, LineEnd(s, i)))
         /\ getline(s, i, 16) \in Texts
<1> DEFINE e == LineEnd(s, i)
<1>1. Len(s) \in Nat /\ i \in Nat \ {0} /\ i \in 1..Len(s) + 1
  BY TextIndices
<1>2. e \in i..Len(s)
  <2>1. Find(s, <<LF>>, i) = IF Cuts(s, LF, i) = {} THEN 0 ELSE Cut(s, LF, i)
    BY <1>1, FindByte
  <2>2. Cuts(s, LF, i) # {} => Cut(s, LF, i) \in i..Len(s)
    BY <1>1, FirstCut
  <2>3. Len(s) \in i..Len(s)
    BY <1>1
  <2> QED BY <2>1, <2>2, <2>3 DEF LineEnd
<1> HIDE DEF e
<1>3. SubSeq(s, i, e) \in Texts
  <2>1. i \in Int /\ e \in Int /\ 1 <= i /\ i - 1 <= e /\ e <= Len(s)
    BY <1>1, <1>2
  <2> QED BY <2>1, Stretch
<1>4. getline(s, i, 16) = CString(SubSeq(s, i, e))
  <2>1. 16 \in Nat /\ 16 >= 1
    OBVIOUS
  <2> QED BY <1>3, <2>1, ReadsLine DEF e
<1>5. CString(SubSeq(s, i, e)) \in Texts
  BY <1>3, CStringType
<1> QED BY <1>2, <1>4, <1>5 DEF e

(* read_content_chunked from i on.                                         *)
Unread == [ok |-> FALSE, body |-> <<>>, end |-> 0]

ChunkData(s, i) == LineEnd(s, i) + 1
ChunkAfter(s, i) == ChunkData(s, i) + chunk_len(getline(s, i, 16))
ChunkClosed(s, i) ==
  ChunkAfter(s, i) <= Len(s) /\ getline(s, ChunkAfter(s, i), 16) = CRLF

ChunkFails(s, i) ==
  LET len == chunk_len(getline(s, i, 16))
  IN  len = Aborted \/ ChunkAfter(s, i) > Len(s) \/ (len = 0 /\ ~ ChunkClosed(s, i))

ChunkEnds(s, i) == ~ ChunkClosed(s, i) \/ chunk_len(getline(s, i, 16)) = 0

BodyEnd(s, i) == [ok |-> TRUE, body |-> <<>>, end |-> LineEnd(s, ChunkAfter(s, i))]

BodyFrom(s, from, i) ==
  IF i > Len(s) THEN Unread
  ELSE IF ChunkFails(s, i) THEN Unread
  ELSE IF ~ ChunkClosed(s, i) THEN BodyEnd(s, i)
  ELSE IF chunk_len(getline(s, i, 16)) = 0 THEN BodyEnd(s, i)
  ELSE [from[LineEnd(s, ChunkAfter(s, i)) + 1] EXCEPT
          !.body = SubSeq(s, ChunkData(s, i), ChunkAfter(s, i) - 1) \o @]

LEMMA ChunkForward ==
  ASSUME NEW s \in Texts, NEW i \in 1..Len(s), ~ ChunkFails(s, i)
  PROVE  /\ ChunkData(s, i) \in Int /\ i < ChunkData(s, i)
         /\ ChunkAfter(s, i) \in 1..Len(s) /\ ChunkData(s, i) <= ChunkAfter(s, i)
         /\ LineEnd(s, ChunkAfter(s, i)) \in Int
         /\ LineEnd(s, ChunkAfter(s, i)) + 1 \in 1..Len(s) + 1
         /\ LineEnd(s, ChunkAfter(s, i)) + 1 > i
         /\ SubSeq(s, ChunkData(s, i), ChunkAfter(s, i) - 1) \in Texts
<1> DEFINE a == ChunkData(s, i)
           b == ChunkAfter(s, i)
           len == chunk_len(getline(s, i, 16))
           n == Len(s)
<1>1. LineEnd(s, i) \in i..n /\ getline(s, i, 16) \in Texts /\ n \in Nat
  BY LineIs, TextIndices
<1>2. len # Aborted /\ ~ (b > n)
  BY DEF ChunkFails
<1>3. len \in Nat
  BY <1>1, <1>2, ChunkLenType
<1>4. a = LineEnd(s, i) + 1 /\ b = a + len
  BY DEF ChunkData, ChunkAfter
<1> HIDE DEF a, b, len
<1>5. a \in Int /\ i < a /\ a <= b /\ b \in 1..n
  <2> HIDE DEF n
  <2> QED BY <1>1, <1>2, <1>3, <1>4
<1>6. LineEnd(s, b) \in b..n
  BY <1>5, LineIs
<1>7. LineEnd(s, b) \in Int /\ LineEnd(s, b) + 1 \in 1..n + 1 /\ LineEnd(s, b) + 1 > i
  <2> HIDE DEF n
  <2> QED BY <1>1, <1>5, <1>6
<1>8. SubSeq(s, a, b - 1) \in Texts
  <2>1. b - 1 \in Int /\ 1 <= a /\ a - 1 <= b - 1 /\ b - 1 <= n
    <3> HIDE DEF n
    <3> QED BY <1>1, <1>5
  <2> QED BY <1>5, <2>1, Stretch
<1> QED BY <1>5, <1>7, <1>8 DEF a, b

LEMMA BodySolves ==
  ASSUME NEW s \in Texts
  PROVE  \E from :
           /\ \A i \in 1..Len(s) + 1 : from[i] = BodyFrom(s, from, i)
           /\ read_content_chunked(s) = from[1]
<1> DEFINE D == 1..Len(s) + 1
           V == [ok : BOOLEAN, body : Texts, end : Int]
           rank == [i \in D |-> Len(s) + 1 - i]
           B == [gi \in [D -> V] \X D |-> BodyFrom(s, gi[1], gi[2])]
           F == CHOOSE F : F = [i \in D |-> BodyFrom(s, F, i)]
<1>1. Len(s) \in Nat
  BY DEF Texts
<1>2. rank \in [D -> 0..Len(s)] /\ \A i, j \in D : j > i => rank[j] < rank[i]
  BY <1>1
<1>3. <<>> \in Texts /\ Unread \in V
  BY EmptySeq DEF Texts, Unread
<1>4. B \in [[D -> V] \X D -> V]
  <2>1. ASSUME NEW g \in [D -> V], NEW i \in D PROVE BodyFrom(s, g, i) \in V
    <3>1. CASE i > Len(s) \/ ChunkFails(s, i)
      BY <1>3, <3>1 DEF BodyFrom
    <3>2. CASE ~ (i > Len(s) \/ ChunkFails(s, i))
      <4> DEFINE e == LineEnd(s, ChunkAfter(s, i))
                 c == SubSeq(s, ChunkData(s, i), ChunkAfter(s, i) - 1)
      <4>1. i \in 1..Len(s)
        BY <1>1, <3>2
      <4>2. e \in Int /\ e + 1 \in D /\ c \in Texts
        BY <3>2, <4>1, ChunkForward
      <4>3. CASE ChunkEnds(s, i)
        BY <1>3, <3>2, <4>2, <4>3 DEF BodyFrom, BodyEnd, ChunkEnds
      <4>4. CASE ~ ChunkEnds(s, i)
        <5>1. BodyFrom(s, g, i) = [g[e + 1] EXCEPT !.body = c \o @]
          BY <3>2, <4>4 DEF BodyFrom, ChunkEnds
        <5> HIDE DEF e, c, D
        <5>2. g[e + 1] \in V
          BY <4>2
        <5>3. g[e + 1].body \in Texts
          BY <5>2
        <5>4. c \o g[e + 1].body \in Texts
          BY <4>2, <5>3, Joining
        <5> QED BY <5>1, <5>2, <5>4
      <4> QED BY <4>3, <4>4
    <3> QED BY <3>1, <3>2
  <2> HIDE DEF V, D
  <2> QED BY <2>1
<1>5. \A g \in [D -> V], i \in D : B[<<g, i>>] = BodyFrom(s, g, i)
  OBVIOUS
<1>6. PICK f \in [D -> V] : \A i \in D : f[i] = BodyFrom(s, f, i)
  <2>1. Descends(D, V, rank, B)
    <3> HIDE DEF B, rank
    <3> SUFFICES ASSUME NEW g \in [D -> V], NEW h \in [D -> V], NEW i \in D,
                        Agree(D, rank, i, g, h)
                 PROVE  B[<<g, i>>] = B[<<h, i>>]
      BY DEF Descends
    <3>1. \A j \in D : j > i => g[j] = h[j]
      BY <1>2 DEF Agree
    <3>2. BodyFrom(s, g, i) = BodyFrom(s, h, i)
      <4>1. CASE i > Len(s) \/ ChunkFails(s, i)
        BY <4>1 DEF BodyFrom
      <4>2. CASE ~ (i > Len(s) \/ ChunkFails(s, i))
        <5> DEFINE e == LineEnd(s, ChunkAfter(s, i))
        <5>1. i \in 1..Len(s)
          BY <1>1, <4>2
        <5>2. e + 1 \in D /\ e + 1 > i
          BY <4>2, <5>1, ChunkForward
        <5>3. g[e + 1] = h[e + 1]
          <6> HIDE DEF e, D
          <6> QED BY <3>1, <5>2
        <5> QED BY <5>3, Zenon DEF BodyFrom
      <4> QED BY <4>1, <4>2
    <3> QED BY <3>2, <1>5
  <2>2. Solvable(D, V, B)
    <3>1. V # {}
      BY <1>3
    <3> HIDE DEF B, rank, V, D
    <3> QED BY <1>1, <1>2, <3>1, <1>4, <2>1, Recursion, Zenon
  <2> HIDE DEF B, V, D
  <2> QED BY <2>2, <1>5 DEF Solvable
<1>7. F = [i \in D |-> BodyFrom(s, F, i)]
  <2>1. f = [i \in D |-> BodyFrom(s, f, i)]
    BY <1>6
  <2> QED BY <2>1
<1>8. read_content_chunked(s) = F[1]
  BY DEF read_content_chunked, BodyFrom, Unread, ChunkFails, ChunkClosed, BodyEnd, ChunkAfter,
         ChunkData
<1> HIDE DEF F
<1> QED BY <1>7, <1>8

(* s holds u after the place a.                                            *)
Holds(s, a, u) ==
  a \in Nat /\ a + Len(u) <= Len(s) /\ \A j \in 1..Len(u) : s[a + j] = u[j]

LEMMA HoldsBoth ==
  ASSUME NEW s \in Texts, NEW a, NEW x \in Texts, NEW y \in Texts, Holds(s, a, x \o y)
  PROVE  Holds(s, a, x) /\ Holds(s, a + Len(x), y)
<1> DEFINE u == x \o y
           m == Len(x)
           n == Len(y)
<1>1. /\ Len(u) = m + n
      /\ \A i \in 1..m : u[i] = x[i]
      /\ \A j \in 1..n : u[m + j] = y[j]
  BY Joining
<1>2. m \in Nat /\ n \in Nat /\ Len(s) \in Nat
  BY TextIndices
<1>3. a \in Nat /\ a + Len(u) <= Len(s) /\ \A j \in 1..Len(u) : s[a + j] = u[j]
  BY DEF Holds
<1> HIDE DEF u, m, n
<1>4. ASSUME NEW i \in 1..m PROVE s[a + i] = x[i]
  <2>1. i \in 1..Len(u)
    BY <1>1, <1>2
  <2> QED BY <1>1, <1>3, <2>1
<1>5. ASSUME NEW j \in 1..n PROVE s[(a + m) + j] = y[j]
  <2>1. m + j \in 1..Len(u) /\ a + (m + j) = (a + m) + j
    BY <1>1, <1>2, <1>3
  <2>2. s[a + (m + j)] = u[m + j]
    BY <1>3, <2>1
  <2> QED BY <1>1, <2>1, <2>2
<1>6. a + m <= Len(s) /\ (a + m) + n <= Len(s) /\ a + m \in Nat
  BY <1>1, <1>2, <1>3
<1> QED BY <1>3, <1>4, <1>5, <1>6 DEF Holds, m, n

(* A line that stands in the stream is the line read.                      *)
LEMMA LineAt ==
  ASSUME NEW s \in Texts, NEW a, NEW line \in Texts, Holds(s, a, line), NEW m \in Nat,
         Len(line) = m + 1, line[m + 1] = LF, \A j \in 1..m : line[j] \notin {NUL, LF}
  PROVE  getline(s, a + 1, 16) = line /\ LineEnd(s, a + 1) = (a + m) + 1
<1> DEFINE i == a + 1
           e == (a + m) + 1
<1>1. a \in Nat /\ a + (m + 1) <= Len(s) /\ Len(s) \in Nat
  BY TextIndices DEF Holds
<1>2. \A j \in 1..m + 1 : s[a + j] = line[j]
  BY DEF Holds
<1>3. i \in 1..Len(s) /\ i \in Nat \ {0} /\ e \in i..Len(s) /\ e = a + (m + 1) /\ i - 1 = a
  BY <1>1
<1>4. s[e] = LF
  <2>1. m + 1 \in 1..m + 1
    OBVIOUS
  <2>2. s[a + (m + 1)] = line[m + 1]
    BY <1>2, <2>1
  <2> QED BY <1>3, <2>2
<1>5. ASSUME NEW k \in i..e - 1 PROVE s[k] # LF
  <2>1. k - a \in 1..m /\ k - a \in 1..m + 1 /\ a + (k - a) = k
    BY <1>1
  <2>2. s[a + (k - a)] = line[k - a]
    BY <1>2, <2>1
  <2> QED BY <2>1, <2>2
<1> HIDE DEF i, e
<1>6. Find(s, <<LF>>, i) = e
  BY <1>3, <1>4, <1>5, FirstAt
<1>7. LineEnd(s, i) = e
  <2>1. e # 0
    BY <1>3
  <2> QED BY <1>6, <2>1 DEF LineEnd
<1>8. SubSeq(s, i, e) = line
  <2>1. i \in Int /\ e \in Int /\ 1 <= i /\ e = (i - 1) + Len(line) /\ e <= Len(s)
    BY <1>1, <1>3
  <2>2. \A j \in 1..Len(line) : s[(i - 1) + j] = line[j]
    BY <1>2, <1>3
  <2> QED BY <2>1, <2>2, StretchIs
<1>9. getline(s, i, 16) = CString(SubSeq(s, i, LineEnd(s, i)))
  BY <1>3, LineIs
<1>10. CString(line) = line
  <2>1. ASSUME NEW j \in 1..Len(line) PROVE line[j] # NUL
    <3>1. j \in 1..m \/ j = m + 1
      OBVIOUS
    <3>2. LF # NUL
      BY DEF LF, NUL
    <3> QED BY <3>1, <3>2
  <2> QED BY <2>1, WholeCString
<1> QED BY <1>7, <1>8, <1>9, <1>10 DEF i, e

(* What is written for the chunk c, after the digits w.                    *)
SentChunk(w, c) == ((w \o CRLF) \o c) \o CRLF

LEMMA SentChunkType ==
  ASSUME NEW w \in Texts, NEW c \in Texts
  PROVE  /\ SentChunk(w, c) \in Texts /\ (w \o CRLF) \o c \in Texts /\ w \o CRLF \in Texts
         /\ CRLF \in Texts /\ Len(CRLF) = 2 /\ CRLF[1] = CR /\ CRLF[2] = LF
         /\ Len(w \o CRLF) = Len(w) + 2
         /\ Len((w \o CRLF) \o c) = (Len(w) + 2) + Len(c)
         /\ Len(SentChunk(w, c)) = ((Len(w) + 2) + Len(c)) + 2
<1>1. CRLF \in Texts /\ Len(CRLF) = 2 /\ CRLF[1] = CR /\ CRLF[2] = LF
  BY LineBreak
<1>2. w \o CRLF \in Texts /\ Len(w \o CRLF) = Len(w) + 2
  <2>1. w \o CRLF \in Texts /\ Len(w \o CRLF) = Len(w) + Len(CRLF)
    BY <1>1, Joining, Zenon
  <2> QED BY <1>1, <2>1
<1>3. (w \o CRLF) \o c \in Texts /\ Len((w \o CRLF) \o c) = (Len(w) + 2) + Len(c)
  <2>1. (w \o CRLF) \o c \in Texts /\ Len((w \o CRLF) \o c) = Len(w \o CRLF) + Len(c)
    BY <1>2, Joining, Zenon
  <2> QED BY <1>2, <2>1
<1>4. /\ ((w \o CRLF) \o c) \o CRLF \in Texts
      /\ Len(((w \o CRLF) \o c) \o CRLF) = ((Len(w) + 2) + Len(c)) + 2
  BY <1>1, <1>3, Joining
<1> QED BY <1>1, <1>2, <1>3, <1>4 DEF SentChunk

(* The line of digits before a chunk.                                      *)
LEMMA SizeLine ==
  ASSUME NEW s \in Texts, NEW a, NEW k \in Nat, k <= INT_MAX, NEW w, Spells(w, k),
         Holds(s, a, w \o CRLF)
  PROVE  /\ chunk_len(getline(s, a + 1, 16)) = k
         /\ LineEnd(s, a + 1) = (a + (Len(w) + 1)) + 1
<1> DEFINE line == w \o CRLF
           m == Len(w)
<1>1. w \in Texts /\ m \in Nat /\ \A j \in 1..m : w[j] \in Digits \cup 97..102
  BY TextIndices DEF Spells
<1>2. /\ line \in Texts /\ Len(line) = m + 2
      /\ CRLF \in Texts /\ Len(CRLF) = 2 /\ CRLF[1] = CR /\ CRLF[2] = LF
  BY <1>1, SentChunkType
<1>3. /\ \A j \in 1..m : line[j] = w[j]
      /\ line[m + 1] = CR /\ line[m + 2] = LF
  <2>1. /\ \A j \in 1..m : line[j] = w[j]
        /\ \A j \in 1..Len(CRLF) : line[m + j] = CRLF[j]
    BY <1>1, <1>2, Joining
  <2>2. 1 \in 1..Len(CRLF) /\ 2 \in 1..Len(CRLF)
    BY <1>2
  <2>3. line[m + 1] = CRLF[1] /\ line[m + 2] = CRLF[2]
    BY <2>1, <2>2
  <2> QED BY <1>2, <2>1, <2>3
<1> HIDE DEF line
<1>4. chunk_len(line) = k
  BY <1>2, <1>3, ChunkLength
<1>5. \A j \in 1..m + 1 : line[j] \notin {NUL, LF}
  <2>1. ASSUME NEW j \in 1..m + 1 PROVE line[j] \notin {NUL, LF}
    <3>1. j \in 1..m \/ j = m + 1
      BY <1>1
    <3>2. CR \notin {NUL, LF}
      BY DEF CR, LF, NUL
    <3>3. j \in 1..m => line[j] \notin {NUL, LF}
      BY <1>1, <1>3, HexByteReads
    <3> HIDE DEF m
    <3> QED BY <1>3, <3>1, <3>2, <3>3
  <2> QED BY <2>1
<1>6. getline(s, a + 1, 16) = line /\ LineEnd(s, a + 1) = (a + (m + 1)) + 1
  <2> DEFINE n == m + 1
  <2>1. n \in Nat /\ Len(line) = n + 1 /\ n + 1 = m + 2
    BY <1>1, <1>2
  <2>2. Holds(s, a, line) /\ line[n + 1] = LF
    BY <1>3, <2>1 DEF line
  <2>3. \A j \in 1..n : line[j] \notin {NUL, LF}
    BY <1>5
  <2> HIDE DEF n, m
  <2>4. getline(s, a + 1, 16) = line /\ LineEnd(s, a + 1) = (a + n) + 1
    BY <1>2, <2>1, <2>2, <2>3, LineAt
  <2> QED BY <2>4 DEF n
<1> QED BY <1>4, <1>6

(* The line after a chunk.                                                 *)
LEMMA ClosingLine ==
  ASSUME NEW s \in Texts, NEW a, Holds(s, a, CRLF)
  PROVE  getline(s, a + 1, 16) = CRLF /\ LineEnd(s, a + 1) = (a + 1) + 1
<1> DEFINE m == 1
<1>1. CRLF \in Texts /\ Len(CRLF) = 2 /\ CRLF[1] = CR /\ CRLF[2] = LF
  BY LineBreak
<1>2. m \in Nat /\ Len(CRLF) = m + 1 /\ CRLF[m + 1] = LF
  BY <1>1
<1>3. \A j \in 1..m : CRLF[j] \notin {NUL, LF}
  <2>1. CR \notin {NUL, LF}
    BY DEF CR, LF, NUL
  <2>2. \A j \in 1..m : j = 1
    OBVIOUS
  <2> QED BY <1>1, <2>1, <2>2
<1> HIDE DEF m
<1>4. getline(s, a + 1, 16) = CRLF /\ LineEnd(s, a + 1) = (a + m) + 1
  BY <1>1, <1>2, <1>3, LineAt
<1> QED BY <1>4 DEF m

(* c comes before what is read after it.                                   *)
Onto(c, rest) == [rest EXCEPT !.body = c \o @]
Whole(body, end) == [ok |-> TRUE, body |-> body, end |-> end]

LEMMA OntoWhole ==
  ASSUME NEW c, NEW body, NEW end
  PROVE  Onto(c, Whole(body, end)) = Whole(c \o body, end)
<1>1. ASSUME NEW k, NEW z
      PROVE  /\ [[ok |-> k, body |-> body, end |-> end] EXCEPT !.body = z]
                  = [ok |-> k, body |-> z, end |-> end]
             /\ [ok |-> k, body |-> body, end |-> end].body = body
  OBVIOUS
<1> QED BY <1>1, Zenon DEF Onto, Whole

(* A chunk that stands in the stream is read, and what follows it next.    *)
LEMMA ReadsChunk ==
  ASSUME NEW s \in Texts, NEW a, NEW c \in Texts, Len(c) <= INT_MAX,
         NEW w, Spells(w, Len(c)),
         Holds(s, a, SentChunk(w, c)), NEW from
  PROVE  LET e == a + Len(SentChunk(w, c))
         IN  /\ Len(c) = 0 => BodyFrom(s, from, a + 1) = Whole(<<>>, e)
             /\ Len(c) # 0 => BodyFrom(s, from, a + 1) = Onto(c, from[e + 1])
<1> DEFINE e == a + Len(SentChunk(w, c))
           i == a + 1
           p == Len(w)
           n == Len(c)
           d == (a + (p + 2)) + 1
           f == d + n
<1>1. w \in Texts /\ p \in Nat /\ n \in Nat
  BY TextIndices DEF Spells
<1>2. /\ (w \o CRLF) \o c \in Texts /\ w \o CRLF \in Texts
      /\ CRLF \in Texts /\ Len(CRLF) = 2
      /\ Len(w \o CRLF) = p + 2 /\ Len((w \o CRLF) \o c) = (p + 2) + n
      /\ Len(SentChunk(w, c)) = ((p + 2) + n) + 2
  BY <1>1, SentChunkType
<1>3. Holds(s, a, (w \o CRLF) \o c) /\ Holds(s, a + ((p + 2) + n), CRLF)
  <2>1. Holds(s, a, ((w \o CRLF) \o c) \o CRLF)
    BY DEF SentChunk
  <2> QED BY <1>2, <2>1, HoldsBoth
<1>4. Holds(s, a, w \o CRLF) /\ Holds(s, a + (p + 2), c)
  BY <1>2, <1>3, HoldsBoth
<1>5. a \in Nat /\ a + (((p + 2) + n) + 2) <= Len(s) /\ Len(s) \in Nat
  BY <1>2, TextIndices DEF Holds
<1> HIDE DEF p, n
<1>6. chunk_len(getline(s, i, 16)) = n /\ LineEnd(s, i) = (a + (p + 1)) + 1
  <2>1. n \in Nat /\ n <= INT_MAX /\ Spells(w, n)
    BY <1>1 DEF n
  <2> QED BY <1>4, <2>1, SizeLine DEF p
<1>7. /\ (a + (p + 1)) + 1 + 1 = d /\ d + n = f /\ f = (a + ((p + 2) + n)) + 1
      /\ e = f + 1 /\ f <= Len(s) /\ d \in Int /\ f \in Int /\ i <= Len(s) /\ 1 <= d
      /\ f - 1 = (d - 1) + n /\ d - 1 = a + (p + 2) /\ f - 1 \in Int /\ f - 1 <= Len(s)
      /\ i \in Int
  BY <1>1, <1>2, <1>5
<1>8. getline(s, f, 16) = CRLF /\ LineEnd(s, f) = f + 1
  <2> DEFINE b == a + ((p + 2) + n)
  <2>1. Holds(s, b, CRLF) /\ f = b + 1
    BY <1>3, <1>7
  <2> HIDE DEF b, f
  <2> QED BY <2>1, ClosingLine
<1>9. SubSeq(s, d, f - 1) = c
  <2>1. \A j \in 1..Len(c) : s[(a + (p + 2)) + j] = c[j]
    BY <1>4 DEF Holds
  <2> HIDE DEF d, f
  <2>2. \A j \in 1..Len(c) : s[(d - 1) + j] = c[j]
    BY <1>7, <2>1
  <2>3. f - 1 = (d - 1) + Len(c)
    BY <1>7 DEF n
  <2> QED BY <1>7, <2>2, <2>3, StretchIs
<1> HIDE DEF d, e, f, i
<1>10. ChunkData(s, i) = d /\ ChunkAfter(s, i) = f
  BY <1>6, <1>7 DEF ChunkData, ChunkAfter
<1>11. ChunkClosed(s, i)
  BY <1>7, <1>8, <1>10 DEF ChunkClosed
<1>12. ~ ChunkFails(s, i)
  <2>1. n # Aborted /\ ~ (f > Len(s))
    BY <1>1, <1>5, <1>7 DEF Aborted
  <2> QED BY <1>6, <1>10, <1>11, <2>1 DEF ChunkFails
<1>13. ~ (i > Len(s))
  BY <1>5, <1>7
<1>14. CASE n = 0
  <2>1. BodyFrom(s, from, i) = BodyEnd(s, i)
    BY <1>6, <1>11, <1>12, <1>13, <1>14 DEF BodyFrom
  <2>2. BodyEnd(s, i) = Whole(<<>>, e)
    BY <1>7, <1>8, <1>10 DEF BodyEnd, Whole
  <2> QED BY <1>14, <2>1, <2>2 DEF e, i, n
<1>15. CASE n # 0
  <2>1. BodyFrom(s, from, i)
          = [from[LineEnd(s, ChunkAfter(s, i)) + 1] EXCEPT
               !.body = SubSeq(s, ChunkData(s, i), ChunkAfter(s, i) - 1) \o @]
    BY <1>6, <1>11, <1>12, <1>13, <1>15, Zenon DEF BodyFrom
  <2>2. BodyFrom(s, from, i) = Onto(c, from[e + 1])
    BY <1>7, <1>8, <1>9, <1>10, <2>1 DEF Onto
  <2> QED BY <1>15, <2>2 DEF e, i, n
<1> QED BY <1>14, <1>15

(* The chunks written for two texts, the empty one last.                   *)
SentChunks(t, r) ==
  [i \in 1..Len(Contents(t, r)) + 1 |->
    LET chunk == IF i > Len(Contents(t, r)) THEN <<>> ELSE Contents(t, r)[i]
    IN  SentChunk(from_i_to_hex(Len(chunk)), chunk)]

ChunkOf(c) == SentChunk(from_i_to_hex(Len(c)), c)

LEMMA ChunkOfType ==
  ASSUME NEW c \in Texts
  PROVE  ChunkOf(c) \in Texts /\ Spells(from_i_to_hex(Len(c)), Len(c))
<1>1. Len(c) \in Nat
  BY TextIndices
<1>2. Spells(from_i_to_hex(Len(c)), Len(c))
  BY <1>1, HexSpelled
<1>3. from_i_to_hex(Len(c)) \in Texts
  BY <1>2 DEF Spells
<1>4. SentChunk(from_i_to_hex(Len(c)), c) \in Texts
  BY <1>3, SentChunkType
<1> QED BY <1>2, <1>4 DEF ChunkOf

LEMMA ReadsChunkOf ==
  ASSUME NEW s \in Texts, NEW a, NEW c \in Texts, Len(c) <= INT_MAX,
         Holds(s, a, ChunkOf(c)), NEW from
  PROVE  LET e == a + Len(ChunkOf(c))
         IN  /\ Len(c) = 0 => BodyFrom(s, from, a + 1) = Whole(<<>>, e)
             /\ Len(c) # 0 => BodyFrom(s, from, a + 1) = Onto(c, from[e + 1])
<1>1. PICK w : w = from_i_to_hex(Len(c))
  OBVIOUS
<1>2. Spells(w, Len(c)) /\ ChunkOf(c) = SentChunk(w, c)
  BY <1>1, ChunkOfType DEF ChunkOf
<1>3. Holds(s, a, SentChunk(w, c))
  BY <1>2
<1>4. LET e == a + Len(SentChunk(w, c))
      IN  /\ Len(c) = 0 => BodyFrom(s, from, a + 1) = Whole(<<>>, e)
          /\ Len(c) # 0 => BodyFrom(s, from, a + 1) = Onto(c, from[e + 1])
  BY <1>2, <1>3, ReadsChunk
<1> QED BY <1>2, <1>4

LEMMA ChunkedIs ==
  ASSUME NEW t \in Texts, NEW r \in Texts
  PROVE  /\ SentChunks(t, r) \in Seq(Texts) /\ Len(SentChunks(t, r)) = 3
         /\ SentChunks(t, r)[1] = ChunkOf(t) /\ SentChunks(t, r)[2] = ChunkOf(r)
         /\ SentChunks(t, r)[3] = ChunkOf(<<>>)
         /\ write_chunked(<<t, r>>) = FlattenSeq(SentChunks(t, r))
<1> DEFINE cs == Contents(t, r)
           seqs == SentChunks(t, r)
           chunk(i) == IF i > Len(cs) THEN <<>> ELSE cs[i]
<1>1. Len(cs) = 2 /\ cs[1] = t /\ cs[2] = r /\ cs = <<t, r>>
  BY DEF Contents
<1>2. <<>> \in Texts
  BY EmptySeq DEF Texts
<1>3. chunk(1) = t /\ chunk(2) = r /\ chunk(3) = <<>>
  <2> HIDE DEF cs
  <2> QED BY <1>1
<1>4. seqs = [i \in 1..Len(cs) + 1 |-> ChunkOf(chunk(i))]
  BY DEF SentChunks, ChunkOf
<1>5. Len(cs) + 1 = 3
  <2> HIDE DEF cs
  <2> QED BY <1>1
<1>6. write_chunked(cs) = FlattenSeq(seqs)
  BY DEF write_chunked, SentChunks, SentChunk
<1> HIDE DEF cs, chunk, seqs
<1>7. seqs = [i \in 1..3 |-> ChunkOf(chunk(i))]
  BY <1>4, <1>5
<1>8. /\ seqs[1] = ChunkOf(chunk(1)) /\ seqs[2] = ChunkOf(chunk(2))
      /\ seqs[3] = ChunkOf(chunk(3))
  BY <1>7
<1>9. seqs[1] = ChunkOf(t) /\ seqs[2] = ChunkOf(r) /\ seqs[3] = ChunkOf(<<>>)
  BY <1>3, <1>8
<1>10. seqs \in Seq(Texts) /\ Len(seqs) = 3
  <2>1. seqs[1] \in Texts /\ seqs[2] \in Texts /\ seqs[3] \in Texts
    BY <1>2, <1>9, ChunkOfType
  <2>2. DOMAIN seqs = 1..3 /\ seqs = [n \in 1..3 |-> seqs[n]]
    BY <1>7
  <2>3. \A n \in 1..3 : seqs[n] \in Texts
    <3>1. \A n \in 1..3 : n = 1 \/ n = 2 \/ n = 3
      OBVIOUS
    <3> QED BY <2>1, <3>1
  <2> QED BY <2>2, <2>3
<1> QED BY <1>1, <1>6, <1>9, <1>10 DEF seqs

(* Where the chunks stand in the stream, whatever follows them.            *)
LEMMA ChunksLaidOut ==
  ASSUME NEW t \in Texts, NEW r \in Texts, NEW y \in Texts
  PROVE  LET x == write_chunked(<<t, r>>)
             s == x \o y
         IN  /\ s \in Texts
             /\ \E a, b \in Nat :
                  /\ a = 0 + Len(ChunkOf(t)) /\ b = a + Len(ChunkOf(r))
                  /\ Len(x) = b + Len(ChunkOf(<<>>))
                  /\ Holds(s, 0, ChunkOf(t)) /\ Holds(s, a, ChunkOf(r))
                  /\ Holds(s, b, ChunkOf(<<>>))
<1> DEFINE seqs == SentChunks(t, r)
           x == write_chunked(<<t, r>>)
           s == x \o y
<1>1. /\ seqs \in Seq(Texts) /\ Len(seqs) = 3
      /\ seqs[1] = ChunkOf(t) /\ seqs[2] = ChunkOf(r) /\ seqs[3] = ChunkOf(<<>>)
      /\ x = FlattenSeq(seqs)
  BY ChunkedIs
<1>2. PICK at : Ends(seqs, at) /\ Joined(x, seqs, at, Len(seqs))
  BY <1>1, Flattened
<1> HIDE DEF seqs, x
<1>3. /\ x \in Texts /\ Len(x) = at[3]
      /\ \A i \in 0..3 : at[i] \in Nat /\ at[i] <= at[3]
      /\ \A i \in 1..3 : \A j \in 1..Len(seqs[i]) : x[at[i - 1] + j] = seqs[i][j]
  BY <1>1, <1>2 DEF Joined
<1>4. at[0] = 0 /\ \A k \in 1..3 : at[k] = at[k - 1] + Len(seqs[k])
  BY <1>1, <1>2 DEF Ends
<1>5. /\ s \in Texts /\ Len(s) = Len(x) + Len(y)
      /\ \A i \in 1..Len(x) : s[i] = x[i]
  BY <1>3, Joining
<1>6. Len(y) \in Nat /\ \A i \in 1..3 : Len(seqs[i]) \in Nat
  BY <1>1, TextIndices
<1> HIDE DEF s
<1>7. ASSUME NEW i \in 1..3 PROVE Holds(s, at[i - 1], seqs[i])
  <2> DEFINE a == at[i - 1]
             n == Len(seqs[i])
  <2>1. a \in Nat /\ a + n <= at[3] /\ n \in Nat
    <3>1. i - 1 \in 0..3 /\ i \in 0..3
      OBVIOUS
    <3>2. at[i] = a + n /\ at[i] <= at[3] /\ a \in Nat
      BY <1>3, <1>4, <3>1
    <3> QED BY <1>6, <3>2
  <2>2. \A j \in 1..n : x[a + j] = seqs[i][j]
    BY <1>3
  <2> HIDE DEF a, n
  <2>3. a + n <= Len(s)
    BY <1>3, <1>5, <1>6, <2>1
  <2>4. ASSUME NEW j \in 1..n PROVE s[a + j] = seqs[i][j]
    <3>1. a + j \in 1..Len(x)
      BY <1>3, <2>1
    <3> QED BY <1>5, <2>2, <3>1
  <2> QED BY <2>1, <2>3, <2>4 DEF Holds, a, n
<1>8. /\ Holds(s, at[0], seqs[1]) /\ Holds(s, at[1], seqs[2]) /\ Holds(s, at[2], seqs[3])
      /\ at[1] = at[0] + Len(seqs[1]) /\ at[2] = at[1] + Len(seqs[2])
      /\ at[3] = at[2] + Len(seqs[3])
  <2>1. /\ 1 \in 1..3 /\ 2 \in 1..3 /\ 3 \in 1..3 /\ 1 - 1 = 0 /\ 2 - 1 = 1 /\ 3 - 1 = 2
    OBVIOUS
  <2>2. Holds(s, at[1 - 1], seqs[1]) /\ Holds(s, at[2 - 1], seqs[2]) /\ Holds(s, at[3 - 1], seqs[3])
    BY <1>7, <2>1
  <2>3. /\ at[1] = at[1 - 1] + Len(seqs[1]) /\ at[2] = at[2 - 1] + Len(seqs[2])
        /\ at[3] = at[3 - 1] + Len(seqs[3])
    BY <1>4, <2>1
  <2> QED BY <2>1, <2>2, <2>3
<1>9. at[1] \in Nat /\ at[2] \in Nat
  BY <1>3
<1>10. \E a, b \in Nat :
         /\ a = 0 + Len(ChunkOf(t)) /\ b = a + Len(ChunkOf(r))
         /\ Len(x) = b + Len(ChunkOf(<<>>))
         /\ Holds(s, 0, ChunkOf(t)) /\ Holds(s, a, ChunkOf(r))
         /\ Holds(s, b, ChunkOf(<<>>))
  <2> WITNESS at[1] \in Nat, at[2] \in Nat
  <2> QED BY <1>1, <1>3, <1>4, <1>8
<1> QED BY <1>5, <1>10 DEF s, x

LEMMA Modulus ==
  ASSUME NEW k \in Int, NEW n \in Nat \ {0}
  PROVE  k % n \in 0..n - 1
OBVIOUS

(* Two chunks are read one after the other, up to the empty one.           *)
LEMMA ReadsChunks ==
  ASSUME NEW t \in Texts, NEW r \in Texts, NEW y \in Texts,
         Len(t) # 0, Len(r) # 0, Len(t) <= INT_MAX, Len(r) <= INT_MAX
  PROVE  LET stream == write_chunked(<<t, r>>)
         IN  read_content_chunked(stream \o y)
               = [ok |-> TRUE, body |-> t \o r, end |-> Len(stream)]
<1> DEFINE x == write_chunked(<<t, r>>)
           s == x \o y
           n == <<>>
<1>1. s \in Texts
  BY ChunksLaidOut
<1>2. PICK a \in Nat, b \in Nat :
        /\ a = 0 + Len(ChunkOf(t)) /\ b = a + Len(ChunkOf(r))
        /\ Len(x) = b + Len(ChunkOf(n))
        /\ Holds(s, 0, ChunkOf(t)) /\ Holds(s, a, ChunkOf(r)) /\ Holds(s, b, ChunkOf(n))
  BY ChunksLaidOut
<1>3. n \in Texts /\ Len(n) = 0 /\ Len(n) <= INT_MAX /\ r \o n = r
  <2>1. n \in Texts /\ Len(n) = 0
    BY EmptySeq DEF Texts
  <2>3. 0 <= INT_MAX
    BY DEF INT_MAX
  <2>2. r \in Seq(Int)
    BY DEF Texts
  <2> QED BY <2>1, <2>2, <2>3
<1>4. PICK from :
        /\ \A i \in 1..Len(s) + 1 : from[i] = BodyFrom(s, from, i)
        /\ read_content_chunked(s) = from[1]
  BY <1>1, BodySolves
<1> HIDE DEF s, x, n
<1>5. ASSUME NEW c, NEW k \in Nat, Holds(s, k, ChunkOf(c)), c \in Texts
      PROVE  from[k + 1] = BodyFrom(s, from, k + 1)
  <2>1. k + 1 \in 1..Len(s) + 1
    <3>1. Len(ChunkOf(c)) \in Nat /\ Len(s) \in Nat
      BY <1>1, <1>5, ChunkOfType, TextIndices
    <3>2. k + Len(ChunkOf(c)) <= Len(s)
      BY <1>5 DEF Holds
    <3> QED BY <3>1, <3>2
  <2> QED BY <1>4, <2>1
<1>6. ASSUME NEW c, NEW k \in Nat, Holds(s, k, ChunkOf(c)), c \in Texts, Len(c) <= INT_MAX,
             NEW e, e = k + Len(ChunkOf(c))
      PROVE  /\ Len(c) = 0 => from[k + 1] = Whole(<<>>, e)
             /\ Len(c) # 0 => from[k + 1] = Onto(c, from[e + 1])
  <2>1. c \in Texts /\ s \in Texts /\ Len(c) <= INT_MAX /\ Holds(s, k, ChunkOf(c))
    BY <1>1, <1>6
  <2>2. /\ Len(c) = 0 => BodyFrom(s, from, k + 1) = Whole(<<>>, k + Len(ChunkOf(c)))
        /\ Len(c) # 0 => BodyFrom(s, from, k + 1) = Onto(c, from[(k + Len(ChunkOf(c))) + 1])
    <3> HIDE DEF s
    <3> QED BY <2>1, ReadsChunkOf
  <2>3. /\ Len(c) = 0 => BodyFrom(s, from, k + 1) = Whole(<<>>, e)
        /\ Len(c) # 0 => BodyFrom(s, from, k + 1) = Onto(c, from[e + 1])
    BY <1>6, <2>2, Zenon
  <2>4. from[k + 1] = BodyFrom(s, from, k + 1)
    BY <1>5, <1>6
  <2> QED BY <2>3, <2>4, Zenon
<1>7. from[b + 1] = Whole(n, Len(x))
  <2>1. from[b + 1] = Whole(<<>>, Len(x))
    BY <1>2, <1>3, <1>6, Zenon
  <2> QED BY <2>1 DEF n
<1>8. from[a + 1] = Onto(r, from[b + 1])
  BY <1>2, <1>6, Zenon
<1>9. from[0 + 1] = Onto(t, from[a + 1])
  <2>1. 0 \in Nat
    OBVIOUS
  <2> QED BY <1>2, <1>6, <2>1, Zenon
<1>10. from[a + 1] = Whole(r, Len(x))
  <2>1. from[a + 1] = Whole(r \o n, Len(x))
    BY <1>7, <1>8, OntoWhole, Zenon
  <2> QED BY <1>3, <2>1, Zenon
<1>11. from[0 + 1] = Whole(t \o r, Len(x))
  BY <1>9, <1>10, OntoWhole, Zenon
<1>12. from[0 + 1] = from[1]
  OBVIOUS
<1> QED BY <1>4, <1>11, <1>12 DEF s, x, Whole

(* A body sent in two chunks arrives, and what follows it is left in the   *)
(* stream, proved for all texts whose length an int holds four times.      *)
THEOREM ChunksArrive == Spec => []ChunkedArrives
<1>1. ASSUME TextOK PROVE ChunkedArrives
  <2> SUFFICES ASSUME text # <<>>, 4 * Len(text) <= INT_MAX
               PROVE  LET long == [i \in 1..4 * Len(text) |-> text[((i - 1) % Len(text)) + 1]]
                          stream == write_chunked(<<text, long>>)
                      IN  read_content_chunked(stream \o text)
                            = [ok |-> TRUE, body |-> text \o long, end |-> Len(stream)]
    BY DEF ChunkedArrives
  <2> DEFINE long == [i \in 1..4 * Len(text) |-> text[((i - 1) % Len(text)) + 1]]
  <2>1. text \in Texts /\ text \in Seq(Byte)
    BY <1>1, BytesAreTexts DEF TextOK
  <2>2. Len(text) \in Nat \ {0}
    BY <2>1
  <2>3. long \in Texts /\ Len(long) # 0 /\ Len(long) <= INT_MAX
    <3> DEFINE n == Len(text)
               m == 4 * n
    <3>1. m \in Nat \ {0} /\ m <= INT_MAX
      BY <2>2
    <3>2. ASSUME NEW i \in 1..m PROVE text[((i - 1) % n) + 1] \in Int
      <4>1. i - 1 \in Int
        BY <3>1
      <4>2. (i - 1) % n \in 0..n - 1
        BY <2>2, <4>1, Modulus
      <4>3. ((i - 1) % n) + 1 \in 1..n
        BY <2>2, <4>2
      <4> QED BY <2>1, <4>3, TextIndices
    <3>3. long = [i \in 1..m |-> text[((i - 1) % n) + 1]]
      OBVIOUS
    <3> HIDE DEF m, n, long
    <3> QED BY <3>1, <3>2, <3>3 DEF Texts
  <2> HIDE DEF long
  <2>4. Len(text) # 0 /\ Len(text) <= INT_MAX
    BY <2>2 DEF INT_MAX
  <2>5. LET stream == write_chunked(<<text, long>>)
        IN  read_content_chunked(stream \o text)
              = [ok |-> TRUE, body |-> text \o long, end |-> Len(stream)]
    BY <2>1, <2>3, <2>4, ReadsChunks
  <2> QED BY <2>5 DEF long
<1> QED BY <1>1, TextType, PTL
=============================================================================
