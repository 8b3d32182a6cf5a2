---------------------------- MODULE AnnexBProofs ----------------------------
(***************************************************************************)
(* The Annex-B parser, for any stream of NAL units and any way of cutting  *)
(* it into reads.                                                          *)
(*                                                                         *)
(* The scanner and the concatenations are recursive.  What they compute is *)
(* proved by induction over a set of numbers, which needs no operator as a *)
(* parameter: a set that holds 0 and with every number the next one is     *)
(* Nat.                                                                    *)
(***************************************************************************)
EXTENDS AnnexB, SequenceTheorems, FiniteSetTheorems, WellFoundedInduction,
        TLAPS

-----------------------------------------------------------------------------
(* Induction.                                                              *)

Below == {p \in Nat \X Nat : p[1] < p[2]}

LEMMA Least ==
  ASSUME NEW T \in SUBSET Nat, T # {}
  PROVE  \E m \in T : \A k \in T : m <= k
<1>1. IsWellFoundedOn(Below, Nat)
  BY NatLessThanWellFounded, Zenon DEF OpToRel, Below
<1>2. PICK m \in T : \A k \in T : <<k, m>> \notin Below
  BY <1>1, WFMin, Zenon
<1>3. ASSUME NEW k \in T
      PROVE  m <= k
  <2>1. <<k, m>> \notin Below
    BY <1>2, Zenon
  <2> QED
    BY <2>1 DEF Below
<1> QED
  BY <1>3

LEMMA Induction ==
  ASSUME NEW S \in SUBSET Nat, 0 \in S,
         \A n \in Nat : n \in S => n + 1 \in S
  PROVE  S = Nat
<1> SUFFICES ASSUME Nat \ S # {}
             PROVE  FALSE
  OBVIOUS
<1>1. PICK m \in Nat \ S : \A k \in Nat \ S : m <= k
  BY Least
<1>2. m # 0 /\ m - 1 \in Nat
  BY <1>1
<1>3. m - 1 \in S
  BY <1>1, <1>2
<1> QED
  BY <1>1, <1>2, <1>3

-----------------------------------------------------------------------------
(* Concatenations.  The sums of a sequence of sequences are what FlattenSeq *)
(* has put together after each of them.                                    *)

Adds(g, s, i) == g[i] = g[i - 1] \o s[i]

Sums(g, s, n) ==
  /\ g[0] = <<>>
  /\ \A i \in 1..n : Adds(g, s, i)

LEMMA SumsExist ==
  ASSUME NEW S, NEW L \in Nat, NEW s \in [1..L -> Seq(S)]
  PROVE  \E g \in [0..L -> Seq(S)] : Sums(g, s, L)
<1> DEFINE D == 0..L
           N == {n \in Nat : n <= L => \E g \in [D -> Seq(S)] : Sums(g, s, n)}
<1>1. 0 \in N
  <2>1. [i \in D |-> <<>>] \in [D -> Seq(S)]
    OBVIOUS
  <2>2. Sums([i \in D |-> <<>>], s, 0)
    BY DEF Sums
  <2> QED
    BY <2>1, <2>2
<1>2. ASSUME NEW n \in Nat, n \in N
      PROVE  n + 1 \in N
  <2> SUFFICES ASSUME n + 1 <= L
               PROVE  \E g \in [D -> Seq(S)] : Sums(g, s, n + 1)
    OBVIOUS
  <2>1. PICK g \in [D -> Seq(S)] : Sums(g, s, n)
    BY <1>2
  <2> DEFINE h == [i \in D |-> IF i = n + 1 THEN g[n] \o s[n + 1] ELSE g[i]]
  <2>2. g[n] \in Seq(S) /\ s[n + 1] \in Seq(S)
    OBVIOUS
  <2>3. h \in [D -> Seq(S)]
    BY <2>2
  <2>4. h[0] = <<>>
    BY <2>1 DEF Sums
  <2>5. \A i \in 1..n : h[i] = g[i] /\ h[i - 1] = g[i - 1]
    OBVIOUS
  <2>6. n + 1 \in D /\ n \in D /\ (n + 1) - 1 = n /\ n # n + 1
    OBVIOUS
  <2>7. h[n + 1] = g[n] \o s[n + 1] /\ h[n] = g[n]
    BY <2>6, Zenon
  <2> HIDE DEF h
  <2>8. ASSUME NEW i \in 1..(n + 1)
        PROVE  Adds(h, s, i)
    <3>1. CASE i = n + 1
      BY <2>6, <2>7, <3>1 DEF Adds
    <3>2. CASE i \in 1..n
      <4>1. Adds(g, s, i)
        BY <2>1, <3>2 DEF Sums
      <4> QED
        BY <4>1, <2>5, <3>2 DEF Adds
    <3> QED
      BY <3>1, <3>2
  <2>9. Sums(h, s, n + 1)
    BY <2>4, <2>8 DEF Sums
  <2> QED
    BY <2>3, <2>9
<1>3. L \in N
  <2> HIDE DEF N
  <2> QED
    BY <1>1, <1>2, Induction DEF N
<1> QED
  BY <1>3

(* Two sums of the same sequence agree.                                    *)
LEMMA SumsUnique ==
  ASSUME NEW L \in Nat, NEW s, NEW g, NEW h,
         Sums(g, s, L), Sums(h, s, L)
  PROVE  g[L] = h[L]
<1> DEFINE N == {n \in Nat : n <= L => g[n] = h[n]}
<1>1. 0 \in N
  BY DEF Sums
<1>2. ASSUME NEW n \in Nat, n \in N
      PROVE  n + 1 \in N
  <2> SUFFICES ASSUME n + 1 \in 1..L
               PROVE  g[n + 1] = h[n + 1]
    OBVIOUS
  <2>1. Adds(g, s, n + 1) /\ Adds(h, s, n + 1)
    BY DEF Sums
  <2>2. (n + 1) - 1 = n /\ g[n] = h[n]
    BY <1>2
  <2> QED
    BY <2>1, <2>2 DEF Adds
<1>3. L \in N
  <2> HIDE DEF N
  <2> QED
    BY <1>1, <1>2, Induction DEF N
<1> QED
  BY <1>3

LEMMA FlattenIs ==
  ASSUME NEW S, NEW s \in Seq(Seq(S)), NEW g \in [0..Len(s) -> Seq(S)],
         Sums(g, s, Len(s))
  PROVE  FlattenSeq(s) = g[Len(s)]
<1> DEFINE L == Len(s)
           Step(f) == [i \in 1..L |-> IF i = 1 THEN s[i] ELSE f[i - 1] \o s[i]]
<1>1. L \in Nat
  OBVIOUS
<1>2. CASE L = 0
  <2>1. FlattenSeq(s) = s
    BY <1>2, Zenon DEF FlattenSeq
  <2>2. s = <<>> /\ g[L] = <<>>
    BY <1>2 DEF Sums
  <2> QED
    BY <2>1, <2>2
<1>3. CASE L # 0
  <2> DEFINE f == CHOOSE f : f = Step(f)
             e == [i \in 1..L |-> g[i]]
  <2>1. FlattenSeq(s) = f[L]
    BY <1>3, Zenon DEF FlattenSeq
  <2>2. ASSUME NEW i \in 1..L
        PROVE  g[i] = IF i = 1 THEN s[i] ELSE e[i - 1] \o s[i]
    <3>1. g[i] = g[i - 1] \o s[i]
      BY DEF Sums, Adds
    <3>2. CASE i = 1
      <4>1. g[i - 1] = <<>>
        BY <3>2 DEF Sums
      <4>2. s[i] \in Seq(S)
        OBVIOUS
      <4>3. <<>> \o s[i] = s[i]
        BY <4>2
      <4> QED
        BY <3>1, <3>2, <4>1, <4>3, Zenon
    <3>3. CASE i # 1
      <4>1. i - 1 \in 1..L
        BY <1>1, <3>3
      <4>2. e[i - 1] = g[i - 1]
        BY <4>1, Zenon
      <4> QED
        BY <3>1, <3>3, <4>2, Zenon
    <3> QED
      BY <3>2, <3>3
  <2>3. e = Step(e)
    BY <2>2, Zenon
  <2>4. f = Step(f)
    BY <2>3, Zenon
  <2> DEFINE h == [i \in 0..L |-> IF i = 0 THEN <<>> ELSE f[i]]
  <2> HIDE DEF f
  <2>5. ASSUME NEW i \in 1..L
        PROVE  h[i] = h[i - 1] \o s[i]
    <3>0. s[i] \in Seq(S)
      OBVIOUS
    <3>1. f[i] = Step(f)[i]
      BY <2>4, Zenon
    <3>2. f[i] = IF i = 1 THEN s[i] ELSE f[i - 1] \o s[i]
      BY <3>1, Zenon
    <3>3. h[i] = f[i] /\ h[i - 1] = IF i = 1 THEN <<>> ELSE f[i - 1]
      BY <1>1
    <3> HIDE DEF h
    <3>4. CASE i = 1
      BY <3>0, <3>2, <3>3, <3>4
    <3>5. CASE i # 1
      BY <3>2, <3>3, <3>5, Zenon
    <3> QED
      BY <3>4, <3>5
  <2>6. h[0] = <<>> /\ h[L] = f[L]
    BY <1>1, <1>3
  <2> HIDE DEF h
  <2>7. Sums(h, s, L)
    BY <2>5, <2>6 DEF Sums, Adds
  <2>8. h[L] = g[L]
    BY <1>1, <2>7, SumsUnique
  <2> QED
    BY <2>1, <2>6, <2>8
<1> QED
  BY <1>2, <1>3

LEMMA FlattenSums ==
  ASSUME NEW S, NEW s \in Seq(Seq(S))
  PROVE  \E g \in [0..Len(s) -> Seq(S)] : /\ Sums(g, s, Len(s))
                                          /\ FlattenSeq(s) = g[Len(s)]
<1>1. Len(s) \in Nat /\ s \in [1..Len(s) -> Seq(S)]
  BY LenProperties
<1>2. PICK g \in [0..Len(s) -> Seq(S)] : Sums(g, s, Len(s))
  BY <1>1, SumsExist
<1> QED
  BY <1>2, FlattenIs

LEMMA FlattenType ==
  ASSUME NEW S, NEW s \in Seq(Seq(S))
  PROVE  FlattenSeq(s) \in Seq(S)
<1>1. PICK g \in [0..Len(s) -> Seq(S)] : FlattenSeq(s) = g[Len(s)]
  BY FlattenSums
<1>2. Len(s) \in 0..Len(s)
  OBVIOUS
<1> QED
  BY <1>1, <1>2, Zenon

LEMMA FlattenEmpty == FlattenSeq(<<>>) = <<>>
<1>1. Len(<<>>) = 0
  OBVIOUS
<1> QED
  BY <1>1, Zenon DEF FlattenSeq

LEMMA FlattenOne ==
  ASSUME NEW S, NEW x \in Seq(S)
  PROVE  FlattenSeq(<<x>>) = x
<1> DEFINE s == <<x>>
           g == [i \in 0..1 |-> IF i = 0 THEN <<>> ELSE x]
<1>1. s \in Seq(Seq(S)) /\ Len(s) = 1 /\ s[1] = x
  OBVIOUS
<1>2. g \in [0..1 -> Seq(S)]
  OBVIOUS
<1>3. g[0] = <<>> /\ g[1] = x
  OBVIOUS
<1>4. <<>> \o x = x
  OBVIOUS
<1> HIDE DEF s, g
<1>5. \A i \in 1..1 : Adds(g, s, i)
  <2> SUFFICES Adds(g, s, 1)
    OBVIOUS
  <2>1. 1 - 1 = 0
    OBVIOUS
  <2> QED
    BY <1>1, <1>3, <1>4, <2>1, Zenon DEF Adds
<1>6. Sums(g, s, Len(s))
  BY <1>1, <1>3, <1>5 DEF Sums
<1>7. FlattenSeq(s) = g[1]
  BY <1>1, <1>2, <1>6, FlattenIs
<1> QED
  BY <1>3, <1>7 DEF s

LEMMA FlattenConcat ==
  ASSUME NEW S, NEW s \in Seq(Seq(S)), NEW t \in Seq(Seq(S))
  PROVE  FlattenSeq(s \o t) = FlattenSeq(s) \o FlattenSeq(t)
<1> DEFINE L == Len(s)
           M == Len(t)
           u == s \o t
<1>1. PICK g \in [0..L -> Seq(S)] : Sums(g, s, L) /\ FlattenSeq(s) = g[L]
  BY FlattenSums
<1>2. PICK h \in [0..M -> Seq(S)] : Sums(h, t, M) /\ FlattenSeq(t) = h[M]
  BY FlattenSums
<1> DEFINE k == [i \in 0..(L + M) |-> IF i <= L THEN g[i] ELSE g[L] \o h[i - L]]
<1>3. /\ L \in Nat /\ M \in Nat
      /\ u \in Seq(Seq(S))
      /\ Len(u) = L + M
      /\ \A i \in 1..(L + M) : u[i] = IF i <= L THEN s[i] ELSE t[i - L]
  BY ConcatProperties, LenProperties
<1>4. /\ \A i \in 1..L : s[i] \in Seq(S)
      /\ \A i \in 1..M : t[i] \in Seq(S)
  OBVIOUS
<1> HIDE DEF L, M, u
<1>5. g[L] \in Seq(S) /\ g[0] = <<>> /\ h[0] = <<>> /\ g[L] \o <<>> = g[L]
  <2>1. g[L] \in Seq(S)
    BY <1>3
  <2> QED
    BY <1>1, <1>2, <2>1 DEF Sums
<1>6. k \in [0..(L + M) -> Seq(S)]
  <2> SUFFICES ASSUME NEW i \in 0..(L + M)
               PROVE  (IF i <= L THEN g[i] ELSE g[L] \o h[i - L]) \in Seq(S)
    BY Zenon
  <2>1. CASE i <= L
    BY <1>3, <2>1
  <2>2. CASE ~(i <= L)
    <3>1. h[i - L] \in Seq(S)
      BY <1>3, <2>2
    <3>2. g[L] \o h[i - L] \in Seq(S)
      BY <1>5, <3>1
    <3> QED
      BY <2>2, <3>2
  <2> QED
    BY <2>1, <2>2
(* From L on, k runs through g[L] followed by the sums of t.               *)
<1>7. \A j \in 0..M : k[L + j] = g[L] \o h[j]
  <2> TAKE j \in 0..M
  <2>1. L + j \in 0..(L + M) /\ (L + j <= L <=> j = 0) /\ (L + j) - L = j
    BY <1>3
  <2>2. k[L + j] = IF j = 0 THEN g[L + j] ELSE g[L] \o h[j]
    BY <2>1, Zenon
  <2>3. j = 0 => L + j = L
    BY <1>3
  <2> HIDE DEF k
  <2> QED
    BY <1>5, <2>2, <2>3, Zenon
<1>8. \A i \in 0..L : k[i] = g[i]
  BY <1>3
<1> HIDE DEF k
<1>9. ASSUME NEW i \in 1..(L + M)
      PROVE  Adds(k, u, i)
  <2>1. CASE i <= L
    <3>1. i \in 1..L /\ i \in 0..L /\ i - 1 \in 0..L
      BY <1>3, <2>1
    <3>2. Adds(g, s, i) /\ u[i] = s[i]
      BY <1>1, <1>3, <2>1, <3>1 DEF Sums
    <3> QED
      BY <1>8, <3>1, <3>2, Zenon DEF Adds
  <2>2. CASE ~(i <= L)
    <3> DEFINE j == i - L
    <3>1. /\ j \in 1..M /\ j \in 0..M /\ j - 1 \in 0..M
          /\ i = L + j /\ i - 1 = L + (j - 1)
      BY <1>3, <2>2
    <3>2. h[j] = h[j - 1] \o t[j] /\ u[i] = t[j]
      BY <1>2, <1>3, <2>2, <3>1, Zenon DEF Sums, Adds
    <3> HIDE DEF j
    <3>3. h[j - 1] \in Seq(S) /\ t[j] \in Seq(S)
      BY <1>4, <3>1
    <3>4. g[L] \o (h[j - 1] \o t[j]) = (g[L] \o h[j - 1]) \o t[j]
      <4>1. \A a, b, c \in Seq(S) : (a \o b) \o c = a \o (b \o c)
        BY ConcatAssociative, SMTT(60)
      <4> HIDE DEF k
      <4> QED
        BY <1>5, <3>3, <4>1, Zenon
    <3>5. k[i] = g[L] \o h[j] /\ k[i - 1] = g[L] \o h[j - 1]
      BY <1>7, <3>1, Zenon
    <3> QED
      BY <3>2, <3>4, <3>5, Zenon DEF Adds
  <2> QED
    BY <2>1, <2>2
<1>10. k[0] = <<>> /\ k[L + M] = g[L] \o h[M]
  <2>1. 0 \in 0..L /\ M \in 0..M
    BY <1>3
  <2> QED
    BY <1>5, <1>7, <1>8, <2>1, Zenon
<1>11. Sums(k, u, L + M)
  BY <1>9, <1>10 DEF Sums
<1>12. FlattenSeq(u) = k[L + M]
  BY <1>3, <1>6, <1>11, FlattenIs
<1> QED
  BY <1>1, <1>2, <1>10, <1>12, Zenon DEF u

LEMMA FlattenAppend ==
  ASSUME NEW S, NEW s \in Seq(Seq(S)), NEW x \in Seq(S)
  PROVE  FlattenSeq(Append(s, x)) = FlattenSeq(s) \o x
<1>1. Append(s, x) = s \o <<x>> /\ <<x>> \in Seq(Seq(S))
  BY AppendIsConcat
<1>2. FlattenSeq(<<x>>) = x
  BY FlattenOne, Zenon
<1>3. FlattenSeq(s \o <<x>>) = FlattenSeq(s) \o FlattenSeq(<<x>>)
  BY <1>1, FlattenConcat, Zenon
<1> QED
  BY <1>1, <1>2, <1>3, Zenon

LEMMA IsSeq ==
  ASSUME NEW S, NEW n \in Nat, NEW f \in [1..n -> S]
  PROVE  f \in Seq(S) /\ Len(f) = n /\ DOMAIN f = 1..n
OBVIOUS

(* What comes behind the first m of n sequences.                           *)
Begin(f, m) == [i \in 1..m |-> f[i]]

LEMMA FlattenSplit ==
  ASSUME NEW S, NEW m \in Nat, NEW n \in Nat, m <= n,
         NEW f \in [1..n -> Seq(S)]
  PROVE  \E t \in Seq(S) : FlattenSeq(f) = FlattenSeq(Begin(f, m)) \o t
<1> DEFINE a == [i \in 1..m |-> f[i]]
           b == [i \in 1..(n - m) |-> f[m + i]]
<1>1. f \in Seq(Seq(S)) /\ Len(f) = n
  BY IsSeq
<1>2. \A i \in 1..m : i \in 1..n
  OBVIOUS
<1>3. a \in [1..m -> Seq(S)] /\ \A i \in 1..m : a[i] = f[i]
  BY <1>2, Zenon
<1>4. \A i \in 1..(n - m) : m + i \in 1..n
  OBVIOUS
<1>5. b \in [1..(n - m) -> Seq(S)] /\ \A i \in 1..(n - m) : b[i] = f[m + i]
  BY <1>4, Zenon
<1>6. n - m \in Nat
  OBVIOUS
<1> HIDE DEF a, b
<1>7. /\ a \in Seq(Seq(S)) /\ Len(a) = m
      /\ b \in Seq(Seq(S)) /\ Len(b) = n - m
  BY <1>3, <1>5, <1>6, IsSeq
<1>8. /\ a \o b \in Seq(Seq(S))
      /\ Len(a \o b) = m + (n - m)
      /\ \A i \in 1..(m + (n - m)) :
           (a \o b)[i] = IF i <= m THEN a[i] ELSE b[i - m]
  <2>1. /\ a \o b \in Seq(Seq(S))
        /\ Len(a \o b) = Len(a) + Len(b)
        /\ \A i \in 1..(Len(a) + Len(b)) :
             (a \o b)[i] = IF i <= Len(a) THEN a[i] ELSE b[i - Len(a)]
    BY <1>7, ConcatProperties, Zenon
  <2> QED
    BY <1>7, <2>1, Zenon
<1>9. m + (n - m) = n
  OBVIOUS
<1>10. ASSUME NEW i \in 1..n
       PROVE  f[i] = (a \o b)[i]
  <2>1. CASE i <= m
    <3>1. i \in 1..m
      BY <2>1
    <3> QED
      BY <1>3, <1>8, <1>9, <2>1, <3>1, Zenon
  <2>2. CASE ~(i <= m)
    <3>1. i - m \in 1..(n - m) /\ m + (i - m) = i
      BY <2>2
    <3> QED
      BY <1>5, <1>8, <1>9, <2>2, <3>1, Zenon
  <2> QED
    BY <2>1, <2>2
<1>11. f = a \o b
  <2> DEFINE t == a \o b
  <2>1. t \in Seq(Seq(S)) /\ Len(f) = Len(t) /\ \A i \in 1..Len(f) : f[i] = t[i]
    BY <1>1, <1>8, <1>9, <1>10, Zenon
  <2> HIDE DEF t
  <2>2. f = t
    BY <1>1, <2>1, SeqEqual, Zenon
  <2> QED
    BY <2>2 DEF t
<1>12. FlattenSeq(f) = FlattenSeq(a) \o FlattenSeq(b)
  BY <1>7, <1>11, FlattenConcat, Zenon
<1>13. FlattenSeq(b) \in Seq(S)
  BY <1>7, FlattenType
<1> QED
  BY <1>12, <1>13, Zenon DEF a, Begin

(* One sequence more.                                                      *)
LEMMA FlattenMore ==
  ASSUME NEW S, NEW n \in Nat, NEW f \in [1..(n + 1) -> Seq(S)]
  PROVE  FlattenSeq(f) = FlattenSeq(Begin(f, n)) \o f[n + 1]
<1> DEFINE a == [i \in 1..n |-> f[i]]
           x == f[n + 1]
<1>1. f \in Seq(Seq(S)) /\ Len(f) = n + 1
  BY IsSeq
<1>2. (\A i \in 1..n : i \in 1..(n + 1)) /\ n + 1 \in 1..(n + 1)
  OBVIOUS
<1>3. a \in [1..n -> Seq(S)] /\ (\A i \in 1..n : a[i] = f[i]) /\ x \in Seq(S)
  BY <1>2, Zenon
<1> HIDE DEF a
<1>4. a \in Seq(Seq(S)) /\ Len(a) = n
  BY <1>3, IsSeq
<1>5. f = Append(a, x)
  <2> DEFINE t == Append(a, x)
  <2> HIDE DEF x
  <2>1. /\ t \in Seq(Seq(S)) /\ Len(t) = n + 1
        /\ \A i \in 1..n : t[i] = a[i]
        /\ t[n + 1] = x
    BY <1>3, <1>4, AppendProperties
  <2>2. ASSUME NEW i \in 1..(n + 1)
        PROVE  f[i] = t[i]
    <3>1. CASE i = n + 1
      BY <2>1, <3>1, Zenon DEF x
    <3>2. CASE i # n + 1
      <4>1. i \in 1..n
        BY <3>2
      <4> QED
        BY <1>3, <2>1, <4>1, Zenon
    <3> QED
      BY <3>1, <3>2
  <2> HIDE DEF t
  <2>3. f = t
    BY <1>1, <2>1, <2>2, SeqEqual, Zenon
  <2> QED
    BY <2>3 DEF t
<1> HIDE DEF x
<1>6. FlattenSeq(Append(a, x)) = FlattenSeq(a) \o x
  BY <1>3, <1>4, FlattenAppend, Zenon
<1> QED
  BY <1>5, <1>6, Zenon DEF a, x, Begin

Joins(S) == \A p, q, r \in Seq(S) : (p \o q) \o r = p \o (q \o r)

LEMMA Associative ==
  ASSUME NEW S
  PROVE  Joins(S)
BY ConcatAssociative, SMTT(60) DEF Joins

-----------------------------------------------------------------------------
(* The scan for start codes.                                               *)

Codes == [at : Int, len : {3, 4}]

CodeLen(buf, i) == IF i > 1 /\ buf[i - 1] = 0 THEN 4 ELSE 3

Code(buf, i) == [at |-> i + 3 - CodeLen(buf, i), len |-> CodeLen(buf, i)]

(* What the scan finds from i on, given what it finds from later places.   *)
ScanStep(buf, f, i) ==
  IF i + 2 > Len(buf) THEN <<>>
  ELSE IF StartCodeAt(buf, i) THEN <<Code(buf, i)>> \o f[i + CodeLen(buf, i)]
  ELSE f[i + 1]

LEMMA CodeType ==
  ASSUME NEW buf, NEW i \in Nat
  PROVE  /\ CodeLen(buf, i) \in {3, 4}
         /\ Code(buf, i) \in Codes
         /\ Code(buf, i).at = i + 3 - CodeLen(buf, i)
         /\ Code(buf, i).len = CodeLen(buf, i)
<1>1. CodeLen(buf, i) \in {3, 4}
  BY DEF CodeLen
<1> QED
  BY <1>1 DEF Code, Codes

LEMMA ScanStepAgrees ==
  ASSUME NEW buf, NEW f, NEW g, NEW i \in Nat,
         \A j \in Nat : j > i => f[j] = g[j]
  PROVE  ScanStep(buf, f, i) = ScanStep(buf, g, i)
<1>1. f[i + 1] = g[i + 1] /\ f[i + CodeLen(buf, i)] = g[i + CodeLen(buf, i)]
  BY CodeType
<1> QED
  BY <1>1, Zenon DEF ScanStep

LEMMA ScanStepType ==
  ASSUME NEW buf, NEW g \in [Nat -> Seq(Codes)], NEW i \in Nat
  PROVE  ScanStep(buf, g, i) \in Seq(Codes)
<1>1. g[i + 1] \in Seq(Codes) /\ g[i + CodeLen(buf, i)] \in Seq(Codes)
  <2>1. i + 1 \in Nat /\ i + CodeLen(buf, i) \in Nat
    BY DEF CodeLen
  <2> QED
    BY <2>1, Zenon
<1>2. <<Code(buf, i)>> \in Seq(Codes)
  BY CodeType
<1>3. <<Code(buf, i)>> \o g[i + CodeLen(buf, i)] \in Seq(Codes)
  BY <1>1, <1>2, ConcatProperties
<1>4. <<>> \in Seq(Codes)
  OBVIOUS
<1> QED
  BY <1>1, <1>3, <1>4, Zenon DEF ScanStep

(* The scan is what its recursive definition says, and ends.               *)
LEMMA ScanIs ==
  ASSUME NEW buf, Len(buf) \in Nat
  PROVE  \E g \in [Nat -> Seq(Codes)] :
           /\ \A i \in Nat : g[i] = ScanStep(buf, g, i)
           /\ start_code_positions(buf) = g[1]
<1> DEFINE L == Len(buf)
           From(g, n) == \A i \in Nat : i + n > L => g[i] = ScanStep(buf, g, i)
           N == {n \in Nat : \E g \in [Nat -> Seq(Codes)] : From(g, n)}
<1>1. 0 \in N
  <2> DEFINE g == [i \in Nat |-> <<>>]
  <2>1. g \in [Nat -> Seq(Codes)]
    OBVIOUS
  <2>2. From(g, 0)
    BY DEF ScanStep
  <2> HIDE DEF g, From
  <2> QED
    BY <2>1, <2>2
<1>2. ASSUME NEW n \in Nat, n \in N
      PROVE  n + 1 \in N
  <2>1. PICK g \in [Nat -> Seq(Codes)] : From(g, n)
    BY <1>2
  <2> DEFINE h == [i \in Nat |-> IF i + n > L THEN g[i] ELSE ScanStep(buf, g, i)]
  <2>2. h \in [Nat -> Seq(Codes)]
    BY ScanStepType
  <2>3. ASSUME NEW i \in Nat, i + (n + 1) > L
        PROVE  h[i] = ScanStep(buf, h, i)
    <3>1. \A j \in Nat : j > i => h[j] = g[j]
      BY <2>3
    <3>2. ScanStep(buf, h, i) = ScanStep(buf, g, i)
      <4> HIDE DEF h
      <4> QED
        BY <3>1, ScanStepAgrees
    <3>3. h[i] = ScanStep(buf, g, i)
      BY <2>1, Zenon
    <3> QED
      BY <3>2, <3>3, Zenon
  <2>4. From(h, n + 1)
    BY <2>3, Zenon
  <2> HIDE DEF h, From
  <2> QED
    BY <2>2, <2>4
<1>3. L + 1 \in N
  <2> HIDE DEF N
  <2> QED
    BY <1>1, <1>2, Induction DEF N
<1>4. PICK g \in [Nat -> Seq(Codes)] : From(g, L + 1)
  BY <1>3, Zenon
<1>5. \A i \in Nat : g[i] = ScanStep(buf, g, i)
  BY <1>4
<1> DEFINE f == CHOOSE f : f = [i \in Nat |-> ScanStep(buf, f, i)]
<1>6. start_code_positions(buf) = f[1]
  BY Zenon DEF start_code_positions, ScanStep, Code, CodeLen
<1>7. g = [i \in Nat |-> ScanStep(buf, g, i)]
  BY <1>5, Zenon
<1>8. f = [i \in Nat |-> ScanStep(buf, f, i)]
  BY <1>7, Zenon
<1> HIDE DEF f
<1>9. \A i \in Nat : f[i] = ScanStep(buf, f, i)
  BY <1>8, Zenon
<1> DEFINE A == {n \in Nat : \A i \in Nat : i + n > L => f[i] = g[i]}
<1>10. 0 \in A
  <2> SUFFICES ASSUME NEW i \in Nat, i > L
               PROVE  f[i] = g[i]
    OBVIOUS
  <2>1. ScanStep(buf, f, i) = <<>> /\ ScanStep(buf, g, i) = <<>>
    BY DEF ScanStep
  <2> QED
    BY <1>5, <1>9, <2>1, Zenon
<1>11. ASSUME NEW n \in Nat, n \in A
       PROVE  n + 1 \in A
  <2> SUFFICES ASSUME NEW i \in Nat, i + (n + 1) > L
               PROVE  f[i] = g[i]
    OBVIOUS
  <2>1. \A j \in Nat : j > i => f[j] = g[j]
    BY <1>11
  <2>2. ScanStep(buf, f, i) = ScanStep(buf, g, i)
    BY <2>1, ScanStepAgrees
  <2> QED
    BY <1>5, <1>9, <2>2, Zenon
<1>12. L \in A
  <2> HIDE DEF A
  <2> QED
    BY <1>10, <1>11, Induction DEF A
<1>13. f[1] = g[1]
  BY <1>12
<1> QED
  BY <1>5, <1>6, <1>13

Scans(buf, g) ==
  /\ g \in [Nat -> Seq(Codes)]
  /\ \A i \in Nat : g[i] = ScanStep(buf, g, i)

LEMMA ScanNone ==
  ASSUME NEW buf, Len(buf) \in Nat, NEW g, Scans(buf, g), NEW i \in Nat,
         \A j \in Nat : j >= i => ~StartCodeAt(buf, j)
  PROVE  g[i] = <<>>
<1> DEFINE N == {n \in Nat : \A k \in Nat :
                   k >= i /\ k + n > Len(buf) => g[k] = <<>>}
<1>1. 0 \in N
  <2> SUFFICES ASSUME NEW k \in Nat, k > Len(buf)
               PROVE  g[k] = <<>>
    OBVIOUS
  <2>1. ScanStep(buf, g, k) = <<>>
    BY DEF ScanStep
  <2> QED
    BY <2>1, Zenon DEF Scans
<1>2. ASSUME NEW n \in Nat, n \in N
      PROVE  n + 1 \in N
  <2> SUFFICES ASSUME NEW k \in Nat, k >= i, k + (n + 1) > Len(buf)
               PROVE  g[k] = <<>>
    OBVIOUS
  <2>1. g[k + 1] = <<>>
    BY <1>2
  <2>2. ~StartCodeAt(buf, k)
    OBVIOUS
  <2>3. ScanStep(buf, g, k) = <<>>
    BY <2>1, <2>2, Zenon DEF ScanStep
  <2> QED
    BY <2>3, Zenon DEF Scans
<1>3. Len(buf) + 1 \in N
  <2> HIDE DEF N
  <2> QED
    BY <1>1, <1>2, Induction DEF N
<1> QED
  BY <1>3

LEMMA ScanNext ==
  ASSUME NEW buf, Len(buf) \in Nat, NEW g, Scans(buf, g),
         NEW i \in Nat, NEW j \in Nat, i <= j, StartCodeAt(buf, j),
         \A k \in Nat : i <= k /\ k < j => ~StartCodeAt(buf, k)
  PROVE  g[i] = <<Code(buf, j)>> \o g[j + CodeLen(buf, j)]
<1> DEFINE X == <<Code(buf, j)>> \o g[j + CodeLen(buf, j)]
           N == {n \in Nat : \A k \in Nat : i <= k /\ k + n = j => g[k] = X}
<1>0. j + 2 <= Len(buf)
  BY DEF StartCodeAt
<1>1. 0 \in N
  <2> SUFFICES g[j] = X
    OBVIOUS
  <2>1. ~(j + 2 > Len(buf))
    BY <1>0
  <2>2. ScanStep(buf, g, j) = X
    BY <2>1, Zenon DEF ScanStep
  <2> QED
    BY <2>2, Zenon DEF Scans
<1> HIDE DEF X
<1>2. ASSUME NEW n \in Nat, n \in N
      PROVE  n + 1 \in N
  <2> SUFFICES ASSUME NEW k \in Nat, i <= k, k + (n + 1) = j
               PROVE  g[k] = X
    OBVIOUS
  <2>1. g[k + 1] = X
    BY <1>2
  <2>2. ~StartCodeAt(buf, k) /\ ~(k + 2 > Len(buf))
    BY <1>0
  <2>3. ScanStep(buf, g, k) = X
    BY <2>1, <2>2, Zenon DEF ScanStep
  <2> QED
    BY <2>3, Zenon DEF Scans
<1>3. j - i \in N
  <2> HIDE DEF N
  <2>1. N = Nat
    BY <1>1, <1>2, Induction DEF N
  <2> QED
    BY <2>1
<1> QED
  BY <1>3 DEF X

LEMMA NoCode ==
  ASSUME NEW buf, Len(buf) \in Nat,
         \A j \in Nat \ {0} : ~StartCodeAt(buf, j)
  PROVE  start_code_positions(buf) = <<>>
<1>1. PICK g : Scans(buf, g) /\ start_code_positions(buf) = g[1]
  BY ScanIs DEF Scans
<1>2. \A j \in Nat : j >= 1 => ~StartCodeAt(buf, j)
  OBVIOUS
<1> QED
  BY <1>1, <1>2, ScanNone

LEMMA OneCode ==
  ASSUME NEW buf, Len(buf) \in Nat, NEW c \in Nat \ {0}, StartCodeAt(buf, c),
         \A j \in Nat \ {0} : StartCodeAt(buf, j) => j = c
  PROVE  start_code_positions(buf) = <<Code(buf, c)>>
<1>1. PICK g : Scans(buf, g) /\ start_code_positions(buf) = g[1]
  BY ScanIs DEF Scans
<1>2. g[1] = <<Code(buf, c)>> \o g[c + CodeLen(buf, c)]
  <2>1. \A k \in Nat : 1 <= k /\ k < c => ~StartCodeAt(buf, k)
    OBVIOUS
  <2> QED
    BY <1>1, <2>1, ScanNext
<1> DEFINE e == c + CodeLen(buf, c)
<1>3. e \in Nat /\ e > c
  BY DEF CodeLen
<1>4. g[e] = <<>>
  <2> HIDE DEF e
  <2>1. \A k \in Nat : k >= e => ~StartCodeAt(buf, k)
    BY <1>3
  <2> QED
    BY <1>1, <1>3, <2>1, ScanNone
<1>5. <<Code(buf, c)>> \in Seq(Codes)
  BY CodeType
<1>6. <<Code(buf, c)>> \o <<>> = <<Code(buf, c)>>
  BY <1>5, ConcatEmptySeq
<1> QED
  BY <1>1, <1>2, <1>4, <1>6, Zenon

LEMMA TwoCodes ==
  ASSUME NEW buf, Len(buf) \in Nat, NEW c \in Nat \ {0}, NEW d \in Nat,
         StartCodeAt(buf, c), StartCodeAt(buf, d), c + CodeLen(buf, c) <= d,
         \A j \in 1..(d - 1) : StartCodeAt(buf, j) => j = c
  PROVE  /\ start_code_positions(buf) \in Seq(Codes)
         /\ Len(start_code_positions(buf)) > 1
         /\ start_code_positions(buf)[1] = Code(buf, c)
         /\ start_code_positions(buf)[2] = Code(buf, d)
<1>1. PICK g : Scans(buf, g) /\ start_code_positions(buf) = g[1]
  BY ScanIs DEF Scans
<1> DEFINE e == c + CodeLen(buf, c)
           r == g[d + CodeLen(buf, d)]
<1>2. e \in Nat /\ e > c /\ d + CodeLen(buf, d) \in Nat
  BY DEF CodeLen
<1>3. g[1] = <<Code(buf, c)>> \o g[e]
  <2>1. \A k \in Nat : 1 <= k /\ k < c => ~StartCodeAt(buf, k)
    BY <1>2
  <2> QED
    BY <1>1, <2>1, ScanNext
<1>4. g[e] = <<Code(buf, d)>> \o r
  <2>1. \A k \in Nat : e <= k /\ k < d => ~StartCodeAt(buf, k)
    BY <1>2
  <2> HIDE DEF e
  <2> QED
    BY <1>1, <1>2, <2>1, ScanNext, SMTT(60) DEF e
<1>5. r \in Seq(Codes) /\ Code(buf, c) \in Codes /\ Code(buf, d) \in Codes
  <2>1. r \in Seq(Codes)
    BY <1>1, <1>2, Zenon DEF Scans
  <2> QED
    BY <2>1, CodeType
<1> HIDE DEF r, e
<1>6. ASSUME NEW x \in Codes, NEW y \in Codes
      PROVE  /\ <<x>> \o (<<y>> \o r) \in Seq(Codes)
             /\ Len(<<x>> \o (<<y>> \o r)) > 1
             /\ (<<x>> \o (<<y>> \o r))[1] = x
             /\ (<<x>> \o (<<y>> \o r))[2] = y
  BY <1>5
<1>7. start_code_positions(buf) = <<Code(buf, c)>> \o (<<Code(buf, d)>> \o r)
  BY <1>1, <1>3, <1>4, Zenon
<1> HIDE DEF Code
<1> QED
  BY <1>5, <1>6, <1>7

-----------------------------------------------------------------------------
(* Where the start codes of a stream are.                                  *)

Byte == 0..255

(* What an encoder may write.                                              *)
UnitOK(u) ==
  /\ u \in [sc : {3, 4}, body : Seq(Byte)]
  /\ u.body # <<>> => u.body[Len(u.body)] # 0
  /\ \A j \in 1..Len(u.body) : ~StartCodeAt(u.body, j)

Size(u) == u.sc + Len(u.body)

(* w holds the bytes of u from offset a on.                                *)
Holds(w, a, u) ==
  /\ a + Size(u) <= Len(w)
  /\ \A j \in 1..u.sc : w[a + j] = IF j = u.sc THEN 1 ELSE 0
  /\ \A j \in 1..Len(u.body) : w[a + u.sc + j] = u.body[j]

(* What a read has brought so far of w.                                    *)
Brought(b, w) ==
  /\ b \in Seq(Byte)
  /\ Len(b) <= Len(w)
  /\ \A i \in 1..Len(b) : b[i] = w[i]

LEMMA UnitType ==
  ASSUME NEW u, UnitOK(u)
  PROVE  /\ u.sc \in {3, 4}
         /\ u.body \in Seq(Byte)
         /\ Len(u.body) \in Nat
         /\ Size(u) \in Nat
         /\ Size(u) = u.sc + Len(u.body)
<1>1. u.sc \in {3, 4} /\ u.body \in Seq(Byte)
  BY DEF UnitOK
<1> QED
  BY <1>1 DEF Size

(* The only start code in a unit is the one in front of it.                *)
LEMMA CodeInUnit ==
  ASSUME NEW w \in Seq(Byte), NEW a \in Nat, NEW u, UnitOK(u), Holds(w, a, u),
         \A i \in 1..a : w[i] # 0
  PROVE  /\ StartCodeAt(w, a + u.sc - 2)
         /\ \A j \in 1..(a + Size(u)) : StartCodeAt(w, j) => j = a + u.sc - 2
<1> DEFINE n == u.sc
           m == Len(u.body)
<1>1. n \in {3, 4} /\ m \in Nat /\ Size(u) = n + m /\ Len(w) \in Nat
  BY UnitType
<1>2. /\ a + (n + m) <= Len(w)
      /\ \A j \in 1..n : w[a + j] = IF j = n THEN 1 ELSE 0
      /\ \A j \in 1..m : w[a + n + j] = u.body[j]
  BY <1>1, Zenon DEF Holds
<1>3. /\ m # 0 => u.body[m] # 0
      /\ \A j \in 1..m : ~StartCodeAt(u.body, j)
  <2>1. u.body \in Seq(Byte)
    BY UnitType
  <2>2. m # 0 => u.body # <<>>
    BY <2>1
  <2> QED
    BY <2>2, Zenon DEF UnitOK
<1>4. StartCodeAt(w, a + n - 2)
  <2>1. w[a + n - 2] = 0 /\ w[a + n - 1] = 0 /\ w[a + n] = 1
    <3>1. n - 2 \in 1..n /\ n - 1 \in 1..n /\ n \in 1..n
      BY <1>1, SMTT(60)
    <3>2. a + (n - 2) = a + n - 2 /\ a + (n - 1) = a + n - 1
      BY <1>1
    <3>3. n - 2 # n /\ n - 1 # n
      BY <1>1
    <3> HIDE DEF n, m
    <3> QED
      BY <1>2, <3>1, <3>2, <3>3, Zenon
  <2>2. /\ (a + n - 2) + 1 = a + n - 1
        /\ (a + n - 2) + 2 = a + n
        /\ a + n <= Len(w)
    BY <1>1, <1>2, SMTT(60)
  <2> HIDE DEF n
  <2> QED
    BY <2>1, <2>2, Zenon DEF StartCodeAt
<1>5. ASSUME NEW j \in 1..(a + (n + m)), StartCodeAt(w, j), j # a + n - 2
      PROVE  FALSE
  <2>1. w[j] = 0 /\ w[j + 1] = 0 /\ w[j + 2] = 1 /\ j + 2 <= Len(w)
    BY <1>5 DEF StartCodeAt
  <2> HIDE DEF n, m
  <2>2. j > a
    BY <2>1
  <2>3. CASE j <= a + n
    <3> DEFINE i == j - a
    <3>1. i \in 1..n /\ a + i = j /\ i # n - 2
      BY <1>1, <1>5, <2>2, <2>3
    <3>2. i + 1 \in 1..n => w[j + 1] = IF i + 1 = n THEN 1 ELSE 0
      <4>1. a + (i + 1) = j + 1
        BY <1>1
      <4> QED
        BY <1>2, <4>1, Zenon
    <3>3. i + 2 \in 1..n => w[j + 2] = IF i + 2 = n THEN 1 ELSE 0
      <4>1. a + (i + 2) = j + 2
        BY <1>1
      <4> QED
        BY <1>2, <4>1, Zenon
    <3>4. w[j] = IF i = n THEN 1 ELSE 0
      BY <1>2, <3>1, Zenon
    <3> HIDE DEF i
    <3> QED
      BY <1>1, <2>1, <3>1, <3>2, <3>3, <3>4
  <2>4. CASE ~(j <= a + n)
    <3> DEFINE i == j - (a + n)
    <3>1. i \in 1..m
      BY <1>1, <2>4
    <3>2. ASSUME NEW x \in {0, 1, 2}, i + x <= m
          PROVE  w[j + x] = u.body[i + x]
      <4>1. i + x \in 1..m /\ a + n + (i + x) = j + x
        BY <1>1, <3>1, <3>2
      <4> QED
        BY <1>2, <4>1, Zenon
    <3>3. j + 0 = j /\ i + 0 = i
      BY <1>1
    <3>4. u.body[i] = 0
      BY <2>1, <3>1, <3>2, <3>3
    <3>5. i # m
      BY <1>3, <3>1, <3>4
    <3>6. i + 1 <= m /\ u.body[i + 1] = 0
      BY <1>1, <2>1, <3>1, <3>2, <3>5
    <3>7. i + 1 # m
      BY <1>1, <1>3, <3>1, <3>6
    <3>8. i + 2 <= m /\ u.body[i + 2] = 1
      BY <1>1, <2>1, <3>1, <3>2, <3>6, <3>7
    <3> HIDE DEF i
    <3>9. StartCodeAt(u.body, i)
      BY <3>4, <3>6, <3>8, Zenon DEF StartCodeAt, m
    <3> QED
      BY <1>3, <3>1, <3>9
  <2> QED
    BY <2>3, <2>4
<1> QED
  BY <1>1, <1>4, <1>5

LEMMA BroughtCode ==
  ASSUME NEW w \in Seq(Byte), NEW b, Brought(b, w), NEW j \in Nat \ {0}
  PROVE  StartCodeAt(b, j) <=> (j + 2 <= Len(b) /\ StartCodeAt(w, j))
<1>1. Len(b) \in Nat /\ Len(w) \in Nat /\ Len(b) <= Len(w)
  BY DEF Brought
<1>2. j + 2 <= Len(b) =>
        b[j] = w[j] /\ b[j + 1] = w[j + 1] /\ b[j + 2] = w[j + 2]
  BY <1>1 DEF Brought
<1>3. j + 2 <= Len(b) => j + 2 <= Len(w)
  BY <1>1
<1> QED
  BY <1>2, <1>3, Zenon DEF StartCodeAt

(* The width of a start code is read from the byte before it.              *)
LEMMA CodeOfUnit ==
  ASSUME NEW w \in Seq(Byte), NEW a \in Nat, NEW u, UnitOK(u), Holds(w, a, u),
         a # 0 => w[a] # 0,
         NEW b, Brought(b, w), a + u.sc <= Len(b)
  PROVE  Code(b, a + u.sc - 2) = [at |-> a + 1, len |-> u.sc]
<1> DEFINE n == u.sc
           c == a + n - 2
<1>1. n \in {3, 4} /\ Len(b) \in Nat
  BY UnitType DEF Brought
<1>2. \A i \in 1..Len(b) : b[i] = w[i]
  BY DEF Brought
<1>3. CodeLen(b, c) = n
  <2>1. CASE n = 3
    <3>1. c = a + 1
      BY <2>1
    <3>2. c > 1 => c - 1 = a /\ a # 0 /\ a \in 1..Len(b)
      BY <1>1, <3>1
    <3>3. c > 1 => b[c - 1] # 0
      BY <1>2, <3>2
    <3> HIDE DEF c, n
    <3> QED
      BY <2>1, <3>3 DEF CodeLen
  <2>2. CASE n = 4
    <3>1. c = a + 2 /\ c > 1 /\ c - 1 = a + 1 /\ a + 1 \in 1..Len(b)
      BY <1>1, <2>2
    <3>2. w[a + 1] = 0
      <4>1. 1 \in 1..u.sc /\ 1 # u.sc
        BY <2>2
      <4> QED
        BY <4>1, Zenon DEF Holds
    <3>3. b[c - 1] = 0
      BY <1>2, <3>1, <3>2
    <3> HIDE DEF c, n
    <3> QED
      BY <2>2, <3>1, <3>3 DEF CodeLen
  <2> QED
    BY <1>1, <2>1, <2>2
<1>4. c + 3 - n = a + 1
  BY <1>1
<1> HIDE DEF c, n
<1>5. Code(b, c) = [at |-> a + 1, len |-> n]
  BY <1>3, <1>4, Zenon DEF Code
<1> QED
  BY <1>5 DEF c, n

(* What the scan finds, according to how much of the first unit u and of   *)
(* the start code after it has been read: nothing, the start code of u,    *)
(* or also where u ends.                                                   *)
LEMMA FindsNone ==
  ASSUME NEW w \in Seq(Byte), NEW a \in Nat, NEW u, UnitOK(u), Holds(w, a, u),
         \A i \in 1..a : w[i] # 0,
         NEW b, Brought(b, w), Len(b) < a + u.sc
  PROVE  start_code_positions(b) = <<>>
<1>1. Len(b) \in Nat /\ u.sc \in {3, 4} /\ Len(u.body) \in Nat
      /\ Size(u) = u.sc + Len(u.body)
  BY UnitType DEF Brought
<1>2. ASSUME NEW j \in Nat \ {0}, StartCodeAt(b, j)
      PROVE  FALSE
  <2>1. j + 2 <= Len(b) /\ StartCodeAt(w, j)
    BY <1>2, BroughtCode
  <2>2. j \in 1..(a + Size(u))
    BY <1>1, <2>1, SMTT(60)
  <2>3. j = a + u.sc - 2
    BY <2>1, <2>2, CodeInUnit, Zenon
  <2> QED
    BY <1>1, <2>1, <2>3, SMTT(60)
<1> QED
  BY <1>1, <1>2, NoCode

(* The start code of the unit at offset e, if there is one, is not there   *)
(* yet, or not all of it.                                                  *)
Unbounded(w, e, b) ==
  \/ Len(w) = e
  \/ \E v : UnitOK(v) /\ Holds(w, e, v) /\ Len(b) < e + v.sc

LEMMA FindsOne ==
  ASSUME NEW w \in Seq(Byte), NEW a \in Nat, NEW u, UnitOK(u), Holds(w, a, u),
         \A i \in 1..a : w[i] # 0,
         NEW b, Brought(b, w), a + u.sc <= Len(b),
         Unbounded(w, a + Size(u), b)
  PROVE  start_code_positions(b) = <<[at |-> a + 1, len |-> u.sc]>>
<1> DEFINE c == a + u.sc - 2
           e == a + Size(u)
<1>1. /\ Len(b) \in Nat /\ Len(w) \in Nat
      /\ u.sc \in {3, 4} /\ Len(u.body) \in Nat
      /\ Size(u) = u.sc + Len(u.body)
      /\ Len(b) <= Len(w)
  BY UnitType DEF Brought
<1>2. c \in Nat \ {0} /\ e \in Nat /\ c + 2 <= Len(b)
  <2>1. c \in Nat \ {0}
    BY <1>1, SMTT(60)
  <2>2. e \in Nat
    BY <1>1, SMTT(60)
  <2>3. c + 2 <= Len(b)
    BY <1>1
  <2> QED
    BY <2>1, <2>2, <2>3
<1>3. StartCodeAt(b, c)
  <2>1. StartCodeAt(w, c)
    BY CodeInUnit, Zenon
  <2> HIDE DEF c
  <2> QED
    BY <1>2, <2>1, BroughtCode
<1>4. ASSUME NEW j \in Nat \ {0}, StartCodeAt(b, j)
      PROVE  j = c
  <2>1. j + 2 <= Len(b) /\ StartCodeAt(w, j)
    BY <1>4, BroughtCode
  <2>2. CASE j <= e
    <3>1. j \in 1..(a + Size(u))
      BY <1>1, <2>2
    <3> QED
      BY <2>1, <3>1, CodeInUnit, Zenon
  <2>3. CASE ~(j <= e)
    <3>0. Len(w) # e
      BY <1>1, <2>1, <2>3
    <3>1. PICK v : UnitOK(v) /\ Holds(w, e, v) /\ Len(b) < e + v.sc
      BY <3>0, Zenon DEF Unbounded
    <3>2. v.sc \in {3, 4}
      BY <3>1, UnitType
    <3>3. j + 2 = e + 3 /\ v.sc = 4
      <4>1. e + 3 <= j + 2 /\ j + 2 < e + v.sc
        BY <1>1, <1>2, <2>1, <2>3, <3>1, <3>2, SMTT(60)
      <4> HIDE DEF e
      <4>2. v.sc = 4
        BY <1>2, <3>2, <4>1
      <4>3. j + 2 = e + 3
        BY <1>2, <4>1, <4>2
      <4> QED
        BY <4>2, <4>3
    <3>4. w[e + 3] = 0
      <4>1. 3 \in 1..v.sc /\ 3 # v.sc
        BY <3>3
      <4> HIDE DEF e
      <4> QED
        BY <3>1, <4>1, Zenon DEF Holds
    <3>5. w[j + 2] = 1
      BY <2>1 DEF StartCodeAt
    <3> QED
      BY <3>3, <3>4, <3>5
  <2> QED
    BY <2>2, <2>3
<1>5. Code(b, c) = [at |-> a + 1, len |-> u.sc]
  <2>1. a # 0 => w[a] # 0
    OBVIOUS
  <2> QED
    BY <2>1, CodeOfUnit, Zenon
<1> HIDE DEF c
<1>6. start_code_positions(b) = <<Code(b, c)>>
  BY <1>1, <1>2, <1>3, <1>4, OneCode
<1> QED
  BY <1>5, <1>6, Zenon

(* The scan does not step over the start code of v.                        *)
Spaced(u, v) == u.body = <<>> /\ u.sc = 4 => v.sc = 4

LEMMA Places ==
  ASSUME NEW a \in Nat, NEW n \in {3, 4}, NEW m \in Nat, NEW k \in {3, 4},
         NEW z, z = n + m, NEW l \in Nat, a + z + k <= l
  PROVE  /\ a + n - 2 \in Nat \ {0}
         /\ a + z \in Nat
         /\ a + z + k - 2 \in Nat \ {0}
         /\ a + n <= l
         /\ (a + n - 2) + 2 <= l
         /\ (a + z + k - 2) + 2 <= l
         /\ (a + z + k - 2) = (a + z) + (k - 2)
         /\ (a + z + k - 2) + 1 = (a + z) + (k - 1)
         /\ (a + z + k - 2) + 2 = (a + z) + k
         /\ (m = 0 /\ n = 4 => k = 4) => (a + n - 2) + n <= a + z + k - 2
OBVIOUS

Bounded(w, a, u, b, v) ==
  /\ UnitOK(v) /\ Holds(w, a + Size(u), v)
  /\ a + Size(u) + v.sc <= Len(b)
  /\ Spaced(u, v)

FoundTwo(w, a, u, b, v) ==
  /\ w \in Seq(Byte) /\ a \in Nat /\ UnitOK(u) /\ Holds(w, a, u)
  /\ \A i \in 1..a : w[i] # 0
  /\ Brought(b, w) /\ Bounded(w, a, u, b, v)

LEMMA FindsTwo ==
  ASSUME NEW w, NEW a, NEW u, NEW b, NEW v, FoundTwo(w, a, u, b, v)
  PROVE  /\ start_code_positions(b) \in Seq(Codes)
         /\ Len(start_code_positions(b)) > 1
         /\ start_code_positions(b)[1] = [at |-> a + 1, len |-> u.sc]
         /\ start_code_positions(b)[2] = [at |-> a + Size(u) + 1, len |-> v.sc]
<1> /\ w \in Seq(Byte) /\ a \in Nat /\ UnitOK(u) /\ Holds(w, a, u)
    /\ \A i \in 1..a : w[i] # 0
    /\ Brought(b, w) /\ Bounded(w, a, u, b, v)
  BY DEF FoundTwo
<1> DEFINE c == a + u.sc - 2
           e == a + Size(u)
           d == e + v.sc - 2
<1> /\ UnitOK(v) /\ Holds(w, a + Size(u), v)
    /\ a + Size(u) + v.sc <= Len(b)
    /\ Spaced(u, v)
  BY DEF Bounded
<1>1. /\ Len(b) \in Nat /\ Len(w) \in Nat
      /\ u.sc \in {3, 4} /\ Len(u.body) \in Nat
      /\ Size(u) = u.sc + Len(u.body)
      /\ Len(b) <= Len(w)
      /\ v.sc \in {3, 4}
  BY UnitType DEF Brought
<1>0. /\ c \in Nat \ {0} /\ e \in Nat /\ d \in Nat \ {0}
      /\ a + u.sc <= Len(b)
      /\ c + 2 <= Len(b) /\ d + 2 <= Len(b)
      /\ d = e + (v.sc - 2) /\ d + 1 = e + (v.sc - 1) /\ d + 2 = e + v.sc
      /\ (Len(u.body) = 0 /\ u.sc = 4 => v.sc = 4) => c + u.sc <= d
  <2>1. PICK n \in {3, 4} : n = u.sc
    BY <1>1
  <2>2. PICK k \in {3, 4} : k = v.sc
    BY <1>1
  <2>3. PICK m \in Nat : m = Len(u.body)
    BY <1>1
  <2>4. PICK l \in Nat : l = Len(b)
    BY <1>1
  <2>5. PICK z : z = Size(u)
    OBVIOUS
  <2>6. z = n + m /\ a + z + k <= l
    BY <1>1, <2>1, <2>2, <2>3, <2>4, <2>5, Zenon
  <2>7. /\ a + n - 2 \in Nat \ {0}
        /\ a + z \in Nat
        /\ a + z + k - 2 \in Nat \ {0}
        /\ a + n <= l
        /\ (a + n - 2) + 2 <= l
        /\ (a + z + k - 2) + 2 <= l
        /\ (a + z + k - 2) = (a + z) + (k - 2)
        /\ (a + z + k - 2) + 1 = (a + z) + (k - 1)
        /\ (a + z + k - 2) + 2 = (a + z) + k
        /\ (m = 0 /\ n = 4 => k = 4) => (a + n - 2) + n <= a + z + k - 2
    BY <2>6, Places
  <2> QED
    BY <2>1, <2>2, <2>3, <2>4, <2>5, <2>7, Zenon
<1>2. /\ c \in Nat \ {0} /\ e \in Nat /\ d \in Nat \ {0}
      /\ c + 2 <= Len(b) /\ d + 2 <= Len(b)
  BY <1>0, Zenon
<1>3. StartCodeAt(w, c) /\ StartCodeAt(w, d)
  <2>1. StartCodeAt(w, c)
    BY CodeInUnit, Zenon
  <2>2. /\ 1 \in 1..v.sc /\ v.sc \in 1..v.sc
        /\ v.sc - 2 \in 1..v.sc /\ v.sc - 2 # v.sc
        /\ v.sc - 1 \in 1..v.sc /\ v.sc - 1 # v.sc
    BY <1>1, SMTT(60)
  <2>3. w[e + (v.sc - 2)] = 0 /\ w[e + (v.sc - 1)] = 0 /\ w[e + v.sc] = 1
    BY <2>2, Zenon DEF Holds
  <2>4. d = e + (v.sc - 2) /\ d + 1 = e + (v.sc - 1) /\ d + 2 = e + v.sc
    BY <1>0, Zenon
  <2>5. d + 2 <= Len(w)
    BY <1>1, <1>2
  <2> HIDE DEF d, c, e
  <2> QED
    BY <2>1, <2>3, <2>4, <2>5, Zenon DEF StartCodeAt
<1>4. StartCodeAt(b, c) /\ StartCodeAt(b, d)
  <2> HIDE DEF c, d
  <2> QED
    BY <1>2, <1>3, BroughtCode
<1>5. Code(b, c) = [at |-> a + 1, len |-> u.sc]
  <2>1. (a # 0 => w[a] # 0) /\ a + u.sc <= Len(b)
    BY <1>1, SMTT(60)
  <2> QED
    BY <2>1, CodeOfUnit, Zenon
(* The byte before the second code is the last of u's body, or the end of  *)
(* its start code.                                                         *)
<1>6. w[e] # 0
  <2>1. CASE Len(u.body) = 0
    <3>1. u.sc \in 1..u.sc /\ a + u.sc = e
      BY <1>1, <2>1
    <3>2. w[a + u.sc] = 1
      BY <3>1, Zenon DEF Holds
    <3> QED
      BY <3>1, <3>2
  <2>2. CASE Len(u.body) # 0
    <3>1. Len(u.body) \in 1..Len(u.body) /\ a + u.sc + Len(u.body) = e
      <4>1. Len(u.body) \in 1..Len(u.body)
        BY <1>1, <2>2
      <4>2. a + u.sc + Len(u.body) = e
        BY <1>1
      <4> QED
        BY <4>1, <4>2
    <3>2. w[a + u.sc + Len(u.body)] = u.body[Len(u.body)]
      BY <3>1, Zenon DEF Holds
    <3>3. u.body # <<>>
      BY <2>2, UnitType
    <3>4. u.body[Len(u.body)] # 0
      BY <3>3, Zenon DEF UnitOK
    <3> QED
      BY <3>1, <3>2, <3>4, Zenon
  <2> QED
    BY <2>1, <2>2
<1>7. Code(b, d) = [at |-> e + 1, len |-> v.sc]
  <2> HIDE DEF e
  <2> QED
    BY <1>2, <1>6, CodeOfUnit, Zenon DEF e
<1>8. c + CodeLen(b, c) <= d
  <2>1. CodeLen(b, c) = u.sc
    <3>1. Code(b, c).len = CodeLen(b, c)
      BY DEF Code
    <3> HIDE DEF c
    <3> QED
      BY <1>5, <3>1
  <2>2. Len(u.body) = 0 /\ u.sc = 4 => v.sc = 4
    BY UnitType DEF Spaced
  <2>4. c + u.sc <= d
    BY <1>0, <2>2, Zenon
  <2> QED
    BY <2>1, <2>4
<1>9. ASSUME NEW j \in 1..(d - 1), StartCodeAt(b, j)
      PROVE  j = c
  <2>1. j \in Nat \ {0}
    BY <1>2
  <2>2. j + 2 <= Len(b) /\ StartCodeAt(w, j)
    BY <1>9, <2>1, BroughtCode
  <2>3. CASE j <= e
    <3>1. j \in 1..(a + Size(u))
      BY <1>1, <2>1, <2>3
    <3> QED
      BY <2>2, <3>1, CodeInUnit, Zenon
  <2>4. CASE ~(j <= e)
    <3>1. j + 2 = e + 3 /\ v.sc = 4
      <4>1. d \in Nat /\ e \in Nat /\ v.sc \in {3, 4} /\ d + 2 = e + v.sc
        <5>1. d + 2 = e + v.sc
          BY <1>0, Zenon
        <5>2. d \in Nat /\ e \in Nat
          BY <1>2
        <5> QED
          BY <1>1, <5>1, <5>2, Zenon
      <4> HIDE DEF d, e
      <4>2. j < d /\ e < j
        BY <2>1, <2>4, <4>1, <1>9
      <4>3. v.sc = 4
        BY <2>1, <4>1, <4>2
      <4>4. j + 2 = e + 3
        BY <2>1, <4>1, <4>2, <4>3
      <4> QED
        BY <4>3, <4>4
    <3>2. w[e + 3] = 0
      <4>1. 3 \in 1..v.sc /\ 3 # v.sc
        BY <3>1
      <4> QED
        BY <4>1, Zenon DEF Holds
    <3>3. w[j + 2] = 1
      BY <2>2 DEF StartCodeAt
    <3> QED
      BY <3>1, <3>2, <3>3
  <2> QED
    BY <2>3, <2>4
<1> HIDE DEF c, d, e
<1>10. /\ start_code_positions(b) \in Seq(Codes)
       /\ Len(start_code_positions(b)) > 1
       /\ start_code_positions(b)[1] = Code(b, c)
       /\ start_code_positions(b)[2] = Code(b, d)
  BY <1>1, <1>2, <1>4, <1>8, <1>9, TwoCodes
<1> QED
  BY <1>5, <1>7, <1>10, Zenon DEF e

-----------------------------------------------------------------------------
(* The stream that is left behind its first k units.                       *)

StreamOK ==
  /\ Len(stream) \in Nat
  /\ \A i \in 1..Len(stream) : UnitOK(stream[i])

Pieces(k) == [i \in 1..(Len(stream) - k) |-> Bytes(stream[k + i])]

Rest(k) == FlattenSeq(Pieces(k))

LEMMA StreamIsOK ==
  ASSUME codec \in Codecs, stream \in Streams[codec]
  PROVE  StreamOK /\ DOMAIN stream = 1..Len(stream)
<1> DEFINE U == [sc : {3, 4}, body : Seq(Byte)]
<1>1. /\ stream \in Seq(U)
      /\ \A i \in DOMAIN stream :
           /\ stream[i].body # <<>> => Last(stream[i].body) # 0
           /\ \A j \in DOMAIN stream[i].body : ~StartCodeAt(stream[i].body, j)
  BY AnnexBAssumption, Zenon DEF Byte
<1>2. Len(stream) \in Nat /\ DOMAIN stream = 1..Len(stream)
      /\ \A i \in 1..Len(stream) : stream[i] \in U
  BY <1>1, LenProperties, ElementOfSeq
<1>3. ASSUME NEW i \in 1..Len(stream)
      PROVE  UnitOK(stream[i])
  <2>1. stream[i] \in U
    BY <1>2
  <2>2. stream[i].body \in Seq(Byte)
    BY <2>1
  <2>3. DOMAIN stream[i].body = 1..Len(stream[i].body)
    BY <2>2, LenProperties
  <2>4. Last(stream[i].body) = stream[i].body[Len(stream[i].body)]
    BY DEF Last
  <2>5. /\ stream[i].body # <<>> => Last(stream[i].body) # 0
        /\ \A j \in DOMAIN stream[i].body : ~StartCodeAt(stream[i].body, j)
    BY <1>1, <1>2, Zenon
  <2> QED
    BY <2>1, <2>3, <2>4, <2>5, Zenon DEF UnitOK
<1> QED
  BY <1>2, <1>3 DEF StreamOK

LEMMA BytesIs ==
  ASSUME NEW u, UnitOK(u)
  PROVE  /\ Bytes(u) \in Seq(Byte)
         /\ Len(Bytes(u)) = Size(u)
         /\ \A j \in 1..u.sc : Bytes(u)[j] = IF j = u.sc THEN 1 ELSE 0
         /\ \A j \in 1..Len(u.body) : Bytes(u)[u.sc + j] = u.body[j]
<1> DEFINE code == IF u.sc = 3 THEN <<0, 0, 1>> ELSE <<0, 0, 0, 1>>
           body == u.body
           n == u.sc
<1>1. body \in Seq(Byte) /\ n \in {3, 4} /\ Size(u) = n + Len(body)
      /\ Len(body) \in Nat
  BY UnitType
<1>2. code \in Seq(Byte) /\ Len(code) = n
      /\ \A j \in 1..n : code[j] = IF j = n THEN 1 ELSE 0
  <2>1. CASE u.sc = 3
    <3>1. <<0, 0, 1>> \in Seq(Byte) /\ Len(<<0, 0, 1>>) = 3
          /\ \A j \in 1..3 : <<0, 0, 1>>[j] = IF j = 3 THEN 1 ELSE 0
      BY DEF Byte
    <3> QED
      BY <2>1, <3>1
  <2>2. CASE u.sc = 4
    <3>1. <<0, 0, 0, 1>> \in Seq(Byte) /\ Len(<<0, 0, 0, 1>>) = 4
          /\ \A j \in 1..4 : <<0, 0, 0, 1>>[j] = IF j = 4 THEN 1 ELSE 0
      BY DEF Byte
    <3> QED
      BY <2>2, <3>1
  <2> QED
    BY <1>1, <2>1, <2>2
<1>3. Bytes(u) = code \o body
  BY Zenon DEF Bytes
<1> HIDE DEF code, body, n
<1>4. /\ code \o body \in Seq(Byte)
      /\ Len(code \o body) = n + Len(body)
      /\ \A i \in 1..(n + Len(body)) :
           (code \o body)[i] = IF i <= n THEN code[i] ELSE body[i - n]
  BY <1>1, <1>2, ConcatProperties
<1>5. \A j \in 1..n : (code \o body)[j] = IF j = n THEN 1 ELSE 0
  BY <1>1, <1>2, <1>4
<1>6. ASSUME NEW j \in 1..Len(body)
      PROVE  (code \o body)[n + j] = body[j]
  <2>1. n + j \in 1..(n + Len(body)) /\ ~(n + j <= n) /\ (n + j) - n = j
    BY <1>1
  <2> QED
    BY <1>4, <2>1, Zenon
<1> QED
  BY <1>1, <1>3, <1>4, <1>5, <1>6, Zenon DEF n, body

LEMMA PiecesType ==
  ASSUME StreamOK, NEW k \in 0..Len(stream)
  PROVE  /\ Pieces(k) \in Seq(Seq(Byte))
         /\ Len(Pieces(k)) = Len(stream) - k
         /\ \A i \in 1..(Len(stream) - k) : Pieces(k)[i] = Bytes(stream[k + i])
<1> DEFINE n == Len(stream) - k
<1>1. Len(stream) \in Nat /\ n \in Nat
  BY DEF StreamOK
<1>2. ASSUME NEW i \in 1..n
      PROVE  Bytes(stream[k + i]) \in Seq(Byte)
  <2>1. k + i \in 1..Len(stream)
    BY <1>1
  <2>2. UnitOK(stream[k + i])
    BY <2>1, Zenon DEF StreamOK
  <2> QED
    BY <2>2, BytesIs
<1>3. Pieces(k) \in [1..n -> Seq(Byte)]
  BY <1>2, Zenon DEF Pieces
<1>4. \A i \in 1..n : Pieces(k)[i] = Bytes(stream[k + i])
  BY Zenon DEF Pieces
<1> HIDE DEF n
<1> QED
  BY <1>1, <1>3, <1>4, SMTT(60) DEF n

LEMMA RestType ==
  ASSUME StreamOK, NEW k \in 0..Len(stream)
  PROVE  Rest(k) \in Seq(Byte)
BY PiecesType, FlattenType DEF Rest

LEMMA RestEnds ==
  ASSUME StreamOK
  PROVE  Rest(Len(stream)) = <<>>
<1>1. Len(stream) \in 0..Len(stream) /\ Len(stream) - Len(stream) = 0
  BY DEF StreamOK
<1>2. /\ Pieces(Len(stream)) \in Seq(Seq(Byte))
      /\ Len(Pieces(Len(stream))) = 0
  BY <1>1, PiecesType
<1>3. Pieces(Len(stream)) = <<>>
  BY <1>2
<1> QED
  BY <1>3, FlattenEmpty, Zenon DEF Rest

LEMMA RestStep ==
  ASSUME StreamOK, NEW k \in 0..Len(stream), k # Len(stream)
  PROVE  Rest(k) = Bytes(stream[k + 1]) \o Rest(k + 1)
<1> DEFINE b == Bytes(stream[k + 1])
           n == Len(stream) - (k + 1)
<1>0. k \in Nat
  BY DEF StreamOK
<1>1. /\ Len(stream) \in Nat /\ n \in Nat /\ k + 1 \in 0..Len(stream)
      /\ k + 1 \in 1..Len(stream)
      /\ Len(stream) - k = n + 1
  BY DEF StreamOK
<1>2. b \in Seq(Byte)
  <2>1. UnitOK(stream[k + 1])
    BY <1>1, Zenon DEF StreamOK
  <2> QED
    BY <2>1, BytesIs
<1>3. /\ Pieces(k) \in Seq(Seq(Byte))
      /\ Len(Pieces(k)) = n + 1
      /\ \A i \in 1..(n + 1) : Pieces(k)[i] = Bytes(stream[k + i])
  BY <1>1, PiecesType, Zenon
<1>4. /\ Pieces(k + 1) \in Seq(Seq(Byte))
      /\ Len(Pieces(k + 1)) = n
      /\ \A i \in 1..n : Pieces(k + 1)[i] = Bytes(stream[(k + 1) + i])
  BY <1>1, PiecesType, Zenon
<1>5. /\ <<b>> \in Seq(Seq(Byte))
      /\ <<b>> \o Pieces(k + 1) \in Seq(Seq(Byte))
      /\ Len(<<b>> \o Pieces(k + 1)) = n + 1
      /\ \A i \in 1..(n + 1) : (<<b>> \o Pieces(k + 1))[i] =
           IF i <= 1 THEN b ELSE Pieces(k + 1)[i - 1]
  <2> HIDE DEF n, b
  <2>1. <<b>> \in Seq(Seq(Byte)) /\ Len(<<b>>) = 1 /\ <<b>>[1] = b
    BY <1>2
  <2>2. /\ <<b>> \o Pieces(k + 1) \in Seq(Seq(Byte))
        /\ Len(<<b>> \o Pieces(k + 1)) = 1 + n
        /\ \A i \in 1..(1 + n) : (<<b>> \o Pieces(k + 1))[i] =
             IF i <= 1 THEN <<b>>[i] ELSE Pieces(k + 1)[i - 1]
    BY <1>4, <2>1, ConcatProperties
  <2>3. 1 + n = n + 1 /\ \A i \in 1..(n + 1) : i <= 1 => i = 1
    BY <1>1
  <2> QED
    BY <2>1, <2>2, <2>3, Zenon
<1>6. ASSUME NEW i \in 1..(n + 1)
      PROVE  Pieces(k)[i] = (<<b>> \o Pieces(k + 1))[i]
  <2>1. CASE i = 1
    <3>1. i <= 1
      BY <2>1
    <3> QED
      BY <1>3, <1>5, <2>1, <3>1, Zenon
  <2>2. CASE i # 1
    <3>1. ~(i <= 1) /\ i - 1 \in 1..n /\ (k + 1) + (i - 1) = k + i
      <4> HIDE DEF n
      <4> QED
        BY <1>0, <1>1, <2>2
    <3> QED
      BY <1>3, <1>4, <1>5, <3>1, Zenon
  <2> QED
    BY <2>1, <2>2
<1> HIDE DEF n, b
<1>7. Pieces(k) = <<b>> \o Pieces(k + 1)
  <2> DEFINE s == Pieces(k)
             t == <<b>> \o Pieces(k + 1)
  <2>1. s \in Seq(Seq(Byte)) /\ t \in Seq(Seq(Byte)) /\ Len(s) = Len(t)
        /\ \A i \in 1..Len(s) : s[i] = t[i]
    BY <1>3, <1>5, <1>6, Zenon
  <2> HIDE DEF s, t
  <2>2. s = t
    BY <2>1, SeqEqual, Zenon
  <2> QED
    BY <2>2 DEF s, t
<1>8. FlattenSeq(<<b>> \o Pieces(k + 1)) =
        FlattenSeq(<<b>>) \o FlattenSeq(Pieces(k + 1))
  BY <1>4, <1>5, FlattenConcat, Zenon
<1>9. FlattenSeq(<<b>>) = b
  BY <1>2, FlattenOne, Zenon
<1> QED
  BY <1>7, <1>8, <1>9, Zenon DEF Rest, b

LEMMA RestBegins ==
  ASSUME StreamOK, DOMAIN stream = 1..Len(stream)
  PROVE  Rest(0) = Raw
<1>1. Len(stream) - 0 = Len(stream)
  BY DEF StreamOK
<1>2. ASSUME NEW i \in 1..Len(stream)
      PROVE  0 + i = i
  BY DEF StreamOK
<1>3. Pieces(0) = [i \in DOMAIN stream |-> Bytes(stream[i])]
  BY <1>1, <1>2, Zenon DEF Pieces
<1> QED
  BY <1>3, Zenon DEF Rest, Raw

-----------------------------------------------------------------------------
(* Cutting the first unit out of what has been read.                       *)

(* Elements of three sequences in a row.                                   *)
LEMMA ThreeInRow ==
  ASSUME NEW S, NEW x \in Seq(S), NEW y \in Seq(S), NEW z \in Seq(S)
  PROVE  /\ x \o (y \o z) \in Seq(S)
         /\ Len(x) \in Nat /\ Len(y) \in Nat /\ Len(z) \in Nat
         /\ Len(x \o (y \o z)) = Len(x) + Len(y) + Len(z)
         /\ \A i \in 1..Len(x) : (x \o (y \o z))[i] = x[i]
         /\ \A i \in 1..Len(y) : (x \o (y \o z))[Len(x) + i] = y[i]
         /\ \A i \in 1..Len(z) : (x \o (y \o z))[Len(x) + Len(y) + i] = z[i]
<1> DEFINE a == Len(x)
           b == Len(y)
           c == Len(z)
           t == y \o z
           w == x \o t
<1>1. a \in Nat /\ b \in Nat /\ c \in Nat
  BY LenProperties
<1>2. t \in Seq(S) /\ Len(t) = b + c
      /\ \A i \in 1..(b + c) : t[i] = IF i <= b THEN y[i] ELSE z[i - b]
  BY ConcatProperties
<1> HIDE DEF t
<1>3. w \in Seq(S) /\ Len(w) = a + (b + c)
      /\ \A i \in 1..(a + (b + c)) : w[i] = IF i <= a THEN x[i] ELSE t[i - a]
  <2>1. w \in Seq(S) /\ Len(w) = a + Len(t)
        /\ \A i \in 1..(a + Len(t)) : w[i] = IF i <= a THEN x[i] ELSE t[i - a]
    <3>1. t \in Seq(S)
      BY <1>2
    <3> QED
      BY <3>1, ConcatProperties, Zenon
  <2> QED
    BY <1>2, <2>1, Zenon
<1> HIDE DEF a, b, c, w
<1>4. ASSUME NEW i \in 1..b
      PROVE  w[a + i] = y[i]
  <2>1. /\ a + i \in 1..(a + (b + c)) /\ ~(a + i <= a) /\ (a + i) - a = i
        /\ i \in 1..(b + c) /\ i <= b
    BY <1>1
  <2> QED
    BY <1>2, <1>3, <2>1, Zenon
<1>5. ASSUME NEW i \in 1..c
      PROVE  w[a + b + i] = z[i]
  <2>1. /\ a + b + i \in 1..(a + (b + c)) /\ ~(a + b + i <= a)
        /\ (a + b + i) - a = b + i /\ b + i \in 1..(b + c)
        /\ ~(b + i <= b) /\ (b + i) - b = i
    BY <1>1
  <2> QED
    BY <1>2, <1>3, <2>1, Zenon
<1>6. \A i \in 1..a : w[i] = x[i]
  BY <1>1, <1>3
<1>7. a + (b + c) = a + b + c
  BY <1>1
<1> QED
  BY <1>1, <1>3, <1>4, <1>5, <1>6, <1>7, Zenon DEF a, b, c, t, w

LEMMA HoldsFirst ==
  ASSUME NEW l \in Seq(Byte), NEW r \in Seq(Byte), NEW u, UnitOK(u)
  PROVE  /\ l \o (Bytes(u) \o r) \in Seq(Byte)
         /\ Len(l \o (Bytes(u) \o r)) = Len(l) + Size(u) + Len(r)
         /\ Holds(l \o (Bytes(u) \o r), Len(l), u)
<1> DEFINE w == l \o (Bytes(u) \o r)
           a == Len(l)
           n == u.sc
           m == Len(u.body)
<1>1. /\ Bytes(u) \in Seq(Byte)
      /\ Len(Bytes(u)) = Size(u)
      /\ \A j \in 1..n : Bytes(u)[j] = IF j = n THEN 1 ELSE 0
      /\ \A j \in 1..m : Bytes(u)[n + j] = u.body[j]
  BY BytesIs
<1>2. /\ w \in Seq(Byte) /\ a \in Nat /\ Len(r) \in Nat
      /\ Len(w) = a + Size(u) + Len(r)
      /\ \A i \in 1..Size(u) : w[a + i] = Bytes(u)[i]
  <2> DEFINE y == Bytes(u)
  <2>1. y \in Seq(Byte)
    BY <1>1
  <2> HIDE DEF y
  <2>2. /\ l \o (y \o r) \in Seq(Byte) /\ a \in Nat /\ Len(r) \in Nat
        /\ Len(l \o (y \o r)) = a + Len(y) + Len(r)
        /\ \A i \in 1..Len(y) : (l \o (y \o r))[a + i] = y[i]
    BY <2>1, ThreeInRow
  <2> QED
    BY <1>1, <2>2, Zenon DEF y
<1>3. n \in {3, 4} /\ m \in Nat /\ Size(u) = n + m /\ Size(u) \in Nat
  BY UnitType
<1> HIDE DEF w, a, n, m
<1>4. a + Size(u) <= Len(w)
  BY <1>2, <1>3
<1>5. ASSUME NEW j \in 1..n
      PROVE  w[a + j] = IF j = n THEN 1 ELSE 0
  <2>1. j \in 1..Size(u)
    BY <1>3
  <2> QED
    BY <1>1, <1>2, <2>1, Zenon
<1>6. ASSUME NEW j \in 1..m
      PROVE  w[a + n + j] = u.body[j]
  <2>1. n + j \in 1..Size(u)
    BY <1>3
  <2>2. a + (n + j) = a + n + j
    BY <1>2, <1>3
  <2> QED
    BY <1>1, <1>2, <2>1, <2>2, Zenon
<1> QED
  BY <1>2, <1>4, <1>5, <1>6, Zenon DEF Holds, w, a, n, m

LEMMA HoldsSecond ==
  ASSUME NEW l \in Seq(Byte), NEW r \in Seq(Byte), NEW u, UnitOK(u),
         NEW v, UnitOK(v)
  PROVE  Holds(l \o (Bytes(u) \o (Bytes(v) \o r)), Len(l) + Size(u), v)
<1> DEFINE b == Bytes(u)
           c == Bytes(v)
           t == l \o b
<1>1. b \in Seq(Byte) /\ Len(b) = Size(u) /\ c \in Seq(Byte)
  BY BytesIs
<1> HIDE DEF b, c
<1>2. t \in Seq(Byte) /\ Len(t) = Len(l) + Size(u)
  BY <1>1, ConcatProperties
<1>3. c \o r \in Seq(Byte)
  BY <1>1, ConcatProperties
<1>4. t \o (c \o r) = l \o (b \o (c \o r))
  <2>1. \A x, y, z \in Seq(Byte) : (x \o y) \o z = x \o (y \o z)
    BY ConcatAssociative, SMTT(60)
  <2> QED
    BY <1>1, <1>3, <2>1, ZenonT(60)
<1> HIDE DEF t
<1>5. Holds(t \o (c \o r), Len(t), v)
  BY <1>2, HoldsFirst, Zenon DEF c
<1> QED
  BY <1>2, <1>4, <1>5, Zenon DEF b, c

LEMMA BroughtIs ==
  ASSUME NEW b \in Seq(Byte), NEW p \in Seq(Byte)
  PROVE  Brought(b, b \o p) /\ Len(b \o p) = Len(b) + Len(p)
<1>1. /\ Len(b \o p) = Len(b) + Len(p)
      /\ \A i \in 1..(Len(b) + Len(p)) :
           (b \o p)[i] = IF i <= Len(b) THEN b[i] ELSE p[i - Len(b)]
      /\ Len(b) \in Nat /\ Len(p) \in Nat
  BY ConcatProperties, LenProperties
<1>2. \A i \in 1..Len(b) : b[i] = (b \o p)[i]
  <2> TAKE i \in 1..Len(b)
  <2>1. i \in 1..(Len(b) + Len(p)) /\ i <= Len(b)
    BY <1>1
  <2> QED
    BY <1>1, <2>1, Zenon
<1>3. Len(b) <= Len(b \o p)
  BY <1>1
<1> QED
  BY <1>1, <1>2, <1>3, Zenon DEF Brought

(* y is read to its end, and r comes after it.                             *)
AllRead(b, p, l, y, r) ==
  /\ {b, p, l, y, r} \subseteq Seq(Byte)
  /\ b \o p = l \o (y \o r)
  /\ Len(l) + Len(y) <= Len(b)

LEMMA CutOut ==
  ASSUME NEW b, NEW p, NEW l, NEW y, NEW r, AllRead(b, p, l, y, r)
  PROVE  /\ SubSeq(b, Len(l) + 1, Len(l) + Len(y)) = y
         /\ SubSeq(b, Len(l) + Len(y) + 1, Len(b)) \in Seq(Byte)
         /\ SubSeq(b, Len(l) + Len(y) + 1, Len(b)) \o p = r
<1> DEFINE a == Len(l)
           e == Len(l) + Len(y)
           w == l \o (y \o r)
           s == SubSeq(b, a + 1, e)
           t == SubSeq(b, e + 1, Len(b))
           z == t \o p
<1> /\ b \in Seq(Byte) /\ p \in Seq(Byte) /\ l \in Seq(Byte)
    /\ y \in Seq(Byte) /\ r \in Seq(Byte)
    /\ b \o p = l \o (y \o r) /\ Len(l) + Len(y) <= Len(b)
  BY DEF AllRead
<1>1. /\ a \in Nat /\ Len(y) \in Nat /\ Len(r) \in Nat
      /\ Len(w) = a + Len(y) + Len(r)
      /\ \A i \in 1..Len(y) : w[a + i] = y[i]
      /\ \A i \in 1..Len(r) : w[a + Len(y) + i] = r[i]
  BY ThreeInRow, SMTT(60)
<1>2. /\ Len(b) \in Nat /\ Len(p) \in Nat
      /\ Len(w) = Len(b) + Len(p)
      /\ \A i \in 1..(Len(b) + Len(p)) :
           w[i] = IF i <= Len(b) THEN b[i] ELSE p[i - Len(b)]
  <2>1. /\ Len(b \o p) = Len(b) + Len(p)
        /\ \A i \in 1..(Len(b) + Len(p)) :
             (b \o p)[i] = IF i <= Len(b) THEN b[i] ELSE p[i - Len(b)]
    BY ConcatProperties, Zenon
  <2> QED
    BY <2>1, LenProperties, Zenon
<1>3. e \in Nat /\ a <= e /\ e <= Len(b) /\ e = a + Len(y)
  BY <1>1
<1> HIDE DEF w
<1>4. \A i \in 1..Len(b) : b[i] \in Byte
  BY ElementOfSeq
<1>5. s \in Seq(Byte) /\ Len(s) = Len(y)
      /\ \A i \in 1..Len(y) : s[i] = b[a + i]
  <2>1. \A i \in (a + 1)..e : b[i] \in Byte
    BY <1>1, <1>2, <1>3, <1>4
  <2>2. /\ s \in Seq(Byte)
        /\ Len(s) = IF a + 1 <= e THEN e - (a + 1) + 1 ELSE 0
        /\ \A i \in 1..(e - (a + 1) + 1) : s[i] = b[(a + 1) + i - 1]
    BY <1>1, <1>3, <2>1, SubSeqProperties
  <2>3. e - (a + 1) + 1 = Len(y) /\ (~(a + 1 <= e) => Len(y) = 0)
    BY <1>1
  <2>4. \A i \in 1..Len(y) : (a + 1) + i - 1 = a + i
    BY <1>1
  <2> HIDE DEF s, e, a
  <2> QED
    BY <2>2, <2>3, <2>4, Zenon
<1>6. t \in Seq(Byte) /\ Len(t) = Len(b) - e
      /\ \A i \in 1..(Len(b) - e) : t[i] = b[e + i]
  <2> HIDE DEF e
  <2>1. \A i \in (e + 1)..Len(b) : b[i] \in Byte
    BY <1>2, <1>3, <1>4
  <2>2. /\ t \in Seq(Byte)
        /\ Len(t) = IF e + 1 <= Len(b) THEN Len(b) - (e + 1) + 1 ELSE 0
        /\ \A i \in 1..(Len(b) - (e + 1) + 1) : t[i] = b[(e + 1) + i - 1]
    BY <1>2, <1>3, <2>1, SubSeqProperties
  <2>3. Len(b) - (e + 1) + 1 = Len(b) - e
        /\ (~(e + 1 <= Len(b)) => Len(b) - e = 0)
    BY <1>2, <1>3
  <2>4. \A i \in 1..(Len(b) - e) : (e + 1) + i - 1 = e + i
    BY <1>2, <1>3
  <2> HIDE DEF t
  <2> QED
    BY <2>2, <2>3, <2>4, Zenon
<1> HIDE DEF s, t, a, e
<1>7. s = y
  <2>1. ASSUME NEW i \in 1..Len(y)
        PROVE  s[i] = y[i]
    <3>1. a + i \in 1..(Len(b) + Len(p)) /\ a + i <= Len(b)
      BY <1>1, <1>2, <1>3
    <3> QED
      BY <1>1, <1>2, <1>5, <3>1, Zenon
  <2> QED
    BY <1>5, <2>1, SeqEqual, Zenon
<1>8. /\ z \in Seq(Byte) /\ Len(z) = (Len(b) - e) + Len(p)
      /\ \A i \in 1..((Len(b) - e) + Len(p)) :
           z[i] = IF i <= Len(b) - e THEN t[i] ELSE p[i - (Len(b) - e)]
  <2>1. t \in Seq(Byte)
    BY <1>6
  <2>2. /\ z \in Seq(Byte) /\ Len(z) = Len(t) + Len(p)
        /\ \A i \in 1..(Len(t) + Len(p)) :
             z[i] = IF i <= Len(t) THEN t[i] ELSE p[i - Len(t)]
    BY <2>1, ConcatProperties, ZenonT(60)
  <2> QED
    BY <1>6, <2>2, Zenon
<1>9. Len(z) = Len(r) /\ Len(r) = (Len(b) - e) + Len(p)
  <2>1. Len(r) = (Len(b) - e) + Len(p)
    <3>1. e + Len(r) = Len(b) + Len(p)
      BY <1>1, <1>2, <1>3, Zenon
    <3>2. ASSUME NEW i \in Nat, NEW j \in Nat, NEW k \in Nat, NEW m \in Nat,
                 i + j = k + m
          PROVE  j = (k - i) + m
      BY <3>2
    <3>3. Len(r) \in Nat /\ Len(b) \in Nat /\ Len(p) \in Nat /\ e \in Nat
      BY <1>1, <1>2, <1>3
    <3> QED
      BY <3>1, <3>3
  <2> QED
    BY <1>8, <2>1, Zenon
<1> HIDE DEF z
<1>10. ASSUME NEW i \in 1..Len(r)
       PROVE  z[i] = r[i]
  <2>1. i \in 1..((Len(b) - e) + Len(p)) /\ e + i \in 1..(Len(b) + Len(p))
    BY <1>2, <1>3, <1>9, SMTT(60)
  <2>2. w[e + i] = r[i]
    BY <1>1, <1>3, Zenon
  <2>3. CASE i <= Len(b) - e
    <3>1. e + i <= Len(b) /\ i \in 1..(Len(b) - e)
      BY <1>2, <1>3, <2>3
    <3> QED
      BY <1>2, <1>6, <1>8, <2>1, <2>2, <2>3, <3>1, Zenon
  <2>4. CASE ~(i <= Len(b) - e)
    <3>1. ~(e + i <= Len(b)) /\ (e + i) - Len(b) = i - (Len(b) - e)
      BY <1>2, <1>3, <2>1, <2>4, SMTT(60)
    <3> QED
      BY <1>2, <1>8, <2>1, <2>2, <2>4, <3>1, Zenon
  <2> QED
    BY <2>3, <2>4
<1>11. z = r
  BY <1>8, <1>9, <1>10, SeqEqual, Zenon
<1> QED
  BY <1>6, <1>7, <1>11, Zenon DEF s, t, a, e, z

LEMMA BodyOf ==
  ASSUME NEW u, UnitOK(u)
  PROVE  SubSeq(Bytes(u), u.sc + 1, Len(Bytes(u))) = u.body
<1> DEFINE b == Bytes(u)
           n == u.sc
           m == Len(u.body)
           s == SubSeq(b, n + 1, Len(b))
<1>1. b \in Seq(Byte) /\ Len(b) = n + m
      /\ \A j \in 1..m : b[n + j] = u.body[j]
  <2>1. Size(u) = n + m
    BY UnitType
  <2> QED
    BY <2>1, BytesIs, Zenon
<1>2. n \in Nat /\ m \in Nat /\ u.body \in Seq(Byte)
  BY UnitType
<1> HIDE DEF b, n, m
<1>3. \A i \in (n + 1)..Len(b) : b[i] \in Byte
  BY <1>1, <1>2, ElementOfSeq
<1>4. /\ s \in Seq(Byte)
      /\ Len(s) = IF n + 1 <= Len(b) THEN Len(b) - (n + 1) + 1 ELSE 0
      /\ \A i \in 1..(Len(b) - (n + 1) + 1) : s[i] = b[(n + 1) + i - 1]
  <2>1. Len(b) \in Int /\ n + 1 \in Int
    BY <1>1, <1>2
  <2> QED
    BY <1>3, <2>1, SubSeqProperties
<1>5. Len(b) - (n + 1) + 1 = m /\ (~(n + 1 <= Len(b)) => m = 0)
      /\ \A i \in 1..m : (n + 1) + i - 1 = n + i
  BY <1>1, <1>2
<1> HIDE DEF s
<1>6. Len(s) = m /\ \A i \in 1..m : s[i] = u.body[i]
  BY <1>1, <1>4, <1>5, Zenon
<1>7. s = u.body
  BY <1>2, <1>4, <1>6, SeqEqual, Zenon DEF m
<1> QED
  BY <1>7 DEF s, b, n

(* What take_next_nal makes of the unit u, with its bytes cut out.         *)
Outcome(u, rest) ==
  [is |-> IF u.body = <<>> THEN "empty"
          ELSE IF Len(u.body) <= header_len THEN "error"
          ELSE "nal",
   rest |-> rest,
   nal |-> [nal_type |-> IF u.body = <<>> THEN 0 ELSE nal_type(u.body),
            annexb |-> Bytes(u)]]

LEMMA TakeCut ==
  ASSUME NEW u, UnitOK(u), NEW a \in Nat, NEW e \in Nat, NEW at_end,
         NEW starts, starts = start_code_positions(buffer),
         starts # <<>>, ~(Len(starts) = 1 /\ ~at_end),
         starts[1] = [at |-> a + 1, len |-> u.sc],
         (IF Len(starts) > 1 THEN starts[2].at ELSE Len(buffer) + 1) = e + 1,
         SubSeq(buffer, a + 1, e) = Bytes(u)
  PROVE  take_next_nal(at_end) =
           Outcome(u, SubSeq(buffer, e + 1, Len(buffer)))
<1>1. starts[1].at = a + 1 /\ starts[1].len = u.sc
  OBVIOUS
<1>2. (e + 1) - 1 = e
  OBVIOUS
<1>3. SubSeq(Bytes(u), u.sc + 1, Len(Bytes(u))) = u.body
  BY BodyOf
<1> DEFINE end == IF Len(starts) > 1 THEN starts[2].at ELSE Len(buffer) + 1
           annexb == SubSeq(buffer, starts[1].at, end - 1)
           body == SubSeq(annexb, starts[1].len + 1, Len(annexb))
<1>4. end = e + 1
  OBVIOUS
<1>5. annexb = Bytes(u)
  BY <1>1, <1>2, <1>4, Zenon
<1>6. body = u.body
  BY <1>1, <1>3, <1>5, Zenon
<1>7. take_next_nal(at_end) =
        [is |-> IF body = <<>> THEN "empty"
                ELSE IF Len(body) <= header_len THEN "error"
                ELSE "nal",
         rest |-> SubSeq(buffer, end, Len(buffer)),
         nal |-> [nal_type |-> IF body = <<>> THEN 0 ELSE nal_type(body),
                  annexb |-> annexb]]
  BY Zenon DEF take_next_nal
<1> HIDE DEF end, annexb, body
<1> QED
  BY <1>4, <1>5, <1>6, <1>7, Zenon DEF Outcome

LEMMA TakeNothing ==
  ASSUME NEW at_end,
         \/ start_code_positions(buffer) = <<>>
         \/ Len(start_code_positions(buffer)) = 1 /\ ~at_end
  PROVE  take_next_nal(at_end).is \in {"none", "error"}
<1>1. CASE start_code_positions(buffer) = <<>>
  <2>1. take_next_nal(at_end) =
          [is |-> IF Len(buffer) > MAX_PARAMETER_SET_BYTES THEN "error"
                  ELSE "none"]
    BY <1>1, Zenon DEF take_next_nal
  <2> QED
    BY <2>1
<1>2. CASE ~(start_code_positions(buffer) = <<>>)
  <2>1. take_next_nal(at_end) = [is |-> "none"]
    BY <1>2, Zenon DEF take_next_nal
  <2> QED
    BY <2>1
<1> QED
  BY <1>1, <1>2

(* take_next_nal finds the unit behind the first k, or nothing, however    *)
(* much of the stream has been read.                                       *)
Finds(r, k, at_end) ==
  /\ r.is \in {"none", "error", "empty", "nal"}
  /\ r.is = "none" => /\ Len(start_code_positions(buffer)) <= 1
                      /\ at_end => k = Len(stream)
  /\ r.is \in {"empty", "nal"} =>
       /\ k # Len(stream)
       /\ r.rest \in Seq(Byte)
       /\ r.rest \o pipe = Rest(k + 1)
       /\ Found(k + 1) = IF r.is = "nal" THEN <<r.nal>> ELSE <<>>
       /\ at_end => k + 1 = Len(stream) /\ r.rest = <<>>

SpacedOK == \A i \in 2..Len(stream) : Spaced(stream[i - 1], stream[i])

(* l is what precedes the k-th unit: nothing, or the junk at the front.    *)
Leads(l) == l \in Seq(Byte) /\ \A i \in 1..Len(l) : l[i] # 0

LEMMA OutcomeFinds ==
  ASSUME StreamOK, NEW k \in 0..Len(stream), k # Len(stream),
         NEW rest \in Seq(Byte), rest \o pipe = Rest(k + 1),
         NEW at_end, at_end => k + 1 = Len(stream) /\ rest = <<>>
  PROVE  Finds(Outcome(stream[k + 1], rest), k, at_end)
<1> DEFINE u == stream[k + 1]
           r == Outcome(u, rest)
<1>1. r.rest = rest /\ r.nal = [nal_type |-> IF u.body = <<>> THEN 0
                                              ELSE nal_type(u.body),
                                annexb |-> Bytes(u)]
      /\ r.is = IF u.body = <<>> THEN "empty"
                ELSE IF Len(u.body) <= header_len THEN "error"
                ELSE "nal"
  BY DEF Outcome
<1>2. r.is \in {"error", "empty", "nal"} /\ r.is # "none"
  BY <1>1
<1>3. CASE u.body = <<>>
  <2>1. r.is = "empty" /\ Found(k + 1) = <<>>
    BY <1>1, <1>3, Zenon DEF Found
  <2> HIDE DEF r
  <2> QED
    BY <1>1, <1>2, <2>1 DEF Finds, r
<1>4. CASE u.body # <<>>
  <2>1. r.is # "empty" /\ Found(k + 1) = <<r.nal>>
    <3>1. r.nal = AsNal(u)
      BY <1>1, <1>4, Zenon DEF AsNal
    <3> QED
      BY <1>1, <1>4, <3>1, Zenon DEF Found
  <2> HIDE DEF r
  <2> QED
    BY <1>1, <1>2, <2>1 DEF Finds, r
<1> QED
  BY <1>3, <1>4

LEMMA TakeFinds ==
  ASSUME StreamOK, SpacedOK, NEW k \in 0..Len(stream), NEW l, Leads(l),
         buffer \in Seq(Byte), pipe \in Seq(Byte),
         buffer \o pipe = l \o Rest(k),
         NEW at_end \in BOOLEAN,
         at_end => /\ pipe = <<>>
                   /\ Len(start_code_positions(buffer)) <= 1
  PROVE  Finds(take_next_nal(at_end), k, at_end)
<1> DEFINE a == Len(l)
           r == take_next_nal(at_end)
           starts == start_code_positions(buffer)
           w == buffer \o pipe
<1>1. /\ l \in Seq(Byte) /\ a \in Nat
      /\ Len(stream) \in Nat /\ k \in Nat /\ Rest(k) \in Seq(Byte)
      /\ \A i \in 1..a : l[i] # 0
  BY RestType DEF Leads, StreamOK
<1>2. /\ w \in Seq(Byte) /\ Brought(buffer, w)
      /\ Len(w) = Len(buffer) + Len(pipe)
      /\ Len(buffer) \in Nat /\ Len(pipe) \in Nat
  <2>1. w \in Seq(Byte)
    BY ConcatProperties
  <2>2. Brought(buffer, w) /\ Len(w) = Len(buffer) + Len(pipe)
    BY BroughtIs, Zenon
  <2>3. Len(buffer) \in Nat /\ Len(pipe) \in Nat
    BY LenProperties
  <2> QED
    BY <2>1, <2>2, <2>3, Zenon
<1>a. l \in Seq(Byte)
  BY <1>1
<1>b. a \in Nat
  BY <1>1
<1>c. w \in Seq(Byte)
  BY <1>2
<1>d. Brought(buffer, w)
  BY <1>2, Zenon
<1>3. ASSUME starts = <<>>, ~at_end \/ k = Len(stream)
      PROVE  Finds(r, k, at_end)
  <2>1. r.is \in {"none", "error"}
    BY <1>3, TakeNothing
  <2>2. Len(starts) <= 1
    BY <1>3
  <2> HIDE DEF r, starts
  <2> QED
    BY <1>3, <2>1, <2>2 DEF Finds, r, starts
<1>4. CASE k = Len(stream)
  <2>1. w = l
    <3>1. l \o <<>> = l
      BY <1>1, ConcatEmptySeq, Zenon
    <3> QED
      BY <1>4, <3>1, RestEnds, Zenon
  <2>2. ASSUME NEW j \in Nat \ {0}, StartCodeAt(buffer, j)
        PROVE  FALSE
    <3>1. j + 2 <= Len(buffer) /\ StartCodeAt(w, j)
      BY <1>2, <2>2, BroughtCode
    <3>2. w[j] = 0
      BY <3>1, Zenon DEF StartCodeAt
    <3> HIDE DEF w
    <3>3. j \in 1..a
      BY <1>2, <2>1, <3>1
    <3> QED
      BY <1>1, <2>1, <3>2, <3>3, Zenon
  <2>3. starts = <<>>
    BY <1>2, <2>2, NoCode
  <2> QED
    BY <1>3, <1>4, <2>3
<1>5. CASE k # Len(stream)
  <2> DEFINE u == stream[k + 1]
             R == Rest(k + 1)
             e == a + Size(u)
  <2>1. /\ k + 1 \in 1..Len(stream) /\ k + 1 \in 0..Len(stream)
        /\ UnitOK(u) /\ R \in Seq(Byte)
    <3>1. k + 1 \in 1..Len(stream) /\ k + 1 \in 0..Len(stream)
      BY <1>1, <1>5
    <3> QED
      BY <3>1, RestType DEF StreamOK
  <2>2. w = l \o (Bytes(u) \o R)
    BY <1>5, RestStep, Zenon
  <2>a. UnitOK(u)
    BY <2>1
  <2>b. R \in Seq(Byte)
    BY <2>1
  <2>3. Holds(w, a, u) /\ Len(w) = a + Size(u) + Len(R)
    <3> HIDE DEF u, R, w
    <3> QED
      BY <1>a, <2>a, <2>b, <2>2, HoldsFirst, Zenon
  <2>c. Holds(w, a, u)
    BY <2>3
  <2>4. \A i \in 1..a : w[i] # 0
    <3>1. Bytes(u) \in Seq(Byte)
      BY <2>1, BytesIs
    <3>2. \A i \in 1..a : w[i] = l[i]
      <4> DEFINE y == Bytes(u)
      <4> HIDE DEF y, R, u
      <4>1. \A i \in 1..a : (l \o (y \o R))[i] = l[i]
        BY <1>1, <2>1, <3>1, ThreeInRow DEF y
      <4> QED
        BY <2>2, <4>1, Zenon DEF y
    <3> QED
      BY <1>1, <3>2, Zenon
  <2>5. /\ u.sc \in {3, 4} /\ Len(u.body) \in Nat /\ Size(u) \in Nat
        /\ Size(u) = u.sc + Len(u.body) /\ Len(R) \in Nat /\ e \in Nat
        /\ a + u.sc <= e /\ e <= Len(w)
    <3>1. /\ u.sc \in {3, 4} /\ Len(u.body) \in Nat /\ Size(u) \in Nat
          /\ Size(u) = u.sc + Len(u.body)
      BY <2>a, UnitType
    <3>2. Len(R) \in Nat
      BY <2>b, LenProperties
    <3> HIDE DEF u, R, w, a
    <3>3. e \in Nat
      BY <1>b, <3>1
    <3>4. a + u.sc <= e
      <4>1. \A i, j, m \in Nat : i + j <= i + (j + m)
        OBVIOUS
      <4>2. u.sc \in Nat
        BY <3>1
      <4> QED
        BY <1>b, <3>1, <4>1, <4>2, Zenon
    <3>5. e <= Len(w)
      BY <1>b, <2>3, <3>1, <3>2
    <3> QED
      BY <3>1, <3>2, <3>3, <3>4, <3>5
  <2> HIDE DEF w
  (* What is common to the ways of cutting u out.                          *)
  <2>6. ASSUME starts # <<>>, ~(Len(starts) = 1 /\ ~at_end),
               starts[1] = [at |-> a + 1, len |-> u.sc],
               (IF Len(starts) > 1 THEN starts[2].at ELSE Len(buffer) + 1)
                 = e + 1,
               e <= Len(buffer),
               at_end => k + 1 = Len(stream) /\ e = Len(buffer)
        PROVE  Finds(r, k, at_end)
    <3> DEFINE y == Bytes(u)
               rest == SubSeq(buffer, e + 1, Len(buffer))
    <3>1. y \in Seq(Byte) /\ Len(y) = Size(u)
      BY <2>1, BytesIs
    <3>2. /\ SubSeq(buffer, a + 1, e) = y
          /\ rest \in Seq(Byte)
          /\ rest \o pipe = R
      <4>1. buffer \o pipe = l \o (y \o R)
        BY <2>2 DEF w
      <4> HIDE DEF y, R
      <4>2. /\ SubSeq(buffer, a + 1, a + Len(y)) = y
            /\ SubSeq(buffer, a + Len(y) + 1, Len(buffer)) \in Seq(Byte)
            /\ SubSeq(buffer, a + Len(y) + 1, Len(buffer)) \o pipe = R
        <5>1. Len(l) + Len(y) <= Len(buffer)
          BY <2>6, <3>1, Zenon
        <5>2. y \in Seq(Byte)
          BY <3>1
        <5>3. AllRead(buffer, pipe, l, y, R)
          BY <1>a, <2>b, <4>1, <5>1, <5>2 DEF AllRead
        <5> QED
          BY <5>3, CutOut
      <4> QED
        BY <3>1, <4>2, Zenon
    <3>3. r = Outcome(u, rest)
      <4>1. e \in Nat
        BY <2>5
      <4>2. SubSeq(buffer, a + 1, e) = Bytes(u)
        BY <3>2
      <4> HIDE DEF u, e, a
      <4> QED
        BY <1>b, <2>a, <2>6, <4>1, <4>2, TakeCut, ZenonT(60)
    <3>4. at_end => k + 1 = Len(stream) /\ rest = <<>>
      <4>1. ASSUME at_end
            PROVE  rest = <<>>
        <5>1. Len(buffer) < e + 1 /\ e + 1 \in Int /\ Len(buffer) \in Int
          BY <1>2, <2>5, <2>6, <4>1, SMTT(60)
        <5> HIDE DEF e
        <5> QED
          BY <5>1, SubSeqEmpty
      <4> QED
        BY <2>6, <4>1
    <3> HIDE DEF rest, r
    <3> QED
      BY <1>5, <3>2, <3>3, <3>4, OutcomeFinds, Zenon
  <2>7. CASE Len(buffer) < a + u.sc
    <3>1. starts = <<>>
      BY <1>b, <1>c, <1>d, <2>a, <2>c, <2>4, <2>7, FindsNone, Zenon
    <3>2. ASSUME at_end
          PROVE  FALSE
      <4>1. Len(pipe) = 0
        BY <3>2
      <4>2. Len(w) = Len(buffer)
        BY <1>2, <4>1
      <4> HIDE DEF u, e, a
      <4>3. u.sc \in Nat
        BY <2>5, SMTT(60)
      <4> QED
        BY <1>b, <1>2, <2>5, <2>7, <4>2, <4>3
    <3> QED
      BY <1>3, <3>1, <3>2
  <2>8. CASE ~(Len(buffer) < a + u.sc) /\ Unbounded(w, e, buffer)
    <3>0. a + u.sc <= Len(buffer)
      <4> HIDE DEF u, e, a
      <4>1. u.sc \in Nat
        BY <2>5, SMTT(60)
      <4> QED
        BY <1>b, <1>2, <2>8, <4>1
    <3>1. starts = <<[at |-> a + 1, len |-> u.sc]>>
      <4>1. Unbounded(w, a + Size(u), buffer)
        BY <2>8
      <4> QED
        BY <1>b, <1>c, <1>d, <2>a, <2>c, <2>4, <3>0, <4>1, FindsOne, Zenon
    <3>2. /\ starts # <<>> /\ Len(starts) = 1
          /\ starts[1] = [at |-> a + 1, len |-> u.sc]
      BY <3>1
    <3> HIDE DEF starts
    <3>3. CASE ~at_end
      <4>1. r.is = "none" \/ r.is = "error"
        BY <3>2, <3>3, TakeNothing DEF starts
      <4> HIDE DEF r
      <4> QED
        BY <3>2, <3>3, <4>1 DEF Finds, starts, r
    <3>4. CASE at_end
      <4>1. Len(w) = Len(buffer)
        BY <1>2, <3>4
      <4>2. Len(w) = e
        <5>1. ASSUME NEW v, UnitOK(v), Holds(w, e, v), Len(buffer) < e + v.sc
              PROVE  FALSE
          <6>1. e + Size(v) <= Len(w)
            BY <5>1, Zenon DEF Holds
          <6>2. v.sc \in Nat /\ Len(v.body) \in Nat
                /\ Size(v) = v.sc + Len(v.body)
            BY <5>1, UnitType, SMTT(60)
          <6> HIDE DEF e
          <6> QED
            BY <1>2, <2>5, <4>1, <5>1, <6>1, <6>2, SMTT(60)
        <5> QED
          BY <2>8, <5>1, Zenon DEF Unbounded
      <4>3. Len(R) = 0
        BY <1>1, <2>3, <2>5, <4>2, SMTT(60)
      <4>4. k + 1 = Len(stream)
        <5> SUFFICES ASSUME k + 1 # Len(stream)
                     PROVE  FALSE
          OBVIOUS
        <5> DEFINE v == stream[(k + 1) + 1]
                   b == Bytes(v)
                   t == Rest((k + 1) + 1)
        <5>1. (k + 1) + 1 \in 1..Len(stream) /\ (k + 1) + 1 \in 0..Len(stream)
          BY <1>1, <2>1
        <5>2. UnitOK(v) /\ t \in Seq(Byte)
          BY <5>1, RestType DEF StreamOK
        <5>3. R = b \o t
          BY <2>1, RestStep, Zenon
        <5>4. b \in Seq(Byte) /\ Len(b) = Size(v) /\ Size(v) \in Nat
              /\ v.sc \in {3, 4} /\ Size(v) = v.sc + Len(v.body)
              /\ Len(v.body) \in Nat
          BY <5>2, BytesIs, UnitType
        <5> HIDE DEF b, t, R
        <5>5. Len(b \o t) = Len(b) + Len(t)
          BY <5>2, <5>4, ConcatProperties
        <5>6. Len(t) \in Nat
          BY <5>2
        <5>7. Len(b) > 0
          BY <5>4, SMTT(60)
        <5> QED
          BY <4>3, <5>3, <5>5, <5>6, <5>7, <5>4
      <4>5. ~(Len(starts) > 1) /\ Len(buffer) + 1 = e + 1 /\ e <= Len(buffer)
        BY <3>2, <4>1, <4>2
      <4> QED
        BY <2>6, <3>2, <3>4, <4>1, <4>2, <4>4, <4>5
    <3> QED
      BY <3>3, <3>4
  <2>9. CASE ~(Len(buffer) < a + u.sc) /\ ~Unbounded(w, e, buffer)
    <3>1. k + 1 # Len(stream)
      <4> SUFFICES ASSUME k + 1 = Len(stream)
                   PROVE  FALSE
        OBVIOUS
      <4>1. R = <<>>
        BY RestEnds, Zenon
      <4>2. Len(w) = e
        BY <1>1, <2>3, <2>5, <4>1
      <4> QED
        BY <2>9, <4>2 DEF Unbounded
    <3> DEFINE v == stream[(k + 1) + 1]
               t == Rest((k + 1) + 1)
    <3>2. /\ (k + 1) + 1 \in 1..Len(stream) /\ (k + 1) + 1 \in 0..Len(stream)
          /\ (k + 1) + 1 \in 2..Len(stream) /\ ((k + 1) + 1) - 1 = k + 1
      BY <1>1, <2>1, <3>1
    <3>3. UnitOK(v) /\ t \in Seq(Byte)
      BY <3>2, RestType DEF StreamOK
    <3>4. Spaced(u, v)
      BY <3>2, Zenon DEF SpacedOK
    <3>5. w = l \o (Bytes(u) \o (Bytes(v) \o t))
      <4>1. R = Bytes(v) \o t
        BY <2>1, <3>1, RestStep, Zenon
      <4> QED
        BY <2>2, <4>1, Zenon
    <3>6. Holds(w, e, v)
      BY <1>1, <2>1, <3>3, <3>5, HoldsSecond, Zenon
    <3>7. v.sc \in {3, 4}
      BY <3>3, UnitType
    <3>8. e + v.sc <= Len(buffer)
      <4>1. ~(Len(buffer) < e + v.sc)
        BY <2>9, <3>3, <3>6, Zenon DEF Unbounded
      <4> HIDE DEF e, v
      <4> QED
        BY <1>2, <2>5, <3>7, <4>1, SMTT(60)
    <3>9. /\ starts \in Seq(Codes) /\ Len(starts) > 1
          /\ starts[1] = [at |-> a + 1, len |-> u.sc]
          /\ starts[2] = [at |-> e + 1, len |-> v.sc]
      <4>1. UnitOK(v)
        BY <3>3
      <4>2. Bounded(w, a, u, buffer, v)
        BY <3>4, <3>6, <3>8, <4>1, Zenon DEF Bounded
      <4> QED
        <5> HIDE DEF a, u, v
        <5>1. FoundTwo(w, a, u, buffer, v)
          BY <1>b, <1>c, <1>d, <2>a, <2>c, <2>4, <4>2 DEF FoundTwo
        <5>2. /\ start_code_positions(buffer) \in Seq(Codes)
              /\ Len(start_code_positions(buffer)) > 1
              /\ start_code_positions(buffer)[1] = [at |-> a + 1, len |-> u.sc]
              /\ start_code_positions(buffer)[2] =
                   [at |-> a + Size(u) + 1, len |-> v.sc]
          BY <5>1, FindsTwo
        <5> QED
          BY <5>2, Zenon
    <3> HIDE DEF starts
    <3>10. /\ starts # <<>> /\ Len(starts) # 1 /\ starts[2].at = e + 1
      BY <3>9
    <3>11. ~at_end
      BY <3>9, <3>10 DEF starts
    <3>12. e <= Len(buffer)
      <4> HIDE DEF e, v
      <4> QED
        BY <1>2, <2>5, <3>7, <3>8
    <3> QED
      BY <2>6, <3>9, <3>10, <3>11, <3>12
  <2> QED
    BY <2>7, <2>8, <2>9
<1> QED
  BY <1>4, <1>5

-----------------------------------------------------------------------------
(* The reader's state.                                                     *)

NalT == [nal_type : Nat, annexb : Seq(Byte)]

AccessUnits == [nals : Seq(NalT), keyframe : BOOLEAN]

Messages == [is : {"unit"}, au : AccessUnits, sets : Seq(Byte)]

(* The NAL units of access units, of messages, and of the first k units of *)
(* the stream.                                                             *)
NalsOf(units) == FlattenSeq([i \in DOMAIN units |-> units[i].nals])

NalsIn(msgs) == FlattenSeq([i \in DOMAIN msgs |-> msgs[i].au.nals])

FoundUpto(k) == FlattenSeq([i \in 1..k |-> Found(i)])

(* Everything the parser has accepted so far.                              *)
Taken == NalsIn(rx) \o (NalsOf(out) \o current)

AnnexBTypeOK ==
  /\ codec \in Codecs /\ stream \in Streams[codec] /\ WellFormed
  /\ pipe \in Seq(Byte) /\ buffer \in Seq(Byte)
  /\ pc \in {"read", "scan", "finish", "flush", "ended"}
  /\ parameter_sets \in Seq(Byte) /\ pending_parameter_sets \in Seq(Byte)
  /\ collecting_sets \in BOOLEAN /\ current_has_vcl \in BOOLEAN
  /\ current \in Seq(NalT) /\ out \in Seq(AccessUnits)

(* The parser stands behind the first k units of the stream, with the      *)
(* bytes l before the next one.                                            *)
Stands(k, l) ==
  /\ Leads(l)
  /\ buffer \o pipe = l \o Rest(k)
  /\ Taken = FoundUpto(k)
  /\ pc = "flush" => k = Len(stream)

(* Between two calls the buffer holds no complete unit.                    *)
Drained ==
  /\ pc \in {"read", "finish"} => Len(start_code_positions(buffer)) <= 1
  /\ pc = "finish" => pipe = <<>>

Reading ==
  /\ rx \in Seq(Messages)
  /\ Drained
  /\ \E k \in 0..Len(stream) : \E l \in {<<>>, Junk} : Stands(k, l)

Over ==
  /\ Sent \in Seq(Messages)
  /\ rx # <<>>
  /\ IF Ended THEN SentNals = Nals ELSE IsPrefix(SentNals, Nals)

ExactInv ==
  /\ AnnexBTypeOK
  /\ IF pc = "ended" THEN Over ELSE Reading

LEMMA NalType ==
  ASSUME NEW u, UnitOK(u), u.body # <<>>
  PROVE  AsNal(u) \in NalT
<1>1. u.body \in Seq(Byte) /\ Bytes(u) \in Seq(Byte)
  BY UnitType, BytesIs
<1>2. u.body[1] \in Byte
  BY <1>1
<1>3. PICK b \in 0..255 : b = u.body[1]
  BY <1>2 DEF Byte
<1>4. b % 32 \in Nat /\ (b \div 2) % 64 \in Nat
  OBVIOUS
<1>5. nal_type(u.body) \in Nat
  BY <1>3, <1>4, Zenon DEF nal_type
<1> QED
  BY <1>1, <1>5, Zenon DEF AsNal, NalT

LEMMA FoundType ==
  ASSUME StreamOK, NEW k \in 1..Len(stream)
  PROVE  Found(k) \in Seq(NalT)
<1>1. UnitOK(stream[k])
  BY Zenon DEF StreamOK
<1>2. CASE stream[k].body = <<>>
  BY <1>2 DEF Found
<1>3. CASE stream[k].body # <<>>
  <2>1. AsNal(stream[k]) \in NalT
    BY <1>1, <1>3, NalType
  <2>2. Found(k) = <<AsNal(stream[k])>>
    BY <1>3, Zenon DEF Found
  <2> QED
    BY <2>1, <2>2
<1> QED
  BY <1>2, <1>3

LEMMA FoundUptoType ==
  ASSUME StreamOK, NEW k \in 0..Len(stream)
  PROVE  /\ FoundUpto(k) \in Seq(NalT)
         /\ [i \in 1..k |-> Found(i)] \in [1..k -> Seq(NalT)]
<1>1. k \in Nat /\ \A i \in 1..k : i \in 1..Len(stream)
  BY DEF StreamOK
<1>2. [i \in 1..k |-> Found(i)] \in [1..k -> Seq(NalT)]
  BY <1>1, FoundType, Zenon
<1>3. [i \in 1..k |-> Found(i)] \in Seq(Seq(NalT))
  BY <1>1, <1>2, IsSeq, Zenon
<1> QED
  BY <1>2, <1>3, FlattenType, Zenon DEF FoundUpto

LEMMA FoundStep ==
  ASSUME StreamOK, NEW k \in 0..Len(stream), k # Len(stream)
  PROVE  FoundUpto(k + 1) = FoundUpto(k) \o Found(k + 1)
<1> DEFINE f == [i \in 1..(k + 1) |-> Found(i)]
<1>1. k \in Nat /\ k + 1 \in 0..Len(stream) /\ k + 1 \in 1..(k + 1)
      /\ \A i \in 1..k : i \in 1..(k + 1)
  BY DEF StreamOK
<1>2. f \in [1..(k + 1) -> Seq(NalT)]
  BY <1>1, FoundUptoType, Zenon
<1>3. f[k + 1] = Found(k + 1) /\ \A i \in 1..k : f[i] = Found(i)
  BY <1>1, Zenon
<1>4. [i \in 1..k |-> f[i]] = [i \in 1..k |-> Found(i)]
  BY <1>3, Zenon
<1> HIDE DEF f
<1>5. FlattenSeq(f) = FlattenSeq(Begin(f, k)) \o f[k + 1]
  BY <1>1, <1>2, FlattenMore, Zenon
<1> QED
  BY <1>3, <1>4, <1>5, Zenon DEF FoundUpto, f, Begin

LEMMA FoundAll ==
  ASSUME DOMAIN stream = 1..Len(stream)
  PROVE  FoundUpto(Len(stream)) = Nals
BY Zenon DEF FoundUpto, Nals

LEMMA FoundBegins == FoundUpto(0) = <<>>
<1>1. [i \in 1..0 |-> Found(i)] = <<>>
  <2>1. 1..0 = {}
    OBVIOUS
  <2>2. <<>> \in [1..0 -> {}]
    OBVIOUS
  <2>3. [i \in 1..0 |-> Found(i)] \in [1..0 -> {}]
    BY <2>1, Zenon
  <2> QED
    BY <2>1, <2>2, <2>3
<1> QED
  BY <1>1, FlattenEmpty, Zenon DEF FoundUpto

LEMMA FoundPrefix ==
  ASSUME StreamOK, DOMAIN stream = 1..Len(stream), NEW k \in 0..Len(stream)
  PROVE  \E t \in Seq(NalT) : Nals = FoundUpto(k) \o t
<1> DEFINE n == Len(stream)
           f == [i \in 1..n |-> Found(i)]
<1>1. k \in Nat /\ n \in Nat /\ k <= n /\ n \in 0..Len(stream)
  BY DEF StreamOK
<1>2. f \in [1..n -> Seq(NalT)]
  BY <1>1, FoundUptoType, Zenon
<1>3. \A i \in 1..k : i \in 1..n
  BY <1>1
<1>4. [i \in 1..k |-> f[i]] = [i \in 1..k |-> Found(i)]
  BY <1>3, Zenon
<1>5. FlattenSeq(f) = Nals
  BY FoundAll, Zenon DEF FoundUpto
<1> HIDE DEF f, n
<1>6. PICK t \in Seq(NalT) : FlattenSeq(f) = FlattenSeq(Begin(f, k)) \o t
  <2>1. k \in Nat /\ n \in Nat /\ k <= n
    BY <1>1
  <2> QED
    BY <1>2, <2>1, FlattenSplit, ZenonT(60)
<1> QED
  BY <1>4, <1>5, <1>6, Zenon DEF FoundUpto, Begin

(* A sequence is a prefix of what it begins.                               *)
LEMMA PrefixOf ==
  ASSUME NEW S, NEW s \in Seq(S), NEW t \in Seq(S)
  PROVE  IsPrefix(s, s \o t)
<1>1. /\ s \o t \in Seq(S) /\ Len(s \o t) = Len(s) + Len(t)
      /\ Len(s) \in Nat /\ Len(t) \in Nat
  BY ConcatProperties, LenProperties
<1>2. Len(s) <= Len(s \o t)
  BY <1>1
<1>3. SubSeq(s, 1, Len(s)) = SubSeq(s \o t, 1, Len(s))
  <2>1. CASE Len(s) = 0
    <3>1. SubSeq(s, 1, 0) = <<>> /\ SubSeq(s \o t, 1, 0) = <<>>
      BY SubSeqEmpty
    <3> QED
      BY <2>1, <3>1, Zenon
  <2>2. CASE Len(s) # 0
    <3>1. 1 \in 1..Len(s) /\ Len(s) \in 1..Len(s)
      BY <1>1, <2>2
    <3> QED
      BY <3>1, SubSeqOfConcat1, Zenon
  <2> QED
    BY <2>1, <2>2
<1> QED
  BY <1>2, <1>3, Zenon DEF IsPrefix

(* The NAL units of messages and access units.                             *)
NalsEach(msgs) == [i \in DOMAIN msgs |-> msgs[i].au.nals]

LEMMA NalsEachType ==
  ASSUME NEW s \in Seq(Messages)
  PROVE  /\ NalsEach(s) \in Seq(Seq(NalT))
         /\ Len(NalsEach(s)) = Len(s)
         /\ Len(s) \in Nat
         /\ \A i \in 1..Len(s) : NalsEach(s)[i] = s[i].au.nals
         /\ NalsIn(s) = FlattenSeq(NalsEach(s))
         /\ NalsIn(s) \in Seq(NalT)
<1>1. Len(s) \in Nat /\ DOMAIN s = 1..Len(s)
      /\ \A i \in 1..Len(s) : s[i] \in Messages
  BY LenProperties, ElementOfSeq
<1>2. \A i \in 1..Len(s) : s[i].au.nals \in Seq(NalT)
  BY <1>1 DEF Messages, AccessUnits
<1>3. /\ NalsEach(s) \in [1..Len(s) -> Seq(NalT)]
      /\ \A i \in 1..Len(s) : NalsEach(s)[i] = s[i].au.nals
  BY <1>1, <1>2, Zenon DEF NalsEach
<1>4. NalsEach(s) \in Seq(Seq(NalT)) /\ Len(NalsEach(s)) = Len(s)
  BY <1>1, <1>3, IsSeq, Zenon
<1>5. NalsIn(s) = FlattenSeq(NalsEach(s))
  BY Zenon DEF NalsIn, NalsEach
<1> QED
  BY <1>1, <1>3, <1>4, <1>5, FlattenType, Zenon

LEMMA NalsInConcat ==
  ASSUME NEW s \in Seq(Messages), NEW t \in Seq(Messages)
  PROVE  NalsIn(s \o t) = NalsIn(s) \o NalsIn(t)
<1> DEFINE a == NalsEach(s)
           b == NalsEach(t)
           c == NalsEach(s \o t)
           n == Len(s)
           m == Len(t)
<1>1. /\ s \o t \in Seq(Messages) /\ Len(s \o t) = n + m
      /\ \A i \in 1..(n + m) :
           (s \o t)[i] = IF i <= n THEN s[i] ELSE t[i - n]
  BY ConcatProperties, Zenon
<1>2. /\ a \in Seq(Seq(NalT)) /\ Len(a) = n /\ n \in Nat
      /\ \A i \in 1..n : a[i] = s[i].au.nals
  BY NalsEachType, Zenon
<1>3. /\ b \in Seq(Seq(NalT)) /\ Len(b) = m /\ m \in Nat
      /\ \A i \in 1..m : b[i] = t[i].au.nals
  BY NalsEachType, Zenon
<1>4. /\ c \in Seq(Seq(NalT)) /\ Len(c) = n + m
      /\ \A i \in 1..(n + m) : c[i] = (s \o t)[i].au.nals
  <2>1. /\ c \in Seq(Seq(NalT)) /\ Len(c) = Len(s \o t)
        /\ \A i \in 1..Len(s \o t) : c[i] = (s \o t)[i].au.nals
    BY <1>1, NalsEachType, Zenon
  <2> QED
    BY <1>1, <2>1, Zenon
<1> HIDE DEF a, b, c, n, m
<1>5. /\ a \o b \in Seq(Seq(NalT)) /\ Len(a \o b) = n + m
      /\ \A i \in 1..(n + m) : (a \o b)[i] = IF i <= n THEN a[i] ELSE b[i - n]
  <2>1. /\ a \o b \in Seq(Seq(NalT)) /\ Len(a \o b) = Len(a) + Len(b)
        /\ \A i \in 1..(Len(a) + Len(b)) :
             (a \o b)[i] = IF i <= Len(a) THEN a[i] ELSE b[i - Len(a)]
    BY <1>2, <1>3, ConcatProperties, Zenon
  <2> QED
    BY <1>2, <1>3, <2>1, Zenon
<1>6. ASSUME NEW i \in 1..(n + m)
      PROVE  c[i] = (a \o b)[i]
  <2>1. CASE i <= n
    <3>1. i \in 1..n
      BY <1>2, <2>1
    <3> QED
      BY <1>1, <1>2, <1>4, <1>5, <2>1, <3>1, ZenonT(60)
  <2>2. CASE ~(i <= n)
    <3>1. i - n \in 1..m
      BY <1>2, <1>3, <2>2
    <3> QED
      BY <1>1, <1>3, <1>4, <1>5, <2>2, <3>1, Zenon
  <2> QED
    BY <2>1, <2>2
<1>7. c = a \o b
  <2> DEFINE d == a \o b
  <2>1. d \in Seq(Seq(NalT)) /\ Len(c) = Len(d)
        /\ \A i \in 1..Len(c) : c[i] = d[i]
    BY <1>4, <1>5, <1>6, Zenon
  <2> HIDE DEF d
  <2>2. c = d
    BY <1>4, <2>1, SeqEqual, Zenon
  <2> QED
    BY <2>2 DEF d
<1>8. FlattenSeq(c) = FlattenSeq(a) \o FlattenSeq(b)
  BY <1>2, <1>3, <1>7, FlattenConcat, Zenon
<1>9. NalsIn(s) = FlattenSeq(a) /\ NalsIn(t) = FlattenSeq(b)
      /\ NalsIn(s \o t) = FlattenSeq(c)
  BY <1>1, NalsEachType, Zenon DEF a, b, c
<1> QED
  BY <1>8, <1>9, Zenon

(* Access units become messages, one for one.                              *)
LEMMA UnitsType ==
  ASSUME NEW o \in Seq(AccessUnits), NEW sets \in Seq(Byte)
  PROVE  /\ Units(o, sets) \in Seq(Messages)
         /\ Len(Units(o, sets)) = Len(o)
         /\ \A i \in 1..Len(o) : /\ Units(o, sets)[i].au = o[i]
                                 /\ Units(o, sets)[i].sets = sets
         /\ NalsIn(Units(o, sets)) = NalsOf(o)
         /\ NalsOf(o) \in Seq(NalT)
<1> DEFINE t == Units(o, sets)
<1>1. Len(o) \in Nat /\ DOMAIN o = 1..Len(o)
      /\ \A i \in 1..Len(o) : o[i] \in AccessUnits
  BY LenProperties, ElementOfSeq
<1>2. \A i \in 1..Len(o) :
        t[i] = [is |-> "unit", au |-> o[i], sets |-> sets]
  BY <1>1, Zenon DEF Units
<1>3. \A i \in 1..Len(o) :
        /\ [is |-> "unit", au |-> o[i], sets |-> sets] \in Messages
        /\ [is |-> "unit", au |-> o[i], sets |-> sets].au = o[i]
        /\ [is |-> "unit", au |-> o[i], sets |-> sets].sets = sets
  BY <1>1 DEF Messages
<1>4. t \in [1..Len(o) -> Messages]
  BY <1>1, <1>3, Zenon DEF Units
<1>5. t \in Seq(Messages) /\ Len(t) = Len(o) /\ DOMAIN t = 1..Len(o)
  BY <1>1, <1>4, IsSeq, Zenon
<1>6. \A i \in 1..Len(o) : t[i].au = o[i] /\ t[i].sets = sets
  BY <1>2, <1>3, Zenon
<1>7. NalsIn(t) = NalsOf(o)
  <2>1. [i \in DOMAIN t |-> t[i].au.nals] = [i \in DOMAIN o |-> o[i].nals]
    BY <1>1, <1>5, <1>6, Zenon
  <2> HIDE DEF t
  <2> QED
    BY <2>1, Zenon DEF NalsIn, NalsOf
<1>8. NalsIn(t) \in Seq(NalT)
  <2> HIDE DEF t
  <2> QED
    BY <1>5, NalsEachType, Zenon
<1> QED
  BY <1>5, <1>6, <1>7, <1>8, Zenon

LEMMA NalsOfConcat ==
  ASSUME NEW o \in Seq(AccessUnits), NEW p \in Seq(AccessUnits)
  PROVE  NalsOf(o \o p) = NalsOf(o) \o NalsOf(p)
<1> DEFINE U(q) == Units(q, <<>>)
<1>1. /\ o \o p \in Seq(AccessUnits) /\ Len(o \o p) = Len(o) + Len(p)
      /\ \A i \in 1..(Len(o) + Len(p)) :
           (o \o p)[i] = IF i <= Len(o) THEN o[i] ELSE p[i - Len(o)]
      /\ Len(o) \in Nat /\ Len(p) \in Nat
  BY ConcatProperties, LenProperties
<1>2. <<>> \in Seq(Byte)
  OBVIOUS
<1>3. /\ U(o) \in Seq(Messages) /\ U(p) \in Seq(Messages)
      /\ U(o \o p) \in Seq(Messages)
      /\ NalsIn(U(o)) = NalsOf(o) /\ NalsIn(U(p)) = NalsOf(p)
      /\ NalsIn(U(o \o p)) = NalsOf(o \o p)
  BY <1>1, <1>2, UnitsType, Zenon
<1>4. U(o \o p) = U(o) \o U(p)
  <2> DEFINE W(au) == [is |-> "unit", au |-> au, sets |-> <<>>]
             x == U(o)
             y == U(p)
             z == U(o \o p)
             w == o \o p
  <2> HIDE DEF w
  <2>1. /\ Len(x) = Len(o) /\ \A i \in 1..Len(o) : x[i] = W(o[i])
    <3>1. DOMAIN o = 1..Len(o)
      BY LenProperties
    <3> QED
      BY <1>2, <3>1, UnitsType, Zenon DEF Units
  <2>2. /\ Len(y) = Len(p) /\ \A i \in 1..Len(p) : y[i] = W(p[i])
    <3>1. DOMAIN p = 1..Len(p)
      BY LenProperties
    <3> QED
      BY <1>2, <3>1, UnitsType, Zenon DEF Units
  <2>3. /\ Len(z) = Len(o) + Len(p)
        /\ \A i \in 1..(Len(o) + Len(p)) : z[i] = W(w[i])
    <3>1. w \in Seq(AccessUnits) /\ Len(w) = Len(o) + Len(p)
      BY <1>1 DEF w
    <3>2. DOMAIN w = 1..(Len(o) + Len(p))
      BY <3>1, LenProperties
    <3>3. z = Units(w, <<>>)
      BY DEF w
    <3>4. Len(Units(w, <<>>)) = Len(w)
      BY <1>2, <3>1, UnitsType, Zenon
    <3> QED
      BY <3>1, <3>2, <3>3, <3>4, Zenon DEF Units
  <2>4. x \in Seq(Messages) /\ y \in Seq(Messages) /\ z \in Seq(Messages)
    BY <1>3
  <2> HIDE DEF x, y, z, W
  <2>5. /\ x \o y \in Seq(Messages) /\ Len(x \o y) = Len(o) + Len(p)
        /\ \A i \in 1..(Len(o) + Len(p)) :
             (x \o y)[i] = IF i <= Len(o) THEN x[i] ELSE y[i - Len(o)]
    <3>1. /\ x \o y \in Seq(Messages) /\ Len(x \o y) = Len(x) + Len(y)
          /\ \A i \in 1..(Len(x) + Len(y)) :
               (x \o y)[i] = IF i <= Len(x) THEN x[i] ELSE y[i - Len(x)]
      BY <2>4, ConcatProperties, Zenon
    <3> QED
      BY <2>1, <2>2, <3>1, Zenon
  <2>6. ASSUME NEW i \in 1..(Len(o) + Len(p))
        PROVE  z[i] = (x \o y)[i]
    <3>1. CASE i <= Len(o)
      <4>1. i \in 1..Len(o)
        BY <1>1, <3>1
      <4> QED
        BY <1>1, <2>1, <2>3, <2>5, <3>1, <4>1, Zenon DEF w
    <3>2. CASE ~(i <= Len(o))
      <4>1. i - Len(o) \in 1..Len(p)
        BY <1>1, <3>2
      <4> QED
        BY <1>1, <2>2, <2>3, <2>5, <3>2, <4>1, Zenon DEF w
    <3> QED
      BY <3>1, <3>2
  <2>7. z = x \o y
    <3> DEFINE t == x \o y
    <3>1. t \in Seq(Messages) /\ Len(z) = Len(t)
          /\ \A i \in 1..Len(z) : z[i] = t[i]
      BY <2>3, <2>5, <2>6, Zenon
    <3> HIDE DEF t
    <3>2. z = t
      BY <2>4, <3>1, SeqEqual, Zenon
    <3> QED
      BY <3>2 DEF t
  <2> QED
    BY <2>7 DEF x, y, z
<1> HIDE DEF U
<1> QED
  BY <1>3, <1>4, NalsInConcat, Zenon

-----------------------------------------------------------------------------
(* The stream and what is said of it stay as they are.                     *)

LEMMA Frozen ==
  ASSUME codec' = codec, stream' = stream
  PROVE  /\ Nals' = Nals
         /\ WellFormed' <=> WellFormed
         /\ \A k : Rest(k)' = Rest(k)
         /\ \A k : FoundUpto(k)' = FoundUpto(k)
<1>1. Nals' = Nals
  BY Zenon DEF Nals, Found, AsNal, nal_type
<1>2. \A n : is_vcl(n)' <=> is_vcl(n)
  BY Zenon DEF is_vcl
<1>3. \A n : starts_new_picture(n)' <=> starts_new_picture(n)
  BY Zenon DEF starts_new_picture, header_len
<1>4. WellFormed' <=> WellFormed
  BY <1>1, <1>2, <1>3, Zenon DEF WellFormed
<1>5. \A k : Rest(k)' = Rest(k)
  BY Zenon DEF Rest, Pieces
<1>6. \A k : FoundUpto(k)' = FoundUpto(k)
  BY Zenon DEF FoundUpto, Found, AsNal, nal_type
<1> QED
  BY <1>1, <1>4, <1>5, <1>6, Zenon

LEMMA SpacedIs ==
  ASSUME WellFormed
  PROVE  SpacedOK
BY Zenon DEF WellFormed, SpacedOK, Spaced

(* The messages that are units.                                            *)
UnitsIn(m) == IF m = <<>> \/ Last(m).is = "unit" THEN m ELSE Front(m)

LEMMA SentIs ==
  /\ Sent = UnitsIn(rx) /\ SentNals = NalsIn(UnitsIn(rx))
  /\ Sent' = UnitsIn(rx') /\ SentNals' = NalsIn(UnitsIn(rx'))
BY Zenon DEF Sent, UnitsIn, SentNals, NalsIn

LEMMA AllUnits ==
  ASSUME NEW m \in Seq(Messages)
  PROVE  UnitsIn(m) = m /\ ~(m # <<>> /\ Last(m).is = "end")
<1>1. CASE m = <<>>
  BY <1>1, Zenon DEF UnitsIn
<1>2. CASE m # <<>>
  <2>1. Last(m) \in Messages
    BY <1>2 DEF Last
  <2>2. Last(m).is = "unit"
    BY <2>1 DEF Messages
  <2> QED
    BY <2>2 DEF UnitsIn
<1> QED
  BY <1>1, <1>2

LEMMA UnitsAndEnd ==
  ASSUME NEW m \in Seq(Messages), NEW e, e.is # "unit"
  PROVE  /\ UnitsIn(Append(m, e)) = m
         /\ Append(m, e) # <<>> /\ Last(Append(m, e)) = e
<1> DEFINE S == Messages \cup {e}
           t == Append(m, e)
<1>1. m \in Seq(S) /\ e \in S
  BY SeqMonotonic
<1> HIDE DEF S
<1>2. /\ t \in Seq(S) /\ t # <<>> /\ Len(t) = Len(m) + 1
      /\ \A i \in 1..Len(m) : t[i] = m[i]
      /\ t[Len(m) + 1] = e
      /\ Len(m) \in Nat
  BY <1>1, AppendProperties, LenProperties
<1> HIDE DEF t
<1>3. Last(t) = e
  BY <1>2, Zenon DEF Last
<1>4. Len(t) - 1 = Len(m)
  BY <1>2
<1>5. SubSeq(t, 1, Len(m)) = m
  <2> DEFINE s == SubSeq(t, 1, Len(m))
  <2>1. \A i \in 1..Len(m) : t[i] \in S
    BY <1>2
  <2>2. /\ s \in Seq(S)
        /\ Len(s) = IF 1 <= Len(m) THEN Len(m) - 1 + 1 ELSE 0
        /\ \A i \in 1..(Len(m) - 1 + 1) : s[i] = t[1 + i - 1]
    BY <1>2, <2>1, SubSeqProperties
  <2>3. Len(m) - 1 + 1 = Len(m) /\ (~(1 <= Len(m)) => Len(m) = 0)
        /\ \A i \in 1..Len(m) : 1 + i - 1 = i
    BY <1>2
  <2> HIDE DEF s
  <2>4. Len(s) = Len(m) /\ \A i \in 1..Len(s) : s[i] = m[i]
    BY <1>2, <2>2, <2>3, Zenon
  <2>5. s = m
    BY <1>1, <2>2, <2>4, SeqEqual, Zenon
  <2> QED
    BY <2>5 DEF s
<1>6. Front(t) = m
  BY <1>4, <1>5, Zenon DEF Front
<1> QED
  BY <1>2, <1>3, <1>6, Zenon DEF UnitsIn, t

LEMMA NothingTaken == NalsIn(<<>>) = <<>> /\ NalsOf(<<>>) = <<>>
<1>1. DOMAIN <<>> = {}
  OBVIOUS
<1>2. <<>> \in Seq(Messages) /\ <<>> \in Seq(AccessUnits) /\ <<>> \in Seq(Byte)
  OBVIOUS
<1>3. NalsEach(<<>>) \in Seq(Seq(NalT)) /\ Len(NalsEach(<<>>)) = 0
      /\ NalsIn(<<>>) = FlattenSeq(NalsEach(<<>>))
  BY <1>2, NalsEachType
<1>4. NalsEach(<<>>) = <<>>
  BY <1>3
<1>5. NalsIn(<<>>) = <<>>
  BY <1>3, <1>4, FlattenEmpty, Zenon
<1>6. [i \in DOMAIN <<>> |-> <<>>[i].nals] = [i \in DOMAIN <<>> |-> <<>>[i].au.nals]
  BY <1>1, Zenon
<1>7. NalsOf(<<>>) = NalsIn(<<>>)
  BY <1>6, Zenon DEF NalsOf, NalsIn
<1> QED
  BY <1>5, <1>7, Zenon

(* The unit under construction, flushed.                                   *)
LEMMA Flushed ==
  ASSUME current \in Seq(NalT)
  PROVE  /\ flush_current \in Seq(AccessUnits)
         /\ NalsOf(flush_current) = current
<1>1. CASE current = <<>>
  <2>1. flush_current = <<>>
    BY <1>1, Zenon DEF flush_current
  <2> QED
    BY <1>1, <2>1, NothingTaken
<1>2. CASE current # <<>>
  <2> DEFINE au == [nals |-> current,
                    keyframe |-> \E i \in DOMAIN current :
                                   is_keyframe_nal(current[i])]
  <2>1. flush_current = <<au>>
    BY <1>2, Zenon DEF flush_current
  <2>2. (\E i \in DOMAIN current : is_keyframe_nal(current[i])) \in BOOLEAN
    BY Zenon
  <2>3. au.nals = current /\ au \in AccessUnits
    BY <2>2, Zenon DEF AccessUnits
  <2> HIDE DEF au
  <2>4. <<au>> \in Seq(AccessUnits) /\ DOMAIN <<au>> = {1} /\ <<au>>[1] = au
    BY <2>3
  <2>5. [i \in DOMAIN <<au>> |-> <<au>>[i].nals] = <<current>>
    <3>1. [i \in {1} |-> <<au>>[i].nals] = [i \in {1} |-> current]
      BY <2>3, <2>4, Zenon
    <3>2. [i \in {1} |-> current] = <<current>>
      OBVIOUS
    <3> QED
      BY <2>4, <3>1, <3>2, Zenon
  <2>6. NalsOf(<<au>>) = current
    BY <2>5, FlattenOne, Zenon DEF NalsOf
  <2> QED
    BY <2>1, <2>4, <2>6, Zenon
<1> QED
  BY <1>1, <1>2

(* Three sequences and one more element.                                   *)
InRow(S, x, y, z, n, v) ==
  /\ x \in Seq(S) /\ y \in Seq(S) /\ z \in Seq(S)
  /\ n \in S /\ v = <<n>>

Grows(x, y, z, n, v) ==
  /\ (x \o (y \o z)) \o v = x \o (y \o Append(z, n))
  /\ (x \o (y \o z)) \o v = x \o ((y \o z) \o Append(<<>>, n))

LEMMA OneMore ==
  ASSUME NEW S, NEW x, NEW y, NEW z, NEW n, NEW v, InRow(S, x, y, z, n, v)
  PROVE  Grows(x, y, z, n, v)
<1> x \in Seq(S) /\ y \in Seq(S) /\ z \in Seq(S) /\ n \in S /\ v = <<n>>
  BY DEF InRow
<1>1. Joins(S)
  BY Associative, Zenon
<1>2. y \o z \in Seq(S)
  BY ConcatProperties
<1>3. v \in Seq(S) /\ Append(z, n) = z \o v /\ Append(<<>>, n) = v
  BY AppendIsConcat
<1> DEFINE w == y \o z
<1>4. w \in Seq(S) /\ w \o v = y \o (z \o v)
  BY <1>1, <1>2, <1>3, ZenonT(60) DEF Joins
<1> HIDE DEF w
<1>5. (x \o w) \o v = x \o (w \o v)
  BY <1>1, <1>3, <1>4, ZenonT(60) DEF Joins
<1> QED
  BY <1>3, <1>4, <1>5, Zenon DEF w, Grows

(* accept_nal adds n to what was taken, whether or not it starts a unit.   *)
LEMMA AcceptTakes ==
  ASSUME AnnexBTypeOK, rx \in Seq(Messages), NEW n \in NalT,
         accept_nal(n), rx' = rx
  PROVE  /\ Taken' = Taken \o <<n>>
         /\ current' \in Seq(NalT) /\ out' \in Seq(AccessUnits)
<1> DEFINE x == NalsIn(rx)
           y == NalsOf(out)
<1>1. /\ current \in Seq(NalT) /\ out \in Seq(AccessUnits)
      /\ x \in Seq(NalT) /\ y \in Seq(NalT)
  <2>1. current \in Seq(NalT) /\ out \in Seq(AccessUnits) /\ <<>> \in Seq(Byte)
    BY DEF AnnexBTypeOK
  <2> QED
    BY <2>1, NalsEachType, UnitsType, Zenon
<1>2. Taken = x \o (y \o current) /\ Taken' = NalsIn(rx') \o (NalsOf(out') \o current')
  BY Zenon DEF Taken, NalsIn, NalsOf
<1>3. CASE Boundary(n)
  <2>1. out' = out \o flush_current /\ current' = Append(<<>>, n)
    BY <1>3, Zenon DEF accept_nal
  <2>2. flush_current \in Seq(AccessUnits) /\ NalsOf(flush_current) = current
    BY <1>1, Flushed
  <2>3. NalsOf(out') = y \o current
    BY <1>1, <2>1, <2>2, NalsOfConcat, Zenon
  <2>4. out' \in Seq(AccessUnits)
    BY <1>1, <2>1, <2>2, ConcatProperties
  <2>5. current' \in Seq(NalT)
    BY <2>1, <1>1
  <2> HIDE DEF x, y
  <2>6. Taken' = x \o ((y \o current) \o Append(<<>>, n))
    BY <1>2, <2>1, <2>3, Zenon DEF x
  <2>7. (x \o (y \o current)) \o <<n>> = x \o ((y \o current) \o Append(<<>>, n))
    <3> DEFINE v == <<n>>
    <3>1. InRow(NalT, x, y, current, n, v)
      BY <1>1, Zenon DEF InRow
    <3> HIDE DEF v
    <3>2. Grows(x, y, current, n, v)
      BY <3>1, OneMore, Zenon
    <3> QED
      BY <3>2, Zenon DEF v, Grows
  <2> QED
    BY <1>2, <2>4, <2>5, <2>6, <2>7, Zenon
<1>4. CASE ~Boundary(n)
  <2>1. out' = out /\ current' = Append(current, n)
    BY <1>4, Zenon DEF accept_nal
  <2>5. current' \in Seq(NalT)
    BY <2>1, <1>1
  <2> HIDE DEF x, y
  <2>6. Taken' = x \o (y \o Append(current, n))
    BY <1>2, <2>1, Zenon DEF x, y
  <2>7. (x \o (y \o current)) \o <<n>> = x \o (y \o Append(current, n))
    <3> DEFINE v == <<n>>
    <3>1. InRow(NalT, x, y, current, n, v)
      BY <1>1, Zenon DEF InRow
    <3> HIDE DEF v
    <3>2. Grows(x, y, current, n, v)
      BY <3>1, OneMore, Zenon
    <3> QED
      BY <3>2, Zenon DEF v, Grows
  <2> QED
    BY <1>1, <1>2, <2>1, <2>5, <2>6, <2>7, Zenon
<1> QED
  BY <1>3, <1>4

(* The sets stay sequences of bytes.                                       *)
LEMMA AcceptTypes ==
  ASSUME AnnexBTypeOK, NEW n \in NalT, accept_nal(n)
  PROVE  /\ parameter_sets' \in Seq(Byte)
         /\ pending_parameter_sets' \in Seq(Byte)
         /\ collecting_sets' \in BOOLEAN /\ current_has_vcl' \in BOOLEAN
<1>1. /\ pending_parameter_sets \in Seq(Byte) /\ parameter_sets \in Seq(Byte)
      /\ n.annexb \in Seq(Byte) /\ <<>> \in Seq(Byte)
  BY DEF AnnexBTypeOK, NalT
<1>2. \A x, y \in Seq(Byte) : x \o y \in Seq(Byte)
  BY ConcatProperties
<1>3. Collect(n) \in Seq(Byte)
  BY <1>1, <1>2, Zenon DEF Collect
<1>4. parameter_sets' \in Seq(Byte) /\ pending_parameter_sets' \in Seq(Byte)
  BY <1>1, <1>3, Zenon DEF accept_nal
<1>5. collecting_sets' \in BOOLEAN /\ current_has_vcl' \in BOOLEAN
  BY Zenon DEF accept_nal
<1> QED
  BY <1>4, <1>5

(* What is taken so far begins the encoder's NAL units, and the units sent *)
(* begin what is taken.                                                    *)
LEMMA TakenBegins ==
  ASSUME AnnexBTypeOK, Reading
  PROVE  /\ Taken \in Seq(NalT) /\ NalsIn(rx) \in Seq(NalT)
         /\ \E t \in Seq(NalT) : Nals = Taken \o t
         /\ \E t \in Seq(NalT) : Nals = NalsIn(rx) \o t
<1>1. StreamOK /\ DOMAIN stream = 1..Len(stream)
  BY StreamIsOK DEF AnnexBTypeOK
<1>2. /\ current \in Seq(NalT) /\ NalsIn(rx) \in Seq(NalT)
      /\ NalsOf(out) \in Seq(NalT)
  <2>1. current \in Seq(NalT) /\ out \in Seq(AccessUnits) /\ <<>> \in Seq(Byte)
    BY DEF AnnexBTypeOK
  <2>2. rx \in Seq(Messages)
    BY DEF Reading
  <2> QED
    BY <2>1, <2>2, NalsEachType, UnitsType, Zenon
<1> DEFINE y == NalsOf(out) \o current
<1>3. y \in Seq(NalT)
  BY <1>2, ConcatProperties
<1> HIDE DEF y
<1>4. Taken = NalsIn(rx) \o y /\ Taken \in Seq(NalT)
  BY <1>2, <1>3, ConcatProperties, Zenon DEF Taken, y
<1>5. PICK k \in 0..Len(stream) : Taken = FoundUpto(k)
  BY Zenon DEF Reading, Stands
<1>6. PICK t \in Seq(NalT) : Nals = Taken \o t
  BY <1>1, <1>5, FoundPrefix, Zenon
<1>7. y \o t \in Seq(NalT) /\ Nals = NalsIn(rx) \o (y \o t)
  <2>1. Joins(NalT)
    BY Associative, Zenon
  <2>2. y \o t \in Seq(NalT)
    BY <1>3, ConcatProperties
  <2>3. (NalsIn(rx) \o y) \o t = NalsIn(rx) \o (y \o t)
    BY <1>2, <1>3, <2>1, ZenonT(60) DEF Joins
  <2> QED
    BY <1>4, <1>6, <2>2, <2>3, Zenon
<1> QED
  BY <1>2, <1>4, <1>6, <1>7, Zenon

-----------------------------------------------------------------------------
(* NalsExact: the inductive invariant holds at first ...                   *)

LEMMA LeadsIs ==
  ASSUME NEW l \in {<<>>, Junk}
  PROVE  Leads(l)
<1>1. Leads(<<>>)
  BY DEF Leads
<1>2. Leads(Junk)
  <2>1. Junk \in Seq(1..255)
    BY AnnexBAssumption
  <2>2. 1..255 \subseteq Byte
    BY DEF Byte
  <2>3. Junk \in Seq(Byte)
    BY <2>1, <2>2, SeqMonotonic, Zenon
  <2>4. \A i \in 1..Len(Junk) : Junk[i] \in 1..255
    BY <2>1, ElementOfSeq
  <2>5. \A i \in 1..255 : i # 0
    OBVIOUS
  <2> QED
    BY <2>3, <2>4, <2>5, Zenon DEF Leads
<1> QED
  BY <1>1, <1>2, Zenon

LEMMA NoCodeYet == Len(start_code_positions(<<>>)) <= 1
<1>1. Len(<<>>) = 0
  OBVIOUS
<1>2. ASSUME NEW j \in Nat \ {0}, StartCodeAt(<<>>, j)
      PROVE  FALSE
  BY <1>2, <1>1 DEF StartCodeAt
<1>3. start_code_positions(<<>>) = <<>>
  <2>1. Len(<<>>) \in Nat
    BY <1>1
  <2> QED
    BY <1>2, <2>1, NoCode, Zenon
<1> QED
  BY <1>1, <1>3

LEMMA ExactInit ==
  ASSUME AnnexBInit
  PROVE  ExactInv
<1>1. StreamOK /\ DOMAIN stream = 1..Len(stream)
  BY StreamIsOK DEF AnnexBInit, Start
<1>2. 0 \in 0..Len(stream)
  BY <1>1 DEF StreamOK
<1>3. Raw = Rest(0) /\ Raw \in Seq(Byte)
  BY <1>1, <1>2, RestBegins, RestType, Zenon
<1>4. PICK l \in {<<>>, Junk} : pipe = l \o Raw
  <2>1. <<>> \o Raw = Raw
    BY <1>3, ConcatEmptySeq
  <2>2. pipe \in {Raw, Junk \o Raw}
    BY DEF AnnexBInit, Start
  <2> QED
    BY <2>1, <2>2, Zenon
<1>5. Leads(l) /\ l \in Seq(Byte)
  BY LeadsIs DEF Leads
<1>6. pipe \in Seq(Byte) /\ <<>> \o pipe = pipe
  <2>1. pipe \in Seq(Byte)
    BY <1>3, <1>4, <1>5, ConcatProperties
  <2> QED
    BY <2>1, ConcatEmptySeq
<1>7. AnnexBTypeOK
  <2>1. <<>> \in Seq(Byte) /\ <<>> \in Seq(NalT) /\ <<>> \in Seq(AccessUnits)
    OBVIOUS
  <2> QED
    BY <1>6, <2>1, Zenon DEF AnnexBInit, Start, AnnexBTypeOK
<1>8. Taken = <<>>
  <2>1. <<>> \o (<<>> \o <<>>) = <<>>
    OBVIOUS
  <2> QED
    BY <2>1, NothingTaken, Zenon DEF Taken, AnnexBInit, Start
<1>9. Drained
  BY NoCodeYet DEF Drained, AnnexBInit, Start
<1>10. Stands(0, l)
  <2>1. buffer \o pipe = l \o Rest(0)
    BY <1>3, <1>4, <1>6, Zenon DEF AnnexBInit, Start
  <2>2. pc # "flush"
    BY DEF AnnexBInit, Start
  <2> QED
    BY <1>5, <1>8, <2>1, <2>2, FoundBegins, Zenon DEF Stands
<1>11. rx \in Seq(Messages)
  BY DEF AnnexBInit, Start
<1>12. Reading
  BY <1>2, <1>9, <1>10, <1>11, Zenon DEF Reading
<1>13. pc # "ended"
  BY DEF AnnexBInit, Start
<1> QED
  BY <1>7, <1>12, <1>13 DEF ExactInv

-----------------------------------------------------------------------------
(* ... and every step keeps it.                                            *)

(* take_next_nal, from where the parser stands.                            *)
LEMMA Standing ==
  ASSUME ExactInv, Calling
  PROVE  \E k \in 0..Len(stream) :
           /\ Finds(take_next_nal(pc = "finish"), k, pc = "finish")
           /\ Taken = FoundUpto(k)
           /\ \E l \in {<<>>, Junk} : Stands(k, l)
<1>1. pc # "ended" /\ pc \in {"scan", "finish"}
  BY DEF Calling
<1>2. AnnexBTypeOK /\ Reading
  BY <1>1, Zenon DEF ExactInv
<1>3. PICK k \in 0..Len(stream), l \in {<<>>, Junk} : Stands(k, l)
  BY <1>2, Zenon DEF Reading
<1>4. StreamOK /\ SpacedOK
  BY <1>2, StreamIsOK, SpacedIs DEF AnnexBTypeOK
<1>5. Leads(l) /\ buffer \o pipe = l \o Rest(k) /\ Taken = FoundUpto(k)
  BY <1>3, Zenon DEF Stands
<1>6. buffer \in Seq(Byte) /\ pipe \in Seq(Byte)
  BY <1>2 DEF AnnexBTypeOK
<1>7. pc = "finish" => pipe = <<>> /\ Len(start_code_positions(buffer)) <= 1
  BY <1>2 DEF Reading, Drained
<1>8. PICK e \in BOOLEAN : e = (pc = "finish")
  BY Zenon
<1>9. e => pipe = <<>> /\ Len(start_code_positions(buffer)) <= 1
  BY <1>7, <1>8, Zenon
<1>10. Finds(take_next_nal(e), k, e)
  BY <1>4, <1>5, <1>6, <1>9, TakeFinds, Zenon
<1> QED
  BY <1>3, <1>5, <1>8, <1>10, Zenon

(* The NAL unit it finds is the encoder's next one.                        *)
LEMMA FindsNext ==
  ASSUME ExactInv, Calling, NEW r, r = take_next_nal(pc = "finish"),
         r.is = "nal"
  PROVE  /\ r.nal \in NalT
         /\ \E t \in Seq(NalT) : Nals = (Taken \o <<r.nal>>) \o t
<1>1. PICK k \in 0..Len(stream) : Finds(r, k, pc = "finish")
                                  /\ Taken = FoundUpto(k)
  BY Standing, Zenon
<1>2. k # Len(stream) /\ Found(k + 1) = <<r.nal>>
  BY <1>1 DEF Finds
<1>3. StreamOK /\ DOMAIN stream = 1..Len(stream)
  <2>1. codec \in Codecs /\ stream \in Streams[codec]
    BY DEF ExactInv, AnnexBTypeOK
  <2> QED
    BY <2>1, StreamIsOK
<1>4. k + 1 \in 0..Len(stream) /\ k + 1 \in 1..Len(stream)
  <2>1. Len(stream) \in Nat
    BY <1>3 DEF StreamOK
  <2> QED
    BY <1>2, <2>1
<1>5. <<r.nal>> \in Seq(NalT)
  BY <1>2, <1>3, <1>4, FoundType, Zenon
<1>6. r.nal \in NalT
  BY <1>5
<1>7. FoundUpto(k + 1) = Taken \o <<r.nal>>
  BY <1>1, <1>2, <1>3, FoundStep, Zenon
<1> QED
  BY <1>3, <1>4, <1>6, <1>7, FoundPrefix, Zenon

LEMMA FailExact ==
  ASSUME ExactInv, pc # "ended", Fail, UNCHANGED <<codec, stream>>,
         buffer' \in Seq(Byte), pipe' \in Seq(Byte),
         UNCHANGED <<setVars, current, current_has_vcl>>
  PROVE  ExactInv'
<1>1. AnnexBTypeOK /\ Reading
  BY Zenon DEF ExactInv
<1>2. Nals' = Nals /\ (WellFormed' <=> WellFormed)
  BY Frozen, Zenon
<1>3. AnnexBTypeOK'
  <2>1. out' = <<>> /\ <<>> \in Seq(AccessUnits) /\ pc' = "ended"
    BY DEF Fail
  <2>2. /\ parameter_sets' = parameter_sets /\ collecting_sets' = collecting_sets
        /\ pending_parameter_sets' = pending_parameter_sets
    BY DEF setVars
  <2> QED
    BY <1>1, <1>2, <2>1, <2>2 DEF AnnexBTypeOK
<1> DEFINE e == [is |-> "err"]
<1>4. rx' = Append(rx, e) /\ pc' = "ended" /\ rx \in Seq(Messages)
  BY <1>1, Zenon DEF Fail, Reading
<1>5. e.is = "err"
  OBVIOUS
<1> HIDE DEF e
<1>6. UnitsIn(rx') = rx /\ rx' # <<>> /\ Last(rx') = e
  BY <1>4, <1>5, UnitsAndEnd, Zenon
<1>7. Sent' = rx /\ SentNals' = NalsIn(rx)
  BY <1>6, SentIs, Zenon
<1>8. ~Ended'
  BY <1>5, <1>6 DEF Ended
<1>9. IsPrefix(NalsIn(rx), Nals)
  BY <1>1, TakenBegins, PrefixOf, Zenon
<1>10. Over'
  BY <1>2, <1>4, <1>6, <1>7, <1>8, <1>9, Zenon DEF Over
<1> QED
  BY <1>3, <1>4, <1>10, Zenon DEF ExactInv

(* A read moves bytes from the pipe to the buffer.                         *)
LEMMA Moved ==
  ASSUME NEW k \in 1..Min({READ, Len(pipe)}),
         buffer \in Seq(Byte), pipe \in Seq(Byte)
  PROVE  /\ buffer \o SubSeq(pipe, 1, k) \in Seq(Byte)
         /\ SubSeq(pipe, k + 1, Len(pipe)) \in Seq(Byte)
         /\ (buffer \o SubSeq(pipe, 1, k)) \o SubSeq(pipe, k + 1, Len(pipe))
              = buffer \o pipe
<1> DEFINE n == Len(pipe)
           a == SubSeq(pipe, 1, k)
           b == SubSeq(pipe, k + 1, n)
<1>1. READ \in Nat \ {0} /\ n \in Nat
  BY AnnexBAssumption
<1>2. Min({READ, n}) \in Nat /\ Min({READ, n}) <= n
  <2>1. \E x \in {READ, n} : \A y \in {READ, n} : x <= y
    BY <1>1
  <2>2. Min({READ, n}) \in {READ, n}
        /\ \A y \in {READ, n} : Min({READ, n}) <= y
    BY <2>1, Zenon DEF Min
  <2> QED
    BY <1>1, <2>2
<1>3. k \in Nat /\ 1 <= k /\ k <= n
  BY <1>1, <1>2
<1>4. \A i \in 1..n : pipe[i] \in Byte
  BY ElementOfSeq
<1>5. a \in Seq(Byte)
  <2>1. \A i \in 1..k : pipe[i] \in Byte
    BY <1>1, <1>3, <1>4
  <2> QED
    BY <1>3, <2>1, SubSeqProperties
<1>6. b \in Seq(Byte)
  <2>1. \A i \in (k + 1)..n : pipe[i] \in Byte
    BY <1>1, <1>3, <1>4
  <2> QED
    BY <1>1, <1>3, <2>1, SubSeqProperties
<1>7. a \o b = pipe
  <2>1. 1 \in 1..(n + 1) /\ k \in (1 - 1)..n /\ n \in k..n
    BY <1>1, <1>3
  <2>2. SubSeq(pipe, 1, k) \o SubSeq(pipe, k + 1, n) = SubSeq(pipe, 1, n)
    BY <2>1, ConcatAdjacentSubSeq
  <2> QED
    BY <2>2, SubSeqFull
<1> HIDE DEF a, b
<1>8. (buffer \o a) \o b = buffer \o pipe
  <2>1. Joins(Byte)
    BY Associative, Zenon
  <2> QED
    BY <1>5, <1>6, <1>7, <2>1, ZenonT(60) DEF Joins
<1>9. buffer \o a \in Seq(Byte)
  BY <1>5, ConcatProperties
<1> QED
  BY <1>6, <1>8, <1>9, Zenon DEF a, b

(* Where a step that does not end leaves the parser.                       *)
LEMMA StandsNext ==
  ASSUME ExactInv, UNCHANGED <<codec, stream>>,
         NEW k \in 0..Len(stream), NEW l \in {<<>>, Junk},
         AnnexBTypeOK', Drained', rx' \in Seq(Messages), pc' # "ended",
         buffer' \o pipe' = l \o Rest(k), Taken' = FoundUpto(k),
         pc' = "flush" => k = Len(stream)
  PROVE  ExactInv'
<1>1. Rest(k)' = Rest(k) /\ FoundUpto(k)' = FoundUpto(k)
  BY Frozen, Zenon
<1>2. Leads(l)
  BY LeadsIs
<1>3. Leads(l)'
  BY <1>2 DEF Leads
<1>4. stream' = stream
  OBVIOUS
<1>5. Stands(k, l)'
  BY <1>1, <1>3, <1>4, Zenon DEF Stands
<1>6. Reading'
  BY <1>4, <1>5, Zenon DEF Reading
<1> QED
  BY <1>6, Zenon DEF ExactInv

LEMMA ReadExact ==
  ASSUME ExactInv, NEW n \in 1..Min({READ, Len(pipe)}), Read(n)
  PROVE  ExactInv'
<1>1. pc = "read" /\ UNCHANGED <<codec, stream>>
      /\ UNCHANGED <<setVars, current, current_has_vcl>>
  BY DEF Read, ffmpegVars
<1>2. AnnexBTypeOK /\ Reading
  BY <1>1 DEF ExactInv
<1>3. /\ buffer' \in Seq(Byte) /\ pipe' \in Seq(Byte)
      /\ buffer' \o pipe' = buffer \o pipe
  <2>1. buffer \in Seq(Byte) /\ pipe \in Seq(Byte)
    BY <1>2 DEF AnnexBTypeOK
  <2>2. buffer' = buffer \o SubSeq(pipe, 1, n)
        /\ pipe' = SubSeq(pipe, n + 1, Len(pipe))
    BY DEF Read
  <2> QED
    BY <2>1, <2>2, Moved, Zenon
<1>4. CASE Fail
  <2>1. pc # "ended"
    BY <1>1
  <2> QED
    BY <1>1, <1>3, <1>4, <2>1, FailExact, Zenon
<1>5. CASE pc' = "scan" /\ UNCHANGED <<out, rx>>
  <2>1. PICK k \in 0..Len(stream), l \in {<<>>, Junk} : Stands(k, l)
    BY <1>2, Zenon DEF Reading
  <2>2. buffer' \o pipe' = l \o Rest(k) /\ Taken = FoundUpto(k)
    BY <1>3, <2>1, Zenon DEF Stands
  <2>3. Taken' = Taken
    BY <1>1, <1>5, Zenon DEF Taken, NalsIn, NalsOf
  <2>4. AnnexBTypeOK'
    <3>1. WellFormed'
      BY <1>1, <1>2, Frozen DEF AnnexBTypeOK
    <3> QED
      BY <1>1, <1>2, <1>3, <1>5, <3>1 DEF AnnexBTypeOK, setVars
  <2>5. Drained' /\ pc' # "ended" /\ pc' # "flush"
    BY <1>5 DEF Drained
  <2>6. rx' \in Seq(Messages)
    BY <1>2, <1>5 DEF Reading
  <2> QED
    BY <1>1, <2>2, <2>3, <2>4, <2>5, <2>6, StandsNext, Zenon
<1> QED
  BY <1>4, <1>5, Zenon DEF Read

LEMMA EofExact ==
  ASSUME ExactInv, ReadEof
  PROVE  ExactInv'
<1>1. pc = "read" /\ pipe = <<>> /\ pc' = "finish"
      /\ UNCHANGED <<codec, stream>> /\ UNCHANGED <<pipe, buffer, rx>>
      /\ UNCHANGED <<setVars, unitVars>>
  BY DEF ReadEof, ffmpegVars
<1>2. AnnexBTypeOK /\ Reading
  BY <1>1 DEF ExactInv
<1>3. PICK k \in 0..Len(stream), l \in {<<>>, Junk} : Stands(k, l)
  BY <1>2, Zenon DEF Reading
<1>4. buffer' \o pipe' = l \o Rest(k) /\ Taken = FoundUpto(k)
  BY <1>1, <1>3, Zenon DEF Stands
<1>5. Taken' = Taken
  BY <1>1, Zenon DEF Taken, NalsIn, NalsOf, unitVars
<1>6. AnnexBTypeOK'
  <2>1. WellFormed'
    BY <1>1, <1>2, Frozen DEF AnnexBTypeOK
  <2> QED
    BY <1>1, <1>2, <2>1 DEF AnnexBTypeOK, setVars, unitVars
<1>7. Drained'
  <2>1. Len(start_code_positions(buffer)) <= 1
    BY <1>1, <1>2 DEF Reading, Drained
  <2> QED
    BY <1>1, <2>1, Zenon DEF Drained
<1>8. rx' \in Seq(Messages) /\ pc' # "ended" /\ pc' # "flush"
  BY <1>1, <1>2 DEF Reading
<1> QED
  BY <1>1, <1>4, <1>5, <1>6, <1>7, <1>8, StandsNext, Zenon

LEMMA NalExact ==
  ASSUME ExactInv, Calling, NEW r, r = take_next_nal(pc = "finish"), TakeNal(r)
  PROVE  ExactInv'
<1>1. r.is = "nal" /\ UNCHANGED <<codec, stream>> /\ pipe' = pipe
      /\ buffer' = r.rest
  BY DEF TakeNal, ffmpegVars
<1>2. pc # "ended" /\ AnnexBTypeOK /\ Reading
  BY DEF ExactInv, Calling
<1>3. PICK k \in 0..Len(stream) : Finds(r, k, pc = "finish")
                                  /\ Taken = FoundUpto(k)
  BY Standing, Zenon
<1>4. /\ k # Len(stream) /\ r.rest \in Seq(Byte)
      /\ r.rest \o pipe = Rest(k + 1) /\ Found(k + 1) = <<r.nal>>
      /\ pc = "finish" => k + 1 = Len(stream)
  BY <1>1, <1>3 DEF Finds
<1>5. pipe \in Seq(Byte) /\ StreamOK
  BY <1>2, StreamIsOK DEF AnnexBTypeOK
<1>6. r.nal \in NalT
  BY <1>1, FindsNext, Zenon
<1>7. CASE TooManyParameterSets(r.nal)
  <2>1. Fail /\ UNCHANGED <<setVars, current, current_has_vcl>>
    BY <1>7 DEF TakeNal
  <2>2. buffer' \in Seq(Byte) /\ pipe' \in Seq(Byte)
    BY <1>1, <1>4, <1>5
  <2> QED
    BY <1>1, <1>2, <2>1, <2>2, FailExact, Zenon
<1>8. CASE ~TooManyParameterSets(r.nal)
  <2>1. /\ accept_nal(r.nal) /\ rx' = rx
        /\ pc' = IF pc = "finish" THEN "flush" ELSE "scan"
    BY <1>8 DEF TakeNal
  <2>2. rx \in Seq(Messages)
    BY <1>2 DEF Reading
  <2>3. /\ Taken' = Taken \o <<r.nal>>
        /\ current' \in Seq(NalT) /\ out' \in Seq(AccessUnits)
    BY <1>2, <1>6, <2>1, <2>2, AcceptTakes, Zenon
  <2>4. /\ parameter_sets' \in Seq(Byte)
        /\ pending_parameter_sets' \in Seq(Byte)
        /\ collecting_sets' \in BOOLEAN /\ current_has_vcl' \in BOOLEAN
    BY <1>2, <1>6, <2>1, AcceptTypes, Zenon
  <2>5. AnnexBTypeOK'
    <3>1. WellFormed'
      BY <1>1, <1>2, Frozen DEF AnnexBTypeOK
    <3> QED
      BY <1>1, <1>2, <1>4, <2>1, <2>3, <2>4, <3>1 DEF AnnexBTypeOK
  <2>6. k + 1 \in 0..Len(stream)
    <3>1. Len(stream) \in Nat
      BY <1>5 DEF StreamOK
    <3> QED
      BY <1>4, <3>1
  <2>7. Taken' = FoundUpto(k + 1)
    BY <1>3, <1>4, <1>5, <2>3, FoundStep, Zenon
  <2>8. buffer' \o pipe' = <<>> \o Rest(k + 1)
    <3>1. Rest(k + 1) \in Seq(Byte)
      BY <1>5, <2>6, RestType
    <3>2. <<>> \o Rest(k + 1) = Rest(k + 1)
      BY <3>1, ConcatEmptySeq
    <3> QED
      BY <1>1, <1>4, <3>2, Zenon
  <2>9. Drained' /\ pc' # "ended" /\ (pc' = "flush" => k + 1 = Len(stream))
    BY <1>4, <2>1 DEF Drained
  <2>10. rx' \in Seq(Messages) /\ <<>> \in {<<>>, Junk}
    BY <2>1, <2>2
  <2> QED
    BY <1>1, <2>5, <2>6, <2>7, <2>8, <2>9, <2>10, StandsNext, Zenon
<1> QED
  BY <1>7, <1>8

LEMMA EmptyExact ==
  ASSUME ExactInv, Calling, NEW r, r = take_next_nal(pc = "finish"),
         TakeEmpty(r)
  PROVE  ExactInv'
<1>1. r.is = "empty" /\ UNCHANGED <<codec, stream>> /\ UNCHANGED <<pipe, pc, rx>>
      /\ UNCHANGED <<setVars, unitVars>> /\ buffer' = r.rest
  BY DEF TakeEmpty, ffmpegVars
<1>2. pc \in {"scan", "finish"} /\ AnnexBTypeOK /\ Reading
  BY DEF ExactInv, Calling
<1>3. PICK k \in 0..Len(stream) : Finds(r, k, pc = "finish")
                                  /\ Taken = FoundUpto(k)
  BY Standing, Zenon
<1>4. /\ k # Len(stream) /\ r.rest \in Seq(Byte)
      /\ r.rest \o pipe = Rest(k + 1) /\ Found(k + 1) = <<>>
      /\ pc = "finish" => k + 1 = Len(stream) /\ r.rest = <<>>
  BY <1>1, <1>3 DEF Finds
<1>5. StreamOK
  BY <1>2, StreamIsOK DEF AnnexBTypeOK
<1>6. k + 1 \in 0..Len(stream)
  <2>1. Len(stream) \in Nat
    BY <1>5 DEF StreamOK
  <2> QED
    BY <1>4, <2>1
<1>7. Taken' = FoundUpto(k + 1)
  <2>1. Taken' = Taken
    BY <1>1, Zenon DEF Taken, NalsIn, NalsOf, unitVars
  <2>2. FoundUpto(k) \in Seq(NalT)
    BY <1>5, FoundUptoType
  <2>3. FoundUpto(k) \o <<>> = FoundUpto(k)
    BY <2>2, ConcatEmptySeq
  <2> QED
    BY <1>3, <1>4, <1>5, <2>1, <2>3, FoundStep, Zenon
<1>8. buffer' \o pipe' = <<>> \o Rest(k + 1)
  <2>1. Rest(k + 1) \in Seq(Byte)
    BY <1>5, <1>6, RestType
  <2>2. <<>> \o Rest(k + 1) = Rest(k + 1)
    BY <2>1, ConcatEmptySeq
  <2> QED
    BY <1>1, <1>4, <2>2, Zenon
<1>9. AnnexBTypeOK'
  <2>1. WellFormed'
    BY <1>1, <1>2, Frozen DEF AnnexBTypeOK
  <2> QED
    BY <1>1, <1>2, <1>4, <2>1 DEF AnnexBTypeOK, setVars, unitVars
<1>10. Drained'
  <2>1. pc = "finish" => pipe = <<>>
    BY <1>2 DEF Reading, Drained
  <2>2. pc = "finish" => Len(start_code_positions(buffer')) <= 1
    BY <1>1, <1>4, NoCodeYet, Zenon
  <2>3. pc # "read"
    BY <1>2
  <2> QED
    BY <1>1, <2>1, <2>2, <2>3 DEF Drained
<1>11. rx' \in Seq(Messages) /\ pc' # "ended" /\ pc' # "flush"
       /\ <<>> \in {<<>>, Junk}
  BY <1>1, <1>2 DEF Reading
<1> QED
  BY <1>1, <1>6, <1>7, <1>8, <1>9, <1>10, <1>11, StandsNext, Zenon

(* What is sent when a call returns is no longer in out.                   *)
LEMMA Returned ==
  ASSUME AnnexBTypeOK, rx \in Seq(Messages)
  PROVE  /\ rx \o Units(out, parameter_sets) \in Seq(Messages)
         /\ NalsIn(rx \o Units(out, parameter_sets)) \o (NalsOf(<<>>) \o current)
              = Taken
<1> DEFINE x == NalsIn(rx)
           y == NalsOf(out)
           u == Units(out, parameter_sets)
<1>1. /\ out \in Seq(AccessUnits) /\ parameter_sets \in Seq(Byte)
      /\ current \in Seq(NalT)
  BY DEF AnnexBTypeOK
<1>2. u \in Seq(Messages) /\ NalsIn(u) = y /\ y \in Seq(NalT)
  BY <1>1, UnitsType, Zenon
<1>3. x \in Seq(NalT)
  BY NalsEachType
<1>4. rx \o u \in Seq(Messages)
  BY <1>2, ConcatProperties
<1>5. NalsIn(rx \o u) = x \o y
  <2> HIDE DEF u
  <2> QED
    BY <1>2, NalsInConcat, Zenon
<1>6. NalsOf(<<>>) \o current = current
  BY <1>1, NothingTaken, ConcatEmptySeq
<1> HIDE DEF x, y
<1>7. (x \o y) \o current = x \o (y \o current)
  <2>1. Joins(NalT)
    BY Associative, Zenon
  <2> QED
    BY <1>1, <1>2, <1>3, <2>1, Zenon DEF Joins
<1> QED
  BY <1>4, <1>5, <1>6, <1>7, Zenon DEF Taken, x, y

LEMMA PushExact ==
  ASSUME ExactInv, Calling, NEW r, r = take_next_nal(pc = "finish"),
         PushReturns(r)
  PROVE  ExactInv'
<1>1. /\ pc = "scan" /\ r.is = "none" /\ pc' = "read" /\ out' = <<>>
      /\ rx' = rx \o Units(out, parameter_sets)
      /\ UNCHANGED <<codec, stream>> /\ UNCHANGED <<pipe, buffer>>
      /\ UNCHANGED <<setVars, current, current_has_vcl>>
  BY DEF PushReturns, ffmpegVars
<1>2. AnnexBTypeOK /\ Reading
  BY <1>1 DEF ExactInv
<1>3. PICK k \in 0..Len(stream), l \in {<<>>, Junk} :
        Finds(r, k, pc = "finish") /\ Taken = FoundUpto(k) /\ Stands(k, l)
  BY Standing, Zenon
<1>4. buffer' \o pipe' = l \o Rest(k)
  BY <1>1, <1>3, Zenon DEF Stands
<1>5. Len(start_code_positions(buffer)) <= 1
  BY <1>1, <1>3 DEF Finds
<1>6. rx' \in Seq(Messages) /\ Taken' = Taken
  <2>1. rx \in Seq(Messages)
    BY <1>2 DEF Reading
  <2>2. Taken' = NalsIn(rx') \o (NalsOf(out') \o current')
    BY Zenon DEF Taken, NalsIn, NalsOf
  <2> QED
    BY <1>1, <1>2, <2>1, <2>2, Returned, Zenon
<1>7. AnnexBTypeOK'
  <2>1. WellFormed'
    BY <1>1, <1>2, Frozen DEF AnnexBTypeOK
  <2> QED
    BY <1>1, <1>2, <2>1 DEF AnnexBTypeOK, setVars
<1>8. Drained' /\ pc' # "ended" /\ pc' # "flush"
  BY <1>1, <1>5 DEF Drained
<1> QED
  BY <1>1, <1>3, <1>4, <1>6, <1>7, <1>8, StandsNext, Zenon

LEMMA FinishExact ==
  ASSUME ExactInv, Calling, NEW r, r = take_next_nal(pc = "finish"),
         FinishFindsNone(r)
  PROVE  ExactInv'
<1>1. /\ pc = "finish" /\ r.is = "none" /\ pc' = "flush"
      /\ UNCHANGED <<codec, stream>> /\ UNCHANGED <<pipe, buffer, rx>>
      /\ UNCHANGED <<setVars, unitVars>>
  BY DEF FinishFindsNone, ffmpegVars
<1>2. AnnexBTypeOK /\ Reading
  BY <1>1 DEF ExactInv
<1>3. PICK k \in 0..Len(stream), l \in {<<>>, Junk} :
        Finds(r, k, pc = "finish") /\ Taken = FoundUpto(k) /\ Stands(k, l)
  BY Standing, Zenon
<1>4. buffer' \o pipe' = l \o Rest(k)
  BY <1>1, <1>3, Zenon DEF Stands
<1>5. k = Len(stream)
  BY <1>1, <1>3 DEF Finds
<1>6. rx' \in Seq(Messages) /\ Taken' = Taken
  BY <1>1, <1>2, Zenon DEF Taken, NalsIn, NalsOf, unitVars, Reading
<1>7. AnnexBTypeOK'
  <2>1. WellFormed'
    BY <1>1, <1>2, Frozen DEF AnnexBTypeOK
  <2> QED
    BY <1>1, <1>2, <2>1 DEF AnnexBTypeOK, setVars, unitVars
<1>8. Drained' /\ pc' # "ended"
  BY <1>1 DEF Drained
<1> QED
  BY <1>1, <1>3, <1>4, <1>5, <1>6, <1>7, <1>8, StandsNext, Zenon

LEMMA FlushExact ==
  ASSUME ExactInv, FinishReturns
  PROVE  ExactInv'
<1> DEFINE m == rx \o Units(out \o flush_current, parameter_sets)
           e == [is |-> "end"]
<1>1. /\ pc = "flush" /\ pc' = "ended" /\ out' = <<>> /\ current' = <<>>
      /\ current_has_vcl' = FALSE /\ rx' = Append(m, e)
      /\ UNCHANGED <<codec, stream>> /\ UNCHANGED <<pipe, buffer, setVars>>
  BY DEF FinishReturns, ffmpegVars
<1>2. AnnexBTypeOK /\ Reading
  BY <1>1 DEF ExactInv
<1>3. e.is # "unit" /\ e.is = "end"
  OBVIOUS
<1>4. m \in Seq(Messages) /\ NalsIn(m) = Taken
  <2> DEFINE o == out \o flush_current
             u == Units(o, parameter_sets)
  <2>1. /\ current \in Seq(NalT) /\ out \in Seq(AccessUnits)
        /\ parameter_sets \in Seq(Byte) /\ rx \in Seq(Messages)
    BY <1>2 DEF AnnexBTypeOK, Reading
  <2>2. flush_current \in Seq(AccessUnits) /\ NalsOf(flush_current) = current
    BY <2>1, Flushed
  <2>3. o \in Seq(AccessUnits) /\ NalsOf(o) = NalsOf(out) \o current
    <3>1. o \in Seq(AccessUnits)
      BY <2>1, <2>2, ConcatProperties
    <3> QED
      BY <2>1, <2>2, <3>1, NalsOfConcat, Zenon
  <2> HIDE DEF o
  <2>4. u \in Seq(Messages) /\ NalsIn(u) = NalsOf(o)
    BY <2>1, <2>3, UnitsType, Zenon
  <2> HIDE DEF u
  <2>5. rx \o u \in Seq(Messages)
    BY <2>1, <2>4, ConcatProperties
  <2>6. NalsIn(rx \o u) = NalsIn(rx) \o NalsIn(u)
    BY <2>1, <2>4, NalsInConcat, Zenon
  <2>7. m = rx \o u
    BY DEF o, u
  <2> HIDE DEF m
  <2> QED
    BY <2>3, <2>4, <2>5, <2>6, <2>7, Zenon DEF Taken
<1>5. Nals' = Nals /\ (WellFormed' <=> WellFormed)
  BY <1>1, Frozen, Zenon
<1>6. Taken = Nals
  <2>1. PICK k \in 0..Len(stream), l \in {<<>>, Junk} : Stands(k, l)
    BY <1>2, Zenon DEF Reading
  <2>2. Taken = FoundUpto(Len(stream))
    BY <1>1, <2>1, Zenon DEF Stands
  <2>3. DOMAIN stream = 1..Len(stream)
    BY <1>2, StreamIsOK DEF AnnexBTypeOK
  <2> QED
    BY <2>2, <2>3, FoundAll, Zenon
<1>7. AnnexBTypeOK'
  <2>1. <<>> \in Seq(AccessUnits) /\ <<>> \in Seq(NalT)
    OBVIOUS
  <2>2. /\ parameter_sets' = parameter_sets /\ collecting_sets' = collecting_sets
        /\ pending_parameter_sets' = pending_parameter_sets
        /\ codec' = codec /\ stream' = stream /\ pipe' = pipe /\ buffer' = buffer
    BY <1>1 DEF setVars
  <2>3. current_has_vcl' \in BOOLEAN /\ current' \in Seq(NalT)
        /\ out' \in Seq(AccessUnits)
        /\ pc' \in {"read", "scan", "finish", "flush", "ended"}
    BY <1>1, <2>1
  <2> QED
    BY <1>2, <1>5, <2>2, <2>3, Zenon DEF AnnexBTypeOK
<1> HIDE DEF m, e
<1>8. UnitsIn(rx') = m /\ rx' # <<>> /\ Last(rx') = e
  BY <1>1, <1>3, <1>4, UnitsAndEnd, Zenon
<1>9. Sent' = m /\ SentNals' = NalsIn(m)
  BY <1>8, SentIs, Zenon
<1>10. Over'
  BY <1>4, <1>5, <1>6, <1>8, <1>9, <1>3, Zenon DEF Over, Ended
<1> QED
  BY <1>1, <1>7, <1>10, Zenon DEF ExactInv

LEMMA ErrorExact ==
  ASSUME ExactInv, pc # "ended", Fail,
         UNCHANGED <<ffmpegVars, pipe, buffer, setVars, current, current_has_vcl>>
  PROVE  ExactInv'
<1>1. AnnexBTypeOK
  BY DEF ExactInv
<1>2. /\ UNCHANGED <<codec, stream>> /\ UNCHANGED <<setVars, current, current_has_vcl>>
      /\ buffer' \in Seq(Byte) /\ pipe' \in Seq(Byte)
  BY <1>1 DEF AnnexBTypeOK, ffmpegVars
<1> QED
  BY <1>2, FailExact, Zenon

LEMMA ExactNext ==
  ASSUME ExactInv, [AnnexBNext]_abVars
  PROVE  ExactInv'
<1>1. CASE Reads
  BY <1>1, ReadExact, EofExact, Zenon DEF Reads
<1>2. CASE ReadFails
  <2>1. pc # "ended" /\ Fail
    BY <1>2 DEF ReadFails
  <2>2. UNCHANGED <<ffmpegVars, pipe, buffer, setVars, current, current_has_vcl>>
    BY <1>2, Zenon DEF ReadFails
  <2> QED
    BY <2>1, <2>2, ErrorExact, Zenon
<1>3. CASE Take
  <2>1. Calling
    BY <1>3, Zenon DEF Take
  <2>2. PICK r : /\ r = take_next_nal(pc = "finish")
                 /\ \/ TakeNal(r) \/ TakeEmpty(r) \/ TakeError(r)
                    \/ PushReturns(r) \/ FinishFindsNone(r)
    BY <1>3, Zenon DEF Take
  <2>3. CASE TakeError(r)
    <3>1. pc # "ended" /\ Fail
      BY <2>1, <2>3 DEF TakeError, Calling
    <3>2. UNCHANGED <<ffmpegVars, pipe, buffer, setVars, current, current_has_vcl>>
      BY <2>3, Zenon DEF TakeError
    <3> QED
      BY <3>1, <3>2, ErrorExact, Zenon
  <2> QED
    BY <2>1, <2>2, <2>3, NalExact, EmptyExact, PushExact, FinishExact, Zenon
<1>4. CASE FinishReturns
  BY <1>4, FlushExact, Zenon
<1>5. CASE UNCHANGED abVars
  <2>1. /\ UNCHANGED <<codec, stream>> /\ UNCHANGED <<pipe, pc, buffer, rx>>
        /\ UNCHANGED <<setVars, unitVars>>
    BY <1>5 DEF abVars, ffmpegVars
  <2>2. /\ UNCHANGED <<parameter_sets, pending_parameter_sets, collecting_sets>>
        /\ UNCHANGED <<current, current_has_vcl, out>>
    BY <2>1 DEF setVars, unitVars
  <2>3. Nals' = Nals /\ (WellFormed' <=> WellFormed)
        /\ (\A k : Rest(k)' = Rest(k)) /\ (\A k : FoundUpto(k)' = FoundUpto(k))
    BY <2>1, Frozen, Zenon
  <2>4. AnnexBTypeOK' <=> AnnexBTypeOK
    BY <2>1, <2>2, <2>3, Zenon DEF AnnexBTypeOK
  <2>5. Reading' <=> Reading
    <3>1. Taken' = Taken
      BY <2>1, <2>2, Zenon DEF Taken, NalsIn, NalsOf
    <3>2. Drained' <=> Drained
      BY <2>1, Zenon DEF Drained
    <3>3. \A k, l : Stands(k, l)' <=> Stands(k, l)
      BY <2>1, <2>3, <3>1, Zenon DEF Stands, Leads
    <3> QED
      BY <2>1, <3>2, <3>3, Zenon DEF Reading
  <2>6. Over' <=> Over
    <3>1. Sent' = Sent /\ SentNals' = SentNals
      BY <2>1, SentIs, Zenon
    <3> QED
      BY <2>1, <2>3, <3>1, Zenon DEF Over, Ended
  <2> QED
    BY <2>1, <2>4, <2>5, <2>6, Zenon DEF ExactInv
<1> QED
  BY <1>1, <1>2, <1>3, <1>4, <1>5, Zenon DEF AnnexBNext, Parse

LEMMA ExactAlways == AnnexBSpec => []ExactInv
<1>1. AnnexBInit => ExactInv
  BY ExactInit
<1>2. ExactInv /\ [AnnexBNext]_abVars => ExactInv'
  BY ExactNext
<1> QED
  BY <1>1, <1>2, PTL DEF AnnexBSpec

(* Whatever the encoder writes and however the reads cut it, the units     *)
(* sent are made of its own NAL units, byte for byte and in order, and     *)
(* with the end reported none is missing (take_next_nal and accept_nal).   *)
THEOREM StreamIsKept == AnnexBSpec => []NalsExact
<1>1. ASSUME ExactInv
      PROVE  NalsExact
  <2>1. CASE pc = "ended"
    BY <1>1, <2>1, Zenon DEF ExactInv, Over, NalsExact
  <2>2. CASE pc # "ended"
    <3>1. AnnexBTypeOK /\ Reading /\ rx \in Seq(Messages)
      BY <1>1, <2>2, Zenon DEF ExactInv, Reading
    <3>2. ~Ended /\ SentNals = NalsIn(rx)
      BY <3>1, AllUnits, SentIs, Zenon DEF Ended
    <3>3. IsPrefix(NalsIn(rx), Nals)
      BY <3>1, TakenBegins, PrefixOf, Zenon
    <3> QED
      BY <3>2, <3>3, Zenon DEF NalsExact
  <2> QED
    BY <2>1, <2>2
<1> QED
  BY <1>1, ExactAlways, PTL

-----------------------------------------------------------------------------
(* The steps, by what they do to the units: nothing, give up, accept a NAL *)
(* unit, return from push, return from finish.                             *)

KeepsOn == pc' # "ended" /\ UNCHANGED <<rx, unitVars, setVars>>

GivesUp == pc' = "ended" /\ Sent' = rx

Accepts(n) ==
  /\ pc' # "ended" /\ rx' = rx
  /\ n \in NalT /\ accept_nal(n) /\ ~TooManyParameterSets(n)
  /\ Taken' = Taken \o <<n>>
  /\ \E t \in Seq(NalT) : Nals = (Taken \o <<n>>) \o t

Returns ==
  /\ pc' # "ended"
  /\ rx' = rx \o Units(out, parameter_sets) /\ out' = <<>>
  /\ UNCHANGED <<current, current_has_vcl, setVars>>
  /\ Taken' = Taken

Finishes ==
  /\ pc' = "ended" /\ current' = <<>>
  /\ Sent' = rx \o Units(out \o flush_current, parameter_sets)

LEMMA Kinds ==
  ASSUME ExactInv, [AnnexBNext]_abVars
  PROVE  /\ UNCHANGED <<codec, stream>>
         /\ \/ pc' = pc /\ UNCHANGED <<rx, unitVars, setVars>>
            \/ /\ pc # "ended" /\ AnnexBTypeOK /\ Reading
               /\ \/ KeepsOn \/ GivesUp \/ (\E n : Accepts(n))
                  \/ Returns \/ Finishes
<1>1. ASSUME pc # "ended"
      PROVE  AnnexBTypeOK /\ Reading /\ rx \in Seq(Messages)
  BY <1>1, Zenon DEF ExactInv, Reading
<1>2. ASSUME Fail, pc # "ended"
      PROVE  GivesUp
  <2> DEFINE e == [is |-> "err"]
  <2>1. rx' = Append(rx, e) /\ pc' = "ended" /\ rx \in Seq(Messages)
    BY <1>1, <1>2, Zenon DEF Fail
  <2>2. e.is # "unit"
    OBVIOUS
  <2> HIDE DEF e
  <2>3. UnitsIn(rx') = rx
    BY <2>1, <2>2, UnitsAndEnd, Zenon
  <2> QED
    BY <2>1, <2>3, SentIs, Zenon DEF GivesUp
<1>3. CASE Reads
  <2>1. pc # "ended" /\ UNCHANGED <<codec, stream>>
    BY <1>3 DEF Reads, Read, ReadEof, ffmpegVars
  <2>2. CASE ReadEof
    <3>1. KeepsOn
      BY <2>2 DEF ReadEof, KeepsOn, unitVars, setVars
    <3> QED
      BY <1>1, <2>1, <3>1, Zenon
  <2>3. ASSUME NEW k, Read(k)
        PROVE  KeepsOn \/ GivesUp
    <3>1. CASE Fail
      BY <1>2, <2>1, <3>1, Zenon
    <3>2. CASE pc' = "scan" /\ UNCHANGED <<out, rx>>
      BY <2>3, <3>2 DEF Read, KeepsOn, unitVars, setVars
    <3> QED
      BY <2>3, <3>1, <3>2, Zenon DEF Read
  <2> QED
    BY <1>1, <1>3, <2>1, <2>2, <2>3, Zenon DEF Reads
<1>4. CASE ReadFails
  <2>1. pc # "ended" /\ UNCHANGED <<codec, stream>> /\ Fail
    BY <1>4 DEF ReadFails, ffmpegVars
  <2> QED
    BY <1>1, <1>2, <2>1, Zenon
<1>5. CASE Take
  <2>1. Calling /\ pc # "ended"
    BY <1>5 DEF Take, Calling
  <2>2. PICK r : /\ r = take_next_nal(pc = "finish")
                 /\ \/ TakeNal(r) \/ TakeEmpty(r) \/ TakeError(r)
                    \/ PushReturns(r) \/ FinishFindsNone(r)
    BY <1>5, Zenon DEF Take
  <2>3. UNCHANGED <<codec, stream>>
    BY <2>2 DEF TakeNal, TakeEmpty, TakeError, PushReturns, FinishFindsNone,
                ffmpegVars
  <2>4. CASE TakeNal(r)
    <3>1. r.is = "nal"
      BY <2>4 DEF TakeNal
    <3>2. r.nal \in NalT /\ \E t \in Seq(NalT) : Nals = (Taken \o <<r.nal>>) \o t
      BY <2>1, <2>2, <3>1, FindsNext, Zenon
    <3>3. CASE TooManyParameterSets(r.nal)
      <4>1. Fail
        BY <2>4, <3>3 DEF TakeNal
      <4> QED
        BY <1>1, <1>2, <2>1, <2>3, <4>1, Zenon
    <3>4. CASE ~TooManyParameterSets(r.nal)
      <4>1. accept_nal(r.nal) /\ rx' = rx /\ pc' # "ended"
        BY <2>4, <3>4 DEF TakeNal
      <4>2. Taken' = Taken \o <<r.nal>>
        BY <1>1, <2>1, <3>2, <4>1, AcceptTakes, Zenon
      <4>3. Accepts(r.nal)
        BY <3>2, <3>4, <4>1, <4>2, Zenon DEF Accepts
      <4> QED
        BY <1>1, <2>1, <2>3, <4>3, Zenon
    <3> QED
      BY <3>3, <3>4
  <2>5. CASE TakeEmpty(r)
    <3>1. KeepsOn
      BY <2>1, <2>5 DEF TakeEmpty, KeepsOn, unitVars, setVars
    <3> QED
      BY <1>1, <2>1, <2>3, <3>1, Zenon
  <2>6. CASE TakeError(r)
    <3>1. Fail
      BY <2>6 DEF TakeError
    <3> QED
      BY <1>1, <1>2, <2>1, <2>3, <3>1, Zenon
  <2>7. CASE PushReturns(r)
    <3>1. /\ pc' # "ended" /\ out' = <<>>
          /\ rx' = rx \o Units(out, parameter_sets)
          /\ UNCHANGED <<current, current_has_vcl, setVars>>
      BY <2>7 DEF PushReturns
    <3>2. Taken' = NalsIn(rx') \o (NalsOf(out') \o current')
      BY Zenon DEF Taken, NalsIn, NalsOf
    <3>3. Taken' = Taken
      BY <1>1, <2>1, <3>1, <3>2, Returned, Zenon
    <3>4. Returns
      BY <3>1, <3>3, Zenon DEF Returns
    <3> QED
      BY <1>1, <2>1, <2>3, <3>4, Zenon
  <2>8. CASE FinishFindsNone(r)
    <3>1. KeepsOn
      BY <2>8 DEF FinishFindsNone, KeepsOn, unitVars, setVars
    <3> QED
      BY <1>1, <2>1, <2>3, <3>1, Zenon
  <2> QED
    BY <2>2, <2>4, <2>5, <2>6, <2>7, <2>8, Zenon
<1>6. CASE FinishReturns
  <2> DEFINE m == rx \o Units(out \o flush_current, parameter_sets)
             e == [is |-> "end"]
  <2>1. /\ pc # "ended" /\ pc' = "ended" /\ rx' = Append(m, e)
        /\ current' = <<>> /\ UNCHANGED <<codec, stream>>
    BY <1>6 DEF FinishReturns, ffmpegVars
  <2>2. e.is # "unit"
    OBVIOUS
  <2>3. m \in Seq(Messages)
    <3> DEFINE o == out \o flush_current
    <3>1. /\ current \in Seq(NalT) /\ out \in Seq(AccessUnits)
          /\ parameter_sets \in Seq(Byte) /\ rx \in Seq(Messages)
      BY <1>1, <2>1 DEF AnnexBTypeOK
    <3>2. flush_current \in Seq(AccessUnits)
      BY <3>1, Flushed
    <3>3. o \in Seq(AccessUnits)
      BY <3>1, <3>2, ConcatProperties
    <3> HIDE DEF o
    <3>4. Units(o, parameter_sets) \in Seq(Messages)
      BY <3>1, <3>3, UnitsType, Zenon
    <3>5. rx \o Units(o, parameter_sets) \in Seq(Messages)
      BY <3>1, <3>4, ConcatProperties
    <3> QED
      BY <3>5 DEF o
  <2> HIDE DEF m, e
  <2>4. UnitsIn(rx') = m
    BY <2>1, <2>2, <2>3, UnitsAndEnd, Zenon
  <2>5. Finishes
    BY <2>1, <2>4, SentIs, Zenon DEF Finishes, m
  <2> QED
    BY <1>1, <2>1, <2>5, Zenon
<1>7. CASE UNCHANGED abVars
  BY <1>7 DEF abVars, ffmpegVars
<1> QED
  BY <1>3, <1>4, <1>5, <1>6, <1>7, Zenon DEF AnnexBNext, Parse

(* The next NAL unit of the stream.                                        *)
Follows(s, n, t, z) ==
  /\ s \in Seq(NalT) /\ n \in NalT /\ t \in Seq(NalT)
  /\ z = (s \o <<n>>) \o t

NextIs(s, n, z) ==
  /\ z \in Seq(NalT) /\ Len(s) \in Nat /\ DOMAIN z = 1..Len(z)
  /\ Len(s) + 1 \in 1..Len(z)
  /\ z[Len(s) + 1] = n
  /\ \A i \in 1..Len(s) : z[i] = s[i]

LEMMA NextInStream ==
  ASSUME NEW s, NEW n, NEW t, NEW z, Follows(s, n, t, z)
  PROVE  NextIs(s, n, z)
<1> /\ s \in Seq(NalT) /\ n \in NalT /\ t \in Seq(NalT)
    /\ z = (s \o <<n>>) \o t
  BY DEF Follows
<1> DEFINE v == <<n>>
           m == Len(s)
           q == s \o v
<1>1. v \in Seq(NalT) /\ Len(v) = 1 /\ v[1] = n
  OBVIOUS
<1> HIDE DEF v
<1>2. m \in Nat /\ Len(t) \in Nat
  BY LenProperties
<1>3. /\ q \in Seq(NalT) /\ Len(q) = m + 1
      /\ \A i \in 1..(m + 1) : q[i] = IF i <= m THEN s[i] ELSE v[i - m]
  <2>1. /\ q \in Seq(NalT) /\ Len(q) = m + Len(v)
        /\ \A i \in 1..(m + Len(v)) :
             q[i] = IF i <= m THEN s[i] ELSE v[i - m]
    BY <1>1, ConcatProperties, Zenon
  <2> QED
    BY <1>1, <2>1, Zenon
<1> HIDE DEF m, q
<1>4. /\ q \o t \in Seq(NalT) /\ Len(q \o t) = Len(q) + Len(t)
      /\ \A i \in 1..(Len(q) + Len(t)) :
           (q \o t)[i] = IF i <= Len(q) THEN q[i] ELSE t[i - Len(q)]
  BY <1>3, ConcatProperties, Zenon
<1>5. z = q \o t
  BY DEF q, v
<1>6. Len(z) = m + 1 + Len(t)
  BY <1>3, <1>4, <1>5
<1>7. \A i \in 1..(m + 1) : i \in 1..(Len(q) + Len(t)) /\ i <= Len(q)
  BY <1>2, <1>3
<1>8. \A i \in 1..(m + 1) : z[i] = q[i]
  BY <1>4, <1>5, <1>7, Zenon
<1>9. z[m + 1] = n
  <2>1. m + 1 \in 1..(m + 1) /\ ~(m + 1 <= m) /\ (m + 1) - m = 1
    BY <1>2
  <2> QED
    BY <1>1, <1>3, <1>8, <2>1, Zenon
<1>10. \A i \in 1..m : z[i] = s[i]
  <2> TAKE i \in 1..m
  <2>1. i \in 1..(m + 1) /\ i <= m
    BY <1>2
  <2> QED
    BY <1>3, <1>8, <2>1, Zenon
<1>11. m + 1 \in 1..Len(z)
  BY <1>2, <1>6
<1>12. z \in Seq(NalT)
  BY <1>4, <1>5
<1> QED
  BY <1>2, <1>9, <1>10, <1>11, <1>12, LenProperties, Zenon DEF m, NextIs

LEMMA AcceptedNext ==
  ASSUME AnnexBTypeOK, Reading, NEW n, Accepts(n)
  PROVE  NextIs(Taken, n, Nals)
<1>1. Taken \in Seq(NalT)
  BY TakenBegins
<1>2. PICK t \in Seq(NalT) : Nals = (Taken \o <<n>>) \o t
  BY Zenon DEF Accepts
<1>3. n \in NalT
  BY Zenon DEF Accepts
<1>4. Follows(Taken, n, t, Nals)
  BY <1>1, <1>2, <1>3, Zenon DEF Follows
<1> QED
  BY <1>4, NextInStream, Zenon

-----------------------------------------------------------------------------
(* OnePicture.  A unit holds one picture: of its slices the first, and     *)
(* only the first, begins a picture.                                       *)

Picture(n) ==
  \A j \in 1..Len(n) :
    is_vcl(n[j]) => (starts_new_picture(n[j])
                       <=> \A i \in 1..(j - 1) : ~is_vcl(n[i]))

Pictured(msgs) == \A u \in 1..Len(msgs) : Picture(msgs[u].au.nals)

HasSlice(n) == \E i \in 1..Len(n) : is_vcl(n[i])

PictureInv ==
  /\ Pictured(Sent)
  /\ pc # "ended" =>
       /\ \A u \in 1..Len(out) : Picture(out[u].nals)
       /\ Picture(current)
       /\ current_has_vcl <=> HasSlice(current)
       /\ current = <<>> => Taken = <<>>

LEMMA PicturesFrozen ==
  ASSUME codec' = codec
  PROVE  /\ \A n : is_vcl(n)' <=> is_vcl(n)
         /\ \A n : is_aud(n)' <=> is_aud(n)
         /\ \A n : is_parameter_set(n)' <=> is_parameter_set(n)
         /\ \A n : starts_new_picture(n)' <=> starts_new_picture(n)
         /\ \A n : Picture(n)' <=> Picture(n)
         /\ \A m : Pictured(m)' <=> Pictured(m)
         /\ \A n : HasSlice(n)' <=> HasSlice(n)
<1>1. \A n : is_vcl(n)' <=> is_vcl(n)
  BY Zenon DEF is_vcl
<1>2. \A n : is_aud(n)' <=> is_aud(n)
  BY Zenon DEF is_aud
<1>3. \A n : is_parameter_set(n)' <=> is_parameter_set(n)
  BY Zenon DEF is_parameter_set
<1>4. \A n : starts_new_picture(n)' <=> starts_new_picture(n)
  BY Zenon DEF starts_new_picture, header_len
<1>5. \A n : Picture(n)' <=> Picture(n)
  BY <1>1, <1>4, Zenon DEF Picture
<1>6. \A m : Pictured(m)' <=> Pictured(m)
  BY <1>5, Zenon DEF Pictured
<1>7. \A n : HasSlice(n)' <=> HasSlice(n)
  BY <1>1, Zenon DEF HasSlice
<1> QED
  BY <1>1, <1>2, <1>3, <1>4, <1>5, <1>6, <1>7, Zenon

(* Slices are of no other kind.                                            *)
LEMMA KindsApart ==
  ASSUME NEW n, is_vcl(n)
  PROVE  ~is_aud(n) /\ ~is_parameter_set(n) /\ ~is_sei(n)
<1>1. CASE codec = "H264"
  BY <1>1 DEF is_vcl, is_aud, is_parameter_set, is_sei
<1>2. CASE codec # "H264"
  BY <1>2 DEF is_vcl, is_aud, is_parameter_set, is_sei
<1> QED
  BY <1>1, <1>2

LEMMA PictureOfOne ==
  ASSUME NEW n \in NalT, is_vcl(n) => starts_new_picture(n)
  PROVE  /\ Picture(Append(<<>>, n))
         /\ HasSlice(Append(<<>>, n)) <=> is_vcl(n)
         /\ Append(<<>>, n) # <<>>
<1> DEFINE s == Append(<<>>, n)
<1>1. Len(s) = 1 /\ s[1] = n /\ s # <<>>
  OBVIOUS
<1>2. 1..1 = {1} /\ 1..(1 - 1) = {}
  OBVIOUS
<1> HIDE DEF s
<1>3. Picture(s)
  <2>1. ASSUME NEW j \in 1..Len(s), is_vcl(s[j])
        PROVE  starts_new_picture(s[j]) <=> \A i \in 1..(j - 1) : ~is_vcl(s[i])
    <3>1. j = 1 /\ s[j] = n /\ 1..(j - 1) = {}
      BY <1>1
    <3> QED
      BY <2>1, <3>1, Zenon
  <2> QED
    BY <2>1, Zenon DEF Picture
<1>4. HasSlice(s) <=> is_vcl(n)
  BY <1>1, <1>2, Zenon DEF HasSlice
<1> QED
  BY <1>1, <1>3, <1>4, Zenon DEF s

LEMMA PictureOfMore ==
  ASSUME NEW c \in Seq(NalT), Picture(c), NEW n \in NalT,
         is_vcl(n) => (starts_new_picture(n) <=> ~HasSlice(c))
  PROVE  /\ Picture(Append(c, n))
         /\ HasSlice(Append(c, n)) <=> HasSlice(c) \/ is_vcl(n)
         /\ Append(c, n) # <<>>
<1> DEFINE s == Append(c, n)
           m == Len(c)
<1>1. /\ m \in Nat /\ Len(s) = m + 1 /\ s # <<>> /\ s[m + 1] = n
      /\ \A i \in 1..m : s[i] = c[i]
  BY AppendProperties, LenProperties
<1> HIDE DEF s, m
<1>2. 1..(m + 1) = 1..m \cup {m + 1} /\ (m + 1) - 1 = m
  BY <1>1
<1>3. ASSUME NEW j \in 1..m
      PROVE  \A i \in 1..(j - 1) : i \in 1..m
  BY <1>1
<1>4. HasSlice(s) <=> HasSlice(c) \/ is_vcl(n)
  BY <1>1, <1>2, Zenon DEF HasSlice, m
<1>5. ASSUME NEW j \in 1..(m + 1), is_vcl(s[j])
      PROVE  starts_new_picture(s[j]) <=> \A i \in 1..(j - 1) : ~is_vcl(s[i])
  <2>1. CASE j \in 1..m
    <3>1. s[j] = c[j] /\ \A i \in 1..(j - 1) : s[i] = c[i]
      BY <1>1, <1>3, <2>1, Zenon
    <3>2. starts_new_picture(c[j]) <=> \A i \in 1..(j - 1) : ~is_vcl(c[i])
      BY <1>5, <2>1, <3>1, Zenon DEF Picture, m
    <3> QED
      BY <3>1, <3>2, Zenon
  <2>2. CASE j = m + 1
    <3>1. is_vcl(n) /\ s[j] = n
      BY <1>1, <1>5, <2>2, Zenon
    <3>2. HasSlice(c) <=> ~(\A i \in 1..(j - 1) : ~is_vcl(s[i]))
      BY <1>1, <1>2, <2>2, Zenon DEF HasSlice, m
    <3> QED
      BY <3>1, <3>2, Zenon
  <2> QED
    BY <1>2, <2>1, <2>2, Zenon
<1>6. Picture(s)
  BY <1>1, <1>5, Zenon DEF Picture
<1> QED
  BY <1>1, <1>4, <1>6, Zenon DEF s

(* A slice that is not the first of its picture follows a slice of it.     *)
LEMMA LaterSlice ==
  ASSUME AnnexBTypeOK, Reading, PictureInv, pc # "ended", NEW n, Accepts(n),
         is_vcl(n), ~starts_new_picture(n)
  PROVE  HasSlice(current)
<1>1. n \in NalT /\ WellFormed /\ current \in Seq(NalT)
  BY DEF Accepts, AnnexBTypeOK
<1> DEFINE m == Len(Taken)
<1>4. /\ m \in Nat /\ DOMAIN Nals = 1..Len(Nals)
      /\ m + 1 \in 1..Len(Nals) /\ Nals[m + 1] = n
      /\ \A i \in 1..m : Nals[i] = Taken[i]
  BY AcceptedNext, Zenon DEF NextIs
<1> HIDE DEF m
<1>5. m + 1 > 1 /\ is_vcl(Nals[(m + 1) - 1])
  BY <1>1, <1>4, Zenon DEF WellFormed
<1>6. m \in 1..m /\ (m + 1) - 1 = m /\ m # 0
  BY <1>4, <1>5
<1>7. is_vcl(Taken[m])
  BY <1>4, <1>5, <1>6, Zenon
<1>8. current # <<>>
  <2>1. Taken # <<>>
    BY <1>6 DEF m
  <2> QED
    BY <2>1, Zenon DEF PictureInv
<1>9. Taken[m] = current[Len(current)] /\ Len(current) \in 1..Len(current)
  <2> DEFINE x == NalsIn(rx)
             y == NalsOf(out)
  <2>1. x \in Seq(NalT) /\ y \in Seq(NalT)
    <3>1. out \in Seq(AccessUnits) /\ <<>> \in Seq(Byte) /\ rx \in Seq(Messages)
      BY DEF AnnexBTypeOK, Reading
    <3> QED
      BY <3>1, NalsEachType, UnitsType, Zenon
  <2>2. Taken = x \o (y \o current)
    BY DEF Taken
  <2> HIDE DEF x, y
  <2>3. /\ Len(x) \in Nat /\ Len(y) \in Nat /\ Len(current) \in Nat
        /\ Len(Taken) = Len(x) + Len(y) + Len(current)
        /\ \A i \in 1..Len(current) : Taken[Len(x) + Len(y) + i] = current[i]
    BY <1>1, <2>1, <2>2, ThreeInRow
  <2>4. Len(current) \in 1..Len(current)
    BY <1>1, <1>8
  <2> QED
    BY <2>3, <2>4, Zenon DEF m
<1> QED
  BY <1>7, <1>9, Zenon DEF HasSlice

(* Messages and access units, one after the other.                         *)
LEMMA PicturedSent ==
  ASSUME NEW m \in Seq(Messages), NEW o \in Seq(AccessUnits),
         NEW sets \in Seq(Byte),
         Pictured(m), \A u \in 1..Len(o) : Picture(o[u].nals)
  PROVE  Pictured(m \o Units(o, sets))
<1> DEFINE t == Units(o, sets)
<1>1. /\ t \in Seq(Messages) /\ Len(t) = Len(o)
      /\ \A i \in 1..Len(o) : t[i].au = o[i]
  BY UnitsType, Zenon
<1> HIDE DEF t
<1>2. /\ Len(m \o t) = Len(m) + Len(t)
      /\ \A i \in 1..(Len(m) + Len(t)) :
           (m \o t)[i] = IF i <= Len(m) THEN m[i] ELSE t[i - Len(m)]
      /\ Len(m) \in Nat /\ Len(t) \in Nat
  BY <1>1, ConcatProperties, LenProperties, ZenonT(60)
<1>3. ASSUME NEW u \in 1..(Len(m) + Len(t))
      PROVE  Picture((m \o t)[u].au.nals)
  <2>1. CASE u <= Len(m)
    <3>1. u \in 1..Len(m)
      BY <1>2, <2>1
    <3> QED
      BY <1>2, <2>1, <3>1, Zenon DEF Pictured
  <2>2. CASE ~(u <= Len(m))
    <3>1. u - Len(m) \in 1..Len(o)
      BY <1>1, <1>2, <2>2
    <3> QED
      BY <1>1, <1>2, <2>2, <3>1, Zenon
  <2> QED
    BY <2>1, <2>2
<1> QED
  BY <1>2, <1>3, Zenon DEF Pictured, t

LEMMA PicturedFlushed ==
  ASSUME out \in Seq(AccessUnits), current \in Seq(NalT),
         \A u \in 1..Len(out) : Picture(out[u].nals), Picture(current)
  PROVE  \A u \in 1..Len(out \o flush_current) :
           Picture((out \o flush_current)[u].nals)
<1> DEFINE f == flush_current
<1>1. f \in Seq(AccessUnits)
  BY Flushed
<1>2. \A u \in 1..Len(f) : Picture(f[u].nals)
  <2>1. CASE current = <<>>
    <3>1. f = <<>>
      BY <2>1, Zenon DEF flush_current
    <3>2. Len(<<>>) = 0 /\ 1..0 = {}
      OBVIOUS
    <3> HIDE DEF f
    <3> QED
      BY <3>1, <3>2, Zenon
  <2>2. CASE current # <<>>
    <3> DEFINE au == [nals |-> current,
                      keyframe |-> \E i \in DOMAIN current :
                                     is_keyframe_nal(current[i])]
    <3>1. f = <<au>>
      BY <2>2, Zenon DEF flush_current
    <3>2. au.nals = current
      BY Zenon
    <3> HIDE DEF au, f
    <3>3. Len(<<au>>) = 1 /\ <<au>>[1] = au /\ 1..1 = {1}
      OBVIOUS
    <3> QED
      BY <3>1, <3>2, <3>3, Zenon
  <2> QED
    BY <2>1, <2>2
<1> HIDE DEF f
<1>3. /\ Len(out \o f) = Len(out) + Len(f)
      /\ \A i \in 1..(Len(out) + Len(f)) :
           (out \o f)[i] = IF i <= Len(out) THEN out[i] ELSE f[i - Len(out)]
      /\ Len(out) \in Nat /\ Len(f) \in Nat
  BY <1>1, ConcatProperties, LenProperties
<1>4. ASSUME NEW u \in 1..(Len(out) + Len(f))
      PROVE  Picture((out \o f)[u].nals)
  <2>1. CASE u <= Len(out)
    <3>1. u \in 1..Len(out)
      BY <1>3, <2>1
    <3> QED
      BY <1>3, <2>1, <3>1, Zenon
  <2>2. CASE ~(u <= Len(out))
    <3>1. u - Len(out) \in 1..Len(f)
      BY <1>3, <2>2
    <3> QED
      BY <1>2, <1>3, <2>2, <3>1, Zenon
  <2> QED
    BY <2>1, <2>2
<1> QED
  BY <1>3, <1>4, Zenon DEF f

LEMMA PictureInit ==
  ASSUME AnnexBInit
  PROVE  PictureInv
<1>1. /\ rx = <<>> /\ out = <<>> /\ current = <<>> /\ current_has_vcl = FALSE
  BY DEF AnnexBInit, Start
<1>2. Sent = <<>>
  BY <1>1, Zenon DEF Sent
<1>3. Len(<<>>) = 0 /\ 1..0 = {}
  OBVIOUS
<1>4. Taken = <<>>
  <2>1. <<>> \o (<<>> \o <<>>) = <<>>
    OBVIOUS
  <2> QED
    BY <1>1, <2>1, NothingTaken, Zenon DEF Taken
<1>5. Pictured(<<>>)
  BY <1>3, Zenon DEF Pictured
<1>6. Picture(<<>>)
  BY <1>3, Zenon DEF Picture
<1>7. ~HasSlice(<<>>)
  BY <1>3, Zenon DEF HasSlice
<1> QED
  BY <1>1, <1>2, <1>3, <1>4, <1>5, <1>6, <1>7, Zenon DEF PictureInv

(* The invariant of the next state, with what is in the stream as it is.   *)
LEMMA PictureNow ==
  ASSUME codec' = codec, Pictured(Sent'),
         pc' # "ended" =>
           /\ \A u \in 1..Len(out') : Picture(out'[u].nals)
           /\ Picture(current')
           /\ current_has_vcl' <=> HasSlice(current')
           /\ current' = <<>> => Taken' = <<>>
  PROVE  PictureInv'
<1>1. PICK s, o, c : s = Sent' /\ o = out' /\ c = current'
  OBVIOUS
<1>2. /\ \A m : Picture(m)' <=> Picture(m)
      /\ \A m : Pictured(m)' <=> Pictured(m)
      /\ \A m : HasSlice(m)' <=> HasSlice(m)
  BY PicturesFrozen, Zenon
<1>3. Pictured(Sent)'
  <2>1. Pictured(s)'
    BY <1>1, <1>2, Zenon
  <2> QED
    BY <1>1, <2>1, Zenon DEF Pictured, Picture
<1>4. ASSUME pc' # "ended"
      PROVE  \A u \in 1..Len(out') : Picture(out[u].nals)'
  <2>1. \A u \in 1..Len(o) : Picture(o[u].nals)'
    BY <1>1, <1>2, <1>4, Zenon
  <2> QED
    BY <1>1, <2>1, Zenon DEF Picture
<1>5. ASSUME pc' # "ended"
      PROVE  Picture(current)' /\ (current_has_vcl' <=> HasSlice(current)')
  <2>1. Picture(c)' /\ (current_has_vcl' <=> HasSlice(c)')
    BY <1>1, <1>2, <1>5, Zenon
  <2> QED
    BY <1>1, <2>1, Zenon DEF Picture, HasSlice
<1> QED
  BY <1>3, <1>4, <1>5, Zenon DEF PictureInv

LEMMA PictureAccept ==
  ASSUME ExactInv, AnnexBTypeOK, Reading, PictureInv, pc # "ended",
         codec' = codec, NEW n, Accepts(n)
  PROVE  PictureInv'
<1>1. /\ rx \in Seq(Messages) /\ out \in Seq(AccessUnits)
      /\ current \in Seq(NalT) /\ n \in NalT
  BY DEF Reading, AnnexBTypeOK, Accepts
<1>2. /\ \A u \in 1..Len(out) : Picture(out[u].nals)
      /\ Picture(current)
      /\ current_has_vcl <=> HasSlice(current)
      /\ Pictured(Sent)
  BY Zenon DEF PictureInv
<1>3. Sent' = Sent
  BY SentIs, Zenon DEF Accepts
<1>4. accept_nal(n)
  BY Zenon DEF Accepts
<1>5. /\ \A u \in 1..Len(out') : Picture(out'[u].nals)
      /\ Picture(current') /\ current' # <<>>
      /\ current_has_vcl' <=> HasSlice(current')
  <2>1. CASE Boundary(n)
    <3>1. out' = out \o flush_current /\ current' = Append(<<>>, n)
      BY <1>4, <2>1, Zenon DEF accept_nal
    <3>2. is_vcl(n) => starts_new_picture(n)
      BY <2>1, KindsApart, Zenon DEF Boundary
    <3>3. /\ Picture(current') /\ current' # <<>>
          /\ HasSlice(current') <=> is_vcl(n)
      BY <1>1, <3>1, <3>2, PictureOfOne, Zenon
    <3>4. current = <<>> => ~current_has_vcl
      <4>1. Len(<<>>) = 0 /\ 1..0 = {}
        OBVIOUS
      <4> QED
        BY <1>2, <4>1, Zenon DEF HasSlice
    <3>5. current_has_vcl' <=> is_vcl(n)
      BY <1>4, <2>1, <3>4, Zenon DEF accept_nal
    <3>6. \A u \in 1..Len(out') : Picture(out'[u].nals)
      BY <1>1, <1>2, <3>1, PicturedFlushed, Zenon
    <3> QED
      BY <3>3, <3>5, <3>6, Zenon
  <2>2. CASE ~Boundary(n)
    <3>1. out' = out /\ current' = Append(current, n)
      BY <1>4, <2>2, Zenon DEF accept_nal
    <3>2. is_vcl(n) => (starts_new_picture(n) <=> ~HasSlice(current))
      <4>1. is_vcl(n) /\ HasSlice(current) => ~starts_new_picture(n)
        BY <1>2, <2>2, Zenon DEF Boundary
      <4> QED
        BY <4>1, LaterSlice, Zenon
    <3>3. /\ Picture(current') /\ current' # <<>>
          /\ HasSlice(current') <=> HasSlice(current) \/ is_vcl(n)
      BY <1>1, <1>2, <3>1, <3>2, PictureOfMore, Zenon
    <3>4. current_has_vcl' <=> is_vcl(n) \/ current_has_vcl
      BY <1>4, <2>2, Zenon DEF accept_nal
    <3> QED
      BY <1>2, <3>1, <3>3, <3>4, Zenon
  <2> QED
    BY <2>1, <2>2
<1> QED
  BY <1>2, <1>3, <1>5, PictureNow, Zenon

LEMMA PictureNext ==
  ASSUME ExactInv, PictureInv, [AnnexBNext]_abVars
  PROVE  PictureInv'
<1>1. codec' = codec
  BY Kinds, Zenon
<1>2. Pictured(Sent)
  BY Zenon DEF PictureInv
<1>3. CASE pc' = pc /\ UNCHANGED <<rx, unitVars, setVars>>
  <2>1. /\ rx' = rx /\ out' = out /\ current' = current
        /\ current_has_vcl' = current_has_vcl
    BY <1>3 DEF unitVars
  <2>2. Sent' = Sent /\ Taken' = Taken
    BY <2>1, SentIs, Zenon DEF Taken, NalsIn, NalsOf
  <2> QED
    BY <1>1, <1>3, <2>1, <2>2, PictureNow, Zenon DEF PictureInv
<1>4. CASE /\ pc # "ended" /\ AnnexBTypeOK /\ Reading
           /\ \/ KeepsOn \/ GivesUp \/ (\E n : Accepts(n))
              \/ Returns \/ Finishes
  <2>1. /\ \A u \in 1..Len(out) : Picture(out[u].nals)
        /\ Picture(current)
        /\ current_has_vcl <=> HasSlice(current)
        /\ current = <<>> => Taken = <<>>
    BY <1>4, Zenon DEF PictureInv
  <2>2. Sent = rx
    BY <1>4, AllUnits, SentIs, Zenon DEF Reading
  <2>3. /\ rx \in Seq(Messages) /\ out \in Seq(AccessUnits)
        /\ current \in Seq(NalT) /\ parameter_sets \in Seq(Byte)
    BY <1>4 DEF Reading, AnnexBTypeOK
  <2>4. CASE KeepsOn
    <3>1. /\ rx' = rx /\ out' = out /\ current' = current
          /\ current_has_vcl' = current_has_vcl
      BY <2>4 DEF KeepsOn, unitVars
    <3>2. Sent' = Sent /\ Taken' = Taken
      BY <3>1, SentIs, Zenon DEF Taken, NalsIn, NalsOf
    <3> QED
      BY <1>1, <1>2, <2>1, <3>1, <3>2, PictureNow, Zenon
  <2>5. CASE GivesUp
    BY <1>1, <1>2, <2>2, <2>5, PictureNow, Zenon DEF GivesUp
  <2>6. CASE \E n : Accepts(n)
    BY <1>1, <1>4, <2>6, PictureAccept, Zenon
  <2>7. CASE Returns
    <3>1. /\ rx' = rx \o Units(out, parameter_sets)
          /\ out' = <<>> /\ current' = current
          /\ current_has_vcl' = current_has_vcl /\ Taken' = Taken
      BY <2>7 DEF Returns
    <3>2. rx' \in Seq(Messages)
      BY <1>4, <2>3, <3>1, Returned, Zenon
    <3>3. Sent' = rx'
      BY <3>2, AllUnits, SentIs, Zenon
    <3>4. Pictured(Sent')
      BY <1>2, <2>1, <2>2, <2>3, <3>1, <3>3, PicturedSent, Zenon
    <3>5. \A u \in 1..Len(out') : Picture(out'[u].nals)
      <4>1. Len(<<>>) = 0 /\ 1..0 = {}
        OBVIOUS
      <4> QED
        BY <3>1, <4>1, Zenon
    <3> QED
      BY <1>1, <2>1, <3>1, <3>4, <3>5, PictureNow, Zenon
  <2>8. CASE Finishes
    <3> DEFINE o == out \o flush_current
    <3>1. \A u \in 1..Len(o) : Picture(o[u].nals)
      BY <2>1, <2>3, PicturedFlushed, Zenon
    <3>2. o \in Seq(AccessUnits)
      BY <2>3, Flushed, ConcatProperties
    <3> HIDE DEF o
    <3>3. Pictured(rx \o Units(o, parameter_sets))
      BY <1>2, <2>2, <2>3, <3>1, <3>2, PicturedSent, Zenon
    <3>4. Sent' = rx \o Units(o, parameter_sets) /\ pc' = "ended"
      BY <2>8, Zenon DEF Finishes, o
    <3> QED
      BY <1>1, <3>3, <3>4, PictureNow, Zenon
  <2> QED
    BY <1>4, <2>4, <2>5, <2>6, <2>7, <2>8, Zenon
<1> QED
  BY <1>3, <1>4, Kinds, Zenon

LEMMA PictureAlways == AnnexBSpec => []PictureInv
<1>1. AnnexBInit => PictureInv
  BY PictureInit
<1>2. ExactInv /\ PictureInv /\ [AnnexBNext]_abVars => PictureInv'
  BY PictureNext
<1> QED
  BY <1>1, <1>2, ExactAlways, PTL DEF AnnexBSpec

(* Where the units sent end in the stream.                                 *)
EndAt(sent, u) == Len(FlattenSeq([v \in 1..u |-> sent[v].au.nals]))

LEMMA EndsAt ==
  ASSUME NEW sent \in Seq(Messages), NEW u \in 0..Len(sent),
         NEW w \in 0..Len(sent), u <= w
  PROVE  /\ EndAt(sent, u) \in Nat
         /\ EndAt(sent, u) <= EndAt(sent, w)
<1> DEFINE f == [v \in 1..w |-> sent[v].au.nals]
           g == [v \in 1..u |-> sent[v].au.nals]
<1>1. u \in Nat /\ w \in Nat /\ Len(sent) \in Nat
  BY LenProperties
<1>2. \A v \in 1..Len(sent) : sent[v].au.nals \in Seq(NalT)
  <2>1. \A v \in 1..Len(sent) : sent[v] \in Messages
    BY ElementOfSeq
  <2> QED
    BY <2>1 DEF Messages, AccessUnits
<1>3. (\A v \in 1..w : v \in 1..Len(sent)) /\ (\A v \in 1..u : v \in 1..w)
  BY <1>1
<1>4. f \in [1..w -> Seq(NalT)] /\ g \in [1..u -> Seq(NalT)]
  BY <1>2, <1>3, Zenon
<1>5. Begin(f, u) = g
  BY <1>3, Zenon DEF Begin
<1> HIDE DEF f, g
<1>6. g \in Seq(Seq(NalT)) /\ f \in Seq(Seq(NalT))
  BY <1>1, <1>4, IsSeq, Zenon
<1>7. FlattenSeq(g) \in Seq(NalT) /\ FlattenSeq(f) \in Seq(NalT)
  BY <1>6, FlattenType
<1>8. PICK t \in Seq(NalT) : FlattenSeq(f) = FlattenSeq(g) \o t
  <2>1. \E t \in Seq(NalT) : FlattenSeq(f) = FlattenSeq(Begin(f, u)) \o t
    <3>1. u \in Nat /\ w \in Nat /\ u <= w /\ f \in [1..w -> Seq(NalT)]
      BY <1>1, <1>4
    <3> QED
      BY <3>1, FlattenSplit, ZenonT(60)
  <2> QED
    BY <1>5, <2>1, Zenon
<1>9. Len(FlattenSeq(f)) = Len(FlattenSeq(g)) + Len(t)
  BY <1>7, <1>8, ConcatProperties
<1>10. Len(FlattenSeq(g)) \in Nat /\ Len(t) \in Nat
  BY <1>7
<1>11. EndAt(sent, u) = Len(FlattenSeq(g)) /\ EndAt(sent, w) = Len(FlattenSeq(f))
  BY Zenon DEF EndAt, f, g
<1> QED
  BY <1>9, <1>10, <1>11

(* Unit u lies between the end of the one before it and its own.           *)
LEMMA UnitLies ==
  ASSUME NEW sent \in Seq(Messages), NEW u \in 1..Len(sent)
  PROVE  /\ EndAt(sent, u - 1) \in Nat
         /\ EndAt(sent, u) = EndAt(sent, u - 1) + Len(sent[u].au.nals)
         /\ EndAt(sent, u) <= Len(NalsIn(sent))
         /\ sent[u].au.nals \in Seq(NalT)
         /\ \A i \in 1..Len(sent[u].au.nals) :
              NalsIn(sent)[EndAt(sent, u - 1) + i] = sent[u].au.nals[i]
<1> DEFINE L == Len(sent)
           n == u - 1
           F == NalsEach(sent)
           g == [v \in 1..u |-> sent[v].au.nals]
           h == [v \in 1..n |-> sent[v].au.nals]
           x == sent[u].au.nals
<1>1. L \in Nat /\ n \in Nat /\ u \in Nat /\ u <= L /\ n + 1 = u
  BY LenProperties
<1>2. /\ F \in Seq(Seq(NalT)) /\ Len(F) = L
      /\ \A i \in 1..L : F[i] = sent[i].au.nals
      /\ NalsIn(sent) = FlattenSeq(F)
  BY NalsEachType, Zenon
<1>3. /\ \A v \in 1..u : v \in 1..L
      /\ \A v \in 1..n : v \in 1..u
      /\ u \in 1..u
  BY <1>1
<1>4. \A v \in 1..L : sent[v].au.nals \in Seq(NalT)
  <2>1. \A v \in 1..L : sent[v] \in Messages
    BY ElementOfSeq
  <2> QED
    BY <2>1 DEF Messages, AccessUnits
<1>5. g \in [1..u -> Seq(NalT)] /\ h \in [1..n -> Seq(NalT)] /\ x \in Seq(NalT)
  BY <1>3, <1>4, Zenon
<1>6. g[u] = x /\ Begin(g, n) = h /\ Begin(F, u) = g
  BY <1>2, <1>3, Zenon DEF Begin
<1>7. F \in [1..L -> Seq(NalT)]
  BY <1>2, LenProperties
<1> HIDE DEF F, g, h, x, L
<1>8. FlattenSeq(g) = FlattenSeq(h) \o x
  <2>1. g \in [1..(n + 1) -> Seq(NalT)]
    BY <1>1, <1>5, Zenon
  <2>2. FlattenSeq(g) = FlattenSeq(Begin(g, n)) \o g[n + 1]
    BY <1>1, <2>1, FlattenMore, Zenon
  <2> QED
    BY <1>1, <1>6, <2>2, Zenon
<1>9. PICK t \in Seq(NalT) : FlattenSeq(F) = FlattenSeq(g) \o t
  <2>1. \E t \in Seq(NalT) : FlattenSeq(F) = FlattenSeq(Begin(F, u)) \o t
    <3>1. u \in Nat /\ L \in Nat /\ u <= L
      BY <1>1
    <3> QED
      BY <1>7, <3>1, FlattenSplit, ZenonT(60)
  <2> QED
    BY <1>6, <2>1, Zenon
<1>10. FlattenSeq(h) \in Seq(NalT)
  BY <1>1, <1>5, IsSeq, FlattenType, Zenon
<1> DEFINE a == FlattenSeq(h)
<1>11. FlattenSeq(F) = a \o (x \o t)
  <2>1. Joins(NalT)
    BY Associative, Zenon
  <2>2. a \in Seq(NalT)
    BY <1>10
  <2>3. FlattenSeq(F) = (a \o x) \o t
    BY <1>8, <1>9, Zenon
  <2> HIDE DEF a
  <2>4. (a \o x) \o t = a \o (x \o t)
    BY <1>5, <2>1, <2>2, Zenon DEF Joins
  <2> QED
    BY <2>3, <2>4, Zenon
<1>12. a \in Seq(NalT)
  BY <1>10
<1> HIDE DEF a, n
<1>13. /\ Len(a) \in Nat /\ Len(x) \in Nat /\ Len(t) \in Nat
       /\ Len(FlattenSeq(F)) = Len(a) + Len(x) + Len(t)
       /\ \A i \in 1..Len(x) : FlattenSeq(F)[Len(a) + i] = x[i]
  BY <1>5, <1>11, <1>12, ThreeInRow
<1>14. Len(FlattenSeq(g)) = Len(a) + Len(x)
  BY <1>5, <1>8, <1>12, ConcatProperties DEF a
<1>15. EndAt(sent, u) = Len(FlattenSeq(g)) /\ EndAt(sent, n) = Len(a)
  BY Zenon DEF EndAt, g, h, a
<1>16. Len(FlattenSeq(g)) <= Len(FlattenSeq(F))
  BY <1>13, <1>14
<1> QED
  BY <1>2, <1>5, <1>13, <1>14, <1>15, <1>16, Zenon DEF n, x

(* The slices of unit u are slices of the stream.                          *)
LEMMA SlicesAre ==
  ASSUME NEW sent \in Seq(Messages), NEW u \in 1..Len(sent),
         NEW i \in Slices(sent, u)
  PROVE  /\ i \in Nat
         /\ i - EndAt(sent, u - 1) \in 1..Len(sent[u].au.nals)
         /\ is_vcl(sent[u].au.nals[i - EndAt(sent, u - 1)])
<1> DEFINE b == EndAt(sent, u - 1)
           e == EndAt(sent, u)
           x == sent[u].au.nals
           n == Len(x)
<1>1. b \in Nat /\ e = b + n /\ n \in Nat
  <2>1. b \in Nat /\ e = b + n /\ x \in Seq(NalT)
    BY UnitLies
  <2> QED
    BY <2>1
<1>2. i \in (e - n + 1)..e /\ is_vcl(x[i - e + n])
  BY Zenon DEF Slices, EndAt
<1> HIDE DEF b, e, n
<1>3. i \in Nat /\ i - b \in 1..n /\ i - e + n = i - b
  BY <1>1, <1>2
<1> QED
  BY <1>2, <1>3, Zenon DEF b, n

FirstSlices(nals) ==
  {j \in DOMAIN nals : is_vcl(nals[j]) /\ starts_new_picture(nals[j])}

Upto(F, i) == {j \in F : j <= i}

(* f begins the picture of unit u: no other picture begins up to any slice *)
(* of the unit.                                                            *)
Begins(sent, u, f) ==
  /\ f \in FirstSlices(NalsIn(sent))
  /\ f \in Nat /\ EndAt(sent, u - 1) < f
  /\ \A i \in Slices(sent, u) :
       /\ f <= i
       /\ Upto(FirstSlices(NalsIn(sent)), i) = Upto(FirstSlices(NalsIn(sent)), f)

LEMMA UnitBegins ==
  ASSUME NEW sent \in Seq(Messages), Pictured(sent), NEW u \in 1..Len(sent),
         Slices(sent, u) # {}
  PROVE  \E f : Begins(sent, u, f)
<1> DEFINE b == EndAt(sent, u - 1)
           x == sent[u].au.nals
           n == Len(x)
           nals == NalsIn(sent)
           V == {q \in 1..n : is_vcl(x[q])}
<1>1. /\ b \in Nat /\ x \in Seq(NalT)
      /\ b + n <= Len(nals)
      /\ \A i \in 1..n : nals[b + i] = x[i]
  <2>1. EndAt(sent, u) = b + n /\ EndAt(sent, u) <= Len(nals)
        /\ b \in Nat /\ x \in Seq(NalT)
        /\ \A i \in 1..n : nals[b + i] = x[i]
    BY UnitLies, Zenon
  <2> QED
    BY <2>1, Zenon
<1>2. nals \in Seq(NalT) /\ DOMAIN nals = 1..Len(nals) /\ Len(nals) \in Nat
  <2>1. nals \in Seq(NalT)
    BY NalsEachType
  <2> QED
    BY <2>1, LenProperties
<1>3. n \in Nat
  BY <1>1
<1>4. Picture(x)
  BY Zenon DEF Pictured
<1>5. \A i \in Slices(sent, u) : i \in Nat /\ i - b \in V
  BY SlicesAre, Zenon
<1>6. V \in SUBSET Nat /\ V # {}
  <2>1. V \subseteq Nat
    BY <1>3
  <2> QED
    BY <1>5, <2>1, Zenon
<1>7. PICK p \in V : \A q \in V : p <= q
  BY <1>6, Least
<1>8. p \in 1..n /\ is_vcl(x[p])
  OBVIOUS
<1> HIDE DEF n, nals, b, x
<1>9. starts_new_picture(x[p])
  <2>1. ASSUME NEW i \in 1..(p - 1), is_vcl(x[i])
        PROVE  FALSE
    <3>1. i \in 1..n /\ i < p /\ i \in Nat /\ p \in Nat
      BY <1>3, <1>8
    <3>2. i \in V
      BY <2>1, <3>1
    <3>3. p <= i
      BY <1>7, <3>2
    <3> QED
      BY <3>1, <3>3
  <2>2. \A i \in 1..(p - 1) : ~is_vcl(x[i])
    BY <2>1, Zenon
  <2> QED
    BY <1>4, <1>8, <2>2, Zenon DEF Picture, n
<1> DEFINE f == b + p
           F == FirstSlices(nals)
<1>10. f \in Nat /\ b < f /\ f \in 1..Len(nals) /\ nals[f] = x[p]
  <2>1. f \in Nat /\ b < f /\ f \in 1..Len(nals)
    BY <1>1, <1>2, <1>3, <1>8
  <2> QED
    BY <1>1, <1>8, <2>1, Zenon
<1>11. f \in F
  BY <1>2, <1>8, <1>9, <1>10, Zenon DEF FirstSlices
<1>12. ASSUME NEW i \in Slices(sent, u)
       PROVE  f <= i /\ Upto(F, i) = Upto(F, f)
  <2>1. i \in Nat /\ i - b \in V
    BY <1>5, <1>12
  <2>2. p <= i - b /\ i - b \in 1..n /\ p \in Nat
    BY <1>7, <2>1, <1>8
  <2>3. f <= i
    BY <1>1, <2>1, <2>2
  <2>4. ASSUME NEW j \in F, j <= i, ~(j <= f)
        PROVE  FALSE
    <3>1. /\ j \in 1..Len(nals) /\ is_vcl(nals[j])
          /\ starts_new_picture(nals[j])
      BY <1>2, <2>4, Zenon DEF FirstSlices
    <3>2. /\ j - b \in 1..n /\ b + (j - b) = j /\ p \in 1..((j - b) - 1)
      BY <1>1, <1>2, <1>3, <1>8, <2>1, <2>2, <2>4, <3>1
    <3>3. nals[j] = x[j - b]
      BY <1>1, <3>2, Zenon
    <3>4. \A q \in 1..((j - b) - 1) : ~is_vcl(x[q])
      BY <1>4, <3>1, <3>2, <3>3, Zenon DEF Picture, n
    <3> QED
      BY <1>8, <3>2, <3>4, Zenon
  <2>5. \A j \in F : j <= f => j <= i
    <3>1. F \subseteq Nat
      BY <1>2 DEF FirstSlices
    <3> QED
      BY <1>10, <2>1, <2>3, <3>1
  <2> QED
    BY <2>3, <2>4, <2>5, Zenon DEF Upto
<1>13. Begins(sent, u, f)
  BY <1>10, <1>11, <1>12, Zenon DEF Begins, b, nals
<1> QED
  BY <1>13, Zenon

(* The pictures of unit u, as OnePicture counts them.                      *)
PicturesOf(sent, u) ==
  {Cardinality(Upto(FirstSlices(NalsIn(sent)), i)) : i \in Slices(sent, u)}

LEMMA OneEach ==
  ASSUME NEW sent \in Seq(Messages), Pictured(sent), NEW u \in 1..Len(sent)
  PROVE  Cardinality(PicturesOf(sent, u)) <= 1
<1>1. CASE Slices(sent, u) = {}
  <2>1. PicturesOf(sent, u) = {}
    BY <1>1, Zenon DEF PicturesOf
  <2> QED
    BY <2>1, FS_EmptySet
<1>2. CASE Slices(sent, u) # {}
  <2>1. PICK f : Begins(sent, u, f)
    BY <1>2, UnitBegins, Zenon
  <2> DEFINE c == Cardinality(Upto(FirstSlices(NalsIn(sent)), f))
  <2>2. \A i \in Slices(sent, u) :
          Cardinality(Upto(FirstSlices(NalsIn(sent)), i)) = c
    BY <2>1, Zenon DEF Begins
  <2> HIDE DEF c
  <2>3. PicturesOf(sent, u) = {c}
    BY <1>2, <2>2, Zenon DEF PicturesOf
  <2>4. Cardinality(PicturesOf(sent, u)) = 1
    BY <2>3, FS_Singleton, Zenon
  <2> QED
    BY <2>4
<1> QED
  BY <1>1, <1>2

(* More pictures have begun by a slice of a later unit.                    *)
LEMMA MoreLater ==
  ASSUME NEW sent \in Seq(Messages), Pictured(sent),
         NEW u \in 1..Len(sent), NEW v \in 1..Len(sent), u < v
  PROVE  PicturesOf(sent, u) \cap PicturesOf(sent, v) = {}
<1> DEFINE F == FirstSlices(NalsIn(sent))
<1>1. SUFFICES ASSUME NEW i \in Slices(sent, u), NEW k \in Slices(sent, v),
                      Cardinality(Upto(F, i)) = Cardinality(Upto(F, k))
               PROVE  FALSE
  BY Zenon DEF PicturesOf
<1>2. PICK f : Begins(sent, v, f)
  BY <1>1, UnitBegins, Zenon
<1>3. /\ f \in F /\ f \in Nat /\ EndAt(sent, v - 1) < f
      /\ Upto(F, k) = Upto(F, f)
  BY <1>1, <1>2, Zenon DEF Begins
<1>4. F \subseteq Nat /\ IsFiniteSet(F)
  <2> DEFINE nals == NalsIn(sent)
  <2>1. nals \in Seq(NalT)
    BY NalsEachType
  <2>2. DOMAIN nals = 1..Len(nals) /\ Len(nals) \in Nat
    BY <2>1, LenProperties
  <2> HIDE DEF nals
  <2>3. FirstSlices(nals) \subseteq 1..Len(nals)
    BY <2>2, Zenon DEF FirstSlices
  <2>4. IsFiniteSet(1..Len(nals)) /\ 1..Len(nals) \subseteq Nat
    <3>1. 1 \in Int /\ Len(nals) \in Int /\ 1..Len(nals) \subseteq Nat
      BY <2>2
    <3> QED
      BY <3>1, FS_Interval, Zenon
  <2>5. IsFiniteSet(FirstSlices(nals)) /\ FirstSlices(nals) \subseteq Nat
    BY <2>3, <2>4, FS_Subset
  <2> QED
    BY <2>5, Zenon DEF nals
<1>5. i \in Nat /\ i <= EndAt(sent, v - 1) /\ EndAt(sent, v - 1) \in Nat
  <2> DEFINE a == EndAt(sent, u - 1)
             b == EndAt(sent, u)
             c == EndAt(sent, v - 1)
             n == Len(sent[u].au.nals)
  <2>1. i \in Nat /\ i - a \in 1..n
    BY <1>1, SlicesAre, Zenon
  <2>2. a \in Nat /\ b = a + n /\ sent[u].au.nals \in Seq(NalT)
    BY UnitLies
  <2>3. n \in Nat
    BY <2>2
  <2>4. Len(sent) \in Nat
    BY LenProperties
  <2>5. u \in 0..Len(sent) /\ v - 1 \in 0..Len(sent) /\ u <= v - 1
    BY <2>4
  <2>6. b \in Nat /\ b <= c
    BY <2>5, EndsAt, Zenon
  <2>7. c \in Nat
    <3>1. v - 1 <= v - 1
      BY <2>5
    <3> QED
      BY <2>5, <3>1, EndsAt, Zenon
  <2> HIDE DEF a, b, c, n
  <2>8. i \in Nat /\ i <= c /\ c \in Nat
    BY <2>1, <2>2, <2>3, <2>6, <2>7
  <2> QED
    BY <2>8 DEF c
<1> HIDE DEF F
<1>6. i < f
  BY <1>3, <1>5
<1>7. Upto(F, i) \subseteq Upto(F, f) /\ Upto(F, f) \subseteq F
  <2>1. \A j \in F : j <= i => j <= f
    BY <1>3, <1>4, <1>5, <1>6
  <2> QED
    BY <2>1, Zenon DEF Upto
<1>8. f \in Upto(F, f) /\ f \notin Upto(F, i)
  BY <1>3, <1>5, <1>6 DEF Upto
<1>9. IsFiniteSet(Upto(F, f))
  BY <1>4, <1>7, FS_Subset
<1>10. Cardinality(Upto(F, f)) = Cardinality(Upto(F, i)) => Upto(F, f) = Upto(F, i)
  BY <1>7, <1>9, FS_Subset
<1> QED
  BY <1>1, <1>3, <1>8, <1>10, Zenon

LEMMA SentType ==
  ASSUME ExactInv
  PROVE  /\ Sent \in Seq(Messages) /\ SentNals = NalsIn(Sent)
         /\ DOMAIN Sent = 1..Len(Sent) /\ Len(Sent) \in Nat
<1>1. SentNals = NalsIn(Sent)
  BY SentIs, Zenon
<1>2. Sent \in Seq(Messages)
  <2>1. CASE pc = "ended"
    BY <2>1, Zenon DEF ExactInv, Over
  <2>2. CASE pc # "ended"
    <3>1. rx \in Seq(Messages)
      BY <2>2, Zenon DEF ExactInv, Reading
    <3> QED
      BY <3>1, AllUnits, SentIs, Zenon
  <2> QED
    BY <2>1, <2>2
<1> QED
  BY <1>1, <1>2, LenProperties

(* The slices of a picture go out in one unit and two pictures never share *)
(* one, whatever the reads, the slices and the NAL units between them      *)
(* (accept_nal), for every stream an encoder writes.                       *)
THEOREM UnitsArePictures == AnnexBSpec => []OnePicture
<1>1. ASSUME ExactInv, PictureInv
      PROVE  OnePicture
  <2> DEFINE s == Sent
             F == {j \in DOMAIN SentNals :
                     is_vcl(SentNals[j]) /\ starts_new_picture(SentNals[j])}
  <2>1. s \in Seq(Messages) /\ DOMAIN s = 1..Len(s) /\ Len(s) \in Nat
    BY <1>1, SentType, Zenon
  <2>2. Pictured(s)
    BY <1>1, Zenon DEF PictureInv
  <2>3. FirstSlices(NalsIn(s)) = F
    BY <1>1, SentType, Zenon DEF FirstSlices
  <2> HIDE DEF s, F
  <2>4. ASSUME NEW u \in DOMAIN s, NEW v \in DOMAIN s, u # v
        PROVE  PicturesOf(s, u) \cap PicturesOf(s, v) = {}
    <3>1. u \in 1..Len(s) /\ v \in 1..Len(s) /\ (u < v \/ v < u)
      BY <2>1, <2>4
    <3> QED
      BY <2>1, <2>2, <3>1, MoreLater, Zenon
  <2>5. ASSUME NEW u \in DOMAIN s
        PROVE  Cardinality(PicturesOf(s, u)) <= 1
    BY <2>1, <2>2, OneEach, Zenon
  <2>6. \A u, v \in DOMAIN s :
          IF u = v THEN Cardinality(PicturesOf(s, u)) <= 1
          ELSE PicturesOf(s, u) \cap PicturesOf(s, v) = {}
    BY <2>4, <2>5, Zenon
  <2>7. \A u : PicturesOf(s, u) = {Cardinality({j \in F : j <= i}) :
                                     i \in Slices(s, u)}
    BY <2>3, Zenon DEF PicturesOf, Upto
  <2> DEFINE Pictures(u) == {Cardinality({j \in F : j <= i}) :
                               i \in Slices(s, u)}
  <2>8. \A u, v \in DOMAIN s :
          IF u = v THEN Cardinality(Pictures(u)) <= 1
          ELSE Pictures(u) \cap Pictures(v) = {}
    BY <2>6, <2>7, Zenon
  <2> QED
    BY <2>8, Zenon DEF OnePicture, s, F
<1> QED
  BY <1>1, ExactAlways, PictureAlways, PTL

-----------------------------------------------------------------------------
(* SetsInForce.  The parser's parameter sets are those in force behind     *)
(* the last NAL unit it took, and the group it collects is the one that    *)
(* would come into force with a picture right there.                       *)

Group(nals, v) ==
  {j \in 1..(v - 1) : /\ is_parameter_set(nals[j])
                      /\ \A k \in j..(v - 1) : ~is_vcl(nals[k])
                                               /\ ~is_aud(nals[k])}

GroupEach(nals, v) ==
  [j \in 1..(v - 1) |-> IF j \in Group(nals, v) THEN nals[j].annexb ELSE <<>>]

GroupBytes(nals, v) == FlattenSeq(GroupEach(nals, v))

Groups(nals, i) == {v \in 1..i : is_vcl(nals[v]) /\ Group(nals, v) # {}}

(* The sets the code keeps in force, by its own test for a parameter set;  *)
(* in H.264 that is the standard's.                                        *)
Forced(nals, i) ==
  IF Groups(nals, i) = {} THEN <<>>
  ELSE GroupBytes(nals, Max(Groups(nals, i)))

LEMMA ForcedIs ==
  ASSUME NEW nals, NEW i, codec = "H264"
  PROVE  InForce(nals, i) = Forced(nals, i)
<1>1. \A n : IsSet(n) <=> is_parameter_set(n)
  BY Zenon DEF IsSet, is_parameter_set
<1> QED
  BY <1>1, Zenon DEF InForce, Forced, Groups, Group, GroupBytes, GroupEach

(* A NAL unit that commits no group leaves the sets in force.              *)
LEMMA ForcedSame ==
  ASSUME NEW nals, NEW m \in Nat,
         ~(is_vcl(nals[m + 1]) /\ Group(nals, m + 1) # {})
  PROVE  Forced(nals, m + 1) = Forced(nals, m)
<1>1. 1..(m + 1) = 1..m \cup {m + 1}
  OBVIOUS
<1>2. Groups(nals, m + 1) = Groups(nals, m)
  BY <1>1, Zenon DEF Groups
<1> QED
  BY <1>2, Zenon DEF Forced

(* A slice behind a group puts it in force.                                *)
LEMMA ForcedNew ==
  ASSUME NEW nals, NEW m \in Nat,
         is_vcl(nals[m + 1]), Group(nals, m + 1) # {}
  PROVE  Forced(nals, m + 1) = GroupBytes(nals, m + 1)
<1> DEFINE G == Groups(nals, m + 1)
           p == m + 1
<1>1. p \in 1..p /\ p \in Nat
  OBVIOUS
<1>2. p \in G /\ \A y \in G : y \in 1..p
  BY <1>1, Zenon DEF Groups
<1>3. \A y \in G : p >= y
  BY <1>1, <1>2
<1>4. \A x \in G : (\A y \in G : x >= y) => x = p
  <2> TAKE x \in G
  <2> HAVE \A y \in G : x >= y
  <2>1. x >= p /\ x \in 1..p
    BY <1>2, Zenon
  <2> QED
    BY <1>1, <2>1
<1> HIDE DEF G, p
<1>5. Max(G) = p
  BY <1>2, <1>3, <1>4, Zenon DEF Max
<1>6. G # {}
  BY <1>2, Zenon
<1> QED
  BY <1>5, <1>6, Zenon DEF Forced, G, p

(* Pictures and AUDs end a group.                                          *)
LEMMA GroupEnds ==
  ASSUME NEW nals, NEW m \in Nat, is_vcl(nals[m + 1]) \/ is_aud(nals[m + 1])
  PROVE  Group(nals, m + 2) = {}
<1>1. (m + 2) - 1 = m + 1
  OBVIOUS
<1>2. ASSUME NEW j \in 1..(m + 1)
      PROVE  m + 1 \in j..(m + 1)
  BY <1>2
<1> QED
  BY <1>1, <1>2, Zenon DEF Group

LEMMA GroupGoesOn ==
  ASSUME NEW nals, NEW m \in Nat, ~is_vcl(nals[m + 1]), ~is_aud(nals[m + 1])
  PROVE  /\ \A j \in 1..m : j \in Group(nals, m + 2) <=> j \in Group(nals, m + 1)
         /\ m + 1 \in Group(nals, m + 2) <=> is_parameter_set(nals[m + 1])
         /\ Group(nals, m + 2) \subseteq 1..(m + 1)
         /\ Group(nals, m + 1) \subseteq 1..m
<1>1. (m + 2) - 1 = m + 1 /\ (m + 1) - 1 = m
  OBVIOUS
<1>2. ASSUME NEW j \in 1..m
      PROVE  j..(m + 1) = j..m \cup {m + 1}
  BY <1>2
<1>3. (m + 1)..(m + 1) = {m + 1} /\ m + 1 \in 1..(m + 1)
      /\ \A j \in 1..m : j \in 1..(m + 1)
  OBVIOUS
<1>4. \A j \in 1..m : j \in Group(nals, m + 2) <=> j \in Group(nals, m + 1)
  BY <1>1, <1>2, <1>3, Zenon DEF Group
<1>5. m + 1 \in Group(nals, m + 2) <=> is_parameter_set(nals[m + 1])
  BY <1>1, <1>3, Zenon DEF Group
<1>6. Group(nals, m + 2) \subseteq 1..(m + 1) /\ Group(nals, m + 1) \subseteq 1..m
  BY <1>1, Zenon DEF Group
<1> QED
  BY <1>4, <1>5, <1>6, Zenon

LEMMA GroupType ==
  ASSUME NEW nals \in Seq(NalT), NEW m \in Nat, m <= Len(nals)
  PROVE  /\ GroupEach(nals, m + 1) \in [1..m -> Seq(Byte)]
         /\ GroupBytes(nals, m + 1) \in Seq(Byte)
<1>1. (m + 1) - 1 = m /\ \A j \in 1..m : j \in 1..Len(nals)
  BY LenProperties
<1>2. \A j \in 1..m : nals[j].annexb \in Seq(Byte)
  <2>1. \A j \in 1..Len(nals) : nals[j] \in NalT
    BY ElementOfSeq
  <2> QED
    BY <1>1, <2>1 DEF NalT
<1>3. <<>> \in Seq(Byte)
  OBVIOUS
<1>4. GroupEach(nals, m + 1) \in [1..m -> Seq(Byte)]
  BY <1>1, <1>2, <1>3, Zenon DEF GroupEach
<1>5. GroupEach(nals, m + 1) \in Seq(Seq(Byte))
  BY <1>4, IsSeq, Zenon
<1> QED
  BY <1>4, <1>5, FlattenType, Zenon DEF GroupBytes

(* Nothing is nothing, however often.                                      *)
LEMMA FlattenBlank ==
  ASSUME NEW m \in Nat
  PROVE  FlattenSeq([j \in 1..m |-> <<>>]) = <<>>
<1> DEFINE B(n) == [j \in 1..n |-> <<>>]
           S == {n \in Nat : FlattenSeq(B(n)) = <<>>}
<1>1. 0 \in S
  <2>1. B(0) = <<>>
    OBVIOUS
  <2> QED
    BY <2>1, FlattenEmpty
<1>2. ASSUME NEW n \in Nat, n \in S
      PROVE  n + 1 \in S
  <2>1. <<>> \in Seq(Byte) /\ n + 1 \in Nat /\ n + 1 \in 1..(n + 1)
        /\ (\A i \in 1..n : i \in 1..(n + 1)) /\ <<>> \o <<>> = <<>>
    OBVIOUS
  <2>2. B(n + 1) \in [1..(n + 1) -> Seq(Byte)]
    BY <2>1, Zenon
  <2>3. B(n + 1)[n + 1] = <<>> /\ Begin(B(n + 1), n) = B(n)
    BY <2>1, Zenon DEF Begin
  <2>4. FlattenSeq(B(n)) = <<>>
    BY <1>2
  <2> HIDE DEF B
  <2>5. FlattenSeq(B(n + 1)) = FlattenSeq(Begin(B(n + 1), n)) \o B(n + 1)[n + 1]
    BY <2>2, FlattenMore, Zenon
  <2>6. FlattenSeq(B(n + 1)) = <<>>
    BY <2>1, <2>3, <2>4, <2>5, Zenon
  <2> QED
    BY <2>1, <2>6
<1> HIDE DEF B
<1>3. S \in SUBSET Nat
  OBVIOUS
<1> HIDE DEF S
<1>4. S = Nat
  BY <1>1, <1>2, <1>3, Induction
<1>5. m \in S
  BY <1>4
<1> QED
  BY <1>5 DEF S, B

LEMMA NoGroup ==
  ASSUME NEW nals, NEW m \in Nat, Group(nals, m + 1) = {}
  PROVE  GroupBytes(nals, m + 1) = <<>>
<1>1. (m + 1) - 1 = m
  OBVIOUS
<1>2. GroupEach(nals, m + 1) = [j \in 1..m |-> <<>>]
  BY <1>1, Zenon DEF GroupEach
<1> QED
  BY <1>2, FlattenBlank, Zenon DEF GroupBytes

LEMMA GroupGrows ==
  ASSUME NEW nals \in Seq(NalT), NEW m \in Nat, m + 1 <= Len(nals),
         ~is_vcl(nals[m + 1]), ~is_aud(nals[m + 1])
  PROVE  GroupBytes(nals, m + 2) =
           GroupBytes(nals, m + 1) \o
             (IF is_parameter_set(nals[m + 1]) THEN nals[m + 1].annexb ELSE <<>>)
<1> DEFINE p == m + 1
           f == GroupEach(nals, m + 2)
<1>1. /\ p \in Nat /\ p <= Len(nals) /\ p + 1 = m + 2 /\ (m + 2) - 1 = p
      /\ p - 1 = m /\ p \in 1..p /\ \A j \in 1..m : j \in 1..p
  OBVIOUS
<1>2. f \in [1..p -> Seq(Byte)]
  BY <1>1, GroupType, Zenon
<1>3. f[p] = IF is_parameter_set(nals[m + 1]) THEN nals[m + 1].annexb ELSE <<>>
  BY <1>1, GroupGoesOn, Zenon DEF GroupEach
<1>4. Begin(f, m) = GroupEach(nals, m + 1)
  BY <1>1, GroupGoesOn, Zenon DEF GroupEach, Begin
<1> HIDE DEF f
<1>5. FlattenSeq(f) = FlattenSeq(Begin(f, m)) \o f[m + 1]
  BY <1>2, FlattenMore, Zenon
<1> QED
  BY <1>3, <1>4, <1>5, Zenon DEF GroupBytes, f

Kept(nals, m, sets, pending, collecting) ==
  /\ sets = Forced(nals, m)
  /\ pending = GroupBytes(nals, m + 1)
  /\ collecting <=> Group(nals, m + 1) # {}

SetsInv ==
  pc # "ended" =>
    \E nals \in {Nals}, m \in {Len(Taken)} :
      Kept(nals, m, parameter_sets, pending_parameter_sets, collecting_sets)

LEMMA AudApart ==
  ASSUME NEW n, is_aud(n)
  PROVE  ~is_parameter_set(n) /\ ~is_vcl(n)
BY KindsApart DEF is_aud, is_parameter_set

LEMMA KeptNext ==
  ASSUME NEW nals \in Seq(NalT), NEW m \in Nat, m + 1 <= Len(nals),
         pending_parameter_sets \in Seq(Byte),
         Kept(nals, m, parameter_sets, pending_parameter_sets, collecting_sets),
         accept_nal(nals[m + 1])
  PROVE  Kept(nals, m + 1, parameter_sets', pending_parameter_sets',
              collecting_sets')
<1> DEFINE n == nals[m + 1]
           collecting == is_parameter_set(n) \/ (collecting_sets /\ ~is_aud(n))
           commit == is_vcl(n) /\ collecting
<1>1. /\ parameter_sets' = IF commit THEN Collect(n) ELSE parameter_sets
      /\ pending_parameter_sets' = IF commit THEN <<>> ELSE Collect(n)
      /\ collecting_sets' <=> (collecting /\ ~commit)
  BY Zenon DEF accept_nal
<1>2. /\ parameter_sets = Forced(nals, m)
      /\ pending_parameter_sets = GroupBytes(nals, m + 1)
      /\ collecting_sets <=> Group(nals, m + 1) # {}
  BY Zenon DEF Kept
<1>3. (m + 1) + 1 = m + 2 /\ m + 1 \in Nat
  OBVIOUS
<1>4. SUFFICES /\ parameter_sets' = Forced(nals, m + 1)
               /\ pending_parameter_sets' = GroupBytes(nals, m + 2)
               /\ collecting_sets' <=> Group(nals, m + 2) # {}
  BY <1>3, Zenon DEF Kept
<1>5. ASSUME Group(nals, m + 2) = {}
      PROVE  GroupBytes(nals, m + 2) = <<>>
  BY <1>3, <1>5, NoGroup, Zenon
<1>6. ~collecting_sets => pending_parameter_sets = <<>>
  BY <1>2, NoGroup, Zenon
<1>7. CASE is_aud(n)
  <2>1. ~is_parameter_set(n) /\ ~is_vcl(n)
    BY <1>7, AudApart, Zenon
  <2>2. Collect(n) = <<>>
    BY <1>7, <2>1, Zenon DEF Collect
  <2>3. Group(nals, m + 2) = {}
    BY <1>7, GroupEnds, Zenon
  <2>4. Forced(nals, m + 1) = Forced(nals, m)
    BY <2>1, ForcedSame, Zenon
  <2> QED
    BY <1>1, <1>2, <1>5, <1>7, <2>1, <2>2, <2>3, <2>4, Zenon
<1>8. CASE is_vcl(n)
  <2>1. ~is_aud(n) /\ ~is_parameter_set(n)
    BY <1>8, KindsApart, Zenon
  <2>2. Collect(n) = pending_parameter_sets
    BY <2>1, Zenon DEF Collect
  <2>3. Group(nals, m + 2) = {}
    BY <1>8, GroupEnds, Zenon
  <2>4. CASE collecting_sets
    <3>1. Forced(nals, m + 1) = GroupBytes(nals, m + 1)
      BY <1>2, <1>8, <2>4, ForcedNew, Zenon
    <3> QED
      BY <1>1, <1>2, <1>5, <1>8, <2>1, <2>2, <2>3, <2>4, <3>1, Zenon
  <2>5. CASE ~collecting_sets
    <3>1. Forced(nals, m + 1) = Forced(nals, m)
      BY <1>2, <2>5, ForcedSame, Zenon
    <3> QED
      BY <1>1, <1>2, <1>5, <1>6, <1>8, <2>1, <2>2, <2>3, <2>5, <3>1, Zenon
  <2> QED
    BY <2>4, <2>5
<1>9. CASE ~is_aud(n) /\ ~is_vcl(n)
  <2>1. Forced(nals, m + 1) = Forced(nals, m)
    BY <1>9, ForcedSame, Zenon
  <2>2. GroupBytes(nals, m + 2) =
          pending_parameter_sets \o
            (IF is_parameter_set(n) THEN n.annexb ELSE <<>>)
    BY <1>2, <1>9, GroupGrows, Zenon
  <2>3. /\ \A j \in 1..m : j \in Group(nals, m + 2) <=> j \in Group(nals, m + 1)
        /\ m + 1 \in Group(nals, m + 2) <=> is_parameter_set(n)
        /\ Group(nals, m + 2) \subseteq 1..(m + 1)
        /\ Group(nals, m + 1) \subseteq 1..m
        /\ 1..(m + 1) = 1..m \cup {m + 1}
    <3>1. 1..(m + 1) = 1..m \cup {m + 1}
      OBVIOUS
    <3> QED
      BY <1>9, <3>1, GroupGoesOn, Zenon
  <2>4. CASE is_parameter_set(n)
    <3>1. Collect(n) = pending_parameter_sets \o n.annexb
      BY <1>6, <1>9, <2>4, Zenon DEF Collect
    <3> QED
      BY <1>1, <1>2, <1>9, <2>1, <2>2, <2>3, <2>4, <3>1, Zenon
  <2>5. CASE ~is_parameter_set(n)
    <3>1. Collect(n) = pending_parameter_sets
      BY <1>9, <2>5, Zenon DEF Collect
    <3>2. pending_parameter_sets \o <<>> = pending_parameter_sets
      OBVIOUS
    <3>3. Group(nals, m + 2) # {} <=> Group(nals, m + 1) # {}
      BY <2>3, <2>5, Zenon
    <3> QED
      BY <1>1, <1>2, <1>9, <2>1, <2>2, <2>5, <3>1, <3>2, <3>3, Zenon
  <2> QED
    BY <2>4, <2>5
<1> QED
  BY <1>7, <1>8, <1>9, Zenon

LEMMA SetsFrozen ==
  ASSUME codec' = codec
  PROVE  /\ \A s, v : Group(s, v)' = Group(s, v)
         /\ \A s, v : GroupBytes(s, v)' = GroupBytes(s, v)
         /\ \A s, i : Forced(s, i)' = Forced(s, i)
         /\ \A s, m, a, b, c : Kept(s, m, a, b, c)' <=> Kept(s, m, a, b, c)
<1>1. \A s, v : Group(s, v)' = Group(s, v)
  BY PicturesFrozen, Zenon DEF Group
<1>2. \A s, v : GroupBytes(s, v)' = GroupBytes(s, v)
  BY <1>1, Zenon DEF GroupBytes, GroupEach
<1>3. \A s, i : Forced(s, i)' = Forced(s, i)
  <2>1. \A s, i : Groups(s, i)' = Groups(s, i)
    BY <1>1, PicturesFrozen, Zenon DEF Groups
  <2>2. \A s, i : Forced(s, i)' = IF Groups(s, i)' = {} THEN <<>>
                                  ELSE GroupBytes(s, Max(Groups(s, i)))'
    BY Zenon DEF Forced, Groups, Group, GroupBytes, GroupEach
  <2>3. \A s, i : GroupBytes(s, Max(Groups(s, i)))' = GroupBytes(s, Max(Groups(s, i)))
    <3> TAKE s, i
    <3>1. PICK w : w = Max(Groups(s, i)') /\ w = Max(Groups(s, i))
      BY <2>1, Zenon
    <3>2. Group(s, Max(Groups(s, i)))' = Group(s, w)'
      BY <3>1, Zenon DEF Group
    <3>3. GroupBytes(s, Max(Groups(s, i)))' = GroupBytes(s, w)'
      BY <3>1, <3>2, Zenon DEF GroupBytes, GroupEach
    <3> QED
      BY <1>2, <3>1, <3>3, Zenon
  <2> QED
    BY <2>1, <2>2, <2>3, Zenon DEF Forced
<1>4. \A s, m, a, b, c : Kept(s, m, a, b, c)' <=> Kept(s, m, a, b, c)
  BY <1>1, <1>2, <1>3, ZenonT(60) DEF Kept
<1> QED
  BY <1>1, <1>2, <1>3, <1>4, Zenon

LEMMA SetsNow ==
  ASSUME codec' = codec,
         pc' # "ended" => Kept(Nals', Len(Taken)', parameter_sets',
                               pending_parameter_sets', collecting_sets')
  PROVE  SetsInv'
<1>1. PICK s, m, a, b, c :
        /\ s = Nals' /\ m = Len(Taken)' /\ a = parameter_sets'
        /\ b = pending_parameter_sets' /\ c = collecting_sets'
  OBVIOUS
<1>2. pc' # "ended" => Kept(s, m, a, b, c)'
  BY <1>1, SetsFrozen, Zenon
<1> QED
  BY <1>1, <1>2, Zenon DEF SetsInv, Kept

LEMMA SetsInit ==
  ASSUME AnnexBInit
  PROVE  SetsInv
<1>1. /\ rx = <<>> /\ out = <<>> /\ current = <<>>
      /\ parameter_sets = <<>> /\ pending_parameter_sets = <<>>
      /\ collecting_sets = FALSE
  BY DEF AnnexBInit, Start
<1>2. Len(<<>>) = 0 /\ 1..0 = {} /\ 0 \in Nat /\ 0 + 1 = 1 /\ 1 - 1 = 0
  OBVIOUS
<1>3. Taken = <<>>
  <2>1. <<>> \o (<<>> \o <<>>) = <<>>
    OBVIOUS
  <2> QED
    BY <1>1, <2>1, NothingTaken, Zenon DEF Taken
<1>4. Group(Nals, 0 + 1) = {} /\ Groups(Nals, 0) = {}
  BY <1>2, Zenon DEF Group, Groups
<1>5. Forced(Nals, 0) = <<>> /\ GroupBytes(Nals, 0 + 1) = <<>>
  BY <1>2, <1>4, NoGroup, Zenon DEF Forced
<1>6. Kept(Nals, 0, <<>>, <<>>, FALSE)
  BY <1>4, <1>5, Zenon DEF Kept
<1> QED
  BY <1>1, <1>2, <1>3, <1>6, Zenon DEF SetsInv

LEMMA SetsNext ==
  ASSUME ExactInv, SetsInv, [AnnexBNext]_abVars
  PROVE  SetsInv'
<1>1. codec' = codec /\ stream' = stream /\ Nals' = Nals
  BY Kinds, Frozen, Zenon
<1>2. ASSUME pc # "ended"
      PROVE  Kept(Nals, Len(Taken), parameter_sets, pending_parameter_sets,
                  collecting_sets)
  BY <1>2, Zenon DEF SetsInv
<1>3. ASSUME pc # "ended", Taken' = Taken, UNCHANGED setVars
      PROVE  SetsInv'
  <2>1. /\ parameter_sets' = parameter_sets /\ collecting_sets' = collecting_sets
        /\ pending_parameter_sets' = pending_parameter_sets
    BY <1>3 DEF setVars
  <2> QED
    BY <1>1, <1>2, <1>3, <2>1, SetsNow, Zenon
<1>4. ASSUME UNCHANGED <<rx, unitVars>>
      PROVE  Taken' = Taken
  <2>1. rx' = rx /\ out' = out /\ current' = current
    BY <1>4 DEF unitVars
  <2> QED
    BY <2>1, Zenon DEF Taken, NalsIn, NalsOf
<1>5. CASE pc' = pc /\ UNCHANGED <<rx, unitVars, setVars>>
  <2>1. CASE pc = "ended"
    BY <1>1, <1>5, <2>1, SetsNow, Zenon
  <2>2. CASE pc # "ended"
    BY <1>3, <1>4, <1>5, <2>2
  <2> QED
    BY <2>1, <2>2
<1>6. CASE /\ pc # "ended" /\ AnnexBTypeOK /\ Reading
           /\ \/ KeepsOn \/ GivesUp \/ (\E n : Accepts(n))
              \/ Returns \/ Finishes
  <2>1. CASE KeepsOn
    BY <1>3, <1>4, <1>6, <2>1 DEF KeepsOn
  <2>2. CASE GivesUp \/ Finishes
    BY <1>1, <2>2, SetsNow, Zenon DEF GivesUp, Finishes
  <2>3. CASE Returns
    BY <1>3, <1>6, <2>3 DEF Returns
  <2>4. CASE \E n : Accepts(n)
    <3> DEFINE m == Len(Taken)
    <3>1. PICK n : Accepts(n)
      BY <2>4
    <3>2. NextIs(Taken, n, Nals)
      BY <1>6, <3>1, AcceptedNext, Zenon
    <3>3. /\ Nals \in Seq(NalT) /\ m \in Nat /\ m + 1 \in 1..Len(Nals)
          /\ Nals[m + 1] = n
      BY <3>2, Zenon DEF NextIs
    <3>4. m + 1 <= Len(Nals)
      BY <3>3
    <3>5. accept_nal(Nals[m + 1]) /\ Taken' = Taken \o <<n>>
      BY <3>1, <3>3, Zenon DEF Accepts
    <3>6. Len(Taken)' = m + 1
      <4>1. n \in NalT /\ Taken \in Seq(NalT)
        BY <1>6, <3>1, TakenBegins, Zenon DEF Accepts
      <4>2. Len(Taken \o <<n>>) = m + 1
        BY <4>1
      <4> QED
        BY <3>5, <4>2, Zenon
    <3>7. Kept(Nals, m, parameter_sets, pending_parameter_sets, collecting_sets)
      BY <1>2, <1>6, Zenon
    <3> HIDE DEF m
    <3>8. Kept(Nals, m + 1, parameter_sets', pending_parameter_sets',
               collecting_sets')
      <4>1. PICK nals, p : nals = Nals /\ p = m
        OBVIOUS
      <4>2. /\ nals \in Seq(NalT) /\ p \in Nat /\ p + 1 <= Len(nals)
            /\ accept_nal(nals[p + 1])
            /\ Kept(nals, p, parameter_sets, pending_parameter_sets, collecting_sets)
        BY <3>3, <3>4, <3>5, <3>7, <4>1, Zenon
      <4>3. pending_parameter_sets \in Seq(Byte)
        BY <1>6 DEF AnnexBTypeOK
      <4>4. Kept(nals, p + 1, parameter_sets', pending_parameter_sets',
                 collecting_sets')
        BY <4>2, <4>3, KeptNext, Zenon
      <4> QED
        BY <4>1, <4>4, Zenon
    <3> QED
      BY <1>1, <3>6, <3>8, SetsNow, Zenon
  <2> QED
    BY <1>6, <2>1, <2>2, <2>3, <2>4, Zenon
<1> QED
  BY <1>5, <1>6, Kinds, Zenon

LEMMA SetsAlways == AnnexBSpec => []SetsInv
<1>1. AnnexBInit => SetsInv
  BY SetsInit
<1>2. ExactInv /\ SetsInv /\ [AnnexBNext]_abVars => SetsInv'
  BY SetsNext
<1> QED
  BY <1>1, <1>2, ExactAlways, PTL DEF AnnexBSpec

(* The units of a call have the sets it hands to the reader.               *)
LEMMA NewUnits ==
  ASSUME NEW sent \in Seq(Messages), NEW o \in Seq(AccessUnits),
         NEW sets \in Seq(Byte)
  PROVE  \A u \in DOMAIN (sent \o Units(o, sets)) \ DOMAIN sent :
           (sent \o Units(o, sets))[u].sets = sets
<1> DEFINE t == Units(o, sets)
           a == Len(sent)
           all == sent \o t
<1>1. /\ t \in Seq(Messages) /\ Len(t) = Len(o)
      /\ \A i \in 1..Len(o) : t[i].sets = sets
  BY UnitsType, ZenonT(60)
<1> HIDE DEF t
<1>2. /\ all \in Seq(Messages) /\ Len(all) = Len(sent) + Len(t)
      /\ \A i \in 1..(Len(sent) + Len(t)) :
           all[i] = IF i <= Len(sent) THEN sent[i] ELSE t[i - Len(sent)]
  <2>1. sent \in Seq(Messages) /\ t \in Seq(Messages)
    BY <1>1, Zenon
  <2> QED
    BY <2>1, ConcatProperties, Zenon
<1>3. a \in Nat /\ Len(t) \in Nat /\ DOMAIN sent = 1..a
      /\ DOMAIN all = 1..(a + Len(t))
  BY <1>1, <1>2, LenProperties
<1> HIDE DEF all, a
<1>4. ASSUME NEW u \in DOMAIN all \ DOMAIN sent
      PROVE  all[u].sets = sets
  <2>1. u \in 1..(a + Len(t)) /\ ~(u <= a) /\ u - a \in 1..Len(o)
    BY <1>1, <1>3, <1>4
  <2>2. all[u] = t[u - a]
    BY <1>2, <2>1, Zenon DEF a
  <2> QED
    BY <1>1, <2>1, <2>2, Zenon
<1> QED
  BY <1>4, Zenon DEF all, t

(* What a step sends has the sets in force at the last NAL unit taken.     *)
LEMMA SentHasSets ==
  ASSUME ExactInv, SetsInv, [AnnexBNext]_abVars, codec = "H264"
  PROVE  SentInForce
<1>1. SentNals' = NalsIn(Sent')
  <2>1. PICK s : s = Sent'
    OBVIOUS
  <2>2. SentNals' = NalsIn(s)'
    BY <2>1, SentIs, Zenon DEF SentNals, NalsIn
  <2> QED
    BY <2>1, <2>2, Zenon DEF NalsIn
<1>2. ASSUME Sent' = Sent
      PROVE  SentInForce
  BY <1>2, Zenon DEF SentInForce
<1>3. CASE pc' = pc /\ UNCHANGED <<rx, unitVars, setVars>>
  BY <1>2, <1>3, SentIs, Zenon
<1>4. CASE /\ pc # "ended" /\ AnnexBTypeOK /\ Reading
           /\ \/ KeepsOn \/ GivesUp \/ (\E n : Accepts(n))
              \/ Returns \/ Finishes
  <2>1. /\ rx \in Seq(Messages) /\ out \in Seq(AccessUnits)
        /\ current \in Seq(NalT) /\ parameter_sets \in Seq(Byte)
    BY <1>4 DEF Reading, AnnexBTypeOK
  <2>2. Sent = rx
    BY <2>1, AllUnits, SentIs, Zenon
  <2>3. parameter_sets = InForce(Nals, Len(Taken))
    <3>1. parameter_sets = Forced(Nals, Len(Taken))
      BY <1>4, Zenon DEF SetsInv, Kept
    <3> QED
      BY <3>1, ForcedIs, Zenon
  <2>4. CASE KeepsOn \/ GivesUp \/ (\E n : Accepts(n))
    <3>1. Sent' = Sent
      BY <2>2, <2>4, SentIs, Zenon DEF KeepsOn, GivesUp, Accepts
    <3> QED
      BY <1>2, <3>1
  <2>5. ASSUME NEW o \in Seq(AccessUnits),
               Sent' = rx \o Units(o, parameter_sets),
               Len(NalsIn(rx \o Units(o, parameter_sets))) + Len(current')
                 = Len(Taken)
        PROVE  SentInForce
    <3>1. \A u \in DOMAIN Sent' \ DOMAIN Sent : Sent'[u].sets = parameter_sets
      BY <2>1, <2>2, <2>5, NewUnits, Zenon
    <3>2. Len(SentNals') + Len(current') = Len(Taken)
      BY <1>1, <2>5, Zenon
    <3> QED
      BY <2>3, <3>1, <3>2, Zenon DEF SentInForce
  <2>6. CASE Returns
    <3> DEFINE s == rx \o Units(out, parameter_sets)
               x == NalsIn(s)
    <3>1. rx' = s /\ current' = current
      BY <2>6 DEF Returns
    <3>2. s \in Seq(Messages) /\ x \o (NalsOf(<<>>) \o current) = Taken
      BY <1>4, <2>1, Returned, Zenon
    <3>3. Sent' = s
      BY <3>1, <3>2, AllUnits, SentIs, Zenon
    <3>4. x \in Seq(NalT) /\ x \o (<<>> \o current) = Taken
      BY <3>2, NalsEachType, NothingTaken, Zenon
    <3> HIDE DEF x, s
    <3>5. <<>> \o current = current
      BY <2>1
    <3>6. x \o current = Taken
      BY <3>4, <3>5, Zenon
    <3>7. Len(x) + Len(current) = Len(Taken)
      BY <2>1, <3>4, <3>6, ConcatProperties
    <3> QED
      BY <2>1, <2>5, <3>1, <3>3, <3>7, Zenon DEF x, s
  <2>7. CASE Finishes
    <3> DEFINE o == out \o flush_current
               s == rx \o Units(o, parameter_sets)
    <3>1. o \in Seq(AccessUnits) /\ NalsOf(o) = NalsOf(out) \o current
      BY <2>1, Flushed, NalsOfConcat, ConcatProperties
    <3>2. Sent' = s /\ current' = <<>>
      BY <2>7, Zenon DEF Finishes
    <3> HIDE DEF o
    <3>3. NalsIn(s) = Taken
      <4>1. /\ Units(o, parameter_sets) \in Seq(Messages)
            /\ NalsIn(Units(o, parameter_sets)) = NalsOf(o)
        BY <2>1, <3>1, UnitsType, Zenon
      <4>2. NalsIn(s) = NalsIn(rx) \o NalsOf(o)
        BY <2>1, <4>1, NalsInConcat, Zenon
      <4> QED
        BY <3>1, <4>2, Zenon DEF Taken
    <3>4. Len(NalsIn(s)) + Len(current') = Len(Taken)
      <4>1. Taken \in Seq(NalT)
        BY <1>4, TakenBegins, Zenon
      <4>2. Len(Taken) + Len(<<>>) = Len(Taken)
        BY <4>1, LenProperties
      <4> QED
        BY <3>2, <3>3, <4>2, Zenon
    <3> QED
      BY <2>5, <3>1, <3>2, <3>4, Zenon DEF s
  <2> QED
    BY <1>4, <2>4, <2>6, <2>7, Zenon
<1> QED
  BY <1>3, <1>4, Kinds, Zenon

(* With H.264 every unit that a call completes goes out with exactly the   *)
(* complete group of parameter sets in force at the last NAL unit the call *)
(* has taken (accept_nal and the reader), for every stream and every way   *)
(* to read it.                                                             *)
THEOREM SetsAreInForce == AnnexBSpec => SetsInForce
<1>1. ExactInv /\ SetsInv /\ [AnnexBNext]_abVars
        => [codec = "H264" => SentInForce]_abVars
  BY SentHasSets
<1> QED
  BY <1>1, ExactAlways, SetsAlways, PTL DEF AnnexBSpec, SetsInForce

=============================================================================
