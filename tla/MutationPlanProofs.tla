-------------------------- MODULE MutationPlanProofs --------------------------
(***************************************************************************)
(* What every plan of a mutating command is made of, for any torrents,     *)
(* categories, tags, limits, passkeys, exports and batch size: requests    *)
(* the command may send, in an order that never drops a tracker before its *)
(* successor is there, and together bringing about what the command is     *)
(* for.                                                                    *)
(***************************************************************************)
EXTENDS MutationRun, FiniteSetTheorems, SequenceTheorems, TLAPS

-----------------------------------------------------------------------------
(* Counting and recursion.  Plans are folds over what the server lists, and *)
(* loops over import entries; what they come to is proved by induction.     *)

\* Induction over the naturals for a set S: were k outside S, the numbers up to
\* k outside S would fit, one lower each, in one place fewer.
LEMMA Induction ==
    ASSUME NEW S, 0 \in S, \A n \in Nat : n \in S => n + 1 \in S
    PROVE  Nat \subseteq S
<1> SUFFICES ASSUME NEW k \in Nat, k \notin S PROVE FALSE
    OBVIOUS
<1> DEFINE D == {n \in 0..k : n \notin S}
           E == D \ {k}
           down == [n \in D |-> n - 1]
<1>1. IsFiniteSet(D) /\ IsFiniteSet(E)
  <2>1. IsFiniteSet(0..k)
    BY FS_Interval
  <2>2. D \in SUBSET (0..k) /\ E \in SUBSET (0..k)
    OBVIOUS
  <2> QED
    BY <2>1, <2>2, FS_Subset
<1>2. \A n \in D : n - 1 \in E
  <2> SUFFICES ASSUME NEW n \in D PROVE n - 1 \in E
    OBVIOUS
  <2>1. n \in Nat /\ n # 0 /\ n <= k /\ n \notin S
    OBVIOUS
  <2>2. n - 1 \in Nat /\ (n - 1) + 1 = n
    BY <2>1
  <2>3. n - 1 \notin S
    BY <2>1, <2>2
  <2> QED
    BY <2>1, <2>2, <2>3
<1>3. down \in Injection(D, E)
  <2>1. down \in [D -> E]
    BY <1>2
  <2>2. \A a, b \in D : down[a] = down[b] => a = b
    OBVIOUS
  <2> QED
    BY <2>1, <2>2 DEF Injection, IsInjective
<1>4. Cardinality(D) <= Cardinality(E)
  BY <1>1, <1>3, FS_Injection
<1>5. k \in D
  OBVIOUS
<1>6. Cardinality(E) = Cardinality(D) - 1
  BY <1>1, <1>5, FS_RemoveElement
<1>7. Cardinality(D) \in Nat
  BY <1>1, FS_CardinalityType
<1> QED
  BY <1>4, <1>6, <1>7

\* The functions on 1..n that step from a value of V to the next
StepsOf(V, n) == [1..n -> [V -> V]]

\* g goes from b through the n steps of F.
Goes(V, b, n, F, g) ==
    /\ g \in [0..n -> V]
    /\ g[0] = b /\ \A i \in 1..n : g[i] = F[i][g[i - 1]]

\* What is defined by recursion over 0..n exists.
LEMMA RecursionExists ==
    ASSUME NEW V, NEW b \in V, NEW n \in Nat, NEW F \in [1..n -> [V -> V]]
    PROVE  \E g \in [0..n -> V] :
               g[0] = b /\ \A i \in 1..n : g[i] = F[i][g[i - 1]]
<1> DEFINE Good(m, g) == /\ g \in [0..m -> V]
                         /\ g[0] = b /\ \A i \in 1..m : g[i] = F[i][g[i - 1]]
           S == {m \in Nat : m <= n => \E g \in [0..m -> V] : Good(m, g)}
<1>1. 0 \in S
  <2> DEFINE g == [i \in 0..0 |-> b]
  <2>1. g \in [0..0 -> V] /\ g[0] = b /\ 1..0 = {}
    OBVIOUS
  <2>2. Good(0, g)
    BY <2>1
  <2> QED
    BY <2>1, <2>2
<1>2. ASSUME NEW m \in Nat, m \in S PROVE m + 1 \in S
  <2> SUFFICES ASSUME m + 1 <= n PROVE \E g \in [0..(m + 1) -> V] : Good(m + 1, g)
    OBVIOUS
  <2>1. PICK g \in [0..m -> V] : Good(m, g)
    BY <1>2
  <2> DEFINE h == [i \in 0..(m + 1) |-> IF i <= m THEN g[i] ELSE F[m + 1][g[m]]]
  <2>2. F[m + 1][g[m]] \in V
    BY <2>1
  <2>3. h \in [0..(m + 1) -> V]
    BY <2>1, <2>2
  <2>4. h[0] = b
    BY <2>1
  <2>5. ASSUME NEW i \in 1..(m + 1) PROVE h[i] = F[i][h[i - 1]]
    <3>1. CASE i <= m
      <4>1. h[i] = g[i] /\ h[i - 1] = g[i - 1] /\ i \in 1..m
        BY <3>1
      <4> QED
        BY <4>1, <2>1
    <3>2. CASE i = m + 1
      <4>1. h[i - 1] = g[m] /\ h[i] = F[m + 1][g[m]]
        BY <3>2
      <4> QED
        BY <4>1, <3>2
    <3> QED
      BY <3>1, <3>2
  <2>6. Good(m + 1, h)
    BY <2>3, <2>4, <2>5
  <2> QED
    BY <2>3, <2>6
<1>3. n \in S
  <2> HIDE DEF S
  <2> QED
    BY <1>1, <1>2, Induction
<1> QED
  BY <1>3

\* The same, in a form that hides the quantifiers from the provers.
LEMMA Recursion ==
    ASSUME NEW V, NEW b, NEW n, NEW F, b \in V, n \in Nat, F \in StepsOf(V, n)
    PROVE  \E g : Goes(V, b, n, F, g)
BY RecursionExists DEF Goes, StepsOf

\* What FlattenSeq concatenates, from the empty sequence on
LEMMA Flattening ==
    ASSUME NEW T, NEW ss \in Seq(Seq(T))
    PROVE  \E f \in [0..Len(ss) -> Seq(T)] :
               /\ f[0] = << >>
               /\ \A i \in 1..Len(ss) : f[i] = f[i - 1] \o ss[i]
               /\ FlattenSeq(ss) = f[Len(ss)]
<1> DEFINE n == Len(ss)
           V == Seq(T)
           F == [i \in 1..n |-> [v \in V |-> v \o ss[i]]]
           b == << >>
<1>1. n \in Nat /\ b \in V /\ \A i \in 1..n : ss[i] \in V
  OBVIOUS
<1>2. F \in StepsOf(V, n)
  BY <1>1 DEF StepsOf
<1>3. PICK f : Goes(V, b, n, F, f)
  <2> HIDE DEF n, V, F, b
  <2> QED
    BY <1>1, <1>2, Recursion
<1>4. f \in [0..n -> V] /\ f[0] = << >>
  BY <1>3 DEF Goes
<1>5. \A i \in 1..n : f[i] = F[i][f[i - 1]]
  <2> HIDE DEF n, V, F, b
  <2> QED
    BY <1>3 DEF Goes
<1>6. \A i \in 1..n : f[i] = f[i - 1] \o ss[i] /\ f[i - 1] \in V
  <2>1. ASSUME NEW i \in 1..n PROVE f[i - 1] \in V
    <3>1. i - 1 \in 0..n
      BY <1>1
    <3> HIDE DEF V, n
    <3> QED
      BY <3>1, <1>4
  <2> QED
    BY <1>5, <2>1
<1> DEFINE Is(h) == h = [i \in 1..n |-> IF i = 1 THEN ss[i] ELSE h[i - 1] \o ss[i]]
           g == [i \in 1..n |-> f[i]]
           flatten == CHOOSE h : Is(h)
<1>7. Is(g)
  <2>1. ASSUME NEW i \in 1..n
        PROVE  f[i] = IF i = 1 THEN ss[i] ELSE g[i - 1] \o ss[i]
    <3>1. CASE i = 1
      <4>1. f[1] = f[0] \o ss[1]
        <5>1. 1 \in 1..n /\ 1 - 1 = 0
          BY <1>1, <3>1
        <5> HIDE DEF n, V
        <5> QED
          BY <1>6, <5>1
      <4>2. f[0] = << >> /\ ss[1] \in Seq(T)
        BY <1>1, <1>4, <3>1
      <4> QED
        BY <4>1, <4>2, <3>1
    <3>2. CASE i # 1
      <4>1. i - 1 \in 1..n
        BY <1>1, <3>2
      <4> QED
        BY <1>6, <3>2, <4>1
    <3> QED
      BY <3>1, <3>2
  <2> QED
    BY <2>1
<1>8. Is(flatten)
  <2> HIDE DEF Is, g
  <2> QED
    BY <1>7
<1>9. \A i \in 1..n : flatten[i] = IF i = 1 THEN ss[i] ELSE flatten[i - 1] \o ss[i]
  <2> HIDE DEF flatten, n
  <2> QED
    BY <1>8
<1>10. \A i \in Nat : i \in 1..n => flatten[i] = f[i]
  <2> DEFINE I == {i \in Nat : i \in 1..n => flatten[i] = f[i]}
  <2> HIDE DEF flatten, n
  <2>1. 0 \in I
    BY <1>1
  <2>2. ASSUME NEW i \in Nat, i \in I PROVE i + 1 \in I
    <3> SUFFICES ASSUME i + 1 \in 1..n PROVE flatten[i + 1] = f[i + 1]
      OBVIOUS
    <3>1. CASE i = 0
      <4>1. f[1] = f[0] \o ss[1]
        <5>1. 1 \in 1..n /\ 1 - 1 = 0
          BY <1>1, <3>1
        <5> HIDE DEF n, V
        <5> QED
          BY <1>6, <5>1
      <4>2. f[0] = << >> /\ ss[1] \in Seq(T)
        BY <1>1, <1>4, <3>1
      <4>3. flatten[1] = ss[1]
        BY <1>9, <3>1
      <4> QED
        BY <4>1, <4>2, <4>3, <3>1
    <3>2. CASE i # 0
      <4>1. i \in 1..n /\ i + 1 # 1 /\ (i + 1) - 1 = i
        BY <1>1, <3>2
      <4>2. flatten[i] = f[i]
        BY <2>2, <4>1
      <4>3. flatten[i + 1] = flatten[i] \o ss[i + 1]
        BY <1>9, <4>1
      <4>4. f[i + 1] = f[i] \o ss[i + 1]
        BY <1>6, <4>1
      <4> QED
        BY <4>2, <4>3, <4>4
    <3> QED
      BY <3>1, <3>2
  <2> HIDE DEF I
  <2>3. Nat \subseteq I
    BY <2>1, <2>2, Induction
  <2> QED
    BY <2>3 DEF I
<1>11. FlattenSeq(ss) = f[n]
  <2>1. CASE n = 0
    <3>1. ss = << >>
      BY <2>1
    <3> QED
      BY <1>4, <2>1, <3>1 DEF FlattenSeq
  <2>2. CASE n # 0
    <3>1. FlattenSeq(ss) = flatten[n]
      BY <2>2 DEF FlattenSeq
    <3>2. n \in 1..n
      BY <1>1, <2>2
    <3> HIDE DEF flatten, n
    <3> QED
      BY <1>10, <3>1, <3>2
  <2> QED
    BY <2>1, <2>2
<1> QED
  BY <1>4, <1>6, <1>11

\* c is a and then b.
Joins(a, b, c) ==
    /\ Len(a) \in Nat /\ Len(b) \in Nat
    /\ Len(c) = Len(a) + Len(b)
    /\ \A i \in 1..Len(a) : i \in 1..Len(c) /\ c[i] = a[i]
    /\ \A k \in 1..Len(b) : Len(a) + k \in 1..Len(c) /\ c[Len(a) + k] = b[k]
    /\ \A i \in 1..Len(c) :
           i \in 1..Len(a) \/ \E k \in 1..Len(b) : i = Len(a) + k

\* What a \o b holds, place by place
LEMMA Concatenated ==
    ASSUME NEW T, NEW a \in Seq(T), NEW b \in Seq(T), NEW c, c = a \o b
    PROVE  c \in Seq(T) /\ Joins(a, b, c)
<1>1. /\ c \in Seq(T) /\ Len(a) \in Nat /\ Len(b) \in Nat
      /\ Len(c) = Len(a) + Len(b)
      /\ \A i \in 1..Len(a) + Len(b) :
             c[i] = IF i <= Len(a) THEN a[i] ELSE b[i - Len(a)]
  BY ConcatProperties
<1>2. ASSUME NEW la \in Nat, NEW lb \in Nat, NEW i \in 1..(la + lb), i \notin 1..la
      PROVE  i - la \in 1..lb /\ i = la + (i - la)
  BY <1>2
<1>3. ASSUME NEW i \in 1..Len(c), i \notin 1..Len(a)
      PROVE  \E k \in 1..Len(b) : i = Len(a) + k
  BY <1>1, <1>2, <1>3
<1>4. ASSUME NEW la \in Nat, NEW lb \in Nat, NEW k \in 1..lb
      PROVE  la + k \in 1..(la + lb) /\ ~(la + k <= la) /\ (la + k) - la = k
  OBVIOUS
<1>5. ASSUME NEW k \in 1..Len(b)
      PROVE  Len(a) + k \in 1..Len(c) /\ c[Len(a) + k] = b[k]
  <2>1. /\ Len(a) + k \in 1..(Len(a) + Len(b)) /\ ~(Len(a) + k <= Len(a))
        /\ (Len(a) + k) - Len(a) = k
    BY <1>1, <1>4
  <2> QED
    BY <1>1, <2>1
<1>6. ASSUME NEW i \in 1..Len(a) PROVE i \in 1..Len(c) /\ c[i] = a[i]
  BY <1>1
<1> QED
  BY <1>1, <1>3, <1>5, <1>6 DEF Joins

\* Each element of each of ss has its place in q, those of one sequence side by
\* side, and nothing else has.
Flat(ss, q) ==
    \E at \in [1..Len(ss) -> Nat] :
        /\ \A j \in 1..Len(ss) : \A k \in 1..Len(ss[j]) :
               at[j] + k \in 1..Len(q) /\ q[at[j] + k] = ss[j][k]
        /\ \A i \in 1..Len(q) :
               \E j \in 1..Len(ss) : \E k \in 1..Len(ss[j]) : i = at[j] + k

\* FlattenSeq lays its sequences end to end.
LEMMA Flattened ==
    ASSUME NEW T, NEW ss \in Seq(Seq(T))
    PROVE  FlattenSeq(ss) \in Seq(T) /\ Flat(ss, FlattenSeq(ss))
<1> DEFINE n == Len(ss)
<1>1. n \in Nat /\ \A j \in 1..n : ss[j] \in Seq(T)
  OBVIOUS
<1>2. PICK f \in [0..n -> Seq(T)] :
          /\ f[0] = << >>
          /\ \A i \in 1..n : f[i] = f[i - 1] \o ss[i]
          /\ FlattenSeq(ss) = f[n]
  BY Flattening
<1> DEFINE at == [j \in 1..n |-> Len(f[j - 1])]
           Placed(m) == /\ \A j \in 1..m : \A k \in 1..Len(ss[j]) :
                               /\ at[j] + k \in 1..Len(f[m])
                               /\ f[m][at[j] + k] = ss[j][k]
                        /\ \A i \in 1..Len(f[m]) :
                               \E j \in 1..m : \E k \in 1..Len(ss[j]) : i = at[j] + k
           S == {m \in Nat : m <= n => Placed(m)}
<1>3. \A m \in 0..n : f[m] \in Seq(T)
  BY <1>2
<1>4. at \in [1..n -> Nat]
  <2>1. ASSUME NEW j \in 1..n PROVE Len(f[j - 1]) \in Nat
    <3>1. j - 1 \in 0..n
      BY <1>1
    <3> QED
      BY <1>3, <3>1
  <2> QED
    BY <2>1
<1>5. 0 \in S
  <2>1. Len(f[0]) = 0
    BY <1>2
  <2> QED
    BY <2>1
<1>6. ASSUME NEW m \in Nat, m + 1 <= n, Placed(m) PROVE Placed(m + 1)
  <2>1. m + 1 \in 1..n /\ m \in 0..n /\ (m + 1) - 1 = m
    BY <1>1, <1>6
  <2>2. f[m + 1] = f[m] \o ss[m + 1]
    BY <1>2, <2>1
  <2>3. at[m + 1] = Len(f[m])
    BY <2>1
  <2>4. f[m] \in Seq(T) /\ ss[m + 1] \in Seq(T)
    BY <1>1, <1>3, <2>1
  <2>5. /\ \A i \in 1..Len(f[m]) : i \in 1..Len(f[m + 1]) /\ f[m + 1][i] = f[m][i]
        /\ \A k \in 1..Len(ss[m + 1]) :
               /\ at[m + 1] + k \in 1..Len(f[m + 1])
               /\ f[m + 1][at[m + 1] + k] = ss[m + 1][k]
        /\ \A i \in 1..Len(f[m + 1]) :
               i \in 1..Len(f[m]) \/ \E k \in 1..Len(ss[m + 1]) : i = at[m + 1] + k
    <3> DEFINE a == f[m]
               b == ss[m + 1]
               c == f[m + 1]
               la == at[m + 1]
    <3>1. c = a \o b /\ la = Len(a)
      BY <2>2, <2>3
    <3>2. a \in Seq(T) /\ b \in Seq(T)
      BY <2>4
    <3> HIDE DEF a, b, c, la
    <3>3. Joins(a, b, c)
      BY <3>1, <3>2, Concatenated
    <3>4. /\ \A i \in 1..Len(a) : i \in 1..Len(c) /\ c[i] = a[i]
          /\ \A k \in 1..Len(b) : la + k \in 1..Len(c) /\ c[la + k] = b[k]
          /\ \A i \in 1..Len(c) :
                 i \in 1..Len(a) \/ \E k \in 1..Len(b) : i = la + k
      BY <3>1, <3>3 DEF Joins
    <3> HIDE DEF at
    <3> QED
      BY <3>4 DEF a, b, c, la
  <2>6. 1..(m + 1) = 1..m \cup {m + 1}
    OBVIOUS
  <2> HIDE DEF at, n
  <2>7. ASSUME NEW j \in 1..(m + 1), NEW k \in 1..Len(ss[j])
        PROVE  at[j] + k \in 1..Len(f[m + 1]) /\ f[m + 1][at[j] + k] = ss[j][k]
    <3>1. CASE j = m + 1
      BY <2>5, <3>1
    <3>2. CASE j \in 1..m
      <4>1. at[j] + k \in 1..Len(f[m]) /\ f[m][at[j] + k] = ss[j][k]
        BY <1>6, <3>2
      <4> QED
        BY <2>5, <4>1
    <3> QED
      BY <2>6, <3>1, <3>2
  <2>8. ASSUME NEW i \in 1..Len(f[m + 1])
        PROVE  \E j \in 1..(m + 1) : \E k \in 1..Len(ss[j]) : i = at[j] + k
    <3>1. CASE i \in 1..Len(f[m])
      <4>1. PICK j \in 1..m : \E k \in 1..Len(ss[j]) : i = at[j] + k
        BY <1>6, <3>1
      <4> QED
        BY <2>6, <4>1
    <3>2. CASE \E k \in 1..Len(ss[m + 1]) : i = at[m + 1] + k
      BY <2>6, <3>2
    <3> QED
      BY <2>5, <3>1, <3>2
  <2> QED
    BY <2>7, <2>8
<1>7. n \in S
  <2> HIDE DEF Placed, n
  <2>1. 0 \in S
    BY <1>5
  <2>2. \A m \in Nat : m \in S => m + 1 \in S
    BY <1>1, <1>6
  <2> HIDE DEF S
  <2> QED
    BY <1>1, <2>1, <2>2, Induction
<1>8. Placed(n)
  <2> HIDE DEF Placed, n
  <2> QED
    BY <1>1, <1>7
<1>9. f[n] \in Seq(T)
  BY <1>1, <1>3
<1> DEFINE F == FlattenSeq(ss)
           Places(a) == /\ \A j \in 1..n : \A k \in 1..Len(ss[j]) :
                               a[j] + k \in 1..Len(F) /\ F[a[j] + k] = ss[j][k]
                        /\ \A i \in 1..Len(F) :
                               \E j \in 1..n : \E k \in 1..Len(ss[j]) : i = a[j] + k
<1>10. F = f[n]
  BY <1>2
<1>11. Places(at)
  <2> HIDE DEF at, n, F
  <2> QED
    BY <1>8, <1>10
<1>12. \E a \in [1..n -> Nat] : Places(a)
  <2> HIDE DEF at, n, Places
  <2> QED
    BY <1>4, <1>11
<1> QED
  BY <1>9, <1>10, <1>12 DEF Flat

-----------------------------------------------------------------------------
(* The orders a server lists things in. *)

\* s lists the elements of S, each once.
Lists(s, S) ==
    /\ s \in Seq(S) /\ Len(s) = Cardinality(S) /\ Len(s) \in Nat
    /\ \A i \in 1..Len(s) : s[i] \in S
    /\ \A x \in S : \E i \in 1..Len(s) : s[i] = x

\* As many different elements of S as there are list them all.
LEMMA InjectionLists ==
    ASSUME NEW S, IsFiniteSet(S), NEW s \in [1..Cardinality(S) -> S],
           \A i, j \in 1..Cardinality(S) : s[i] = s[j] => i = j
    PROVE  Lists(s, S)
<1> DEFINE n == Cardinality(S)
<1>1. n \in Nat
  BY FS_CardinalityType
<1>2. IsFiniteSet(1..n) /\ Cardinality(1..n) = n
  BY <1>1, FS_Interval
<1>3. s \in Injection(1..n, S)
  BY DEF Injection, IsInjective
<1>4. s \in Surjection(1..n, S)
  BY <1>1, <1>2, <1>3, FS_Injection
<1>5. \A x \in S : \E i \in 1..n : s[i] = x
  BY <1>4 DEF Surjection
<1>6. s \in Seq(S) /\ Len(s) = n
  BY <1>1
<1> QED
  BY <1>1, <1>5, <1>6 DEF Lists

\* SetToSeq and SetToSeqs list a finite set.
LEMMA SetToSeqLists ==
    ASSUME NEW S, IsFiniteSet(S)
    PROVE  Lists(SetToSeq(S), S)
<1> DEFINE n == Cardinality(S)
<1>1. \E f : f \in [1..n -> S] /\ IsInjective(f)
  BY FS_CardinalityType DEF ExistsBijection, Bijection, Injection
<1>2. SetToSeq(S) \in [1..n -> S] /\ IsInjective(SetToSeq(S))
  BY <1>1 DEF SetToSeq
<1>3. \A i, j \in 1..n : SetToSeq(S)[i] = SetToSeq(S)[j] => i = j
  BY <1>2 DEF IsInjective
<1> QED
  BY <1>2, <1>3, InjectionLists

LEMMA OrdersList ==
    ASSUME NEW S, IsFiniteSet(S), NEW s \in SetToSeqs(S)
    PROVE  Lists(s, S)
BY InjectionLists DEF SetToSeqs

LEMMA UrlFinite == IsFiniteSet(Url)
<1>1. IsFiniteSet({"src", "dst"}) 
  <2>1. IsFiniteSet({"src"})
    BY FS_Singleton
  <2>2. {"src", "dst"} = {"src"} \cup {"dst"}
    OBVIOUS
  <2> QED
    BY <2>1, <2>2, FS_AddElement
<1>2. IsFiniteSet({"src", "dst"} \X Keys)
  BY <1>1, PlanAssumption, FS_Product
<1> DEFINE f == [p \in {"src", "dst"} \X Keys |-> [host |-> p[1], key |-> p[2]]]
<1>3. f \in Surjection({"src", "dst"} \X Keys, Url)
  <2>1. f \in [{"src", "dst"} \X Keys -> Url]
    BY DEF Url
  <2>2. ASSUME NEW u \in Url PROVE \E p \in {"src", "dst"} \X Keys : f[p] = u
    <3>1. <<u.host, u.key>> \in {"src", "dst"} \X Keys /\ u = [host |-> u.host, key |-> u.key]
      BY DEF Url
    <3> QED
      BY <3>1
  <2> QED
    BY <2>1, <2>2 DEF Surjection
<1> QED
  BY <1>2, <1>3, FS_Surjection

\* The order the server lists a torrent's URLs in is a listing of them.
LEMMA ListedLists ==
    ASSUME NEW urls \in SUBSET Url, NEW lead
    PROVE  Lists(Listed(urls, lead), urls)
<1>1. IsFiniteSet(urls) /\ IsFiniteSet(urls \ {lead})
  BY UrlFinite, FS_Subset
<1>2. CASE lead \notin urls
  BY <1>1, <1>2, SetToSeqLists DEF Listed
<1>3. CASE lead \in urls
  <2> DEFINE rest == urls \ {lead}
             s == SetToSeq(rest)
  <2>1. Lists(s, rest)
    BY <1>1, SetToSeqLists
  <2>2. Cardinality(urls) = Cardinality(rest) + 1
    BY <1>1, <1>3, FS_RemoveElement, FS_CardinalityType
  <2>3. s \in Seq(urls) /\ <<lead>> \in Seq(urls)
    BY <1>3, <2>1 DEF Lists
  <2> DEFINE l == <<lead>> \o s
  <2>4. l \in Seq(urls) /\ Len(l) = Len(s) + 1 /\ Len(s) \in Nat
    BY <2>3
  <2>5. l[1] = lead /\ \A i \in 1..Len(s) : l[i + 1] = s[i]
    BY <2>3
  <2>6. ASSUME NEW x \in urls PROVE \E i \in 1..Len(l) : l[i] = x
    <3>1. CASE x = lead
      <4>1. 1 \in 1..Len(l)
        BY <2>4
      <4> QED
        BY <2>5, <3>1, <4>1
    <3>2. CASE x # lead
      <4>1. PICK i \in 1..Len(s) : s[i] = x
        BY <2>1, <3>2 DEF Lists
      <4>2. i + 1 \in 1..Len(l)
        BY <2>4
      <4> HIDE DEF l, s
      <4> QED
        BY <2>5, <4>1, <4>2
    <3> QED
      BY <3>1, <3>2
  <2>7. \A i \in 1..Len(l) : l[i] \in urls
    BY <2>4
  <2>8. Len(l) = Cardinality(urls)
    BY <2>1, <2>2, <2>4 DEF Lists
  <2>9. Listed(urls, lead) = l
    BY <1>3 DEF Listed
  <2>10. Len(l) \in Nat /\ l \in Seq(urls)
    BY <2>4
  <2> HIDE DEF l, s, rest
  <2>11. Lists(l, urls)
    BY <2>6, <2>7, <2>8, <2>10 DEF Lists
  <2> QED
    BY <2>9, <2>11
<1> QED
  BY <1>2, <1>3

-----------------------------------------------------------------------------
(* Requests and what they make of a server. *)

\* Well-formed requests
Requests ==
    [kind : {"stop", "start", "reannounce", "delete", "add"},
     on : SUBSET Torrents, arg : {{}}]
    \cup [kind : {"create_category"}, on : {{}}, arg : Categories]
    \cup [kind : {"set_category"}, on : SUBSET Torrents,
          arg : Categories \cup {NoCategory}]
    \cup [kind : {"add_tags", "remove_tags"}, on : SUBSET Torrents,
          arg : SUBSET Tags]
    \cup [kind : {"set_down", "set_up"}, on : SUBSET Torrents, arg : Limits]
    \cup [kind : {"add_trackers", "remove_trackers"}, on : SUBSET Torrents,
          arg : SUBSET Url]
    \cup [kind : {"edit_tracker"}, on : SUBSET Torrents,
          arg : [old : Url, new : Url]]

\* What a request has made of server s, torrent by torrent
Makes(s, r, n) ==
    LET on == r.on \cap s.present IN
    /\ n \in Server
    /\ n.present = IF r.kind = "delete" THEN s.present \ r.on
                   ELSE IF r.kind = "add" THEN s.present \cup r.on ELSE s.present
    /\ n.stopped = IF r.kind = "stop" THEN s.stopped \cup on
                   ELSE IF r.kind = "start" THEN s.stopped \ on ELSE s.stopped
    /\ \A t \in Torrents :
          /\ n.category[t] = IF r.kind = "set_category" /\ t \in on THEN r.arg
                             ELSE s.category[t]
          /\ n.tags[t] = IF r.kind = "add_tags" /\ t \in on THEN s.tags[t] \cup r.arg
                         ELSE IF r.kind = "remove_tags" /\ t \in on THEN s.tags[t] \ r.arg
                         ELSE s.tags[t]
          /\ n.down[t] = IF r.kind = "set_down" /\ t \in on THEN r.arg ELSE s.down[t]
          /\ n.up[t] = IF r.kind = "set_up" /\ t \in on THEN r.arg ELSE s.up[t]
          /\ n.urls[t] =
                IF r.kind = "add_trackers" /\ t \in on THEN s.urls[t] \cup r.arg
                ELSE IF r.kind = "remove_trackers" /\ t \in on THEN s.urls[t] \ r.arg
                ELSE IF r.kind = "edit_tracker" /\ t \in on
                     THEN (s.urls[t] \ {r.arg.old}) \cup {r.arg.new}
                ELSE s.urls[t]

\* What the server makes of a well-formed request, field by field
LEMMA DoneMakes ==
    ASSUME NEW s \in Server, NEW r \in Requests
    PROVE  Makes(s, r, Done(s, r))
<1>1. Done(s, r) \in Server
  BY DEF Done, Server, Requests, Mapped
<1>2. /\ Done(s, r).present = IF r.kind = "delete" THEN s.present \ r.on
                   ELSE IF r.kind = "add" THEN s.present \cup r.on ELSE s.present
      /\ Done(s, r).stopped = IF r.kind = "stop" THEN s.stopped \cup (r.on \cap s.present)
                   ELSE IF r.kind = "start" THEN s.stopped \ (r.on \cap s.present) ELSE s.stopped
  BY DEF Done, Server, Requests, Mapped
<1>3. ASSUME NEW t \in Torrents
      PROVE /\ Done(s, r).category[t] = IF r.kind = "set_category" /\ t \in r.on \cap s.present THEN r.arg
                             ELSE s.category[t]
            /\ Done(s, r).tags[t] = IF r.kind = "add_tags" /\ t \in r.on \cap s.present THEN s.tags[t] \cup r.arg
                         ELSE IF r.kind = "remove_tags" /\ t \in r.on \cap s.present THEN s.tags[t] \ r.arg
                         ELSE s.tags[t]
  BY DEF Done, Server, Requests, Mapped
<1>4. ASSUME NEW t \in Torrents
      PROVE
          /\ Done(s, r).down[t] = IF r.kind = "set_down" /\ t \in r.on \cap s.present THEN r.arg ELSE s.down[t]
          /\ Done(s, r).up[t] = IF r.kind = "set_up" /\ t \in r.on \cap s.present THEN r.arg ELSE s.up[t]
  BY DEF Done, Server, Requests, Mapped
<1>5. ASSUME NEW t \in Torrents
      PROVE
           Done(s, r).urls[t] =
                IF r.kind = "add_trackers" /\ t \in r.on \cap s.present THEN s.urls[t] \cup r.arg
                ELSE IF r.kind = "remove_trackers" /\ t \in r.on \cap s.present THEN s.urls[t] \ r.arg
                ELSE IF r.kind = "edit_tracker" /\ t \in r.on \cap s.present
                     THEN (s.urls[t] \ {r.arg.old}) \cup {r.arg.new}
                ELSE s.urls[t]
  BY DEF Done, Server, Requests, Mapped
<1> QED
  BY <1>1, <1>2, <1>3, <1>4, <1>5 DEF Makes

-----------------------------------------------------------------------------
(* Commands, what their requests look like, and what they are for. *)

\* Who gives a command, and how
Modes == {Dry, Yes, Asking, Unattended, Tui, Library}

\* The operations without an argument
Bare == {"pause", "resume", "start", "reannounce", "delete", "category_clear",
         "remove", "pause_by_hash", "resume_by_hash"}

\* A command as it may be given
Legal(c) ==
    /\ c.sel \subseteq Torrents /\ c.mode \in Modes
    /\ \/ c.op \in Bare
       \/ c.op = "category_set" /\ c.arg \in [category : Categories, create : BOOLEAN]
       \/ c.op \in {"tag_add", "tag_remove"} /\ c.arg \subseteq Tags
       \/ c.op = "throttle" /\ c.arg \in Limitings
       \/ /\ c.op \in {"add_if_present", "replace"}
          /\ c.arg \in [target : Targets, exact : BOOLEAN, index : Indexes]
       \/ c.op = "replace_passkey" /\ c.arg \in [key : Keys]
       \/ c.op = "restore" /\ c.arg \in [c.sel -> Backup]
       \/ /\ c.op = "import" /\ c.arg \in Sources
          /\ c.sel = ToSet(c.arg) \ {Invalid}

\* u is of the source a tracker command is about.
Matched(c, v, u) == IsSource(c, v, c.sel \cap v.present, u)
Found(c, v, t) == \E u \in v.urls[t] : Matched(c, v, u)

\* r is a request the plan of c may hold.
Fits(c, v, r) ==
    /\ c.op \in {"pause", "pause_by_hash"} =>
           r.kind = "stop" /\ \A t \in r.on : t \in v.present /\ t \notin v.stopped
    /\ c.op \in {"resume", "start", "resume_by_hash"} =>
           r.kind = "start" /\ r.on \subseteq c.sel
    /\ c.op = "reannounce" => r.kind = "reannounce"
    /\ c.op = "delete" => r.kind = "delete"
    /\ c.op = "category_set" => \/ r.kind = "create_category"
                                \/ r.kind = "set_category" /\ r.arg = c.arg.category
    /\ c.op = "category_clear" => r.kind = "set_category" /\ r.arg = NoCategory
    /\ c.op = "tag_add" => r.kind = "add_tags" /\ r.arg = c.arg
    /\ c.op = "tag_remove" => r.kind = "remove_tags" /\ r.arg = c.arg
    /\ c.op = "throttle" => \/ r.kind = "set_down" /\ r.arg = c.arg.down
                            \/ r.kind = "set_up" /\ r.arg = c.arg.up
    /\ c.op = "add_if_present" =>
           /\ r.kind = "add_trackers" /\ r.arg = {c.arg.target}
           /\ \A t \in r.on : Found(c, v, t)
    /\ c.op = "remove" => /\ r.kind = "remove_trackers"
                          /\ \A u \in r.arg : u.host = "src"
    /\ c.op = "replace" =>
           /\ ~Matched(c, v, c.arg.target)
           /\ \/ /\ r.kind = "edit_tracker" /\ r.arg.new = c.arg.target
                 /\ Matched(c, v, r.arg.old)
              \/ /\ r.kind = "remove_trackers"
                 /\ \A u \in r.arg : Matched(c, v, u)
    /\ c.op = "replace_passkey" =>
           /\ r.kind = "edit_tracker" /\ r.arg.old.host = "src"
           /\ r.arg.new.host = "src" /\ r.arg.new.key = c.arg.key
    /\ c.op = "restore" =>
           /\ r.kind \in {"create_category", "set_category", "add_tags", "add_trackers"}
           /\ r.kind = "set_category" =>
                  r.arg # NoCategory /\ \A t \in r.on : v.category[t] = NoCategory
    /\ c.op = "import" => r.kind = "add"

\* The requests a plan of c made on v may hold
Fitting(c, v) == {r \in Requests : Fits(c, v, r)}

\* What c is to bring about for t, planned on v
Goal(c, v, t, what, val) ==
    \/ c.op \in {"pause", "pause_by_hash"} /\ what = "stopped"
    \/ c.op \in {"resume", "start", "resume_by_hash"} /\ what = "started"
    \/ c.op = "delete" /\ what = "gone"
    \/ c.op = "category_set" /\ what = "category" /\ val = c.arg.category
    \/ c.op = "category_clear" /\ what = "category" /\ val = NoCategory
    \/ c.op = "tag_add" /\ what = "tag" /\ val \in c.arg
    \/ c.op = "tag_remove" /\ what = "untag" /\ val \in c.arg
    \/ c.op = "throttle" /\ what = "down" /\ val = c.arg.down /\ val # Untouched
    \/ c.op = "throttle" /\ what = "up" /\ val = c.arg.up /\ val # Untouched
    \/ c.op = "add_if_present" /\ Found(c, v, t) /\ what = "target"
    \/ c.op = "add_if_present" /\ ~Found(c, v, t) /\ what = "untracker" /\ Matched(c, v, val)
    \/ c.op = "remove" /\ what = "untracker" /\ val.host = "src"
    \/ c.op = "replace" /\ what = "untracker" /\ Matched(c, v, val)
    \/ /\ c.op = "replace_passkey" /\ what = "untracker"
       /\ val.host = "src" /\ val.key # c.arg.key
    \/ c.op = "restore" /\ what = "categorised" /\ c.arg[t].category # NoCategory
    \/ c.op = "restore" /\ what = "tag" /\ val \in c.arg[t].tags
    \/ c.op = "restore" /\ what = "tracker" /\ val \in c.arg[t].urls
    \/ c.op = "import" /\ what = "there"

\* t has it on server s.
Has(c, s, t, what, val) ==
    /\ what = "stopped" => t \in s.stopped
    /\ what = "started" => t \notin s.stopped
    /\ what = "gone" => t \notin s.present
    /\ what = "there" => t \in s.present
    /\ what = "category" => s.category[t] = val
    /\ what = "categorised" => s.category[t] # NoCategory
    /\ what = "tag" => val \in s.tags[t]
    /\ what = "untag" => val \notin s.tags[t]
    /\ what = "down" => s.down[t] = val
    /\ what = "up" => s.up[t] = val
    /\ what = "tracker" => val \in s.urls[t]
    /\ what = "untracker" => val \notin s.urls[t]
    /\ what = "target" => HasTarget(c, s.urls[t])

\* Request r brings it about.
Gives(c, r, t, what, val) ==
    /\ t \in r.on
    /\ \/ what = "stopped" /\ r.kind = "stop"
       \/ what = "started" /\ r.kind = "start"
       \/ what = "gone" /\ r.kind = "delete"
       \/ what = "there" /\ r.kind = "add"
       \/ what = "category" /\ r.kind = "set_category" /\ r.arg = val
       \/ what = "categorised" /\ r.kind = "set_category" /\ r.arg # NoCategory
       \/ what = "tag" /\ r.kind = "add_tags" /\ val \in r.arg
       \/ what = "untag" /\ r.kind = "remove_tags" /\ val \in r.arg
       \/ what = "down" /\ r.kind = "set_down" /\ r.arg = val
       \/ what = "up" /\ r.kind = "set_up" /\ r.arg = val
       \/ what = "tracker" /\ r.kind = "add_trackers" /\ val \in r.arg
       \/ what = "untracker" /\ r.kind = "remove_trackers" /\ val \in r.arg
       \/ /\ what = "untracker" /\ r.kind = "edit_tracker"
          /\ val = r.arg.old /\ val # r.arg.new
       \/ what = "target" /\ r.kind = "add_trackers" /\ c.arg.target \in r.arg

\* What is there already stays through every request of the plan.
LEMMA GoalsStay ==
    ASSUME NEW c, NEW v, NEW r, NEW t, NEW what, NEW val, NEW s, NEW n, Legal(c),
           r \in Fitting(c, v), t \in Torrents, Makes(s, r, n),
           Goal(c, v, t, what, val), Has(c, s, t, what, val)
    PROVE  Has(c, n, t, what, val)
<1> r \in Requests /\ Fits(c, v, r)
  BY DEF Fitting
<1>1. CASE c.op \in Bare \ {"remove"}
  BY <1>1 DEF Bare, Makes, Fits, Goal, Has
<1>2. CASE c.op = "category_set"
  BY <1>2 DEF Makes, Fits, Goal, Has
<1>3. CASE c.op \in {"tag_add", "tag_remove"}
  BY <1>3 DEF Makes, Fits, Goal, Has
<1>4. CASE c.op = "throttle"
  BY <1>4 DEF Makes, Fits, Goal, Has
<1>5. CASE c.op = "add_if_present"
  <2>1. CASE Found(c, v, t)
    BY <1>5, <2>1 DEF Makes, Fits, Goal, Has, HasTarget
  <2>2. CASE ~Found(c, v, t)
    BY <1>5, <2>2 DEF Makes, Fits, Goal, Has
  <2> QED
    BY <2>1, <2>2
<1>6. CASE c.op = "remove"
  BY <1>6 DEF Makes, Fits, Goal, Has
<1>7. CASE c.op = "replace"
  BY <1>7 DEF Makes, Fits, Goal, Has
<1>8. CASE c.op = "replace_passkey"
  BY <1>8 DEF Makes, Fits, Goal, Has
<1>9. CASE c.op = "restore"
  BY <1>9 DEF Makes, Fits, Goal, Has
<1>10. CASE c.op = "import"
  BY <1>10 DEF Makes, Fits, Goal, Has
<1> QED
  BY <1>1, <1>2, <1>3, <1>4, <1>5, <1>6, <1>7, <1>8, <1>9, <1>10 DEF Legal

\* A request that is gone through with gives what it is for.
LEMMA GoalsGiven ==
    ASSUME NEW c, NEW r, NEW t, NEW what, NEW val, NEW s, NEW n,
           r \in Requests, t \in Torrents, Makes(s, r, n),
           Gives(c, r, t, what, val), t \in s.present \/ r.kind = "add"
    PROVE  Has(c, n, t, what, val)
BY DEF Makes, Gives, Has, HasTarget

-----------------------------------------------------------------------------
(* Plans. *)

\* The torrents a command is held to, planned on v
Held(c, v) == IF c.op = "import" THEN c.sel ELSE c.sel \cap v.present

\* What is to be brought about is so already, or asked for.
Covers(c, v, reqs) ==
    \A t \in Held(c, v) : \A what, val :
        Goal(c, v, t, what, val) =>
            \/ Has(c, v, t, what, val)
            \/ \E r : Contains(reqs, r) /\ Gives(c, r, t, what, val)

\* A source goes only where its successor is or has been put before.
Ordered(c, v, reqs) ==
    c.op = "replace" =>
        \A i \in 1..Len(reqs) : reqs[i].kind = "remove_trackers" =>
            \A t \in reqs[i].on :
                \/ HasTarget(c, v.urls[t])
                \/ \E j \in 1..(i - 1) : reqs[j].kind = "edit_tracker" /\ t \in reqs[j].on

\* A plan made on v that a command can be held to
Sound(c, v, reqs) ==
    reqs \in Seq(Fitting(c, v)) /\ Covers(c, v, reqs) /\ Ordered(c, v, reqs)

\* Plans of one request, and plans put together
LEMMA OneRequest ==
    ASSUME NEW T, NEW r \in T
    PROVE  <<r>> \in Seq(T) /\ Contains(<<r>>, r)
<1>1. <<r>> \in Seq(T) /\ Len(<<r>>) = 1 /\ <<r>>[1] = r
  OBVIOUS
<1>2. 1 \in 1..1
  OBVIOUS
<1> QED
  BY <1>1, <1>2 DEF Contains

LEMMA JoinedRequests ==
    ASSUME NEW T, NEW a \in Seq(T), NEW b \in Seq(T)
    PROVE  /\ a \o b \in Seq(T)
           /\ \A r : Contains(a, r) \/ Contains(b, r) => Contains(a \o b, r)
<1> DEFINE c == a \o b
<1>1. c \in Seq(T) /\ Joins(a, b, c)
  BY Concatenated
<1> HIDE DEF c
<1>2. ASSUME NEW r, Contains(a, r) \/ Contains(b, r) PROVE Contains(c, r)
  BY <1>1, <1>2 DEF Joins, Contains
<1> QED
  BY <1>1, <1>2 DEF c

\* The operations of qbit_core.features.torrents
BulkOps == (Bare \ {"remove"}) \cup {"category_set", "tag_add", "tag_remove", "throttle"}

\* apply_bulk_torrent_action for the torrents _bulk_action_skip_reason lets by
LEMMA BulkSound ==
    ASSUME NEW c, NEW v \in Server, Legal(c), c.op \in BulkOps, NEW S,
           S = {t \in c.sel \cap v.present : ~Skipped(c, v, t)}
    PROVE  Sound(c, v, BulkRequests(c, v, S))
<1> DEFINE One(kind, arg) == <<Request(kind, S, arg)>>
           F == Fitting(c, v)
<1>1. S \subseteq Torrents
  BY DEF Legal
<1>2. Held(c, v) = c.sel \cap v.present
  BY DEF Held, BulkOps, Bare
<1>3. \A reqs : Ordered(c, v, reqs)
  BY DEF Ordered, BulkOps, Bare
<1>4. ASSUME c.op \in {"pause", "pause_by_hash"}
      PROVE  Sound(c, v, BulkRequests(c, v, S))
  <2> DEFINE r == Request("stop", S, {})
  <2>1. BulkRequests(c, v, S) = <<r>>
    BY <1>4 DEF BulkRequests
  <2>2. r \in F
    BY <1>1, <1>4 DEF Request, Fitting, Requests, Fits, Skipped
  <2>3. \A t \in Held(c, v) : \A what, val :
            Goal(c, v, t, what, val) => Has(c, v, t, what, val) \/ Gives(c, r, t, what, val)
    BY <1>2, <1>4 DEF Goal, Has, Gives, Request, Skipped
  <2> QED
    BY <1>3, <2>1, <2>2, <2>3, OneRequest DEF Sound, Covers
<1>5. ASSUME c.op \in {"resume", "start", "resume_by_hash"}
      PROVE  Sound(c, v, BulkRequests(c, v, S))
  <2> DEFINE r == Request("start", S, {})
  <2>1. BulkRequests(c, v, S) = <<r>>
    BY <1>5 DEF BulkRequests
  <2>2. r \in F
    BY <1>1, <1>5 DEF Request, Fitting, Requests, Fits, Skipped, Legal, Bare
  <2>3. \A t \in Held(c, v) : \A what, val :
            Goal(c, v, t, what, val) => Has(c, v, t, what, val) \/ Gives(c, r, t, what, val)
    BY <1>2, <1>5 DEF Goal, Has, Gives, Request, Skipped
  <2> QED
    BY <1>3, <2>1, <2>2, <2>3, OneRequest DEF Sound, Covers
<1>6. ASSUME c.op = "reannounce"
      PROVE  Sound(c, v, BulkRequests(c, v, S))
  <2> DEFINE r == Request("reannounce", S, {})
  <2>1. BulkRequests(c, v, S) = <<r>>
    BY <1>6 DEF BulkRequests
  <2>2. r \in F
    BY <1>1, <1>6 DEF Request, Fitting, Requests, Fits, Skipped, Legal, Bare
  <2>3. \A t \in Held(c, v) : \A what, val :
            Goal(c, v, t, what, val) => Has(c, v, t, what, val) \/ Gives(c, r, t, what, val)
    BY <1>2, <1>6 DEF Goal, Has, Gives, Request, Skipped
  <2> QED
    BY <1>3, <2>1, <2>2, <2>3, OneRequest DEF Sound, Covers
<1>7. ASSUME c.op = "delete"
      PROVE  Sound(c, v, BulkRequests(c, v, S))
  <2> DEFINE r == Request("delete", S, {})
  <2>1. BulkRequests(c, v, S) = <<r>>
    BY <1>7 DEF BulkRequests
  <2>2. r \in F
    BY <1>1, <1>7 DEF Request, Fitting, Requests, Fits, Skipped, Legal, Bare
  <2>3. \A t \in Held(c, v) : \A what, val :
            Goal(c, v, t, what, val) => Has(c, v, t, what, val) \/ Gives(c, r, t, what, val)
    BY <1>2, <1>7 DEF Goal, Has, Gives, Request, Skipped
  <2> QED
    BY <1>3, <2>1, <2>2, <2>3, OneRequest DEF Sound, Covers
<1>8. ASSUME c.op = "category_clear"
      PROVE  Sound(c, v, BulkRequests(c, v, S))
  <2> DEFINE r == Request("set_category", S, NoCategory)
  <2>1. BulkRequests(c, v, S) = <<r>>
    BY <1>8 DEF BulkRequests
  <2>2. r \in F
    BY <1>1, <1>8 DEF Request, Fitting, Requests, Fits, Skipped, Legal, Bare
  <2>3. \A t \in Held(c, v) : \A what, val :
            Goal(c, v, t, what, val) => Has(c, v, t, what, val) \/ Gives(c, r, t, what, val)
    BY <1>2, <1>8 DEF Goal, Has, Gives, Request, Skipped
  <2> QED
    BY <1>3, <2>1, <2>2, <2>3, OneRequest DEF Sound, Covers
<1>9. ASSUME c.op = "tag_add"
      PROVE  Sound(c, v, BulkRequests(c, v, S))
  <2> DEFINE r == Request("add_tags", S, c.arg)
  <2>1. BulkRequests(c, v, S) = <<r>>
    BY <1>9 DEF BulkRequests
  <2>2. r \in F
    BY <1>1, <1>9 DEF Request, Fitting, Requests, Fits, Skipped, Legal, Bare
  <2>3. \A t \in Held(c, v) : \A what, val :
            Goal(c, v, t, what, val) => Has(c, v, t, what, val) \/ Gives(c, r, t, what, val)
    BY <1>2, <1>9 DEF Goal, Has, Gives, Request, Skipped
  <2> QED
    BY <1>3, <2>1, <2>2, <2>3, OneRequest DEF Sound, Covers
<1>10. ASSUME c.op = "tag_remove"
      PROVE  Sound(c, v, BulkRequests(c, v, S))
  <2> DEFINE r == Request("remove_tags", S, c.arg)
  <2>1. BulkRequests(c, v, S) = <<r>>
    BY <1>10 DEF BulkRequests
  <2>2. r \in F
    BY <1>1, <1>10 DEF Request, Fitting, Requests, Fits, Skipped, Legal, Bare
  <2>3. \A t \in Held(c, v) : \A what, val :
            Goal(c, v, t, what, val) => Has(c, v, t, what, val) \/ Gives(c, r, t, what, val)
    BY <1>2, <1>10 DEF Goal, Has, Gives, Request, Skipped
  <2> QED
    BY <1>3, <2>1, <2>2, <2>3, OneRequest DEF Sound, Covers
<1>11. ASSUME c.op = "category_set"
       PROVE  Sound(c, v, BulkRequests(c, v, S))
  <2> DEFINE r == Request("set_category", S, c.arg.category)
             q == Request("create_category", {}, c.arg.category)
             first == IF c.arg.category \in v.known THEN << >> ELSE <<q>>
  <2>1. BulkRequests(c, v, S) = first \o <<r>>
    BY <1>11 DEF BulkRequests
  <2>2. r \in F /\ q \in F
    BY <1>1, <1>11 DEF Request, Fitting, Requests, Fits, Legal, Bare
  <2>3. \A t \in Held(c, v) : \A what, val :
            Goal(c, v, t, what, val) => Has(c, v, t, what, val) \/ Gives(c, r, t, what, val)
    BY <1>2, <1>11 DEF Goal, Has, Gives, Request, Skipped
  <2> HIDE DEF r, q, F
  <2>4. first \in Seq(F) /\ <<r>> \in Seq(F) /\ Contains(<<r>>, r)
    BY <2>2, OneRequest
  <2> HIDE DEF first
  <2>5. first \o <<r>> \in Seq(F) /\ Contains(first \o <<r>>, r)
    BY <2>4, JoinedRequests
  <2> QED
    BY <1>3, <2>1, <2>3, <2>5 DEF Sound, Covers, F
<1>12. ASSUME c.op = "throttle"
       PROVE  Sound(c, v, BulkRequests(c, v, S))
  <2> DEFINE d == Request("set_down", S, c.arg.down)
             u == Request("set_up", S, c.arg.up)
             ds == IF c.arg.down = Untouched THEN << >> ELSE <<d>>
             us == IF c.arg.up = Untouched THEN << >> ELSE <<u>>
  <2>1. BulkRequests(c, v, S) = ds \o us
    BY <1>12 DEF BulkRequests
  <2>2. /\ c.arg.down # Untouched => d \in F
        /\ c.arg.up # Untouched => u \in F
    BY <1>1, <1>12 DEF Request, Fitting, Requests, Fits, Legal, Bare, Limitings
  <2>3. \A t \in Held(c, v) : \A what, val :
            Goal(c, v, t, what, val) =>
               \/ Has(c, v, t, what, val)
               \/ c.arg.down # Untouched /\ Gives(c, d, t, what, val)
               \/ c.arg.up # Untouched /\ Gives(c, u, t, what, val)
    BY <1>2, <1>12 DEF Goal, Has, Gives, Request, Skipped, Throttled
  <2> HIDE DEF d, u, F
  <2>4. /\ ds \in Seq(F) /\ us \in Seq(F)
        /\ c.arg.down # Untouched => Contains(ds, d)
        /\ c.arg.up # Untouched => Contains(us, u)
    BY <2>2, OneRequest
  <2> HIDE DEF ds, us
  <2>5. /\ ds \o us \in Seq(F)
        /\ c.arg.down # Untouched => Contains(ds \o us, d)
        /\ c.arg.up # Untouched => Contains(ds \o us, u)
    BY <2>4, JoinedRequests
  <2> QED
    BY <1>3, <2>1, <2>3, <2>5 DEF Sound, Covers, F
<1> QED
  BY <1>4, <1>5, <1>6, <1>7, <1>8, <1>9, <1>10, <1>11, <1>12 DEF BulkOps, Bare

\* With every torrent skipped, nothing need be sent.
LEMMA NothingToDo ==
    ASSUME NEW c, NEW v \in Server, Legal(c), c.op \in BulkOps,
           \A t \in c.sel \cap v.present : Skipped(c, v, t)
    PROVE  Sound(c, v, << >>)
<1>1. << >> \in Seq(Fitting(c, v)) /\ Ordered(c, v, << >>)
  BY DEF Ordered, BulkOps, Bare
<1>2. Held(c, v) = c.sel \cap v.present
  BY DEF Held, BulkOps, Bare
<1>3. Covers(c, v, << >>)
  BY <1>2 DEF Covers, BulkOps, Bare, Skipped, Goal, Has, Throttled
<1> QED
  BY <1>1, <1>3 DEF Sound

\* What a tracker command asks for about one torrent
SoundAbout(c, v, t, reqs) ==
    /\ reqs \in Seq(Fitting(c, v))
    /\ \A k \in 1..Len(reqs) : reqs[k].on = {t}
    /\ \A what, val : Goal(c, v, t, what, val) =>
           \/ Has(c, v, t, what, val)
           \/ \E r : Contains(reqs, r) /\ Gives(c, r, t, what, val)
    /\ c.op = "replace" =>
           \A k \in 1..Len(reqs) : reqs[k].kind = "remove_trackers" =>
               \/ HasTarget(c, v.urls[t])
               \/ \E j \in 1..(k - 1) : reqs[j].kind = "edit_tracker"

\* One request is enough about a torrent if it gives all that is missing.
LEMMA OneRequestAbout ==
    ASSUME NEW c, NEW v, NEW t, NEW r, r \in Fitting(c, v), r.on = {t},
           \A what, val : Goal(c, v, t, what, val) =>
               Has(c, v, t, what, val) \/ Gives(c, r, t, what, val),
           c.op = "replace" => r.kind # "remove_trackers" \/ HasTarget(c, v.urls[t])
    PROVE  SoundAbout(c, v, t, <<r>>)
<1>1. <<r>> \in Seq(Fitting(c, v)) /\ Contains(<<r>>, r)
  BY OneRequest
<1>2. Len(<<r>>) = 1 /\ <<r>>[1] = r /\ \A k \in 1..1 : k = 1
  OBVIOUS
<1> QED
  BY <1>1, <1>2 DEF SoundAbout

\* Whatever a source matches is a URL of the tracker.
LEMMA MatchedSource ==
    ASSUME NEW c, NEW v, NEW u
    PROVE  /\ Matched(c, v, u) => u.host = "src"
           /\ c.op \in {"remove", "replace_passkey"} =>
                  (Matched(c, v, u) <=> u.host = "src")
BY DEF Matched, IsSource, OneSource

\* plan_tracker_replacement, about one torrent
LEMMA ReplaceSound ==
    ASSUME NEW c, NEW v \in Server, Legal(c), c.op = "replace",
           NEW t \in Torrents, NEW source, NEW lead \in Url,
           source = {u \in v.urls[t] : Matched(c, v, u)}, source # {},
           ~Matched(c, v, c.arg.target)
    PROVE  SoundAbout(c, v, t, ReplaceRequests(c, v.urls[t], source, t, lead))
<1> DEFINE F == Fitting(c, v)
<1>1. v.urls[t] \subseteq Url /\ source \subseteq Url /\ c.arg.target \in Url
  BY RunAssumption DEF Server, Legal, Bare
<1>2. CASE HasTarget(c, v.urls[t])
  <2> DEFINE r == Request("remove_trackers", {t}, source)
  <2>1. r \in F /\ r.on = {t}
    BY <1>1 DEF Request, Fitting, Requests, Fits
  <2>2. \A what, val : Goal(c, v, t, what, val) =>
               Has(c, v, t, what, val) \/ Gives(c, r, t, what, val)
    BY DEF Request, Goal, Has, Gives
  <2> HIDE DEF r
  <2>3. SoundAbout(c, v, t, <<r>>)
    BY <1>2, <2>1, <2>2, OneRequestAbout
  <2> QED
    BY <1>2, <2>3 DEF ReplaceRequests, r
<1>3. CASE ~HasTarget(c, v.urls[t])
  <2> DEFINE first == Head(Listed(source, lead))
             rest == source \ {first}
             e == Request("edit_tracker", {t}, [old |-> first, new |-> c.arg.target])
             r == Request("remove_trackers", {t}, rest)
  <2>1. first \in source
    <3>1. Lists(Listed(source, lead), source)
      BY <1>1, ListedLists
    <3>2. Listed(source, lead) \in Seq(source) /\ Listed(source, lead) # << >>
      BY <3>1 DEF Lists
    <3> QED
      BY <3>2, HeadTailProperties
  <2> HIDE DEF first
  <2>2. e \in F /\ e.on = {t} /\ e.kind = "edit_tracker"
    BY <1>1, <2>1 DEF Request, Fitting, Requests, Fits
  <2>3. r \in F /\ r.on = {t}
    BY <1>1, <2>1 DEF Request, Fitting, Requests, Fits
  <2>4. ASSUME NEW what, NEW val, Goal(c, v, t, what, val)
        PROVE  \/ Has(c, v, t, what, val)
               \/ Gives(c, e, t, what, val)
               \/ rest # {} /\ Gives(c, r, t, what, val)
    <3>1. what = "untracker" /\ Matched(c, v, val)
      BY <2>4 DEF Goal
    <3>2. CASE val \notin v.urls[t]
      BY <3>1, <3>2 DEF Has
    <3>3. CASE val \in v.urls[t] /\ val = first
      BY <3>1, <3>3 DEF Gives, Request
    <3>4. CASE val \in v.urls[t] /\ val # first
      BY <3>1, <3>4 DEF Gives, Request
    <3> QED
      BY <3>2, <3>3, <3>4
  <2>5. CASE rest = {}
    <3>1. <<e>> \o << >> = <<e>>
      OBVIOUS
    <3>2. ReplaceRequests(c, v.urls[t], source, t, lead) = <<e>>
      BY <1>3, <2>5, <3>1 DEF ReplaceRequests, EditThenRemove, first
    <3> HIDE DEF e, r
    <3>3. SoundAbout(c, v, t, <<e>>)
      BY <2>2, <2>4, <2>5, OneRequestAbout
    <3> QED
      BY <3>2, <3>3
  <2>6. CASE rest # {}
    <3>1. ReplaceRequests(c, v.urls[t], source, t, lead) = <<e>> \o <<r>>
      BY <1>3, <2>6 DEF ReplaceRequests, EditThenRemove, first
    <3> DEFINE q == <<e>> \o <<r>>
    <3> HIDE DEF e, r, q, F
    <3>2. /\ <<e>> \in Seq(F) /\ Len(<<e>>) = 1 /\ <<e>>[1] = e
          /\ <<r>> \in Seq(F) /\ Len(<<r>>) = 1 /\ <<r>>[1] = r
      BY <2>2, <2>3
    <3>3. q \in Seq(F) /\ Joins(<<e>>, <<r>>, q)
      BY <3>2, Concatenated DEF q
    <3>4. 1 \in 1..1 /\ 1 + 1 = 2 /\ \A k \in 1..2 : k = 1 \/ k = 2
      OBVIOUS
    <3>5. Len(q) = 2 /\ q[1] = e /\ q[2] = r /\ 1 \in 1..2 /\ 2 \in 1..2
      <4>1. Len(q) = 2
        BY <3>2, <3>3, <3>4 DEF Joins
      <4>2. \A k \in 1..1 : q[k] = <<e>>[k] /\ q[1 + k] = <<r>>[k]
        BY <3>2, <3>3 DEF Joins
      <4>3. q[1] = e /\ q[1 + 1] = r
        BY <3>2, <3>4, <4>2
      <4> QED
        BY <3>4, <4>1, <4>3
    <3>6. Contains(q, e) /\ Contains(q, r)
      BY <3>5 DEF Contains
    <3>7. 1 \in 1..(2 - 1)
      OBVIOUS
    <3>8. \A k \in 1..Len(q) : q[k].on = {t}
      BY <2>2, <2>3, <3>4, <3>5
    <3>9. \A k \in 1..Len(q) : q[k].kind = "remove_trackers" =>
              \E j \in 1..(k - 1) : q[j].kind = "edit_tracker"
      BY <2>2, <3>4, <3>5, <3>7
    <3>10. SoundAbout(c, v, t, q)
      BY <2>4, <3>3, <3>6, <3>8, <3>9 DEF SoundAbout, F
    <3> QED
      BY <3>1, <3>10 DEF q
  <2> QED
    BY <2>5, <2>6
<1> QED
  BY <1>2, <1>3

\* Nothing need be sent about a torrent that is as it should be.
LEMMA NoRequestAbout ==
    ASSUME NEW c, NEW v, NEW t,
           \A what, val : Goal(c, v, t, what, val) => Has(c, v, t, what, val)
    PROVE  SoundAbout(c, v, t, << >>)
<1>1. << >> \in Seq(Fitting(c, v)) /\ Len(<< >>) = 0 /\ 1..0 = {}
  OBVIOUS
<1> QED
  BY <1>1 DEF SoundAbout

\* plan_tracker_passkey_replacement, about one torrent
LEMMA PasskeySound ==
    ASSUME NEW c, NEW v \in Server, Legal(c), c.op = "replace_passkey",
           NEW t \in Torrents, NEW source, NEW lead \in Url,
           source = {u \in v.urls[t] : Matched(c, v, u)}
    PROVE  SoundAbout(c, v, t, PasskeyRequests(source, c.arg.key, t, lead))
<1> DEFINE F == Fitting(c, v)
           key == c.arg.key
           stale == {u \in source : u.key # key}
           s == Listed(stale, lead)
           n == Cardinality(stale)
           R(i) == Request("edit_tracker", {t}, [old |-> s[i], new |-> [s[i] EXCEPT !.key = key]])
           q == [i \in 1..n |-> R(i)]
<1>1. v.urls[t] \subseteq Url /\ stale \in SUBSET Url /\ key \in Keys
  BY DEF Server, Legal, Bare
<1>2. Lists(s, stale)
  BY <1>1, ListedLists
<1>3. n \in Nat /\ \A i \in 1..n : s[i] \in stale
  BY <1>2 DEF Lists
<1>4. \A x \in stale : \E i \in 1..n : s[i] = x
  BY <1>2 DEF Lists
<1> HIDE DEF s, n
<1>5. ASSUME NEW i \in 1..n PROVE R(i) \in F /\ R(i).on = {t}
  <2>1. s[i] \in Url /\ s[i].host = "src"
    BY <1>1, <1>3, MatchedSource
  <2>2. [s[i] EXCEPT !.key = key] \in Url /\ [s[i] EXCEPT !.key = key].host = "src"
        /\ [s[i] EXCEPT !.key = key].key = key
    BY <1>1, <2>1 DEF Url
  <2> QED
    BY <2>1, <2>2 DEF Request, Fitting, Requests, Fits
<1>6. q \in Seq(F) /\ Len(q) = n /\ \A i \in 1..n : q[i] = R(i)
  <2> HIDE DEF R, F
  <2> QED
    BY <1>3, <1>5
<1>7. ASSUME NEW what, NEW val, Goal(c, v, t, what, val)
      PROVE  \/ Has(c, v, t, what, val)
             \/ \E r : Contains(q, r) /\ Gives(c, r, t, what, val)
  <2>1. what = "untracker" /\ val.host = "src" /\ val.key # key
    BY <1>7 DEF Goal
  <2>2. CASE val \notin v.urls[t]
    BY <2>1, <2>2 DEF Has
  <2>3. CASE val \in v.urls[t]
    <3>1. val \in stale
      BY <2>1, <2>3, MatchedSource
    <3>2. PICK i \in 1..n : s[i] = val
      BY <1>4, <3>1
    <3>3. [s[i] EXCEPT !.key = key] # val
      BY <1>1, <2>1, <3>1, <3>2 DEF Url
    <3>4. Gives(c, R(i), t, what, val)
      BY <2>1, <3>2, <3>3 DEF Gives, Request
    <3> HIDE DEF R, q
    <3>5. Contains(q, R(i))
      BY <1>6 DEF Contains
    <3> QED
      BY <3>4, <3>5
  <2> QED
    BY <2>2, <2>3
<1>8. \A k \in 1..Len(q) : q[k].on = {t}
  <2> HIDE DEF R, q
  <2> QED
    BY <1>5, <1>6
<1>9. PasskeyRequests(source, c.arg.key, t, lead) = q
  BY DEF PasskeyRequests, s, n
<1>10. SoundAbout(c, v, t, q)
  <2> HIDE DEF q
  <2> QED
    BY <1>6, <1>7, <1>8 DEF SoundAbout
<1> QED
  BY <1>9, <1>10

\* Every tracker command, about one torrent its source matches
LEMMA TrackerSound ==
    ASSUME NEW c, NEW v \in Server, Legal(c), c.op \in TrackerOps,
           NEW t \in Torrents, NEW source, NEW lead \in Url,
           source = {u \in v.urls[t] : Matched(c, v, u)}, source # {},
           c.op = "replace" => ~Matched(c, v, c.arg.target)
    PROVE  SoundAbout(c, v, t, TrackerRequests(c, v.urls[t], source, t, lead))
<1>1. v.urls[t] \subseteq Url /\ source \subseteq Url /\ Found(c, v, t)
  BY DEF Server, Found
<1>2. CASE c.op = "add_if_present"
  <2> DEFINE r == Request("add_trackers", {t}, {c.arg.target})
  <2>1. CASE HasTarget(c, v.urls[t])
    <3>1. \A what, val : Goal(c, v, t, what, val) => Has(c, v, t, what, val)
      BY <1>1, <1>2, <2>1 DEF Goal, Has
    <3> QED
      BY <1>2, <2>1, <3>1, NoRequestAbout DEF TrackerRequests
  <2>2. CASE ~HasTarget(c, v.urls[t])
    <3>1. r \in Fitting(c, v) /\ r.on = {t}
      BY <1>1, <1>2, RunAssumption DEF Request, Fitting, Requests, Fits, Legal, Bare
    <3>2. \A what, val : Goal(c, v, t, what, val) => Gives(c, r, t, what, val)
      BY <1>1, <1>2 DEF Request, Goal, Gives
    <3>3. TrackerRequests(c, v.urls[t], source, t, lead) = <<r>>
      BY <1>2, <2>2 DEF TrackerRequests
    <3> HIDE DEF r
    <3> QED
      BY <1>2, <3>1, <3>2, <3>3, OneRequestAbout
  <2> QED
    BY <2>1, <2>2
<1>3. CASE c.op = "remove"
  <2> DEFINE r == Request("remove_trackers", {t}, source)
  <2>1. r \in Fitting(c, v) /\ r.on = {t}
    BY <1>1, <1>3, MatchedSource DEF Request, Fitting, Requests, Fits
  <2>2. \A what, val : Goal(c, v, t, what, val) =>
            Has(c, v, t, what, val) \/ Gives(c, r, t, what, val)
    BY <1>3, MatchedSource DEF Request, Goal, Has, Gives
  <2>3. TrackerRequests(c, v.urls[t], source, t, lead) = <<r>>
    BY <1>3 DEF TrackerRequests
  <2> HIDE DEF r
  <2> QED
    BY <1>3, <2>1, <2>2, <2>3, OneRequestAbout
<1>4. CASE c.op = "replace"
  <2>1. TrackerRequests(c, v.urls[t], source, t, lead)
            = ReplaceRequests(c, v.urls[t], source, t, lead)
    BY <1>4 DEF TrackerRequests
  <2> QED
    BY <1>4, <2>1, ReplaceSound
<1>5. CASE c.op = "replace_passkey"
  <2>1. TrackerRequests(c, v.urls[t], source, t, lead)
            = PasskeyRequests(source, c.arg.key, t, lead)
    BY <1>5 DEF TrackerRequests
  <2> QED
    BY <1>5, <2>1, PasskeySound
<1> QED
  BY <1>2, <1>3, <1>4, <1>5 DEF TrackerOps

\* What one of several sequences contains, their concatenation contains.
LEMMA FlattenedContains ==
    ASSUME NEW T, NEW ss \in Seq(Seq(T)), NEW j \in 1..Len(ss), NEW r,
           Contains(ss[j], r)
    PROVE  Contains(FlattenSeq(ss), r)
<1> DEFINE q == FlattenSeq(ss)
<1>1. Flat(ss, q)
  BY Flattened
<1> HIDE DEF q
<1>2. PICK k \in 1..Len(ss[j]) : ss[j][k] = r
  BY DEF Contains
<1>3. Contains(q, r)
  BY <1>1, <1>2 DEF Flat, Contains
<1> QED
  BY <1>3 DEF q

\* Sound about each torrent is sound.
LEMMA EachSound ==
    ASSUME NEW c, NEW v, NEW order, NEW ss, Lists(order, Held(c, v)),
           ss \in [1..Len(order) -> Seq(Fitting(c, v))],
           \A i \in 1..Len(order) : SoundAbout(c, v, order[i], ss[i])
    PROVE  Sound(c, v, FlattenSeq(ss))
<1> DEFINE F == Fitting(c, v)
           n == Len(order)
           q == FlattenSeq(ss)
<1>1. n \in Nat /\ ss \in Seq(Seq(F)) /\ Len(ss) = n
  BY DEF Lists
<1>2. q \in Seq(F)
  BY <1>1, Flattened
<1>3. PICK at \in [1..n -> Nat] :
          /\ \A j \in 1..n : \A k \in 1..Len(ss[j]) :
                 at[j] + k \in 1..Len(q) /\ q[at[j] + k] = ss[j][k]
          /\ \A i \in 1..Len(q) :
                 \E j \in 1..n : \E k \in 1..Len(ss[j]) : i = at[j] + k
  <2>1. Flat(ss, q)
    BY <1>1, Flattened
  <2>2. Len(ss) = n
    BY <1>1
  <2> HIDE DEF q, F, n
  <2> QED
    BY <2>1, <2>2, Zenon DEF Flat
<1> HIDE DEF q, n, F
<1>4. Covers(c, v, q)
  <2> SUFFICES ASSUME NEW t \in Held(c, v), NEW what, NEW val,
                      Goal(c, v, t, what, val), ~Has(c, v, t, what, val)
               PROVE  \E r : Contains(q, r) /\ Gives(c, r, t, what, val)
    BY DEF Covers
  <2>1. PICK j \in 1..n : order[j] = t
    BY DEF Lists, n
  <2>2. PICK r : Contains(ss[j], r) /\ Gives(c, r, t, what, val)
    BY <2>1 DEF SoundAbout, n
  <2>3. Contains(q, r)
    BY <1>1, <2>2, FlattenedContains DEF q
  <2> QED
    BY <2>2, <2>3
<1>5. Ordered(c, v, q)
  <2> SUFFICES ASSUME c.op = "replace", NEW i \in 1..Len(q),
                      q[i].kind = "remove_trackers", NEW t \in q[i].on
               PROVE  \/ HasTarget(c, v.urls[t])
                      \/ \E j \in 1..(i - 1) : q[j].kind = "edit_tracker" /\ t \in q[j].on
    BY DEF Ordered
  <2>0. PICK j \in 1..n : \E k \in 1..Len(ss[j]) : i = at[j] + k
    BY <1>3
  <2>1. PICK k \in 1..Len(ss[j]) : i = at[j] + k
    BY <2>0
  <2>2. q[i] = ss[j][k] /\ SoundAbout(c, v, order[j], ss[j])
    BY <1>3, <2>1 DEF n
  <2>3. t = order[j]
    BY <2>2 DEF SoundAbout
  <2>4. CASE HasTarget(c, v.urls[t])
    BY <2>4
  <2>5. CASE \E m \in 1..(k - 1) : ss[j][m].kind = "edit_tracker"
    <3>1. PICK m \in 1..(k - 1) : ss[j][m].kind = "edit_tracker"
      BY <2>5
    <3>2. Len(ss[j]) \in Nat
      BY <1>1, <2>1
    <3>3. m \in 1..Len(ss[j]) /\ at[j] \in Nat
      BY <2>1, <3>2
    <3>4. at[j] + m \in 1..(i - 1)
      BY <2>1, <3>3
    <3>5. q[at[j] + m] = ss[j][m]
      BY <1>3, <3>3
    <3>6. t \in ss[j][m].on
      BY <2>2, <2>3, <3>3 DEF SoundAbout
    <3> QED
      BY <3>1, <3>4, <3>5, <3>6
  <2> QED
    BY <2>2, <2>3, <2>4, <2>5 DEF SoundAbout
<1> QED
  BY <1>2, <1>4, <1>5 DEF Sound, q, F

\* The plan of a tracker command
LEMMA TrackerPlanSound ==
    ASSUME view \in Server, Legal(cmd), cmd.op \in TrackerOps,
           NEW order \in SetToSeqs(Listing), NEW lead \in Url,
           ~SameIdentity(cmd, view, Listing)
    PROVE  Sound(cmd, view, TrackerPlan(order, lead).reqs)
<1> DEFINE c == cmd
           v == view
           X(t) == IF t \in {u \in Listing : SourceOf(u) # {}}
                   THEN TrackerRequests(cmd, view.urls[t], SourceOf(t), t, lead)
                   ELSE << >>
           ss == [i \in 1..Len(order) |-> X(order[i])]
<1>1. Listing \subseteq Torrents /\ Held(c, v) = Listing
  BY DEF Listing, Legal, Held, TrackerOps
<1>2. IsFiniteSet(Listing)
  BY <1>1, PlanAssumption, FS_Subset
<1>3. Lists(order, Held(c, v))
  BY <1>1, <1>2, OrdersList
<1>4. ASSUME NEW t \in Listing PROVE SoundAbout(c, v, t, X(t))
  <2>1. SourceOf(t) = {u \in view.urls[t] : Matched(cmd, view, u)}
    BY DEF SourceOf, Matched, Listing
  <2>2. CASE SourceOf(t) # {}
    <3>1. cmd.op = "replace" => ~Matched(cmd, view, cmd.arg.target)
      BY DEF SameIdentity, Matched, Listing
    <3>2. SoundAbout(c, v, t, TrackerRequests(cmd, view.urls[t], SourceOf(t), t, lead))
      BY <1>1, <2>1, <2>2, <3>1, TrackerSound
    <3> QED
      BY <2>2, <3>2
  <2>3. CASE SourceOf(t) = {}
    <3>1. X(t) = << >>
      BY <2>3
    <3>2. \A what, val : Goal(c, v, t, what, val) => Has(c, v, t, what, val)
      BY <2>1, <2>3, MatchedSource DEF Goal, Has, Found, TrackerOps
    <3> QED
      BY <3>1, <3>2, NoRequestAbout
  <2> QED
    BY <2>2, <2>3
<1>5. \A i \in 1..Len(order) : order[i] \in Listing
  BY <1>1, <1>3 DEF Lists
<1>6. TrackerPlan(order, lead).reqs = FlattenSeq(ss)
  BY DEF TrackerPlan
<1> HIDE DEF X
<1>7. \A i \in 1..Len(order) : SoundAbout(c, v, order[i], ss[i])
  BY <1>4, <1>5
<1>8. ss \in [1..Len(order) -> Seq(Fitting(c, v))]
  BY <1>7 DEF SoundAbout
<1> HIDE DEF ss
<1> QED
  BY <1>3, <1>6, <1>7, <1>8, EachSound

\* The plan of a restore
LEMMA RestoreSound ==
    ASSUME NEW c, NEW v \in Server, Legal(c), c.op = "restore",
           NEW order, Lists(order, c.sel \cap v.present)
    PROVE  Sound(c, v, RestoreRequests(v, c.arg, order))
<1> DEFINE F == Fitting(c, v)
           e == c.arg
           n == Len(order)
           Call(wanted, kind, t, arg) ==
               IF wanted THEN <<Request(kind, {t}, arg)>> ELSE << >>
           B(t) == Call(CategoryRestored(v, e, t), "set_category", t, e[t].category)
           C(t) == Call(MissingTags(v, e, t) # {}, "add_tags", t, MissingTags(v, e, t))
           D(t) == Call(MissingUrls(v, e, t) # {}, "add_trackers", t, MissingUrls(v, e, t))
           bs == [i \in 1..n |-> B(order[i])]
           cs == [i \in 1..n |-> C(order[i])]
           ds == [i \in 1..n |-> D(order[i])]
           new == {e[t].category : t \in
                      {t \in ToSet(order) : CategoryRestored(v, e, t)}} \ v.known
           created == SetToSeq(new)
           as == [i \in 1..Len(created) |-> Request("create_category", {}, created[i])]
<1>1. /\ Held(c, v) = c.sel \cap v.present
      /\ Held(c, v) \subseteq Torrents
      /\ \A t \in Held(c, v) : e[t] \in Backup
  BY DEF Held, Legal, Bare
<1>2. n \in Nat /\ \A i \in 1..n : order[i] \in Held(c, v)
  BY <1>1 DEF Lists
<1>3. \A t \in Held(c, v) : \E i \in 1..n : order[i] = t
  BY <1>1 DEF Lists
<1>4. as \in Seq(F)
  <2>1. ToSet(order) \subseteq Held(c, v)
    <3>1. DOMAIN order = 1..n
      BY DEF Lists
    <3> QED
      BY <1>2, <3>1 DEF ToSet
  <2>2. new \in SUBSET Categories
    BY <1>1, <2>1 DEF CategoryRestored, Backup
  <2>3. IsFiniteSet(new)
    BY <2>2, PlanAssumption, FS_Subset
  <2>4. Lists(created, new)
    BY <2>3, SetToSeqLists
  <2> HIDE DEF created, new
  <2>5. Len(created) \in Nat /\ \A i \in 1..Len(created) : created[i] \in Categories
    BY <2>2, <2>4 DEF Lists
  <2>6. \A k \in Categories : Request("create_category", {}, k) \in F
    BY DEF Request, Fitting, Requests, Fits
  <2> HIDE DEF F
  <2> QED
    BY <2>5, <2>6
<1>5. ASSUME NEW t \in Held(c, v)
      PROVE  /\ CategoryRestored(v, e, t) =>
                    Request("set_category", {t}, e[t].category) \in F
             /\ Request("add_tags", {t}, MissingTags(v, e, t)) \in F
             /\ Request("add_trackers", {t}, MissingUrls(v, e, t)) \in F
  <2>1. e[t].category \in Categories \cup {NoCategory} /\ e[t].tags \subseteq Tags
        /\ e[t].urls \subseteq Url /\ t \in Torrents
    BY <1>1 DEF Backup
  <2> QED
    BY <2>1 DEF Request, Fitting, Requests, Fits, CategoryRestored, MissingTags, MissingUrls
<1>6. ASSUME NEW t \in Held(c, v)
      PROVE  B(t) \in Seq(F) /\ C(t) \in Seq(F) /\ D(t) \in Seq(F)
  <2> HIDE DEF F
  <2> QED
    BY <1>5
<1> HIDE DEF B, C, D
<1>7. /\ bs \in Seq(Seq(F)) /\ cs \in Seq(Seq(F)) /\ ds \in Seq(Seq(F))
      /\ Len(bs) = n /\ Len(cs) = n /\ Len(ds) = n
  <2> HIDE DEF F, n
  <2>1. /\ \A i \in 1..n : B(order[i]) \in Seq(F)
        /\ \A i \in 1..n : C(order[i]) \in Seq(F)
        /\ \A i \in 1..n : D(order[i]) \in Seq(F)
    BY <1>2, <1>6
  <2> QED
    BY <1>2, <2>1
<1>8. \A i \in 1..n : bs[i] = B(order[i]) /\ cs[i] = C(order[i]) /\ ds[i] = D(order[i])
  OBVIOUS
<1> DEFINE fb == FlattenSeq(bs)
           fc == FlattenSeq(cs)
           fd == FlattenSeq(ds)
           q == ((as \o fb) \o fc) \o fd
<1>9. RestoreRequests(v, e, order) = q
  BY DEF RestoreRequests, B, C, D
<1>10. ASSUME NEW t \in Held(c, v), NEW r, Contains(B(t), r) \/ Contains(C(t), r) \/ Contains(D(t), r)
       PROVE  Contains(fb, r) \/ Contains(fc, r) \/ Contains(fd, r)
  <2>1. PICK i \in 1..n : order[i] = t
    BY <1>3
  <2> HIDE DEF bs, cs, ds, n, F
  <2>2. Contains(bs[i], r) \/ Contains(cs[i], r) \/ Contains(ds[i], r)
    BY <1>8, <1>10, <2>1
  <2> QED
    BY <1>7, <2>2, FlattenedContains
<1>11. fb \in Seq(F) /\ fc \in Seq(F) /\ fd \in Seq(F)
  BY <1>7, Flattened
<1> HIDE DEF bs, cs, ds, as, fb, fc, fd, F
<1>12. /\ q \in Seq(F)
       /\ \A r : Contains(fb, r) \/ Contains(fc, r) \/ Contains(fd, r) => Contains(q, r)
  <2>1. /\ as \o fb \in Seq(F)
        /\ \A r : Contains(as, r) \/ Contains(fb, r) => Contains(as \o fb, r)
    BY <1>4, <1>11, JoinedRequests
  <2>2. /\ (as \o fb) \o fc \in Seq(F)
        /\ \A r : Contains(as \o fb, r) \/ Contains(fc, r) => Contains((as \o fb) \o fc, r)
    BY <1>11, <2>1, JoinedRequests
  <2>3. /\ q \in Seq(F)
        /\ \A r : Contains((as \o fb) \o fc, r) \/ Contains(fd, r) => Contains(q, r)
    BY <1>11, <2>2, JoinedRequests
  <2> QED
    BY <2>1, <2>2, <2>3
<1>13. Covers(c, v, q)
  <2> SUFFICES ASSUME NEW t \in Held(c, v), NEW what, NEW val,
                      Goal(c, v, t, what, val), ~Has(c, v, t, what, val)
               PROVE  \E r : Contains(q, r) /\ Gives(c, r, t, what, val)
    BY DEF Covers
  <2>1. CASE what = "categorised"
    <3> DEFINE r == Request("set_category", {t}, e[t].category)
    <3>1. e[t].category # NoCategory /\ v.category[t] = NoCategory
      BY <2>1 DEF Goal, Has
    <3>2. B(t) = <<r>>
      BY <3>1 DEF B, CategoryRestored
    <3>3. Gives(c, r, t, what, val)
      BY <2>1, <3>1 DEF Gives, Request
    <3>4. Contains(<<r>>, r)
      BY OneRequest
    <3> QED
      BY <1>10, <1>12, <3>2, <3>3, <3>4
  <2>2. CASE what = "tag"
    <3> DEFINE r == Request("add_tags", {t}, MissingTags(v, e, t))
    <3>1. val \in MissingTags(v, e, t)
      BY <2>2 DEF Goal, Has, MissingTags
    <3>2. C(t) = <<r>>
      BY <3>1 DEF C
    <3>3. Gives(c, r, t, what, val)
      BY <2>2, <3>1 DEF Gives, Request
    <3>4. Contains(<<r>>, r)
      BY OneRequest
    <3> QED
      BY <1>10, <1>12, <3>2, <3>3, <3>4
  <2>3. CASE what = "tracker"
    <3> DEFINE r == Request("add_trackers", {t}, MissingUrls(v, e, t))
    <3>1. val \in MissingUrls(v, e, t)
      BY <2>3 DEF Goal, Has, MissingUrls
    <3>2. D(t) = <<r>>
      BY <3>1 DEF D
    <3>3. Gives(c, r, t, what, val)
      BY <2>3, <3>1 DEF Gives, Request
    <3>4. Contains(<<r>>, r)
      BY OneRequest
    <3> QED
      BY <1>10, <1>12, <3>2, <3>3, <3>4
  <2> QED
    BY <2>1, <2>2, <2>3 DEF Goal
<1>14. Ordered(c, v, q)
  BY DEF Ordered
<1> QED
  BY <1>9, <1>12, <1>13, <1>14 DEF Sound, F

\* A set of naturals has a least element.
LEMMA LeastElement ==
    ASSUME NEW S \in SUBSET Nat, NEW k \in S
    PROVE  \E m \in S : \A i \in S : m <= i
<1> SUFFICES ASSUME \A m \in S : \E i \in S : ~(m <= i) PROVE FALSE
    OBVIOUS
<1> DEFINE I == {n \in Nat : \A i \in S : n <= i}
<1>1. 0 \in I
  OBVIOUS
<1>2. ASSUME NEW n \in Nat, n \in I PROVE n + 1 \in I
  <2>1. n \notin S
    BY <1>2
  <2>2. ASSUME NEW i \in S PROVE n + 1 <= i
    <3>1. n <= i /\ n # i /\ i \in Nat
      BY <1>2, <2>1
    <3> QED
      BY <3>1
  <2> QED
    BY <2>2
<1>3. Nat \subseteq I
  <2> HIDE DEF I
  <2> QED
    BY <1>1, <1>2, Induction
<1>4. k + 1 \in I
  BY <1>3
<1> QED
  BY <1>4

\* plan_torrent_import sends every entry that decodes and is not there yet.
LEMMA ReadyEntries ==
    ASSUME NEW v \in Server, NEW es \in Seq(Torrents \cup {Invalid})
    PROVE  /\ Ready(v, es) \in Seq(Torrents)
           /\ \A t \in ToSet(es) \ {Invalid} : t \in v.present \/ Contains(Ready(v, es), t)
<1> DEFINE n == Len(es)
           Skip(i) == es[i] \in v.present \cup {es[j] : j \in 1..(i - 1)} \cup {Invalid}
           ss == [i \in 1..n |-> IF Skip(i) THEN << >> ELSE <<es[i]>>]
<1>1. n \in Nat /\ DOMAIN es = 1..n /\ \A i \in 1..n : es[i] \in Torrents \cup {Invalid}
  OBVIOUS
<1>2. \A i \in 1..n : ss[i] \in Seq(Torrents)
  <2>1. \A i \in 1..n : ~Skip(i) => es[i] \in Torrents
    BY <1>1
  <2> HIDE DEF Skip, n
  <2> QED
    BY <2>1
<1>3. ss \in Seq(Seq(Torrents)) /\ Len(ss) = n
  <2> HIDE DEF Skip, n
  <2> QED
    BY <1>1, <1>2
<1>4. Ready(v, es) = FlattenSeq(ss)
  BY DEF Ready
<1>5. Ready(v, es) \in Seq(Torrents)
  BY <1>3, <1>4, Flattened
<1>6. ASSUME NEW t \in ToSet(es) \ {Invalid}, t \notin v.present
      PROVE  Contains(Ready(v, es), t)
  <2> DEFINE S == {i \in 1..n : es[i] = t}
  <2>1. PICK k \in 1..n : es[k] = t
    BY <1>1 DEF ToSet
  <2>2. S \in SUBSET Nat /\ k \in S
    BY <1>1, <2>1
  <2>3. PICK m \in S : \A i \in S : m <= i
    <3> HIDE DEF S
    <3> QED
      BY <2>2, LeastElement
  <2>4. ~Skip(m)
    <3>1. ASSUME NEW j \in 1..(m - 1) PROVE es[j] # t
      <4>1. j \in 1..n /\ ~(m <= j)
        BY <1>1, <2>3
      <4> QED
        BY <2>3, <4>1
    <3> QED
      BY <1>6, <2>3, <3>1
  <2>5. ss[m] = <<t>> /\ m \in 1..n
    <3> HIDE DEF Skip
    <3> QED
      BY <2>3, <2>4
  <2>6. Contains(<<t>>, t)
    BY OneRequest
  <2> HIDE DEF ss
  <2> QED
    BY <1>3, <1>4, <2>5, <2>6, FlattenedContains
<1> QED
  BY <1>5, <1>6

\* The batches of an import
LEMMA ImportSound ==
    ASSUME NEW c, NEW v \in Server, Legal(c), c.op = "import"
    PROVE  /\ Sound(c, v, ImportRequests(Ready(v, c.arg)))
           /\ Len(Ready(v, c.arg)) \in Nat
<1> DEFINE ready == Ready(v, c.arg)
           n == (Len(ready) + BatchSize - 1) \div BatchSize
           First(i) == (i - 1) * BatchSize + 1
           Final(i) == IF i * BatchSize < Len(ready) THEN i * BatchSize ELSE Len(ready)
           R(i) == Request("add", {ready[j] : j \in First(i)..Final(i)}, {})
           q == [i \in 1..n |-> R(i)]
           F == Fitting(c, v)
<1>1. c.arg \in Seq(Torrents \cup {Invalid}) /\ Held(c, v) = ToSet(c.arg) \ {Invalid}
  BY RunAssumption DEF Legal, Bare, Held
<1>2. /\ ready \in Seq(Torrents) /\ Len(ready) \in Nat
      /\ \A t \in Held(c, v) : t \in v.present \/ Contains(ready, t)
  BY <1>1, ReadyEntries
<1>3. BatchSize \in Nat /\ BatchSize # 0
  BY PlanAssumption
<1>4. ImportRequests(ready) = q
  BY DEF ImportRequests
<1> HIDE DEF ready
<1>5. /\ n \in Nat /\ n * BatchSize <= Len(ready) + BatchSize - 1
      /\ Len(ready) + BatchSize - 1 < n * BatchSize + BatchSize
  BY <1>2, <1>3
<1>6. ASSUME NEW i \in 1..n PROVE R(i) \in F
  <2>1. First(i) >= 1 /\ Final(i) <= Len(ready) /\ First(i) \in Nat /\ Final(i) \in Nat
    BY <1>2, <1>3, <1>5
  <2>2. \A j \in First(i)..Final(i) : ready[j] \in Torrents
    <3> HIDE DEF First, Final
    <3> QED
      BY <1>2, <2>1
  <2> HIDE DEF First, Final
  <2> QED
    BY <2>2 DEF Request, Fitting, Requests, Fits
<1>7. q \in Seq(F) /\ Len(q) = n /\ \A i \in 1..n : q[i] = R(i)
  <2> HIDE DEF n, R, F
  <2> QED
    BY <1>5, <1>6
<1>8. ASSUME NEW j \in 1..Len(ready)
      PROVE  \E i \in 1..n : j \in First(i)..Final(i)
  <2> DEFINE m == (j - 1) \div BatchSize
  <2>1. m \in Nat /\ m * BatchSize <= j - 1 /\ j - 1 < m * BatchSize + BatchSize
    BY <1>2, <1>3
  <2> HIDE DEF m, n
  <2>2. m * BatchSize < n * BatchSize
    BY <1>2, <1>3, <1>5, <2>1
  <2>3. m + 1 \in 1..n
    BY <1>3, <1>5, <2>1, <2>2
  <2>4. (m + 1) * BatchSize = m * BatchSize + BatchSize /\ (m + 1) - 1 = m
    BY <1>3, <2>1
  <2>5. j \in First(m + 1)..Final(m + 1)
    BY <1>2, <1>3, <2>1, <2>4
  <2> QED
    BY <2>3, <2>5
<1>9. Covers(c, v, q)
  <2> SUFFICES ASSUME NEW t \in Held(c, v), NEW what, NEW val,
                      Goal(c, v, t, what, val), ~Has(c, v, t, what, val)
               PROVE  \E r : Contains(q, r) /\ Gives(c, r, t, what, val)
    BY DEF Covers
  <2>1. what = "there" /\ Contains(ready, t)
    BY <1>2 DEF Goal, Has
  <2>2. PICK j \in 1..Len(ready) : ready[j] = t
    BY <2>1 DEF Contains
  <2>3. PICK i \in 1..n : j \in First(i)..Final(i)
    BY <1>8
  <2> HIDE DEF First, Final, n, q
  <2>4. Gives(c, R(i), t, what, val)
    BY <2>1, <2>2, <2>3 DEF Gives, Request
  <2> HIDE DEF R
  <2>5. Contains(q, R(i))
    BY <1>7 DEF Contains
  <2> QED
    BY <2>4, <2>5
<1>10. Ordered(c, v, q)
  BY DEF Ordered
<1> HIDE DEF q
<1> QED
  BY <1>2, <1>4, <1>7, <1>9, <1>10 DEF Sound, ready

\* The plan of a command that may be given, on anything it may have read: every
\* request in it is one the command may send, and together they bring about
\* what it is for (qbit_core.features' plan_* functions).
THEOREM PlanSound ==
    ASSUME view \in Server, Legal(cmd), NEW order \in SetToSeqs(Listing),
           NEW lead \in Url,
           cmd.op \in TrackerOps => ~SameIdentity(cmd, view, Listing)
    PROVE  /\ Sound(cmd, view, PlanIn(order, lead).reqs)
           /\ PlanIn(order, lead).matched \in Nat
           /\ PlanIn(order, lead).source \subseteq Url
           /\ \A u \in PlanIn(order, lead).source : Matched(cmd, view, u)
<1>1. Listing \subseteq Torrents /\ cmd.sel \subseteq Torrents
  BY DEF Listing, Legal
<1>2. IsFiniteSet(Listing) /\ IsFiniteSet(cmd.sel)
  BY <1>1, PlanAssumption, FS_Subset
<1>3. Lists(order, Listing)
  BY <1>2, OrdersList
<1>4. CASE cmd.op \in TrackerOps
  <2>1. PlanIn(order, lead) = TrackerPlan(order, lead)
    BY <1>4 DEF PlanIn
  <2>2. Sound(cmd, view, TrackerPlan(order, lead).reqs)
    BY <1>4, TrackerPlanSound
  <2>3. TrackerPlan(order, lead).matched \in Nat
    <3>1. IsFiniteSet({t \in Listing : SourceOf(t) # {}})
      BY <1>2, FS_Subset
    <3> QED
      BY <3>1, FS_CardinalityType DEF TrackerPlan
  <2>4. \A u \in TrackerPlan(order, lead).source : u \in Url /\ Matched(cmd, view, u)
    BY <1>1 DEF TrackerPlan, SourceOf, Matched, Listing, Server
  <2> QED
    BY <2>1, <2>2, <2>3, <2>4
<1>5. CASE cmd.op = "restore"
  <2>1. PlanIn(order, lead) = RestorePlan(order)
    BY <1>5 DEF PlanIn, TrackerOps
  <2>2. Sound(cmd, view, RestoreRequests(view, cmd.arg, order))
    BY <1>3, <1>5, RestoreSound DEF Listing
  <2>3. Len(order) \in Nat
    BY <1>3 DEF Lists
  <2> QED
    BY <2>1, <2>2, <2>3 DEF RestorePlan
<1>6. CASE cmd.op = "import"
  <2>1. PlanIn(order, lead) = ImportPlan
    BY <1>6 DEF PlanIn, TrackerOps
  <2>2. /\ Sound(cmd, view, ImportRequests(Ready(view, cmd.arg)))
        /\ Len(Ready(view, cmd.arg)) \in Nat
    BY <1>6, ImportSound
  <2> QED
    BY <2>1, <2>2 DEF ImportPlan
<1>7. CASE cmd.op \in BulkOps
  <2> DEFINE changes == {t \in Listing : ~Skipped(cmd, view, t)}
  <2>1. PlanIn(order, lead) = BulkPlan
    BY <1>7 DEF PlanIn, TrackerOps, BulkOps, Bare
  <2>2. BulkPlan.matched \in Nat
    BY <1>2, FS_CardinalityType DEF BulkPlan
  <2>3. BulkPlan.source = {}
    BY DEF BulkPlan
  <2>4. CASE changes = {}
    <3>1. BulkPlan.reqs = << >>
      BY <2>4 DEF BulkPlan
    <3>2. Sound(cmd, view, << >>)
      BY <1>7, <2>4, NothingToDo DEF Listing
    <3> QED
      BY <2>1, <2>2, <2>3, <3>1, <3>2
  <2>5. CASE changes # {}
    <3>1. BulkPlan.reqs = BulkRequests(cmd, view, changes)
      BY <2>5 DEF BulkPlan
    <3>2. Sound(cmd, view, BulkRequests(cmd, view, changes))
      BY <1>7, BulkSound DEF Listing
    <3> QED
      BY <2>1, <2>2, <2>3, <3>1, <3>2
  <2> QED
    BY <2>4, <2>5
<1> QED
  BY <1>4, <1>5, <1>6, <1>7 DEF Legal, TrackerOps, BulkOps, Bare
=============================================================================
