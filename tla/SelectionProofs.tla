--------------------------- MODULE SelectionProofs ---------------------------
(***************************************************************************)
(* Lemmas about Only, for sequences of any length.                         *)
(*                                                                         *)
(* They are shown by the least counterexample: a set of natural numbers    *)
(* that is not empty has a least element (WFMin), and a sequence that is   *)
(* not empty is another one with an element appended.                      *)
(***************************************************************************)
EXTENDS Selection, SequenceTheorems, FiniteSetTheorems, WellFoundedInduction, TLAPS

\* A set of natural numbers that is not empty has a least element.
LEMMA LeastNatural ==
  ASSUME NEW N \in SUBSET Nat, N # {}
  PROVE  \E m \in N : \A n \in N : m <= n
<1>1. \E m \in N : \A n \in N : ~(<<n, m>> \in OpToRel(<, Nat))
  BY NatLessThanWellFounded, WFMin
<1>2. PICK m \in N : \A n \in N : ~(<<n, m>> \in OpToRel(<, Nat))
  BY <1>1
<1>3. \A n \in N : ~(n < m)
  BY <1>2 DEF OpToRel
<1>. QED
  BY <1>3

----------------------------------------------------------------------------
(* The recursion *)

\* f is the function that Only is defined by.
Keeps(f, s, S) ==
  f = [i \in 0 .. Len(s) |->
         IF i = 0 THEN << >>
         ELSE IF s[i] \in S THEN Append(f[i - 1], s[i]) ELSE f[i - 1]]

LEMMA KeepsExists ==
  ASSUME NEW T, NEW S, NEW s \in Seq(T)
  PROVE  \E f : Keeps(f, s, S)
<1> DEFINE Bad == {n \in Nat : \E t \in Seq(T) : Len(t) = n /\ ~ \E f : Keeps(f, t, S)}
<1> SUFFICES ASSUME Bad # {} PROVE FALSE
  BY LenProperties
<1>1. PICK m \in Bad : \A n \in Bad : m <= n
  BY LeastNatural
<1>2. PICK t \in Seq(T) : Len(t) = m /\ ~ \E f : Keeps(f, t, S)
  BY <1>1
<1>3. CASE t = << >>
  <2>1. Keeps([i \in 0 .. Len(t) |-> << >>], t, S)
    BY <1>3 DEF Keeps
  <2>. QED
    BY <2>1, <1>2
<1>4. CASE t # << >>
  <2>1. PICK u \in Seq(T), e \in T : t = Append(u, e)
    BY <1>4, SequenceEmptyOrAppend
  <2>2. /\ Len(u) \in Nat /\ Len(t) = Len(u) + 1
        /\ t[Len(u) + 1] = e /\ \A i \in 1 .. Len(u) : t[i] = u[i]
    BY <2>1, AppendProperties, LenProperties
  <2>3. Len(u) \notin Bad
    <3>1. Len(u) \in Bad => m <= Len(u)
      BY <1>1
    <3>. QED
      BY <3>1, <1>2, <2>2
  <2>4. PICK g : Keeps(g, u, S)
    BY <2>2, <2>3
  <2> DEFINE last == IF e \in S THEN Append(g[Len(u)], e) ELSE g[Len(u)]
             f == [i \in 0 .. Len(t) |-> IF i <= Len(u) THEN g[i] ELSE last]
  <2>5. Keeps(f, t, S)
    <3>1. \A i \in 0 .. Len(u) :
            g[i] = IF i = 0 THEN << >>
                   ELSE IF u[i] \in S THEN Append(g[i - 1], u[i]) ELSE g[i - 1]
      BY <2>4 DEF Keeps
    <3>2. ASSUME NEW i \in 0 .. Len(t)
          PROVE  f[i] = IF i = 0 THEN << >>
                        ELSE IF t[i] \in S THEN Append(f[i - 1], t[i]) ELSE f[i - 1]
      <4>1. CASE i = 0
        BY <4>1, <3>1, <2>2
      <4>2. CASE i \in 1 .. Len(u)
        <5>1. f[i] = g[i] /\ f[i - 1] = g[i - 1] /\ t[i] = u[i] /\ i # 0
          BY <4>2, <2>2
        <5>. QED
          BY <5>1, <4>2, <3>1
      <4>3. CASE i = Len(u) + 1
        BY <4>3, <2>2
      <4>. QED
        BY <4>1, <4>2, <4>3, <2>2
    <3> HIDE DEF f
    <3>3. f = [i \in 0 .. Len(t) |-> f[i]]
      BY DEF f
    <3>. QED
      BY <3>2, <3>3 DEF Keeps
  <2>. QED
    BY <2>5, <1>2
<1>. QED
  BY <1>3, <1>4

\* The function for a longer sequence goes on from that for a shorter one.
LEMMA KeepsPrefix ==
  ASSUME NEW T, NEW S, NEW s \in Seq(T), NEW e \in T,
         NEW f, Keeps(f, s, S), NEW g, Keeps(g, Append(s, e), S),
         NEW k \in 0 .. Len(s)
  PROVE  f[k] = g[k]
<1>1. /\ Len(s) \in Nat /\ Len(Append(s, e)) = Len(s) + 1
      /\ \A i \in 1 .. Len(s) : Append(s, e)[i] = s[i]
  BY AppendProperties, LenProperties
<1>2. \A i \in 0 .. Len(s) :
        f[i] = IF i = 0 THEN << >>
               ELSE IF s[i] \in S THEN Append(f[i - 1], s[i]) ELSE f[i - 1]
  BY DEF Keeps
<1>3. \A i \in 0 .. Len(s) :
        g[i] = IF i = 0 THEN << >>
               ELSE IF s[i] \in S THEN Append(g[i - 1], s[i]) ELSE g[i - 1]
  <2>1. \A i \in 0 .. Len(Append(s, e)) :
          g[i] = IF i = 0 THEN << >>
                 ELSE IF Append(s, e)[i] \in S THEN Append(g[i - 1], Append(s, e)[i])
                      ELSE g[i - 1]
    BY DEF Keeps
  <2>. QED
    BY <2>1, <1>1
<1> DEFINE Bad == {i \in 0 .. Len(s) : f[i] # g[i]}
<1> SUFFICES ASSUME Bad # {} PROVE FALSE
  OBVIOUS
<1>4. Bad \in SUBSET Nat
  BY <1>1
<1>5. PICK m \in Bad : \A n \in Bad : m <= n
  BY <1>4, LeastNatural
<1>6. m # 0
  BY <1>2, <1>3, <1>1
<1>7. m - 1 \in 0 .. Len(s) /\ m - 1 \notin Bad
  BY <1>5, <1>6, <1>1
<1>. QED
  BY <1>2, <1>3, <1>5, <1>6, <1>7

----------------------------------------------------------------------------
(* What Only is *)

LEMMA OnlyEmpty ==
  ASSUME NEW S
  PROVE  Only(<< >>, S) = << >>
<1>1. << >> \in Seq({}) /\ Len(<< >>) = 0
  OBVIOUS
<1>2. PICK f : Keeps(f, << >>, S)
  BY <1>1, KeepsExists
<1> DEFINE g == CHOOSE h : Keeps(h, << >>, S)
<1>3. Keeps(g, << >>, S)
  BY <1>2
<1>4. Only(<< >>, S) = g[0]
  BY <1>1 DEF Only, Keeps
<1> HIDE DEF g
<1>. QED
  BY <1>1, <1>3, <1>4 DEF Keeps

LEMMA OnlyAppend ==
  ASSUME NEW T, NEW S, NEW s \in Seq(T), NEW e \in T
  PROVE  Only(Append(s, e), S) = IF e \in S THEN Append(Only(s, S), e) ELSE Only(s, S)
<1> DEFINE f == CHOOSE h : Keeps(h, s, S)
           g == CHOOSE h : Keeps(h, Append(s, e), S)
<1>1. /\ Append(s, e) \in Seq(T) /\ Len(s) \in Nat
      /\ Len(Append(s, e)) = Len(s) + 1 /\ Append(s, e)[Len(s) + 1] = e
  BY AppendProperties, LenProperties
<1>2. Keeps(f, s, S)
  BY KeepsExists
<1>3. Keeps(g, Append(s, e), S)
  BY KeepsExists, <1>1
<1>4. Only(s, S) = f[Len(s)]
  BY DEF Only, Keeps
<1>5. Only(Append(s, e), S) = g[Len(Append(s, e))]
  BY DEF Only, Keeps
<1> HIDE DEF f, g
<1>6. f[Len(s)] = g[Len(s)]
  <2>1. \A k \in 0 .. Len(s) : f[k] = g[k]
    BY <1>2, <1>3, KeepsPrefix
  <2>. QED
    BY <2>1, <1>1
<1>7. g[Len(s) + 1] = IF e \in S THEN Append(g[Len(s)], e) ELSE g[Len(s)]
  <2>1. \A i \in 0 .. Len(Append(s, e)) :
          g[i] = IF i = 0 THEN << >>
                 ELSE IF Append(s, e)[i] \in S THEN Append(g[i - 1], Append(s, e)[i])
                      ELSE g[i - 1]
    BY <1>3 DEF Keeps
  <2>2. /\ Len(s) + 1 \in 0 .. Len(Append(s, e))
        /\ Len(s) + 1 # 0 /\ (Len(s) + 1) - 1 = Len(s)
    BY <1>1
  <2>3. g[Len(s) + 1] = IF Append(s, e)[Len(s) + 1] \in S
                        THEN Append(g[Len(s)], Append(s, e)[Len(s) + 1]) ELSE g[Len(s)]
    BY <2>1, <2>2
  <2>. QED
    BY <2>3, <1>1
<1>. QED
  BY <1>1, <1>4, <1>5, <1>6, <1>7

----------------------------------------------------------------------------
(* What it returns *)

WithoutRepeats(s) == \A i, j \in 1 .. Len(s) : s[i] = s[j] => i = j

\* x comes before y.
Before(s, x, y) == \E i, j \in 1 .. Len(s) : i < j /\ s[i] = x /\ s[j] = y

\* k is a selection of the elements of s in S.
Selects(k, s, S, T) ==
  /\ k \in Seq(T)
  /\ Len(k) <= Len(s)
  /\ Len(k) = Len(s) => k = s
  /\ Elements(k) = Elements(s) \cap S
  /\ WithoutRepeats(s) => WithoutRepeats(k)
  /\ \A x, y \in S : Before(s, x, y) <=> Before(k, x, y)

LEMMA AppendElements ==
  ASSUME NEW T, NEW s \in Seq(T), NEW e \in T
  PROVE  Elements(Append(s, e)) = Elements(s) \cup {e}
<1>1. /\ Len(s) \in Nat /\ Len(Append(s, e)) = Len(s) + 1
      /\ Append(s, e)[Len(s) + 1] = e /\ \A i \in 1 .. Len(s) : Append(s, e)[i] = s[i]
  BY AppendProperties, LenProperties
<1>. QED
  BY <1>1 DEF Elements

LEMMA AppendWithoutRepeats ==
  ASSUME NEW T, NEW s \in Seq(T), NEW e \in T
  PROVE  WithoutRepeats(Append(s, e)) <=> WithoutRepeats(s) /\ e \notin Elements(s)
<1>1. /\ Len(s) \in Nat /\ Len(Append(s, e)) = Len(s) + 1
      /\ Append(s, e)[Len(s) + 1] = e /\ \A i \in 1 .. Len(s) : Append(s, e)[i] = s[i]
  BY AppendProperties, LenProperties
<1>. QED
  BY <1>1 DEF Elements, WithoutRepeats

LEMMA AppendBefore ==
  ASSUME NEW T, NEW s \in Seq(T), NEW e \in T, NEW x, NEW y
  PROVE  Before(Append(s, e), x, y) <=> Before(s, x, y) \/ (x \in Elements(s) /\ y = e)
<1>1. /\ Len(s) \in Nat /\ Len(Append(s, e)) = Len(s) + 1
      /\ Append(s, e)[Len(s) + 1] = e /\ \A i \in 1 .. Len(s) : Append(s, e)[i] = s[i]
  BY AppendProperties, LenProperties
<1>. QED
  BY <1>1 DEF Elements, Before

LEMMA OnlySelects ==
  ASSUME NEW T, NEW S, NEW s \in Seq(T)
  PROVE  Selects(Only(s, S), s, S, T)
<1> DEFINE Bad == {n \in Nat : \E t \in Seq(T) :
                     Len(t) = n /\ ~Selects(Only(t, S), t, S, T)}
<1> SUFFICES ASSUME Bad # {} PROVE FALSE
  BY LenProperties
<1>1. PICK m \in Bad : \A n \in Bad : m <= n
  BY LeastNatural
<1>2. PICK t \in Seq(T) : Len(t) = m /\ ~Selects(Only(t, S), t, S, T)
  BY <1>1
<1>3. CASE t = << >>
  BY <1>2, <1>3, OnlyEmpty DEF Selects, Elements, WithoutRepeats, Before
<1>4. CASE t # << >>
  <2>1. PICK u \in Seq(T), e \in T : t = Append(u, e)
    BY <1>4, SequenceEmptyOrAppend
  <2>2. Len(u) \in Nat /\ Len(t) = Len(u) + 1
    BY <2>1, AppendProperties, LenProperties
  <2>3. Selects(Only(u, S), u, S, T)
    <3>1. Len(u) \in Bad => m <= Len(u)
      BY <1>1
    <3>. QED
      BY <3>1, <1>2, <2>2
  <2>4. CASE e \in S
    <3>1. Only(t, S) = Append(Only(u, S), e)
      BY <2>1, <2>4, OnlyAppend
    <3>2. Len(Only(u, S)) \in Nat /\ Len(Only(t, S)) = Len(Only(u, S)) + 1
          /\ Only(t, S) \in Seq(T)
      BY <2>3, <3>1, AppendProperties, LenProperties DEF Selects
    <3>3. Elements(Only(t, S)) = Elements(t) \cap S
      BY <2>1, <2>3, <2>4, <3>1, AppendElements DEF Selects
    <3>4. WithoutRepeats(t) => WithoutRepeats(Only(t, S))
      BY <2>1, <2>3, <2>4, <3>1, AppendWithoutRepeats DEF Selects
    <3>5. \A x, y \in S : Before(t, x, y) <=> Before(Only(t, S), x, y)
      BY <2>1, <2>3, <2>4, <3>1, AppendBefore DEF Selects
    <3>. QED
      BY <1>2, <2>1, <2>2, <2>3, <3>1, <3>2, <3>3, <3>4, <3>5 DEF Selects
  <2>5. CASE e \notin S
    <3>1. Only(t, S) = Only(u, S)
      BY <2>1, <2>5, OnlyAppend
    <3>2. Len(Only(u, S)) \in Nat
      BY <2>3, LenProperties DEF Selects
    <3>3. Elements(Only(t, S)) = Elements(t) \cap S
      BY <2>1, <2>3, <2>5, <3>1, AppendElements DEF Selects
    <3>4. WithoutRepeats(t) => WithoutRepeats(Only(t, S))
      BY <2>1, <2>3, <3>1, AppendWithoutRepeats DEF Selects
    <3>5. \A x, y \in S : Before(t, x, y) <=> Before(Only(t, S), x, y)
      BY <2>1, <2>3, <2>5, <3>1, AppendBefore DEF Selects
    <3>. QED
      BY <1>2, <2>2, <2>3, <3>1, <3>2, <3>3, <3>4, <3>5 DEF Selects
  <2>. QED
    BY <2>4, <2>5
<1>. QED
  BY <1>3, <1>4

----------------------------------------------------------------------------
(* Sequences and their elements *)

LEMMA ElementsOf ==
  ASSUME NEW T, NEW s \in Seq(T)
  PROVE  /\ Elements(s) \subseteq T
         /\ Elements(s) = {} <=> s = << >>
         /\ IsFiniteSet(Elements(s))
         /\ WithoutRepeats(s) => Cardinality(Elements(s)) = Len(s)
<1> DEFINE f == [i \in 1 .. Len(s) |-> s[i]]
<1>1. Len(s) \in Nat /\ DOMAIN s = 1 .. Len(s) /\ \A i \in 1 .. Len(s) : s[i] \in T
  BY LenProperties, ElementOfSeq
<1>2. Elements(s) \subseteq T
  BY <1>1 DEF Elements
<1>3. Elements(s) = {} <=> s = << >>
  <2>1. s # << >> => 1 \in DOMAIN s
    BY <1>1, EmptySeq
  <2>. QED
    BY <2>1 DEF Elements
<1>4. f \in Surjection(1 .. Len(s), Elements(s))
  BY <1>1 DEF Elements, Surjection
<1>5. IsFiniteSet(Elements(s))
  BY <1>1, <1>4, FS_NatSurjection DEF ExistsSurjection
<1>6. ASSUME WithoutRepeats(s) PROVE Cardinality(Elements(s)) = Len(s)
  <2>1. f \in Injection(1 .. Len(s), Elements(s))
    BY <1>1, <1>6 DEF Elements, Injection, IsInjective, WithoutRepeats
  <2>2. ExistsBijection(1 .. Len(s), Elements(s))
    BY <1>4, <2>1 DEF ExistsBijection, Bijection
  <2>. QED
    BY <1>1, <2>2, FS_CountingElements
<1>. QED
  BY <1>2, <1>3, <1>5, <1>6

\* k has nothing but elements of s, in the same order.
Within(k, s) ==
  /\ Elements(k) \subseteq Elements(s) /\ Len(k) <= Len(s)
  /\ WithoutRepeats(s) => WithoutRepeats(k)
  /\ \A x, y : Before(k, x, y) => Before(s, x, y)

LEMMA OnlyWithin ==
  ASSUME NEW T, NEW S, NEW s \in Seq(T)
  PROVE  /\ Only(s, S) \in Seq(T) /\ Elements(Only(s, S)) = Elements(s) \cap S
         /\ Within(Only(s, S), s)
<1> DEFINE k == Only(s, S)
<1>1. Selects(k, s, S, T)
  BY OnlySelects
<1> HIDE DEF k
<1>2. \A x, y : Before(k, x, y) => x \in Elements(k) /\ y \in Elements(k)
  BY <1>1, LenProperties DEF Selects, Before, Elements
<1>3. \A x, y : Before(k, x, y) => Before(s, x, y)
  BY <1>1, <1>2 DEF Selects
<1>4. Within(k, s)
  BY <1>1, <1>3 DEF Selects, Within
<1>. QED
  BY <1>1, <1>4 DEF Selects, k

\* Of a sequence without repeats that is cut to its last c elements, c remain.
LEMMA FrontDropped ==
  ASSUME NEW T, NEW s \in Seq(T), WithoutRepeats(s), NEW c \in Nat
  PROVE  LET front == SubSeq(s, 1, Len(s) - c)
         IN  /\ Elements(front) \subseteq Elements(s)
             /\ Cardinality(Elements(s) \ Elements(front)) <= c
<1> DEFINE front == SubSeq(s, 1, Len(s) - c)
<1>1. Len(s) \in Nat /\ Len(s) - c \in Int /\ \A i \in 1 .. Len(s) : s[i] \in T
  BY LenProperties, ElementOfSeq
<1>2. \A i \in 1 .. Len(s) - c : i \in 1 .. Len(s)
  BY <1>1
<1>3. /\ front \in Seq(T) /\ Len(front) = IF 1 <= Len(s) - c THEN Len(s) - c ELSE 0
      /\ \A i \in 1 .. Len(s) - c : front[i] = s[i]
  BY <1>1, <1>2, SubSeqProperties, 1 \in Int
<1> HIDE DEF front
<1>4. /\ DOMAIN s = 1 .. Len(s) /\ DOMAIN front = 1 .. Len(front)
      /\ \A i \in 1 .. Len(front) : front[i] = s[i] /\ i \in 1 .. Len(s)
  BY <1>1, <1>3, LenProperties
<1>5. Elements(front) \subseteq Elements(s)
  BY <1>4 DEF Elements
<1>6. WithoutRepeats(front)
  BY <1>4 DEF WithoutRepeats
<1>7. /\ IsFiniteSet(Elements(s)) /\ Cardinality(Elements(s)) = Len(s)
  BY ElementsOf
<1>8. Cardinality(Elements(front)) = Len(front)
  BY <1>3, <1>6, ElementsOf
<1>9. Elements(s) \cap Elements(front) = Elements(front)
  BY <1>5
<1> DEFINE A == Elements(s)
           B == Elements(front)
<1> HIDE DEF A, B
<1>10. Cardinality(A \ B) = Cardinality(A) - Cardinality(A \cap B)
  <2>1. IsFiniteSet(A)
    BY <1>7 DEF A
  <2>. QED
    BY <2>1, FS_Difference
<1>11. Cardinality(A \ B) = Len(s) - Len(front)
  BY <1>7, <1>8, <1>9, <1>10 DEF A, B
<1>12. Cardinality(A \ B) <= c
  BY <1>1, <1>3, <1>11
<1>. QED
  BY <1>5, <1>12 DEF A, B, front

----------------------------------------------------------------------------
(* What is left of a sequence that is gone through while it changes *)

\* The elements of line are preceded in it by what precedes them in s and is
\* in S.
Continues(line, s, S) ==
  \A x \in Elements(line), u \in S : Before(s, u, x) => Before(line, u, x)

\* Elements that are not in S, or no longer in s, can be passed over.
LEMMA ContinuesFrom ==
  ASSUME NEW T, NEW line \in Seq(T), NEW s, NEW S, Continues(line, s, S),
         NEW i \in 1 .. Len(line) + 1,
         \A j \in 1 .. i - 1 : line[j] \notin S \/ line[j] \notin Elements(s),
         DOMAIN s = 1 .. Len(s)
  PROVE  LET rest == SubSeq(line, i, Len(line))
         IN  /\ rest \in Seq(T) /\ Elements(rest) \subseteq Elements(line)
             /\ WithoutRepeats(line) => WithoutRepeats(rest)
             /\ Continues(rest, s, S)
<1> DEFINE rest == SubSeq(line, i, Len(line))
<1>1. /\ Len(line) \in Nat /\ DOMAIN line = 1 .. Len(line)
      /\ \A j \in 1 .. Len(line) : line[j] \in T
  BY LenProperties, ElementOfSeq
<1>2. \A j \in i .. Len(line) : line[j] \in T
  BY <1>1
<1>3. /\ rest \in Seq(T) /\ Len(rest) = IF i <= Len(line) THEN Len(line) - i + 1 ELSE 0
      /\ \A j \in 1 .. Len(line) - i + 1 : rest[j] = line[i + j - 1]
  BY <1>1, <1>2, SubSeqProperties
<1> HIDE DEF rest
<1>4. /\ Len(rest) = Len(line) - i + 1 /\ DOMAIN rest = 1 .. Len(rest)
      /\ \A j \in 1 .. Len(rest) : rest[j] = line[i + j - 1] /\ i + j - 1 \in 1 .. Len(line)
  BY <1>1, <1>3, LenProperties
<1>5. Elements(rest) \subseteq Elements(line)
  BY <1>1, <1>4 DEF Elements
<1>6. WithoutRepeats(line) => WithoutRepeats(rest)
  <2>1. ASSUME WithoutRepeats(line), NEW a \in 1 .. Len(rest), NEW b \in 1 .. Len(rest),
               rest[a] = rest[b]
        PROVE  a = b
    <3>1. \A p, q \in 1 .. Len(line) : line[p] = line[q] => p = q
      BY <2>1 DEF WithoutRepeats
    <3>2. /\ i + a - 1 \in 1 .. Len(line) /\ i + b - 1 \in 1 .. Len(line)
          /\ line[i + a - 1] = line[i + b - 1]
      BY <1>4, <2>1
    <3>3. i + a - 1 = i + b - 1
      BY <3>1, <3>2
    <3>. QED
      BY <3>3
  <2>. QED
    BY <2>1 DEF WithoutRepeats
<1>7. ASSUME NEW x \in Elements(rest), NEW u \in S, Before(s, u, x)
      PROVE  Before(rest, u, x)
  <2>1. PICK a \in 1 .. Len(line), b \in 1 .. Len(line) : a < b /\ line[a] = u /\ line[b] = x
    BY <1>5, <1>7 DEF Continues, Before
  <2>2. u \in Elements(s)
    BY <1>7 DEF Before, Elements
  <2>3. a >= i
    BY <1>1, <2>1, <2>2
  <2>4. a - i + 1 \in 1 .. Len(rest) /\ b - i + 1 \in 1 .. Len(rest)
    BY <1>1, <1>4, <2>1, <2>3
  <2>5. rest[a - i + 1] = line[a] /\ rest[b - i + 1] = line[b]
    <3>1. i + (a - i + 1) - 1 = a /\ i + (b - i + 1) - 1 = b
      BY <1>1, <2>1
    <3>. QED
      BY <1>4, <2>4, <3>1
  <2>6. a - i + 1 < b - i + 1
    BY <1>1, <2>1
  <2>. QED
    BY <2>1, <2>4, <2>5, <2>6 DEF Before
<1>. QED
  BY <1>3, <1>4, <1>5, <1>6, <1>7 DEF Continues, rest

LEMMA ContinuesTail ==
  ASSUME NEW T, NEW line \in Seq(T), line # << >>, NEW s, NEW S, Continues(line, s, S),
         Head(line) \notin S \/ Head(line) \notin Elements(s), DOMAIN s = 1 .. Len(s)
  PROVE  /\ Tail(line) \in Seq(T) /\ Elements(Tail(line)) \subseteq Elements(line)
         /\ WithoutRepeats(line) => WithoutRepeats(Tail(line))
         /\ Continues(Tail(line), s, S)
<1>1. Len(line) \in Nat \ {0} /\ 2 \in 1 .. Len(line) + 1
  BY EmptySeq, LenProperties
<1>2. Tail(line) = SubSeq(line, 2, Len(line))
  BY TailIsSubSeq
<1>3. \A j \in 1 .. 2 - 1 : line[j] \notin S \/ line[j] \notin Elements(s)
  <2>1. \A j \in 1 .. 2 - 1 : j = 1
    OBVIOUS
  <2>2. line[1] = Head(line)
    OBVIOUS
  <2>. QED
    BY <2>1, <2>2
<1>4. LET rest == SubSeq(line, 2, Len(line))
      IN  /\ rest \in Seq(T) /\ Elements(rest) \subseteq Elements(line)
          /\ WithoutRepeats(line) => WithoutRepeats(rest)
          /\ Continues(rest, s, S)
  BY <1>1, <1>3, ContinuesFrom
<1>. QED
  BY <1>2, <1>4

\* What comes in at the end of s does not precede what is left.
LEMMA ContinuesAppend ==
  ASSUME NEW T, NEW s \in Seq(T), NEW e \in T, NEW line, NEW S, NEW R,
         Continues(line, s, S), e \notin Elements(line), e \notin Elements(s),
         R \subseteq S \cup {e}
  PROVE  Continues(line, Append(s, e), R)
<1>1. DOMAIN s = 1 .. Len(s)
  BY LenProperties
<1>2. \A x, u : Before(s, u, x) => u \in Elements(s)
  BY <1>1 DEF Before, Elements
<1>. QED
  BY <1>2, AppendBefore DEF Continues
=============================================================================
