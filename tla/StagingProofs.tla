---------------------------- MODULE StagingProofs ----------------------------
(***************************************************************************)
(* Proofs about staging, for any plugins, adapters, manifests and edits,   *)
(* and any number of reloads: whatever fails, one set of plugins and one   *)
(* of adapters are left (Settled), plugins are started after and stopped   *)
(* before what they need (NeededIsUp), nothing that handlers wrote is lost *)
(* (NothingIsLost), a failed reload leaves nothing (FailedStagingLeaves-   *)
(* NoTrace) and edits are noticed (EditsAreNoticed).                       *)
(*                                                                         *)
(* An operation is known by what it still has to do: what is up and has to *)
(* go, and what is to come up, is among the steps it awaits, in an order   *)
(* that does not depend on which step fails.                               *)
(***************************************************************************)
EXTENDS Staging, SelectionProofs

----------------------------------------------------------------------------
(* The order of a manifest *)

LEMMA AlphabetIs == Alphabet \in Seq(Range(Alphabet)) /\ IsInjective(Alphabet)
  BY StagingAssumption

LEMMA PositionIs ==
  ASSUME NEW x \in Range(Alphabet)
  PROVE  Position(x) \in Nat /\ Position(x) \in DOMAIN Alphabet /\ Alphabet[Position(x)] = x
<1>1. \E i \in DOMAIN Alphabet : Alphabet[i] = x
  BY DEF Range
<1>2. DOMAIN Alphabet = 1 .. Len(Alphabet) /\ Len(Alphabet) \in Nat
  BY AlphabetIs, LenProperties
<1>3. Position(x) \in DOMAIN Alphabet /\ Alphabet[Position(x)] = x
  BY <1>1 DEF Position
<1>. QED
  BY <1>2, <1>3

LEMMA KeyIs ==
  ASSUME NEW mf, IsManifest(mf), NEW x \in NamesOf(mf)
  PROVE  /\ x \in Range(Alphabet)
         /\ Descriptor(mf, x).source \in Nat /\ Descriptor(mf, x).priority \in Int
<1>1. \E i \in DOMAIN mf : mf[i].name = x
  BY DEF NamesOf
<1> DEFINE k == CHOOSE i \in DOMAIN mf : mf[i].name = x
<1>2. k \in DOMAIN mf /\ mf[k].name = x
  BY <1>1
<1> HIDE DEF k
<1>3. Descriptor(mf, x) = mf[k]
  BY DEF Descriptor, k
<1>. QED
  BY <1>2, <1>3 DEF IsManifest

\* Keys are compared component by component.
LEMMA PrecedesIs ==
  ASSUME NEW k, NEW l
  PROVE  Precedes(k, l) <=>
           \/ k[1] < l[1]
           \/ k[1] = l[1] /\ k[2] < l[2]
           \/ k[1] = l[1] /\ k[2] = l[2] /\ k[3] < l[3]
<1>1. 1 .. 3 = {1, 2, 3} /\ 1 .. (1 - 1) = {} /\ 1 .. (2 - 1) = {1} /\ 1 .. (3 - 1) = {1, 2}
  OBVIOUS
<1>2. Precedes(k, l) <=>
        \/ k[1] < l[1] /\ \A j \in 1 .. (1 - 1) : k[j] = l[j]
        \/ k[2] < l[2] /\ \A j \in 1 .. (2 - 1) : k[j] = l[j]
        \/ k[3] < l[3] /\ \A j \in 1 .. (3 - 1) : k[j] = l[j]
  BY <1>1 DEF Precedes
<1>. QED
  BY <1>1, <1>2

\* Of two names, one has the lesser key.
LEMMA KeysAreOrdered ==
  ASSUME NEW mf, IsManifest(mf), NEW x \in NamesOf(mf), NEW y \in NamesOf(mf)
  PROVE  /\ x # y => Precedes(Key(mf, x), Key(mf, y)) \/ Precedes(Key(mf, y), Key(mf, x))
         /\ \A z \in NamesOf(mf) :
              Precedes(Key(mf, x), Key(mf, y)) /\ Precedes(Key(mf, y), Key(mf, z)) =>
                Precedes(Key(mf, x), Key(mf, z))
<1>1. \A u \in NamesOf(mf) :
        /\ Key(mf, u)[1] \in Int /\ Key(mf, u)[2] \in Int /\ Key(mf, u)[3] \in Int
        /\ Key(mf, u)[3] = Position(u)
  <2>1. ASSUME NEW u \in NamesOf(mf)
        PROVE  /\ Descriptor(mf, u).source \in Int /\ Descriptor(mf, u).priority \in Int
               /\ Position(u) \in Int
    BY KeyIs, PositionIs
  <2>2. \A u : /\ Key(mf, u)[1] = Descriptor(mf, u).source
               /\ Key(mf, u)[2] = Descriptor(mf, u).priority
               /\ Key(mf, u)[3] = Position(u)
    BY DEF Key
  <2>. QED
    BY <2>1, <2>2
<1>2. x # y => Key(mf, x)[3] # Key(mf, y)[3]
  BY <1>1, KeyIs, PositionIs
<1>3. x # y => Precedes(Key(mf, x), Key(mf, y)) \/ Precedes(Key(mf, y), Key(mf, x))
  BY <1>1, <1>2, PrecedesIs
<1>4. ASSUME NEW z \in NamesOf(mf),
             Precedes(Key(mf, x), Key(mf, y)), Precedes(Key(mf, y), Key(mf, z))
      PROVE  Precedes(Key(mf, x), Key(mf, z))
  BY <1>1, <1>4, PrecedesIs
<1>. QED
  BY <1>3, <1>4

LEMMA NamesAreFinite ==
  ASSUME NEW mf, IsManifest(mf)
  PROVE  IsFiniteSet(NamesOf(mf)) /\ Cardinality(NamesOf(mf)) <= Len(mf)
<1> DEFINE f == [i \in 1 .. Len(mf) |-> mf[i].name]
<1>1. Len(mf) \in Nat /\ DOMAIN mf = 1 .. Len(mf)
  BY LenProperties DEF IsManifest
<1>2. f \in Surjection(1 .. Len(mf), NamesOf(mf))
  BY <1>1 DEF NamesOf, Surjection
<1>3. IsFiniteSet(1 .. Len(mf)) /\ Cardinality(1 .. Len(mf)) = Len(mf)
  <2>1. Cardinality(1 .. Len(mf)) = IF 1 > Len(mf) THEN 0 ELSE Len(mf) - 1 + 1
    BY <1>1, FS_Interval, 1 \in Int
  <2>. QED
    BY <1>1, <2>1, FS_Interval
<1> HIDE DEF f
<1>. QED
  BY <1>2, <1>3, FS_Surjection

LEMMA LeastExists ==
  ASSUME NEW mf, IsManifest(mf), NEW S \in SUBSET NamesOf(mf), S # {}
  PROVE  LeastOf(mf, S) \in S
<1> DEFINE Least(U, x) == \A y \in U \ {x} : Precedes(Key(mf, x), Key(mf, y))
           Bad == {n \in Nat : \E U \in SUBSET NamesOf(mf) :
                     U # {} /\ Cardinality(U) = n /\ ~ \E x \in U : Least(U, x)}
<1>1. \A U \in SUBSET NamesOf(mf) : IsFiniteSet(U) /\ Cardinality(U) \in Nat
  BY NamesAreFinite, FS_Subset, FS_CardinalityType
<1>2. Bad = {}
  <2> SUFFICES ASSUME Bad # {} PROVE FALSE
    OBVIOUS
  <2>1. PICK n \in Bad : \A k \in Bad : n <= k
    BY LeastNatural
  <2>2. PICK U \in SUBSET NamesOf(mf) :
          U # {} /\ Cardinality(U) = n /\ ~ \E x \in U : Least(U, x)
    BY <2>1
  <2>3. PICK u \in U : TRUE
    BY <2>2
  <2> DEFINE V == U \ {u}
  <2>4. V \in SUBSET NamesOf(mf) /\ Cardinality(V) = n - 1
    BY <1>1, <2>2, FS_RemoveElement
  <2>5. V # {}
    BY <2>2
  <2>6. PICK v \in V : Least(V, v)
    <3>1. Cardinality(V) \in Nat /\ n \in Nat
      BY <1>1, <2>4
    <3>2. Cardinality(V) \notin Bad
      <4>1. Cardinality(V) \in Bad => n <= Cardinality(V)
        BY <2>1
      <4> HIDE DEF V, Bad
      <4>. QED
        BY <2>4, <3>1, <4>1
    <3>. QED
      BY <2>4, <2>5, <3>1, <3>2
  <2>7. u # v /\ u \in NamesOf(mf) /\ v \in NamesOf(mf)
    OBVIOUS
  <2>8. CASE Precedes(Key(mf, v), Key(mf, u))
    <3>1. Least(U, v)
      BY <2>6, <2>8
    <3>. QED
      BY <2>2, <3>1
  <2>9. CASE Precedes(Key(mf, u), Key(mf, v))
    <3>1. \A y \in U \ {u} : Precedes(Key(mf, u), Key(mf, y))
      BY <2>6, <2>7, <2>9, KeysAreOrdered
    <3>. QED
      BY <2>2, <3>1
  <2>. QED
    BY <2>7, <2>8, <2>9, KeysAreOrdered
<1>3. \E x \in S : \A y \in S \ {x} : Precedes(Key(mf, x), Key(mf, y))
  BY <1>1, <1>2
<1>. QED
  BY <1>3 DEF LeastOf

\* An order so far: nobody twice, and everybody after those that go before.
Orderly(mf, r) ==
  /\ r \in Seq(NamesOf(mf)) /\ WithoutRepeats(r)
  /\ \A x \in Elements(r), y \in NamesOf(mf) : Edge(mf, y, x) => Before(r, y, x)

LEMMA RoundKeepsOrder ==
  ASSUME NEW mf, IsManifest(mf), NEW r, Orderly(mf, r)
  PROVE  Orderly(mf, Round(mf, r))
<1> DEFINE S == Ready(mf, r)
           e == LeastOf(mf, S)
<1>1. CASE S = {}
  BY <1>1 DEF Round
<1>2. CASE S # {}
  <2>1. e \in S
    BY <1>2, LeastExists DEF Ready
  <2>2. e \in NamesOf(mf) /\ e \notin Elements(r)
        /\ \A y \in NamesOf(mf) : Edge(mf, y, e) => y \in Elements(r)
    BY <2>1 DEF Ready, Elements
  <2>3. Round(mf, r) = Append(r, e)
    BY <1>2 DEF Round
  <2> HIDE DEF e
  <2>4. r \in Seq(NamesOf(mf))
    BY DEF Orderly
  <2>5. Append(r, e) \in Seq(NamesOf(mf))
    BY <2>2, <2>4, AppendProperties
  <2>6. WithoutRepeats(Append(r, e))
    BY <2>2, <2>4, AppendWithoutRepeats DEF Orderly
  <2>7. ASSUME NEW x \in Elements(Append(r, e)), NEW y \in NamesOf(mf), Edge(mf, y, x)
        PROVE  Before(Append(r, e), y, x)
    <3>1. x \in Elements(r) \/ x = e
      BY <2>2, <2>4, AppendElements
    <3>2. x = e => y \in Elements(r)
      BY <2>2, <2>7
    <3>3. x \in Elements(r) => Before(r, y, x)
      BY <2>7 DEF Orderly
    <3>. QED
      BY <2>2, <2>4, <3>1, <3>2, <3>3, AppendBefore
  <2>. QED
    BY <2>3, <2>5, <2>6, <2>7 DEF Orderly
<1>. QED
  BY <1>1, <1>2

\* f holds the first n rounds.
Rounds(f, mf, n) == f = [i \in 0 .. n |-> IF i = 0 THEN << >> ELSE Round(mf, f[i - 1])]

LEMMA RoundsExist ==
  ASSUME NEW mf, NEW n \in Nat
  PROVE  \E f : Rounds(f, mf, n)
<1> DEFINE Bad == {k \in Nat : ~ \E f : Rounds(f, mf, k)}
<1> SUFFICES ASSUME Bad # {} PROVE FALSE
  OBVIOUS
<1>1. PICK k \in Bad : \A l \in Bad : k <= l
  BY LeastNatural
<1>2. CASE k = 0
  <2>1. Rounds([i \in 0 .. 0 |-> << >>], mf, 0)
    <3>1. \A i \in 0 .. 0 : i = 0
      OBVIOUS
    <3>. QED
      BY <3>1 DEF Rounds
  <2>. QED
    BY <1>1, <1>2, <2>1
<1>3. CASE k # 0
  <2>1. k - 1 \in Nat /\ k - 1 \notin Bad
    BY <1>1, <1>3
  <2>2. PICK g : Rounds(g, mf, k - 1)
    BY <2>1
  <2>3. \A i \in 0 .. k - 1 : g[i] = IF i = 0 THEN << >> ELSE Round(mf, g[i - 1])
    BY <2>2 DEF Rounds
  <2> DEFINE last == Round(mf, g[k - 1])
             f == [i \in 0 .. k |-> IF i = k THEN last ELSE g[i]]
  <2>4. ASSUME NEW i \in 0 .. k
        PROVE  f[i] = IF i = 0 THEN << >> ELSE Round(mf, f[i - 1])
    <3>1. CASE i = k
      <4>1. f[i] = last /\ f[i - 1] = g[k - 1] /\ i # 0
        BY <3>1, <1>3, <2>1
      <4>. QED
        BY <4>1
    <3>2. CASE i \in 1 .. k - 1
      <4>1. f[i] = g[i] /\ f[i - 1] = g[i - 1] /\ i # 0 /\ i \in 0 .. k - 1
        BY <3>2, <2>1
      <4>. QED
        BY <2>3, <4>1
    <3>3. CASE i = 0
      <4>1. f[i] = g[i] /\ i \in 0 .. k - 1
        BY <3>3, <1>3, <2>1
      <4>. QED
        BY <2>3, <3>3, <4>1
    <3>. QED
      BY <3>1, <3>2, <3>3
  <2> HIDE DEF f
  <2>5. f = [i \in 0 .. k |-> f[i]]
    BY DEF f
  <2>6. Rounds(f, mf, k)
    BY <2>4, <2>5 DEF Rounds
  <2>. QED
    BY <1>1, <2>6
<1>. QED
  BY <1>2, <1>3

\* By a least round that is not.
LEMMA OrderIsOrderly ==
  ASSUME NEW mf, IsManifest(mf)
  PROVE  Orderly(mf, Order(mf))
<1> DEFINE f == CHOOSE g : Rounds(g, mf, Len(mf))
           Bad == {i \in 0 .. Len(mf) : ~Orderly(mf, f[i])}
<1>1. Len(mf) \in Nat
  BY LenProperties DEF IsManifest
<1>2. Rounds(f, mf, Len(mf))
  BY <1>1, RoundsExist
<1>3. Order(mf) = f[Len(mf)]
  BY DEF Order, Rounds
<1> HIDE DEF f
<1>4. \A i \in 0 .. Len(mf) : f[i] = IF i = 0 THEN << >> ELSE Round(mf, f[i - 1])
  BY <1>2 DEF Rounds
<1>5. Bad = {}
  <2> SUFFICES ASSUME Bad # {} PROVE FALSE
    OBVIOUS
  <2>0. Bad \in SUBSET Nat
    BY <1>1
  <2>1. PICK k \in Bad : \A l \in Bad : k <= l
    BY <2>0, LeastNatural
  <2>2. CASE k = 0
    <3>1. f[k] = << >>
      BY <1>4, <2>2, <1>1
    <3>2. Orderly(mf, << >>)
      BY DEF Orderly, WithoutRepeats, Elements
    <3>. QED
      BY <2>1, <3>1, <3>2
  <2>3. CASE k # 0
    <3>1. k - 1 \in 0 .. Len(mf) /\ k - 1 \notin Bad
      BY <1>1, <2>1, <2>3
    <3>2. f[k] = Round(mf, f[k - 1])
      BY <1>4, <2>3
    <3>. QED
      BY <2>1, <3>1, <3>2, RoundKeepsOrder
  <2>. QED
    BY <2>2, <2>3
<1>. QED
  BY <1>1, <1>3, <1>5

\* Of a resolvable manifest, the order has everybody.
LEMMA OrderIsComplete ==
  ASSUME NEW mf, IsManifest(mf), Resolvable(mf)
  PROVE  Elements(Order(mf)) = NamesOf(mf)
<1>1. Orderly(mf, Order(mf)) /\ Len(Order(mf)) = Len(mf) /\ Len(mf) \in Nat
  BY OrderIsOrderly, LenProperties DEF Resolvable, IsManifest
<1>2. /\ Elements(Order(mf)) \in SUBSET NamesOf(mf)
      /\ Cardinality(Elements(Order(mf))) = Len(mf)
  BY <1>1, ElementsOf DEF Orderly
<1>3. IsFiniteSet(NamesOf(mf)) /\ Cardinality(NamesOf(mf)) <= Len(mf)
  BY NamesAreFinite
<1>4. /\ Cardinality(Elements(Order(mf))) <= Cardinality(NamesOf(mf))
      /\ Cardinality(NamesOf(mf)) = Cardinality(Elements(Order(mf))) =>
           Elements(Order(mf)) = NamesOf(mf)
  BY <1>2, <1>3, FS_Subset
<1>5. Cardinality(NamesOf(mf)) \in Nat
  BY <1>3, FS_CardinalityType
<1>. QED
  BY <1>1, <1>2, <1>3, <1>4, <1>5

\* A manifest that _resolve_plugin_order() does not refuse is put in an order
\* with every plugin once, after all that it requires or is to be loaded after.
THEOREM StartOrderIsSound ==
  ASSUME NEW mf, IsManifest(mf), Resolvable(mf)
  PROVE  /\ WithoutRepeats(Order(mf)) /\ Elements(Order(mf)) = NamesOf(mf)
         /\ \A x, y : Edge(mf, x, y) => Before(Order(mf), x, y)
<1>1. Orderly(mf, Order(mf)) /\ Elements(Order(mf)) = NamesOf(mf)
  BY OrderIsOrderly, OrderIsComplete
<1>2. \A x, y : Edge(mf, x, y) => x \in NamesOf(mf) /\ y \in NamesOf(mf)
  BY DEF Edge
<1>3. \A x \in Elements(Order(mf)), y \in NamesOf(mf) :
        Edge(mf, y, x) => Before(Order(mf), y, x)
  BY <1>1 DEF Orderly
<1>4. WithoutRepeats(Order(mf))
  BY <1>1 DEF Orderly
<1>. QED
  BY <1>1, <1>2, <1>3, <1>4

----------------------------------------------------------------------------
(* What is to be done, in which order *)

\* t has x before y where s has y before x.
Mirrors(t, s) == \A x, y : Before(s, x, y) => Before(t, y, x)

LEMMA ReverseIs ==
  ASSUME NEW T, NEW s \in Seq(T)
  PROVE  /\ Reverse(s) \in Seq(T) /\ Elements(Reverse(s)) = Elements(s)
         /\ WithoutRepeats(s) => WithoutRepeats(Reverse(s))
         /\ Mirrors(Reverse(s), s)
<1> DEFINE r == Reverse(s)
<1>1. Len(s) \in Nat /\ DOMAIN s = 1 .. Len(s) /\ \A i \in 1 .. Len(s) : s[i] \in T
  BY LenProperties, ElementOfSeq
<1>2. \A i \in 1 .. Len(s) : Len(s) - i + 1 \in 1 .. Len(s)
  BY <1>1
<1>3. r = [i \in 1 .. Len(s) |-> s[(Len(s) - i) + 1]]
  BY DEF Reverse
<1>4. r \in Seq(T)
  <2>1. r \in [1 .. Len(s) -> T]
    BY <1>1, <1>2, <1>3
  <2>. QED
    BY <1>1, <2>1, SeqDef
<1>5. DOMAIN r = 1 .. Len(s) /\ Len(r) = Len(s)
  BY <1>1, <1>3, <1>4, LenProperties
<1>6. \A i \in 1 .. Len(s) : r[i] = s[(Len(s) - i) + 1]
  BY <1>3
<1> HIDE DEF r
<1>7. \A i \in 1 .. Len(s) : r[Len(s) - i + 1] = s[i]
  <2>1. \A i \in 1 .. Len(s) : Len(s) - (Len(s) - i + 1) + 1 = i
    BY <1>1
  <2>. QED
    BY <1>2, <1>6, <2>1
<1>8. Elements(r) = Elements(s)
  <2>1. Elements(r) \subseteq Elements(s)
    BY <1>1, <1>2, <1>5, <1>6 DEF Elements
  <2>2. ASSUME NEW i \in 1 .. Len(s) PROVE s[i] \in Elements(r)
    BY <1>2, <1>5, <1>7 DEF Elements
  <2>3. Elements(s) \subseteq Elements(r)
    BY <1>1, <2>2 DEF Elements
  <2>. QED
    BY <2>1, <2>3
<1>9. ASSUME WithoutRepeats(s) PROVE WithoutRepeats(r)
  <2>1. ASSUME NEW i \in 1 .. Len(s), NEW j \in 1 .. Len(s), r[i] = r[j]
        PROVE  i = j
    <3>1. s[Len(s) - i + 1] = s[Len(s) - j + 1]
      BY <1>6, <2>1
    <3>2. Len(s) - i + 1 = Len(s) - j + 1
      BY <1>2, <1>9, <3>1 DEF WithoutRepeats
    <3>. QED
      BY <1>1, <3>2
  <2>. QED
    BY <1>5, <2>1 DEF WithoutRepeats
<1>10. ASSUME NEW x, NEW y, Before(s, x, y) PROVE Before(r, y, x)
  <2>1. PICK i \in 1 .. Len(s), j \in 1 .. Len(s) : i < j /\ s[i] = x /\ s[j] = y
    BY <1>10 DEF Before
  <2>2. /\ Len(s) - j + 1 < Len(s) - i + 1
        /\ r[Len(s) - j + 1] = y /\ r[Len(s) - i + 1] = x
    BY <1>1, <1>7, <2>1
  <2>. QED
    BY <1>2, <1>5, <2>2 DEF Before
<1>. QED
  BY <1>4, <1>8, <1>9, <1>10 DEF r, Mirrors

LEMMA ConcatIs ==
  ASSUME NEW T, NEW s \in Seq(T), NEW t \in Seq(T)
  PROVE  /\ s \o t \in Seq(T) /\ Elements(s \o t) = Elements(s) \cup Elements(t)
         /\ WithoutRepeats(s) /\ WithoutRepeats(t) /\ Elements(s) \cap Elements(t) = {} =>
              WithoutRepeats(s \o t)
         /\ \A x, y : \/ Before(s, x, y) \/ Before(t, x, y)
                      \/ x \in Elements(s) /\ y \in Elements(t)
                      => Before(s \o t, x, y)
<1> DEFINE c == s \o t
<1>1. /\ Len(s) \in Nat /\ DOMAIN s = 1 .. Len(s)
      /\ Len(t) \in Nat /\ DOMAIN t = 1 .. Len(t)
  BY LenProperties
<1>2. /\ c \in Seq(T) /\ Len(c) = Len(s) + Len(t)
      /\ \A i \in 1 .. Len(s) + Len(t) : c[i] = IF i <= Len(s) THEN s[i] ELSE t[i - Len(s)]
  BY ConcatProperties
<1> HIDE DEF c
<1>3. DOMAIN c = 1 .. Len(s) + Len(t)
  BY <1>2, LenProperties
<1>4. \A i \in 1 .. Len(s) : i \in 1 .. Len(c) /\ c[i] = s[i]
  BY <1>1, <1>2
<1>5. \A i \in 1 .. Len(t) : Len(s) + i \in 1 .. Len(c) /\ c[Len(s) + i] = t[i]
  BY <1>1, <1>2
<1>6. \A i \in 1 .. Len(c) :
        \/ i \in 1 .. Len(s) /\ c[i] = s[i]
        \/ i - Len(s) \in 1 .. Len(t) /\ c[i] = t[i - Len(s)]
  BY <1>1, <1>2
<1>7. Elements(c) = Elements(s) \cup Elements(t)
  <2>1. Elements(c) \subseteq Elements(s) \cup Elements(t)
    BY <1>1, <1>2, <1>3, <1>6 DEF Elements
  <2>2. Elements(s) \subseteq Elements(c)
    BY <1>1, <1>2, <1>3, <1>4 DEF Elements
  <2>3. Elements(t) \subseteq Elements(c)
    BY <1>1, <1>2, <1>3, <1>5 DEF Elements
  <2>. QED
    BY <2>1, <2>2, <2>3
<1>8. ASSUME WithoutRepeats(s), WithoutRepeats(t), Elements(s) \cap Elements(t) = {},
             NEW i \in 1 .. Len(c), NEW j \in 1 .. Len(c), c[i] = c[j]
      PROVE  i = j
  <2>1. \A k \in 1 .. Len(s), l \in 1 .. Len(t) : s[k] # t[l]
    BY <1>1, <1>8 DEF Elements
  <2>2. CASE i \in 1 .. Len(s) /\ c[i] = s[i] /\ j \in 1 .. Len(s) /\ c[j] = s[j]
    BY <1>8, <2>2 DEF WithoutRepeats
  <2>3. CASE /\ i - Len(s) \in 1 .. Len(t) /\ c[i] = t[i - Len(s)]
             /\ j - Len(s) \in 1 .. Len(t) /\ c[j] = t[j - Len(s)]
    <3>1. i - Len(s) = j - Len(s)
      BY <1>8, <2>3 DEF WithoutRepeats
    <3>. QED
      BY <1>1, <3>1
  <2>. QED
    BY <1>6, <1>8, <2>1, <2>2, <2>3
<1>9. ASSUME NEW x, NEW y, Before(s, x, y) PROVE Before(c, x, y)
  BY <1>4, <1>9 DEF Before
<1>10. ASSUME NEW x, NEW y, Before(t, x, y) PROVE Before(c, x, y)
  <2>1. PICK i \in 1 .. Len(t), j \in 1 .. Len(t) : i < j /\ t[i] = x /\ t[j] = y
    BY <1>10 DEF Before
  <2>2. Len(s) + i < Len(s) + j
    BY <1>1, <2>1
  <2>. QED
    BY <1>5, <2>1, <2>2 DEF Before
<1>11. ASSUME NEW x \in Elements(s), NEW y \in Elements(t) PROVE Before(c, x, y)
  <2>1. PICK i \in 1 .. Len(s) : s[i] = x
    BY <1>1 DEF Elements
  <2>2. PICK j \in 1 .. Len(t) : t[j] = y
    BY <1>1 DEF Elements
  <2>3. i < Len(s) + j
    BY <1>1, <2>1, <2>2
  <2>. QED
    BY <1>4, <1>5, <2>1, <2>2, <2>3 DEF Before
<1>12. WithoutRepeats(s) /\ WithoutRepeats(t) /\ Elements(s) \cap Elements(t) = {} =>
         WithoutRepeats(c)
  BY <1>8 DEF WithoutRepeats
<1>. QED
  BY <1>2, <1>7, <1>9, <1>10, <1>11, <1>12 DEF c

LEMMA TailIs ==
  ASSUME NEW T, NEW s \in Seq(T), s # << >>
  PROVE  /\ Tail(s) \in Seq(T) /\ Head(s) \in T
         /\ Elements(s) = {Head(s)} \cup Elements(Tail(s))
         /\ WithoutRepeats(s) =>
              /\ WithoutRepeats(Tail(s)) /\ Head(s) \notin Elements(Tail(s))
              /\ \A x : ~Before(s, x, Head(s))
         /\ \A x, y : Before(s, x, y) /\ x # Head(s) => Before(Tail(s), x, y)
<1> DEFINE h == Head(s)
           t == Tail(s)
<1>1. /\ Len(s) \in Nat \ {0} /\ DOMAIN s = 1 .. Len(s)
  BY LenProperties, EmptySeq
<1>2. h = s[1]
  OBVIOUS
<1>3. /\ h \in T /\ t \in Seq(T) /\ Len(t) = Len(s) - 1 /\ DOMAIN t = 1 .. Len(t)
      /\ \A i \in 1 .. Len(t) : t[i] = s[i + 1]
  BY HeadTailProperties, LenProperties
<1> HIDE DEF h, t
<1>4. \A i \in 1 .. Len(t) : i + 1 \in 1 .. Len(s) /\ i + 1 # 1 /\ s[i + 1] = t[i]
  BY <1>1, <1>3
<1>5. \A i \in 1 .. Len(s) : i = 1 \/ (i - 1 \in 1 .. Len(t) /\ t[i - 1] = s[i])
  <2>1. \A i \in 1 .. Len(s) : i = 1 \/ (i - 1 \in 1 .. Len(t) /\ (i - 1) + 1 = i)
    BY <1>1, <1>3
  <2>. QED
    BY <1>3, <2>1
<1>6. 1 \in 1 .. Len(s)
  BY <1>1
<1>7. Elements(s) = {h} \cup Elements(t)
  <2>1. ASSUME NEW i \in 1 .. Len(s) PROVE s[i] \in {h} \cup Elements(t)
    BY <1>2, <1>3, <1>5 DEF Elements
  <2>2. {h} \cup Elements(t) \subseteq Elements(s)
    BY <1>1, <1>2, <1>3, <1>4, <1>6 DEF Elements
  <2>3. Elements(s) \subseteq {h} \cup Elements(t)
    BY <1>1, <2>1 DEF Elements
  <2>. QED
    BY <2>2, <2>3
<1>8. ASSUME WithoutRepeats(s)
      PROVE  WithoutRepeats(t) /\ h \notin Elements(t) /\ \A x : ~Before(s, x, h)
  <2>1. ASSUME NEW i \in 1 .. Len(t), NEW j \in 1 .. Len(t), t[i] = t[j]
        PROVE  i = j
    <3>1. i + 1 = j + 1
      BY <1>4, <1>8, <2>1 DEF WithoutRepeats
    <3>. QED
      BY <3>1
  <2>2. WithoutRepeats(t)
    BY <2>1 DEF WithoutRepeats
  <2>3. \A i \in 1 .. Len(s) : s[i] = h => i = 1
    BY <1>2, <1>6, <1>8 DEF WithoutRepeats
  <2>4. h \notin Elements(t)
    BY <1>3, <1>4, <2>3 DEF Elements
  <2>5. \A i, j \in 1 .. Len(s) : ~(i < j /\ s[j] = h)
    BY <2>3
  <2>. QED
    BY <2>2, <2>4, <2>5 DEF Before
<1>9. ASSUME NEW x, NEW y, Before(s, x, y), x # h PROVE Before(t, x, y)
  <2>1. PICK i \in 1 .. Len(s), j \in 1 .. Len(s) : i < j /\ s[i] = x /\ s[j] = y
    BY <1>9 DEF Before
  <2>2. i # 1 /\ j # 1
    BY <1>2, <1>9, <2>1
  <2>3. /\ i - 1 \in 1 .. Len(t) /\ t[i - 1] = x
        /\ j - 1 \in 1 .. Len(t) /\ t[j - 1] = y /\ i - 1 < j - 1
    BY <1>5, <2>1, <2>2
  <2>. QED
    BY <2>3 DEF Before
<1>. QED
  BY <1>3, <1>7, <1>8, <1>9 DEF h, t

LEMMA DoIs ==
  ASSUME NEW what, NEW g, NEW x, NEW that, NEW h, NEW y
  PROVE  /\ Do(what, g, x).what = what /\ Do(what, g, x).gen = g /\ Do(what, g, x).who = x
         /\ Do(what, g, x) = Do(that, h, y) <=> what = that /\ g = h /\ x = y
  BY DEF Do

LEMMA AdapterSeqIs ==
  /\ AdapterSeq \in Seq(Adapters) /\ WithoutRepeats(AdapterSeq)
  /\ Elements(AdapterSeq) = Adapters
<1> DEFINE n == Cardinality(Adapters)
<1>1. IsFiniteSet(Adapters) /\ n \in Nat /\ ExistsBijection(1 .. n, Adapters)
  BY StagingAssumption, FS_CardinalityType
<1>2. PICK f \in [1 .. n -> Adapters] : IsInjective(f)
  BY <1>1 DEF ExistsBijection, Bijection, Injection
<1>3. AdapterSeq \in [1 .. n -> Adapters] /\ IsInjective(AdapterSeq)
  BY <1>2 DEF AdapterSeq, SetToSeq
<1>4. AdapterSeq \in Injection(1 .. n, Adapters)
  BY <1>3 DEF Injection
<1>5. IsFiniteSet(1 .. n) /\ Cardinality(1 .. n) = n
  <2>1. Cardinality(1 .. n) = IF 1 > n THEN 0 ELSE n - 1 + 1
    BY <1>1, FS_Interval, 1 \in Int
  <2>. QED
    BY <1>1, <2>1, FS_Interval
<1>6. AdapterSeq \in Surjection(1 .. n, Adapters)
  BY <1>1, <1>4, <1>5, FS_Injection
<1>7. AdapterSeq \in Seq(Adapters)
  BY <1>1, <1>3, SeqDef
<1>8. DOMAIN AdapterSeq = 1 .. n /\ Len(AdapterSeq) = n
  BY <1>1, <1>3, <1>7, LenProperties
<1>. QED
  BY <1>3, <1>6, <1>7, <1>8 DEF WithoutRepeats, IsInjective, Surjection, Elements

----------------------------------------------------------------------------
(* What the operations await *)

Steps ==
  [what : {"start", "stop"}, gen : Generations, who : Plugins]
  \cup [what : {"close", "end"}, gen : Generations, who : Adapters]
  \cup [what : {"serve"}, gen : Generations, who : {"all"}]

LEMMA StepsAre ==
  ASSUME NEW g \in Generations
  PROVE  /\ \A x \in Plugins : Do("start", g, x) \in Steps /\ Do("stop", g, x) \in Steps
         /\ \A a \in Adapters : Do("close", g, a) \in Steps /\ Do("end", g, a) \in Steps
         /\ Do("serve", g, "all") \in Steps
  BY DEF Do, Steps

\* s has the steps of S, once.
Lists(s, S) == s \in Seq(Steps) /\ WithoutRepeats(s) /\ Elements(s) = S

\* s stops the plugins xs of generation g in the reverse order.
StopsBackwards(s, g, xs) ==
  \A x, y : Before(xs, x, y) => Before(s, Do("stop", g, y), Do("stop", g, x))

\* One list after another.
LEMMA ListsConcat ==
  ASSUME NEW s, NEW S, Lists(s, S), NEW t, NEW T, Lists(t, T), S \cap T = {}
  PROVE  /\ Lists(s \o t, S \cup T)
         /\ \A x, y : Before(t, x, y) \/ (x \in S /\ y \in T) => Before(s \o t, x, y)
<1>1. s \in Seq(Steps) /\ t \in Seq(Steps) /\ Elements(s) = S /\ Elements(t) = T
  BY DEF Lists
<1>. QED
  BY <1>1, ConcatIs DEF Lists

LEMMA ListsNothing == Lists(<< >>, {})
<1>1. << >> \in Seq(Steps) /\ Len(<< >>) = 0
  OBVIOUS
<1>. QED
  BY <1>1 DEF Lists, WithoutRepeats, Elements

LEMMA StepsListed ==
  ASSUME NEW what, NEW g, NEW T, NEW xs \in Seq(T), WithoutRepeats(xs),
         \A x \in T : Do(what, g, x) \in Steps
  PROVE  /\ Lists(StepsOf(what, g, xs), {Do(what, g, x) : x \in Elements(xs)})
         /\ \A x, y : Before(xs, x, y) =>
              Before(StepsOf(what, g, xs), Do(what, g, x), Do(what, g, y))
<1> DEFINE s == StepsOf(what, g, xs)
<1>1. /\ Len(xs) \in Nat /\ DOMAIN xs = 1 .. Len(xs)
      /\ \A i \in 1 .. Len(xs) : xs[i] \in T
  BY LenProperties, ElementOfSeq
<1>2. s = [i \in 1 .. Len(xs) |-> Do(what, g, xs[i])]
  BY <1>1 DEF StepsOf
<1>3. s \in Seq(Steps)
  <2>1. s \in [1 .. Len(xs) -> Steps]
    BY <1>1, <1>2
  <2>. QED
    BY <1>1, <2>1, SeqDef
<1>4. /\ DOMAIN s = 1 .. Len(xs) /\ Len(s) = Len(xs)
      /\ \A i \in 1 .. Len(xs) : s[i] = Do(what, g, xs[i])
  BY <1>1, <1>2, <1>3, LenProperties
<1> HIDE DEF s
<1>5. Elements(s) = {Do(what, g, x) : x \in Elements(xs)}
  BY <1>1, <1>4 DEF Elements
<1>6. WithoutRepeats(s)
  BY <1>4, DoIs DEF WithoutRepeats
<1>7. \A x, y : Before(xs, x, y) => Before(s, Do(what, g, x), Do(what, g, y))
  BY <1>4 DEF Before
<1>. QED
  BY <1>3, <1>5, <1>6, <1>7 DEF s, Lists

LEMMA ShutdownPluginsIs ==
  ASSUME NEW g \in Generations, OrderOf(g) \in Seq(Plugins), WithoutRepeats(OrderOf(g))
  PROVE  /\ Lists(ShutdownPlugins(g), {Do("stop", g, x) : x \in Elements(OrderOf(g))})
         /\ StopsBackwards(ShutdownPlugins(g), g, OrderOf(g))
<1> DEFINE r == Reverse(OrderOf(g))
           s == StepsOf("stop", g, r)
<1>1. /\ r \in Seq(Plugins) /\ WithoutRepeats(r) /\ Elements(r) = Elements(OrderOf(g))
      /\ Mirrors(r, OrderOf(g))
  BY ReverseIs
<1> HIDE DEF r
<1>2. \A x \in Plugins : Do("stop", g, x) \in Steps
  BY StepsAre
<1>3. /\ Lists(s, {Do("stop", g, x) : x \in Elements(r)})
      /\ \A x, y : Before(r, x, y) => Before(s, Do("stop", g, x), Do("stop", g, y))
  BY <1>1, <1>2, StepsListed
<1>4. ShutdownPlugins(g) = s
  BY DEF ShutdownPlugins, r
<1> HIDE DEF s
<1>5. StopsBackwards(s, g, OrderOf(g))
  BY <1>1, <1>3 DEF StopsBackwards, Mirrors
<1>. QED
  BY <1>1, <1>3, <1>4, <1>5

LEMMA ShutdownStartedIs ==
  ASSUME NEW g \in Generations, OrderOf(g) \in Seq(Plugins), WithoutRepeats(OrderOf(g))
  PROVE  /\ Lists(ShutdownStarted(g),
                  {Do("stop", g, x) : x \in {y \in Elements(OrderOf(g)) : IsStarted(g, y)}})
         /\ \A x, y : Before(OrderOf(g), x, y) /\ IsStarted(g, x) /\ IsStarted(g, y) =>
              Before(ShutdownStarted(g), Do("stop", g, y), Do("stop", g, x))
<1> DEFINE s == ShutdownPlugins(g)
           S == {Do("stop", g, x) : x \in {y \in Plugins : IsStarted(g, y)}}
           k == Only(s, S)
<1>1. /\ Lists(s, {Do("stop", g, x) : x \in Elements(OrderOf(g))})
      /\ StopsBackwards(s, g, OrderOf(g))
  BY ShutdownPluginsIs
<1>2. Selects(k, s, S, Steps)
  BY <1>1, OnlySelects DEF Lists
<1>3. ShutdownStarted(g) = k
  BY DEF ShutdownStarted
<1>4. Elements(OrderOf(g)) \subseteq Plugins
  BY ElementsOf
<1> HIDE DEF s, k
<1>5. Elements(k) = {Do("stop", g, x) : x \in {y \in Elements(OrderOf(g)) : IsStarted(g, y)}}
  <2>1. Elements(k) = {Do("stop", g, x) : x \in Elements(OrderOf(g))} \cap S
    BY <1>1, <1>2 DEF Selects, Lists
  <2>2. \A x, y : Do("stop", g, x) = Do("stop", g, y) <=> x = y
    BY DoIs
  <2>. QED
    BY <1>4, <2>1, <2>2
<1>6. k \in Seq(Steps) /\ WithoutRepeats(k)
  BY <1>1, <1>2 DEF Selects, Lists
<1>7. ASSUME NEW x, NEW y, Before(OrderOf(g), x, y), IsStarted(g, x), IsStarted(g, y)
      PROVE  Before(k, Do("stop", g, y), Do("stop", g, x))
  <2>1. x \in Plugins /\ y \in Plugins
    BY <1>4, <1>7, LenProperties DEF Before, Elements
  <2>2. Before(s, Do("stop", g, y), Do("stop", g, x))
    BY <1>1, <1>7 DEF StopsBackwards
  <2>3. Do("stop", g, x) \in S /\ Do("stop", g, y) \in S
    BY <1>7, <2>1
  <2>. QED
    BY <1>2, <2>2, <2>3 DEF Selects
<1>. QED
  BY <1>3, <1>5, <1>6, <1>7 DEF Lists

LEMMA ClosingIs ==
  ASSUME NEW g \in Generations
  PROVE  /\ Lists(Closing(g), {Do("close", g, a) : a \in Adapters})
         /\ Lists(StopAdapters(g), {Do("close", g, a) : a \in Adapters}
                                   \cup {Do("end", g, a) : a \in Adapters})
<1> DEFINE s == StepsOf("close", g, AdapterSeq)
           t == StepsOf("end", g, AdapterSeq)
<1>1. /\ \A a \in Adapters : Do("close", g, a) \in Steps
      /\ \A a \in Adapters : Do("end", g, a) \in Steps
  BY StepsAre
<1>2. /\ Lists(s, {Do("close", g, a) : a \in Adapters})
      /\ Lists(t, {Do("end", g, a) : a \in Adapters})
  <2>1. Lists(s, {Do("close", g, a) : a \in Elements(AdapterSeq)})
    BY <1>1, AdapterSeqIs, StepsListed
  <2>2. Lists(t, {Do("end", g, a) : a \in Elements(AdapterSeq)})
    BY <1>1, AdapterSeqIs, StepsListed
  <2>. QED
    BY <2>1, <2>2, AdapterSeqIs
<1>3. Closing(g) = s /\ StopAdapters(g) = s \o t
  BY DEF Closing, StopAdapters
<1> HIDE DEF s, t
<1>4. Lists(s \o t, {Do("close", g, a) : a \in Adapters} \cup {Do("end", g, a) : a \in Adapters})
  <2>1. {Do("close", g, a) : a \in Adapters} \cap {Do("end", g, a) : a \in Adapters} = {}
    BY DoIs
  <2>. QED
    BY <1>2, <2>1, ListsConcat
<1>. QED
  BY <1>2, <1>3, <1>4

----------------------------------------------------------------------------
(* The invariant *)

Awaits(what, g, x) == Do(what, g, x) \in Elements(op.todo)

\* a is awaited before b.
Sooner(a, b) == Before(op.todo, a, b)

Operations ==
  [kind : Kinds \cup {"shutdown"}, phase : {"staging", "rollback", "commit", "teardown"},
   todo : Seq(Steps), pg : Generations, ag : Generations, seen : [Parts -> Versions]]

\* A reload that may still go back to what it found.
Undecided == Busy /\ op.kind \in {"plugins", "config"} /\ op.phase \in {"staging", "rollback"}

Replacing == Busy /\ op.kind = "config" /\ op.phase = "commit"

\* A bootstrapped Runtime between operations.
Running == ~Busy /\ booted /\ ~complete

TypesOK ==
  /\ TypeOK
  /\ op \in {Idle} \cup Operations
  /\ cell \in [Generations -> Generations]
  /\ store \in Stores
  /\ DOMAIN resolved = Generations

\* What operations there are, and between which generations.
Control ==
  /\ pg <= gen /\ ag <= gen /\ committed \subseteq 0 .. gen
  /\ complete => stopping /\ booted /\ ~Busy
  /\ serving => booted /\ ~complete
  /\ booted => pg # 0 /\ ag # 0 /\ gen # 0
  /\ ~Busy /\ booted => {pg, ag} \subseteq committed
  /\ gen = 0 => ~Busy /\ pg = 0 /\ ag = 0 /\ saved = [top |-> {}, deep |-> {}]
  /\ Busy =>
       /\ WithoutRepeats(op.todo)
       /\ op.kind = "shutdown" <=> op.phase = "teardown"
       /\ op.kind = "shutdown" =>
            /\ booted /\ stopping /\ ~serving /\ {pg, ag} \subseteq committed
            /\ op.pg = pg /\ op.ag = ag
       /\ op.kind = "bootstrap" => ~booted /\ op.pg = 0 /\ op.ag = 0
       /\ op.kind \in {"plugins", "config"} => booted
       /\ op.kind # "shutdown" => gen # 0 /\ pg = gen /\ op.pg < gen /\ op.ag < gen
       /\ ag = IF op.kind = "plugins" THEN op.ag ELSE IF op.kind = "shutdown" THEN ag ELSE gen
       /\ op.kind \in {"plugins", "config"} =>
            {op.pg, op.ag} \subseteq committed \ {0}
       /\ op.phase = "commit" => {pg, ag} \subseteq committed

\* What an operation may still do.
Agenda ==
  Busy => \A s \in Elements(op.todo) :
    /\ op.phase = "staging" =>
         \E x \in Elements(OrderOf(pg)) : s = Do("start", pg, x)
    /\ op.phase = "rollback" =>
         \/ \E x \in Plugins : s = Do("stop", pg, x)
         \/ op.kind # "plugins" /\ \E a \in Adapters : s = Do("close", ag, a)
    /\ op.phase = "commit" =>
         \/ op.kind # "bootstrap" /\ \E x \in Plugins : s = Do("stop", op.pg, x)
         \/ /\ op.kind = "config"
            /\ \/ \E a \in Adapters : s \in {Do("close", op.ag, a), Do("end", op.ag, a)}
               \/ s = Do("serve", ag, "all")
    /\ op.phase = "teardown" =>
         \/ \E x \in Plugins : s = Do("stop", pg, x)
         \/ \E a \in Adapters : s \in {Do("close", ag, a), Do("end", ag, a)}

\* The order of a generation puts a plugin after those it needs.
OrdersOK ==
  \A g \in 1 .. gen :
    /\ OrderOf(g) \in Seq(Plugins) /\ WithoutRepeats(OrderOf(g))
    /\ Keeper \in Elements(OrderOf(g))
    /\ \A e \in resolved[g].edges :
         /\ e[1] # e[2] /\ {e[1], e[2]} \subseteq Plugins
         /\ e[2] \in Elements(OrderOf(g)) => Before(OrderOf(g), e[1], e[2])

EdgesUp ==
  \A g \in 1 .. gen : \A e \in resolved[g].edges : IsStarted(g, e[2]) => IsStarted(g, e[1])

\* What is started and has to go is to be stopped, those that need others first.
Stops(g) ==
  /\ \A x \in Plugins : IsStarted(g, x) => Awaits("stop", g, x)
  /\ \A e \in resolved[g].edges :
       IsStarted(g, e[2]) /\ Awaits("stop", g, e[1]) =>
         Sooner(Do("stop", g, e[2]), Do("stop", g, e[1]))

PluginsOK ==
  /\ EdgesUp
  /\ \A g \in Generations : \A x \in Plugins : IsStarted(g, x) =>
       /\ g = pg \/ (Busy /\ g = op.pg)
       /\ g \in 1 .. gen /\ x \in Elements(OrderOf(g))
  /\ Running => AllStarted(pg)
  /\ complete => NoneStarted(pg)
  /\ Undecided => AllStarted(op.pg)
  /\ Busy /\ op.phase = "staging" =>
       /\ \A x \in Elements(OrderOf(pg)) : IsStarted(pg, x) \/ Awaits("start", pg, x)
       /\ \A e \in resolved[pg].edges : Awaits("start", pg, e[2]) =>
            IsStarted(pg, e[1]) \/ Sooner(Do("start", pg, e[1]), Do("start", pg, e[2]))
  /\ Busy /\ op.phase \in {"rollback", "teardown"} => Stops(pg)
  /\ Busy /\ op.phase = "commit" =>
       /\ AllStarted(pg)
       /\ IF op.kind = "bootstrap" THEN NoneStarted(op.pg) ELSE Stops(op.pg)

IsOpen(g, a)  == adapters[g][a] = "built"
IsServing(g, a) == tasks[g][a] = "running"

AdaptersOK ==
  /\ \A g \in Generations : \A a \in Adapters :
       /\ IsOpen(g, a) => g # 0 /\ (g = ag \/ (Busy /\ g = op.ag))
       /\ IsServing(g, a) => booted /\ (g = ag \/ (Busy /\ g = op.ag))
  /\ Running => \A a \in Adapters : IsOpen(ag, a)
  /\ complete => \A a \in Adapters : ~IsOpen(ag, a) /\ ~IsServing(ag, a)
  /\ Undecided => \A a \in Adapters : IsOpen(op.ag, a)
  /\ Busy /\ op.phase \in {"staging", "rollback"} /\ op.kind # "plugins" =>
       \A a \in Adapters : /\ ~IsServing(ag, a)
                           /\ op.phase = "staging" => IsOpen(ag, a)
                           /\ op.phase = "rollback" /\ IsOpen(ag, a) => Awaits("close", ag, a)
  /\ Busy /\ op.phase = "commit" => \A a \in Adapters : IsOpen(ag, a)
  /\ Replacing => \A a \in Adapters :
       /\ IsOpen(op.ag, a) => Awaits("close", op.ag, a)
       /\ IsServing(op.ag, a) => Awaits("end", op.ag, a)
  /\ Busy /\ op.phase = "teardown" =>
       /\ \A a \in Adapters : /\ IsOpen(ag, a) => Awaits("close", ag, a)
                              /\ IsServing(ag, a) => Awaits("end", ag, a)
       /\ \A a \in Adapters, x \in Plugins : Awaits("end", ag, a) /\ Awaits("stop", pg, x) =>
            Sooner(Do("end", ag, a), Do("stop", pg, x))
       /\ (\E a \in Adapters : IsServing(ag, a)) => AllStarted(pg)

\* The Keeper's state.
StateOK ==
  /\ \A g \in 1 .. gen : cell[g] \in 1 .. g /\ (store # "json" => cell[g] = g)
  /\ \A g \in 1 .. gen : \A w \in top[g] \cup (IF store # "json" THEN deep[g] ELSE {}) :
       w[1] \in committed \cup {g}
  /\ written # {} => booted
  /\ booted /\ ~complete => \A at \in Places : written \subseteq Content(pg)[at]
  /\ Undecided => \A at \in Places : written \subseteq Content(op.pg)[at]
  /\ \A at \in Places : secured \subseteq saved[at]
  /\ complete => unsaved \/ \A at \in Places : written \subseteq saved[at]
  /\ Busy /\ op.phase = "teardown" =>
       Awaits("stop", pg, Keeper) \/ unsaved \/ \A at \in Places : written \subseteq saved[at]

Known(g) == \A s \in Parts \ blind : loaded[g][s] = seen[s]

WatchOK ==
  /\ Running => Known(pg)
  /\ Undecided => Known(op.pg)
  /\ Busy /\ op.phase = "commit" => seen = op.seen \/ Awaits("serve", ag, "all")

StagingInv ==
  /\ TypesOK /\ Control /\ Agenda /\ OrdersOK
  /\ PluginsOK /\ AdaptersOK /\ StateOK /\ WatchOK

----------------------------------------------------------------------------
(* The step that is done next *)

LEMMA IdleIs == Idle \notin Operations /\ Idle.kind = "none" /\ \A o \in Operations : o.kind # "none"
  BY DEF Idle, Operations, Kinds

LEMMA BusyIs ==
  ASSUME StagingInv
  PROVE  /\ Busy => op \in Operations /\ gen \in 1 .. MaxGenerations
         /\ ~Busy => op = Idle
         /\ gen \in Nat /\ MaxGenerations \in Nat /\ gen <= MaxGenerations
         /\ 1 .. gen \subseteq Generations /\ 0 \in Generations
<1>1. gen \in Generations /\ op \in {Idle} \cup Operations
  BY DEF StagingInv, TypesOK, TypeOK
<1>2. Busy => gen # 0
  BY DEF StagingInv, Control
<1>3. gen \in 0 .. MaxGenerations /\ MaxGenerations \in Nat
  BY <1>1, StagingAssumption DEF Generations
<1>. QED
  BY <1>1, <1>2, <1>3, IdleIs DEF Busy, Generations

LEMMA Popped ==
  ASSUME StagingInv, Busy, op.todo # << >>, Proceed
  PROVE  /\ op' \in Operations /\ Busy'
         /\ op'.kind = op.kind /\ op'.phase = op.phase /\ op'.pg = op.pg /\ op'.ag = op.ag
         /\ op'.seen = op.seen
         /\ WithoutRepeats(op'.todo)
         /\ Elements(op.todo) = {NextStep} \cup Elements(op'.todo)
         /\ NextStep \notin Elements(op'.todo)
         /\ \A a : ~Before(op.todo, a, NextStep)
         /\ \A a, b : Before(op.todo, a, b) /\ a # NextStep => Before(op'.todo, a, b)
<1>1. op \in Operations /\ op.todo \in Seq(Steps) /\ WithoutRepeats(op.todo)
  BY BusyIs DEF StagingInv, Control, Operations
<1>2. op' = [op EXCEPT !.todo = Tail(@)]
  BY DEF Proceed
<1>3. /\ Tail(op.todo) \in Seq(Steps)
      /\ Elements(op.todo) = {NextStep} \cup Elements(Tail(op.todo))
      /\ WithoutRepeats(Tail(op.todo)) /\ NextStep \notin Elements(Tail(op.todo))
      /\ \A a : ~Before(op.todo, a, NextStep)
      /\ \A a, b : Before(op.todo, a, b) /\ a # NextStep => Before(Tail(op.todo), a, b)
  BY <1>1, TailIs DEF NextStep
<1>4. op' \in Operations /\ op'.todo = Tail(op.todo)
      /\ op'.kind = op.kind /\ op'.phase = op.phase /\ op'.pg = op.pg /\ op'.ag = op.ag
      /\ op'.seen = op.seen
  BY <1>1, <1>2, <1>3 DEF Operations
<1>. QED
  BY <1>3, <1>4 DEF Busy

LEMMA StepIs ==
  ASSUME StagingInv, NEW what, HasStep(what)
  PROVE  Busy /\ op.todo # << >> /\ NextStep.what = what /\ NextStep \in Elements(op.todo)
<1>1. Busy /\ op.todo # << >> /\ NextStep.what = what
  BY DEF HasStep
<1>2. op.todo \in Seq(Steps)
  BY <1>1, BusyIs DEF Operations
<1>. QED
  BY <1>1, <1>2, TailIs DEF NextStep

LEMMA StartStep ==
  ASSUME StagingInv, HasStep("start")
  PROVE  /\ op.phase = "staging" /\ NextStep.gen = pg /\ NextStep.who \in Elements(OrderOf(pg))
         /\ NextStep = Do("start", pg, NextStep.who)
  BY StepIs, BusyIs DEF StagingInv, Agenda, Operations, Do

LEMMA StopStep ==
  ASSUME StagingInv, HasStep("stop")
  PROVE  /\ NextStep.who \in Plugins /\ NextStep = Do("stop", NextStep.gen, NextStep.who)
         /\ \/ op.phase \in {"rollback", "teardown"} /\ NextStep.gen = pg
            \/ op.phase = "commit" /\ NextStep.gen = op.pg /\ op.kind \in {"plugins", "config"}
  BY StepIs, BusyIs DEF StagingInv, Control, Agenda, Operations, Kinds, Do

LEMMA CloseStep ==
  ASSUME StagingInv, HasStep("close")
  PROVE  /\ NextStep.who \in Adapters /\ NextStep = Do("close", NextStep.gen, NextStep.who)
         /\ \/ op.phase = "rollback" /\ op.kind # "plugins" /\ NextStep.gen = ag
            \/ op.phase = "teardown" /\ NextStep.gen = ag
            \/ op.phase = "commit" /\ op.kind = "config" /\ NextStep.gen = op.ag
  BY StepIs, BusyIs DEF StagingInv, Agenda, Operations, Do

LEMMA EndStep ==
  ASSUME StagingInv, HasStep("end")
  PROVE  /\ NextStep.who \in Adapters /\ NextStep = Do("end", NextStep.gen, NextStep.who)
         /\ \/ op.phase = "teardown" /\ NextStep.gen = ag
            \/ op.phase = "commit" /\ op.kind = "config" /\ NextStep.gen = op.ag
  BY StepIs, BusyIs DEF StagingInv, Agenda, Operations, Do

LEMMA ServeStep ==
  ASSUME StagingInv, HasStep("serve")
  PROVE  /\ NextStep = Do("serve", ag, "all") /\ NextStep.gen = ag
         /\ op.phase = "commit" /\ op.kind = "config"
  BY StepIs, BusyIs DEF StagingInv, Agenda, Operations, Do

LEMMA AllStartedIs ==
  ASSUME NEW g
  PROVE  AllStarted(g) <=> \A x \in Elements(OrderOf(g)) : IsStarted(g, x)
  BY DEF AllStarted, Range, Elements

----------------------------------------------------------------------------
(* What a step leaves alone *)

LEMMA Frames ==
  ASSUME StagingInv
  PROVE  /\ UNCHANGED <<gen, resolved>> => OrdersOK'
         /\ UNCHANGED <<op, pg, ag, resolved>> => Agenda'
         /\ UNCHANGED <<op, gen, resolved, plugins, pg, booted, complete>> => PluginsOK'
         /\ UNCHANGED <<op, ag, pg, booted, complete, adapters, tasks, plugins, resolved>> =>
              AdaptersOK'
         /\ UNCHANGED <<op, booted, complete, pg, ag, blind, loaded, seen>> => WatchOK'
<1>1. ASSUME UNCHANGED <<gen, resolved>> PROVE OrdersOK'
  BY <1>1 DEF StagingInv, OrdersOK, OrderOf
<1>2. ASSUME UNCHANGED <<op, pg, ag, resolved>> PROVE Agenda'
  BY <1>2 DEF StagingInv, Agenda, OrderOf, Busy
<1>3. ASSUME UNCHANGED <<op, gen, resolved, plugins, pg, booted, complete>>
      PROVE  PluginsOK'
  BY <1>3 DEF StagingInv, PluginsOK, EdgesUp, Stops, IsStarted, OrderOf, AllStarted,
              NoneStarted, Busy, Running, Undecided, Awaits, Sooner
<1>4. ASSUME UNCHANGED <<op, ag, pg, booted, complete, adapters, tasks, plugins, resolved>>
      PROVE  AdaptersOK'
  BY <1>4 DEF StagingInv, AdaptersOK, IsOpen, IsServing, IsStarted, OrderOf, AllStarted,
              Busy, Running, Undecided, Replacing, Awaits, Sooner
<1>5. ASSUME UNCHANGED <<op, booted, complete, pg, ag, blind, loaded, seen>>
      PROVE  WatchOK'
  BY <1>5 DEF StagingInv, WatchOK, Known, Busy, Running, Undecided, Awaits
<1>. QED
  BY <1>1, <1>2, <1>3, <1>4, <1>5

LEMMA StateFrame ==
  ASSUME StagingInv, UNCHANGED <<gen, op, committed, booted, complete, pg, state>>
  PROVE  StateOK'
BY DEF StagingInv, StateOK, state, Content, Busy, Undecided, Awaits

\* The next step is done, and it is of another kind than the conjunct is about.
LEMMA PoppedFrames ==
  ASSUME StagingInv, Busy, op.todo # << >>, Proceed
  PROVE  /\ UNCHANGED <<pg, ag, gen, committed, complete, stopping, booted, serving>> => Control'
         /\ UNCHANGED <<pg, ag, resolved>> => Agenda'
         /\ /\ UNCHANGED <<gen, resolved, plugins, pg, booted, complete>>
            /\ NextStep.what \notin {"start", "stop"}
            => PluginsOK'
         /\ /\ UNCHANGED <<ag, pg, booted, complete, adapters, tasks>>
            /\ NextStep.what \notin {"close", "end"}
            /\ op.phase = "teardown" => UNCHANGED <<plugins, resolved>>
            => AdaptersOK'
         /\ /\ UNCHANGED <<gen, committed, booted, complete, pg, state>>
            /\ NextStep.what # "stop"
            => StateOK'
         /\ /\ UNCHANGED <<booted, complete, pg, ag, blind, loaded, seen>>
            /\ NextStep.what # "serve"
            => WatchOK'
<1>0. /\ op' \in Operations /\ Busy'
      /\ op'.kind = op.kind /\ op'.phase = op.phase /\ op'.pg = op.pg /\ op'.ag = op.ag
      /\ op'.seen = op.seen
      /\ WithoutRepeats(op'.todo)
      /\ Elements(op.todo) = {NextStep} \cup Elements(op'.todo)
      /\ \A a, b : Before(op.todo, a, b) /\ a # NextStep => Before(op'.todo, a, b)
  BY Popped
<1> HIDE DEF Proceed
<1>1. ASSUME UNCHANGED <<pg, ag, gen, committed, complete, stopping, booted, serving>>
      PROVE  Control'
  <2>1. gen # 0
    BY BusyIs
  <2>. QED
    BY <1>0, <1>1, <2>1 DEF StagingInv, Control, Busy
<1>2. ASSUME UNCHANGED <<pg, ag, resolved>> PROVE Agenda'
  BY <1>0, <1>2 DEF StagingInv, Agenda, OrderOf, Busy
<1>3. ASSUME UNCHANGED <<gen, resolved, plugins, pg, booted, complete>>,
             NextStep.what \notin {"start", "stop"}
      PROVE  PluginsOK'
  <2>1. \A g, x : Do("start", g, x) # NextStep /\ Do("stop", g, x) # NextStep
    BY <1>3, DoIs
  <2>2. \A g, x : /\ Awaits("start", g, x) => Do("start", g, x) \in Elements(op'.todo)
                  /\ Awaits("stop", g, x) => Do("stop", g, x) \in Elements(op'.todo)
    BY <1>0, <2>1 DEF Awaits
  <2>3. \A g, x, h, y :
          /\ Sooner(Do("start", g, x), Do("start", h, y)) =>
               Before(op'.todo, Do("start", g, x), Do("start", h, y))
          /\ Sooner(Do("stop", g, x), Do("stop", h, y)) =>
               Before(op'.todo, Do("stop", g, x), Do("stop", h, y))
    BY <1>0, <2>1 DEF Sooner
  <2>4. \A s : s \in Elements(op'.todo) => s \in Elements(op.todo)
    BY <1>0
  <2>. QED
    BY <1>0, <1>3, <2>2, <2>3, <2>4
       DEF StagingInv, PluginsOK, EdgesUp, Stops, IsStarted, OrderOf, AllStarted,
           NoneStarted, Busy, Running, Undecided, Awaits, Sooner
<1>4. ASSUME UNCHANGED <<ag, pg, booted, complete, adapters, tasks>>,
             NextStep.what \notin {"close", "end"},
             op.phase = "teardown" => UNCHANGED <<plugins, resolved>>
      PROVE  AdaptersOK'
  <2>1. \A g, x : Do("close", g, x) # NextStep /\ Do("end", g, x) # NextStep
    BY <1>4, DoIs
  <2>2. \A g, x : /\ Awaits("close", g, x) => Do("close", g, x) \in Elements(op'.todo)
                  /\ Awaits("end", g, x) => Do("end", g, x) \in Elements(op'.todo)
    BY <1>0, <2>1 DEF Awaits
  <2>3. \A g, x, b : Sooner(Do("end", g, x), b) => Before(op'.todo, Do("end", g, x), b)
    BY <1>0, <2>1 DEF Sooner
  <2>4. \A s : s \in Elements(op'.todo) => s \in Elements(op.todo)
    BY <1>0
  <2>. QED
    BY <1>0, <1>4, <2>2, <2>3, <2>4
       DEF StagingInv, AdaptersOK, IsOpen, IsServing, IsStarted, OrderOf, AllStarted,
           Busy, Running, Undecided, Replacing, Awaits, Sooner
<1>5. ASSUME UNCHANGED <<gen, committed, booted, complete, pg, state>>, NextStep.what # "stop"
      PROVE  StateOK'
  <2>1. Awaits("stop", pg, Keeper) => Do("stop", pg, Keeper) \in Elements(op'.todo)
    BY <1>0, <1>5, DoIs DEF Awaits
  <2>. QED
    BY <1>0, <1>5, <2>1
       DEF StagingInv, StateOK, state, Content, Busy, Undecided, Awaits
<1>6. ASSUME UNCHANGED <<booted, complete, pg, ag, blind, loaded, seen>>,
             NextStep.what # "serve"
      PROVE  WatchOK'
  <2>1. Awaits("serve", ag, "all") => Do("serve", ag, "all") \in Elements(op'.todo)
    BY <1>0, <1>6, DoIs DEF Awaits
  <2>. QED
    BY <1>0, <1>6, <2>1 DEF StagingInv, WatchOK, Known, Busy, Running, Undecided, Awaits
<1>. QED
  BY <1>1, <1>2, <1>3, <1>4, <1>5, <1>6

----------------------------------------------------------------------------
(* Every step keeps the invariant *)

LEMMA OrderFacts ==
  ASSUME StagingInv, NEW g \in 1 .. gen
  PROVE  /\ OrderOf(g) \in Seq(Plugins) /\ WithoutRepeats(OrderOf(g))
         /\ Keeper \in Elements(OrderOf(g)) /\ Elements(OrderOf(g)) \subseteq Plugins
         /\ g \in Generations
<1>1. /\ OrderOf(g) \in Seq(Plugins) /\ WithoutRepeats(OrderOf(g))
      /\ Keeper \in Elements(OrderOf(g))
  BY DEF StagingInv, OrdersOK
<1>. QED
  BY <1>1, ElementsOf, BusyIs

\* What the Keeper has written before, it has after another write.
LEMMA WriteKeeps ==
  ASSUME StagingInv, NEW g \in 1 .. gen, NEW hook \in {"startup", "handler"},
         WriteState(g, hook)
  PROVE  /\ top' \in [Generations -> SUBSET Writes] /\ deep' \in [Generations -> SUBSET Writes]
         /\ \A h \in Generations :
              /\ top[h] \subseteq top'[h] /\ deep[h] \subseteq deep'[h]
              /\ top'[h] \subseteq top[h] \cup {<<g, hook>>}
              /\ deep'[h] \subseteq deep[h] \cup {<<g, hook>>}
              /\ h # g => top'[h] = top[h]
              /\ h # cell[g] => deep'[h] = deep[h]
         /\ <<g, hook>> \in top'[g] /\ <<g, hook>> \in deep'[cell[g]]
         /\ store' = store /\ saved' = saved /\ cell' = cell
<1>1. g \in Generations /\ cell[g] \in Generations /\ <<g, hook>> \in Writes
  BY BusyIs DEF StagingInv, TypesOK, Writes
<1>2. top \in [Generations -> SUBSET Writes] /\ deep \in [Generations -> SUBSET Writes]
  BY DEF StagingInv, TypesOK, TypeOK
<1>. QED
  BY <1>1, <1>2 DEF WriteState

\* What an operation on a bootstrapped Runtime may go back to or replaces.
LEMMA OldIs ==
  ASSUME StagingInv, Busy, op.kind \in {"plugins", "config"}
  PROVE  /\ op.pg \in 1 .. gen /\ op.pg < pg /\ pg = gen /\ op.ag \in 1 .. gen
         /\ op.ag \in Generations /\ op.pg \in Generations /\ ag \in 1 .. gen
         /\ op.kind = "config" => op.ag < ag
         /\ op.kind = "plugins" => op.ag = ag
<1>1. /\ op.pg \in Nat /\ op.ag \in Nat /\ gen \in Nat /\ 1 .. gen \subseteq Generations
  BY BusyIs DEF Operations, Generations
<1>2. /\ op.pg # 0 /\ op.ag # 0 /\ pg = gen /\ op.pg < gen /\ op.ag < gen
      /\ op.kind = "config" => ag = gen
      /\ op.kind = "plugins" => ag = op.ag
  BY DEF StagingInv, Control
<1>. QED
  BY <1>1, <1>2

\* Whether it returns or raises, startup() has written for the Keeper.
LEMMA StartupState ==
  ASSUME StagingInv, HasStep("start"), StartupWrites,
         UNCHANGED <<gen, committed, booted, complete, pg>>,
         Busy', op'.kind = op.kind, op'.pg = op.pg, op'.phase \in {"staging", "rollback"}
  PROVE  /\ StateOK'
         /\ top' \in [Generations -> SUBSET Writes] /\ deep' \in [Generations -> SUBSET Writes]
         /\ store' = store /\ saved' = saved /\ cell' = cell
         /\ written' = written /\ secured' = secured /\ unsaved' = unsaved
<1>1. /\ Busy /\ op.phase = "staging" /\ NextStep.gen = pg
      /\ op.kind # "shutdown" /\ pg \in 1 .. gen /\ pg \in Generations
      /\ ~complete
  BY StepIs, StartStep, BusyIs DEF StagingInv, Control
<1>2. /\ top \in [Generations -> SUBSET Writes] /\ deep \in [Generations -> SUBSET Writes]
      /\ cell \in [Generations -> Generations]
  BY DEF StagingInv, TypesOK, TypeOK
<1>3. /\ top' \in [Generations -> SUBSET Writes] /\ deep' \in [Generations -> SUBSET Writes]
      /\ \A h \in Generations :
           /\ top[h] \subseteq top'[h] /\ deep[h] \subseteq deep'[h]
           /\ top'[h] \subseteq top[h] \cup {<<pg, "startup">>}
           /\ deep'[h] \subseteq deep[h] \cup {<<pg, "startup">>}
           /\ h # pg => top'[h] = top[h]
           /\ h # cell[pg] => deep'[h] = deep[h]
      /\ store' = store /\ saved' = saved /\ cell' = cell
      /\ written' = written /\ secured' = secured /\ unsaved' = unsaved
  <2>1. CASE NextStep.who = Keeper
    <3>1. WriteState(pg, "startup") /\ UNCHANGED <<written, secured, unsaved>>
      BY <1>1, <2>1 DEF StartupWrites
    <3>. QED
      BY <1>1, <3>1, WriteKeeps
  <2>2. CASE NextStep.who # Keeper
    BY <1>2, <2>2 DEF StartupWrites
  <2>. QED
    BY <2>1, <2>2
<1>4. ASSUME NEW g \in 1 .. gen
      PROVE  \A w \in top'[g] \cup (IF store # "json" THEN deep'[g] ELSE {}) :
               w[1] \in committed \cup {g}
  <2>1. g \in Generations
    BY BusyIs
  <2>2. \A w \in top'[g] : w[1] \in committed \cup {g}
    BY <1>3, <2>1 DEF StagingInv, StateOK
  <2>3. store # "json" => cell[pg] = pg
    BY <1>1 DEF StagingInv, StateOK
  <2>4. store # "json" => \A w \in deep'[g] : w[1] \in committed \cup {g}
    BY <1>3, <2>1, <2>3 DEF StagingInv, StateOK
  <2>. QED
    BY <2>2, <2>4
<1> DEFINE Then(g) == [top |-> top'[g], deep |-> deep'[cell'[g]]]
<1>5. \A g \in Generations, at \in Places : Content(g)[at] \subseteq Then(g)[at]
  BY <1>2, <1>3 DEF Content, Places
<1>6. booted /\ ~complete => \A at \in Places : written \subseteq Then(pg)[at]
  BY <1>1, <1>5 DEF StagingInv, StateOK
<1>7. Undecided => \A at \in Places : written \subseteq Then(op.pg)[at]
  <2>1. Undecided => op.pg \in Generations
    BY OldIs DEF Undecided
  <2>. QED
    BY <1>5, <2>1 DEF StagingInv, StateOK
<1>8. Undecided' => Undecided
  BY <1>1 DEF Undecided
<1>9. StateOK'
  BY <1>1, <1>3, <1>4, <1>6, <1>7, <1>8 DEF StagingInv, StateOK, Content
<1>. QED
  BY <1>3, <1>9

LEMMA StartPluginKeeps ==
  ASSUME StagingInv, StartPlugin
  PROVE  StagingInv'
<1> DEFINE x == NextStep.who
           Up(g, y) == plugins'[g][y] = "started"
<1>1. /\ Busy /\ op.todo # << >> /\ NextStep.what = "start" /\ op.phase = "staging"
      /\ x \in Elements(OrderOf(pg)) /\ NextStep = Do("start", pg, x) /\ NextStep.gen = pg
      /\ Proceed
  BY StepIs, StartStep DEF StartPlugin
<1>2. /\ plugins' = [plugins EXCEPT ![pg][x] = "started"]
      /\ UNCHANGED <<gen, resolved, adapters, tasks, active, pg, ag, committed, flags, watch>>
      /\ UNCHANGED <<serving, stopping, booted, complete, failures, disk, loaded, seen, blind>>
      /\ UNCHANGED <<written, secured, unsaved>>
  BY <1>1 DEF StartPlugin, StartupWrites, flags, watch
<1>3. pg \in 1 .. gen /\ op.kind # "shutdown" /\ pg \in Generations
  BY <1>1, BusyIs DEF StagingInv, Control
<1>4. x \in Plugins
  BY <1>1, <1>3, OrderFacts
<1>5. /\ op' \in Operations /\ Busy' /\ WithoutRepeats(op'.todo)
      /\ op'.kind = op.kind /\ op'.phase = op.phase /\ op'.pg = op.pg /\ op'.ag = op.ag
      /\ op'.seen = op.seen
      /\ Elements(op.todo) = {NextStep} \cup Elements(op'.todo)
      /\ \A a : ~Before(op.todo, a, NextStep)
      /\ \A a, b : Before(op.todo, a, b) /\ a # NextStep => Before(op'.todo, a, b)
  BY <1>1, Popped
<1>next. \A y : Do("start", pg, y) = NextStep <=> y = x
  BY <1>1, DoIs
<1> HIDE DEF x
<1>7. \A g \in Generations, y \in Plugins :
        /\ Up(g, y) <=> IsStarted(g, y) \/ (g = pg /\ y = x)
        /\ plugins'[g][y] \in PluginStates
  BY <1>2, <1>3, <1>4 DEF StagingInv, TypesOK, TypeOK, IsStarted, PluginStates
<1> HIDE DEF Up
<1>8. TypesOK'
  <2>1. plugins' \in [Generations -> [Plugins -> PluginStates]]
    BY <1>2, <1>3, <1>4 DEF StagingInv, TypesOK, TypeOK, PluginStates
  <2>2. /\ top' \in [Generations -> SUBSET Writes] /\ deep' \in [Generations -> SUBSET Writes]
        /\ store' = store /\ saved' = saved /\ cell' = cell
    BY <1>1, <1>2, <1>5, StartupState DEF StartPlugin
  <2>. QED
    BY <1>2, <1>5, <2>1, <2>2 DEF StagingInv, TypesOK, TypeOK
<1>9. Control' /\ Agenda' /\ OrdersOK' /\ AdaptersOK' /\ WatchOK'
  BY <1>1, <1>2, PoppedFrames, Frames
<1>10. PluginsOK'
  <2>1. EdgesUp'
    <3> SUFFICES ASSUME NEW g \in 1 .. gen, NEW e \in resolved[g].edges, Up(g, e[2])
                 PROVE  Up(g, e[1])
      BY <1>2 DEF EdgesUp, IsStarted, Up
    <3>1. g \in Generations /\ {e[1], e[2]} \subseteq Plugins
      BY BusyIs DEF StagingInv, OrdersOK
    <3>2. CASE IsStarted(g, e[2])
      BY <1>7, <3>1, <3>2 DEF StagingInv, PluginsOK, EdgesUp
    <3>3. CASE g = pg /\ e[2] = x
      <4>1. Awaits("start", pg, x)
        BY <1>1, <1>5 DEF Awaits, x
      <4>2. IsStarted(pg, e[1]) \/ Sooner(Do("start", pg, e[1]), Do("start", pg, x))
        BY <1>1, <3>3, <4>1 DEF StagingInv, PluginsOK
      <4>3. ~Sooner(Do("start", pg, e[1]), Do("start", pg, x))
        BY <1>1, <1>5 DEF Sooner, x
      <4>. QED
        BY <1>7, <3>1, <3>3, <4>2, <4>3
    <3>. QED
      BY <1>7, <3>1, <3>2, <3>3
  <2>2. ASSUME NEW g \in Generations, NEW y \in Plugins, Up(g, y)
        PROVE  (g = pg \/ g = op.pg) /\ g \in 1 .. gen /\ y \in Elements(OrderOf(g))
    BY <1>1, <1>3, <1>7, <2>2 DEF StagingInv, PluginsOK, x
  <2>3. ASSUME Undecided, NEW y \in Elements(OrderOf(op.pg)) PROVE Up(op.pg, y)
    <3>1. op.pg \in 1 .. gen
      BY <2>3, OldIs DEF Undecided
    <3>2. y \in Plugins /\ op.pg \in Generations
      BY <3>1, OrderFacts
    <3>3. IsStarted(op.pg, y)
      BY <2>3, AllStartedIs DEF StagingInv, PluginsOK
    <3>. QED
      BY <1>7, <3>2, <3>3
  <2>4. ASSUME NEW y \in Elements(OrderOf(pg))
        PROVE  Up(pg, y) \/ Do("start", pg, y) \in Elements(op'.todo)
    <3>1. IsStarted(pg, y) \/ Awaits("start", pg, y)
      BY <1>1 DEF StagingInv, PluginsOK
    <3>2. y \in Plugins
      BY <1>3, OrderFacts
    <3>3. Awaits("start", pg, y) => y = x \/ Do("start", pg, y) \in Elements(op'.todo)
      BY <1>5, <1>next DEF Awaits
    <3>. QED
      BY <1>3, <1>7, <3>1, <3>2, <3>3
  <2>5. ASSUME NEW e \in resolved[pg].edges, Do("start", pg, e[2]) \in Elements(op'.todo)
        PROVE  \/ Up(pg, e[1])
               \/ Before(op'.todo, Do("start", pg, e[1]), Do("start", pg, e[2]))
    <3>1. IsStarted(pg, e[1]) \/ Sooner(Do("start", pg, e[1]), Do("start", pg, e[2]))
      BY <1>1, <1>5, <2>5 DEF StagingInv, PluginsOK, Awaits
    <3>2. e[1] \in Plugins
      BY <1>3 DEF StagingInv, OrdersOK
    <3>. QED
      BY <1>3, <1>5, <1>7, <1>next, <3>1, <3>2 DEF Sooner
  <2>6. Undecided' => \A y \in Elements(OrderOf(op.pg)) : Up(op.pg, y)
    BY <1>1, <1>5, <2>3 DEF Undecided
  <2>7. ~complete
    BY <1>1 DEF StagingInv, Control
  <2>. QED
    BY <1>1, <1>2, <1>5, <2>1, <2>2, <2>4, <2>5, <2>6, <2>7
       DEF PluginsOK, Running, AllStarted, Range, Elements, IsStarted, Up, OrderOf, Awaits, Sooner
<1>11. StateOK'
  BY <1>1, <1>2, <1>5, StartupState DEF StartPlugin
<1>. QED
  BY <1>8, <1>9, <1>10, <1>11 DEF StagingInv

----------------------------------------------------------------------------
(* Staging fails *)

LEMMA RollbackIs ==
  ASSUME StagingInv, Busy, op.kind # "shutdown"
  PROVE  /\ Lists(Rollback,
                  {Do("stop", pg, x) : x \in {y \in Elements(OrderOf(pg)) : IsStarted(pg, y)}}
                  \cup (IF op.kind = "plugins" THEN {} ELSE {Do("close", ag, a) : a \in Adapters}))
         /\ \A x, y : Before(OrderOf(pg), x, y) /\ IsStarted(pg, x) /\ IsStarted(pg, y) =>
              Before(Rollback, Do("stop", pg, y), Do("stop", pg, x))
<1> DEFINE S == {Do("stop", pg, x) : x \in {y \in Elements(OrderOf(pg)) : IsStarted(pg, y)}}
           C == {Do("close", ag, a) : a \in Adapters}
           closing == IF op.kind = "plugins" THEN << >> ELSE Closing(ag)
           closed == IF op.kind = "plugins" THEN {} ELSE C
<1>1. pg \in 1 .. gen /\ ag \in Generations
  <2>1. gen # 0 /\ pg = gen /\ gen \in Nat
    BY BusyIs DEF StagingInv, Control
  <2>2. ag \in Generations
    BY DEF StagingInv, TypesOK, TypeOK
  <2>. QED
    BY <2>1, <2>2
<1>2. /\ Lists(ShutdownStarted(pg), S)
      /\ \A x, y : Before(OrderOf(pg), x, y) /\ IsStarted(pg, x) /\ IsStarted(pg, y) =>
           Before(ShutdownStarted(pg), Do("stop", pg, y), Do("stop", pg, x))
  BY <1>1, OrderFacts, ShutdownStartedIs
<1>3. Lists(closing, closed)
  BY <1>1, ClosingIs, ListsNothing
<1>4. closed \cap S = {}
  BY DoIs
<1>5. Rollback = closing \o ShutdownStarted(pg)
  BY DEF Rollback
<1> HIDE DEF S, closing, closed
<1>6. /\ Lists(closing \o ShutdownStarted(pg), closed \cup S)
      /\ \A x, y : Before(ShutdownStarted(pg), x, y) =>
           Before(closing \o ShutdownStarted(pg), x, y)
  BY <1>2, <1>3, <1>4, ListsConcat
<1>7. closed \cup S = S \cup closed
  OBVIOUS
<1>. QED
  BY <1>2, <1>5, <1>6, <1>7 DEF S, closed

LEMMA RollingBack ==
  ASSUME StagingInv, Busy, op.phase = "staging",
         op' = [op EXCEPT !.phase = "rollback", !.todo = Rollback],
         UNCHANGED <<instances, flags, watch>>
  PROVE  /\ op' \in Operations /\ Busy' /\ op'.kind = op.kind /\ op'.pg = op.pg
         /\ op'.phase = "rollback"
         /\ Control' /\ Agenda' /\ OrdersOK' /\ PluginsOK' /\ AdaptersOK' /\ WatchOK'
<1>1. /\ UNCHANGED <<gen, resolved, plugins, adapters, tasks, active, pg, ag, committed>>
      /\ UNCHANGED <<serving, stopping, booted, complete, failures>>
      /\ UNCHANGED <<disk, loaded, seen, blind>>
  BY DEF instances, flags, watch
<1>2. op \in Operations /\ op.kind # "shutdown" /\ pg \in 1 .. gen /\ ~complete
  BY BusyIs DEF StagingInv, Control
<1> DEFINE S == {Do("stop", pg, x) : x \in {y \in Elements(OrderOf(pg)) : IsStarted(pg, y)}}
           C == {Do("close", ag, a) : a \in Adapters}
           All == S \cup (IF op.kind = "plugins" THEN {} ELSE C)
<1>3. /\ Rollback \in Seq(Steps) /\ WithoutRepeats(Rollback) /\ Elements(Rollback) = All
      /\ \A x, y : Before(OrderOf(pg), x, y) /\ IsStarted(pg, x) /\ IsStarted(pg, y) =>
           Before(Rollback, Do("stop", pg, y), Do("stop", pg, x))
  BY <1>2, RollbackIs DEF Lists
<1>4. /\ op' \in Operations /\ op'.kind = op.kind /\ op'.pg = op.pg /\ op'.ag = op.ag
      /\ op'.phase = "rollback" /\ op'.todo = Rollback /\ op'.seen = op.seen
  BY <1>2, <1>3 DEF Operations
<1>5. Busy'
  BY <1>4 DEF Busy
<1>6. \A s \in All : \/ \E x \in Plugins : s = Do("stop", pg, x)
                     \/ op.kind # "plugins" /\ \E a \in Adapters : s = Do("close", ag, a)
  BY <1>2, OrderFacts
<1>7. \A x : Do("stop", pg, x) \in All <=> x \in Elements(OrderOf(pg)) /\ IsStarted(pg, x)
  BY DoIs
<1>8. op.kind # "plugins" => \A a \in Adapters : Do("close", ag, a) \in All
  OBVIOUS
<1> HIDE DEF All
<1>9. Control'
  BY <1>1, <1>2, <1>3, <1>4, <1>5 DEF StagingInv, Control
<1>10. Agenda'
  BY <1>1, <1>3, <1>4, <1>5, <1>6 DEF Agenda
<1>11. OrdersOK'
  BY <1>1, Frames
<1>12. Undecided' <=> Undecided
  BY <1>4, <1>5 DEF Undecided
<1>13. PluginsOK'
  <2>1. \A x \in Plugins : IsStarted(pg, x) => Do("stop", pg, x) \in All
    BY <1>2, <1>7, BusyIs DEF StagingInv, PluginsOK
  <2>2. ASSUME NEW e \in resolved[pg].edges, IsStarted(pg, e[2]), Do("stop", pg, e[1]) \in All
        PROVE  Before(Rollback, Do("stop", pg, e[2]), Do("stop", pg, e[1]))
    <3>1. e[2] \in Elements(OrderOf(pg)) /\ IsStarted(pg, e[1])
      BY <1>2, <1>7, <2>2, BusyIs DEF StagingInv, PluginsOK, OrdersOK
    <3>2. Before(OrderOf(pg), e[1], e[2])
      BY <1>2, <3>1 DEF StagingInv, OrdersOK
    <3>. QED
      BY <1>3, <2>2, <3>1, <3>2
  <2>3. Stops(pg)'
    BY <1>1, <1>3, <1>4, <2>1, <2>2 DEF Stops, IsStarted, Awaits, Sooner
  <2>. QED
    BY <1>1, <1>2, <1>4, <1>5, <1>12, <2>3
       DEF StagingInv, PluginsOK, EdgesUp, IsStarted, OrderOf, AllStarted, Running
<1>14. AdaptersOK'
  BY <1>1, <1>2, <1>3, <1>4, <1>5, <1>8, <1>12
     DEF StagingInv, AdaptersOK, IsOpen, IsServing, Running, Replacing, Awaits
<1>15. WatchOK'
  BY <1>1, <1>4, <1>5, <1>12 DEF StagingInv, WatchOK, Known, Running
<1>. QED
  BY <1>4, <1>5, <1>9, <1>10, <1>11, <1>13, <1>14, <1>15

LEMMA StartFailsKeeps ==
  ASSUME StagingInv, StartFails
  PROVE  StagingInv'
<1>1. /\ Busy /\ op.phase = "staging" /\ HasStep("start") /\ StartupWrites
      /\ UNCHANGED <<instances, flags, watch>>
      /\ op' = [op EXCEPT !.phase = "rollback", !.todo = Rollback]
  BY StepIs, StartStep DEF StartFails
<1>2. UNCHANGED <<gen, resolved, plugins, adapters, tasks, active, pg, ag, committed, serving,
                  stopping, booted, complete, failures, disk, loaded, seen, blind>>
  BY <1>1 DEF instances, flags, watch
<1>3. /\ op' \in Operations /\ Busy' /\ op'.kind = op.kind /\ op'.pg = op.pg
      /\ op'.phase = "rollback"
      /\ Control' /\ Agenda' /\ OrdersOK' /\ PluginsOK' /\ AdaptersOK' /\ WatchOK'
  BY <1>1, RollingBack
<1>4. /\ StateOK'
      /\ top' \in [Generations -> SUBSET Writes] /\ deep' \in [Generations -> SUBSET Writes]
      /\ store' = store /\ saved' = saved /\ cell' = cell
      /\ written' = written /\ secured' = secured /\ unsaved' = unsaved
  BY <1>1, <1>2, <1>3, StartupState DEF StartupWrites
<1>5. TypesOK'
  BY <1>2, <1>3, <1>4 DEF StagingInv, TypesOK, TypeOK
<1>. QED
  BY <1>3, <1>4, <1>5 DEF StagingInv

LEMMA SnapshotFailsKeeps ==
  ASSUME StagingInv, SnapshotFails
  PROVE  StagingInv'
<1>1. /\ Busy /\ op.phase = "staging" /\ op.todo = << >>
      /\ UNCHANGED <<instances, flags, state, watch>>
  BY DEF SnapshotFails, StagingEnds
<1>2. /\ UNCHANGED <<gen, resolved, plugins, adapters, tasks, active, pg, ag, committed, serving,
                  stopping, booted, complete, failures, disk, loaded, seen, blind>>
      /\ UNCHANGED <<store, saved, top, deep, cell, written, secured, unsaved>>
  BY <1>1 DEF instances, flags, watch, state
<1>3. CASE op.kind = "bootstrap"
  <2>1. op' = Idle /\ ~Busy'
    BY <1>3, IdleIs DEF SnapshotFails, Busy
  <2>2. ~booted /\ ~complete /\ op.pg = 0 /\ op.ag = 0 /\ gen # 0
    BY <1>1, <1>3 DEF StagingInv, Control
  <2>3. TypesOK'
    BY <1>2, <2>1 DEF StagingInv, TypesOK, TypeOK
  <2>4. Control' /\ Agenda' /\ OrdersOK'
    BY <1>2, <2>1, <2>2, Frames DEF StagingInv, Control, Agenda
  <2>5. PluginsOK'
    BY <1>2, <2>1, <2>2 DEF StagingInv, PluginsOK, EdgesUp, IsStarted, OrderOf, Running,
                            Undecided
  <2>6. AdaptersOK'
    BY <1>2, <2>1, <2>2 DEF StagingInv, AdaptersOK, IsOpen, IsServing, Running, Undecided,
                            Replacing
  <2>7. StateOK' /\ WatchOK'
    BY <1>2, <2>1, <2>2 DEF StagingInv, StateOK, WatchOK, Content, Known, Running, Undecided
  <2>. QED
    BY <2>3, <2>4, <2>5, <2>6, <2>7 DEF StagingInv
<1>4. CASE op.kind # "bootstrap"
  <2>1. op' = [op EXCEPT !.phase = "rollback", !.todo = Rollback]
    BY <1>4 DEF SnapshotFails
  <2>2. /\ op' \in Operations /\ Busy' /\ op'.kind = op.kind /\ op'.pg = op.pg
        /\ op'.phase = "rollback"
        /\ Control' /\ Agenda' /\ OrdersOK' /\ PluginsOK' /\ AdaptersOK' /\ WatchOK'
    BY <1>1, <2>1, RollingBack
  <2>3. TypesOK'
    BY <1>2, <2>2 DEF StagingInv, TypesOK, TypeOK
  <2>4. Undecided' <=> Undecided
    BY <1>1, <2>2 DEF Undecided
  <2>5. StateOK'
    BY <1>1, <1>2, <2>2, <2>4 DEF StagingInv, StateOK, Content
  <2>. QED
    BY <2>2, <2>3, <2>5 DEF StagingInv
<1>. QED
  BY <1>3, <1>4

----------------------------------------------------------------------------
(* Staging succeeds *)

LEMMA ReplacementIs ==
  ASSUME StagingInv, Busy, op.phase = "staging"
  PROVE  /\ Lists(Replacement,
                  (IF op.kind = "config"
                   THEN {Do("close", op.ag, a) : a \in Adapters}
                        \cup {Do("end", op.ag, a) : a \in Adapters} \cup {Do("serve", ag, "all")}
                   ELSE {})
                  \cup (IF op.kind = "bootstrap" THEN {}
                        ELSE {Do("stop", op.pg, x) : x \in Elements(OrderOf(op.pg))}))
         /\ op.kind # "bootstrap" => StopsBackwards(Replacement, op.pg, OrderOf(op.pg))
<1> DEFINE A == {Do("close", op.ag, a) : a \in Adapters}
                \cup {Do("end", op.ag, a) : a \in Adapters}
           served == Append(StopAdapters(op.ag), Do("serve", ag, "all"))
           first == IF op.kind = "config" THEN served ELSE << >>
           F == IF op.kind = "config" THEN A \cup {Do("serve", ag, "all")} ELSE {}
           then == IF op.kind = "bootstrap" THEN << >> ELSE ShutdownPlugins(op.pg)
           T == IF op.kind = "bootstrap" THEN {}
                ELSE {Do("stop", op.pg, x) : x \in Elements(OrderOf(op.pg))}
<1>1. op.kind \in {"bootstrap", "plugins", "config"} /\ ag \in Generations
  BY BusyIs DEF StagingInv, Control, TypesOK, TypeOK, Operations, Kinds
<1>2. Lists(first, F)
  <2>1. CASE op.kind = "config"
    <3>1. op.ag \in Generations
      BY <2>1, OldIs
    <3>2. Lists(StopAdapters(op.ag), A)
      BY <3>1, ClosingIs
    <3>3. Do("serve", ag, "all") \in Steps /\ Do("serve", ag, "all") \notin A
      BY <1>1, StepsAre, DoIs
    <3> HIDE DEF A
    <3>4. Lists(served, A \cup {Do("serve", ag, "all")})
      BY <3>2, <3>3, AppendProperties, AppendElements, AppendWithoutRepeats DEF Lists
    <3>. QED
      BY <2>1, <3>4
  <2>2. CASE op.kind # "config"
    BY <2>2, ListsNothing
  <2>. QED
    BY <2>1, <2>2
<1>3. /\ Lists(then, T)
      /\ op.kind # "bootstrap" => StopsBackwards(then, op.pg, OrderOf(op.pg))
  <2>1. CASE op.kind # "bootstrap"
    <3>1. op.pg \in 1 .. gen
      BY <1>1, <2>1, OldIs
    <3>2. /\ Lists(ShutdownPlugins(op.pg), {Do("stop", op.pg, x) : x \in Elements(OrderOf(op.pg))})
          /\ StopsBackwards(ShutdownPlugins(op.pg), op.pg, OrderOf(op.pg))
      BY <3>1, OrderFacts, ShutdownPluginsIs
    <3>. QED
      BY <2>1, <3>2
  <2>2. CASE op.kind = "bootstrap"
    BY <2>2, ListsNothing
  <2>. QED
    BY <2>1, <2>2
<1>4. F \cap T = {}
  BY DoIs
<1>5. Replacement = first \o then
  BY DEF Replacement
<1> HIDE DEF F, T, first, then
<1>6. /\ Lists(first \o then, F \cup T)
      /\ \A x, y : Before(then, x, y) => Before(first \o then, x, y)
  BY <1>2, <1>3, <1>4, ListsConcat
<1>7. op.kind # "bootstrap" => StopsBackwards(Replacement, op.pg, OrderOf(op.pg))
  BY <1>3, <1>5, <1>6 DEF StopsBackwards
<1>. QED
  BY <1>5, <1>6, <1>7 DEF F, T

LEMMA StagedKeeps ==
  ASSUME StagingInv, Staged
  PROVE  StagingInv'
<1>1. /\ Busy /\ op.phase = "staging" /\ op.todo = << >>
      /\ op' = [op EXCEPT !.phase = "commit", !.todo = Replacement, !.seen = Snapshot]
      /\ committed' = committed \cup {pg}
      /\ active' = IF op.kind = "config" THEN active \ {op.ag} ELSE active
      /\ seen' = IF op.kind = "config" THEN seen ELSE Snapshot
      /\ UNCHANGED <<gen, resolved, plugins, adapters, tasks, pg, ag, serving, stopping, booted,
                  complete, failures, disk, loaded, blind>>
      /\ UNCHANGED <<store, saved, top, deep, cell, written, secured, unsaved>>
  BY DEF Staged, StagingEnds, flags, state
<1>2. /\ op \in Operations /\ op.kind \in Kinds /\ pg \in 1 .. gen /\ ~complete
      /\ disk \in [Parts -> Versions]
  BY <1>1, BusyIs DEF StagingInv, Control, TypesOK, TypeOK, Operations
<1> DEFINE A == {Do("close", op.ag, a) : a \in Adapters}
                \cup {Do("end", op.ag, a) : a \in Adapters}
           F == IF op.kind = "config" THEN A \cup {Do("serve", ag, "all")} ELSE {}
           T == IF op.kind = "bootstrap" THEN {}
                ELSE {Do("stop", op.pg, x) : x \in Elements(OrderOf(op.pg))}
           All == F \cup T
<1>3. /\ Replacement \in Seq(Steps) /\ WithoutRepeats(Replacement) /\ Elements(Replacement) = All
      /\ op.kind # "bootstrap" => StopsBackwards(Replacement, op.pg, OrderOf(op.pg))
  BY <1>1, ReplacementIs DEF Lists
<1>4. /\ op' \in Operations /\ op'.kind = op.kind /\ op'.pg = op.pg /\ op'.ag = op.ag
      /\ op'.phase = "commit" /\ op'.todo = Replacement /\ op'.seen = Snapshot
  BY <1>1, <1>2, <1>3 DEF Operations, Snapshot
<1>5. Busy' /\ ~Undecided'
  BY <1>1, <1>4 DEF Busy, Undecided
<1>6. ASSUME op.kind # "bootstrap"
      PROVE  op.pg \in 1 .. gen /\ op.pg < pg /\ Undecided /\ op.ag \in 1 .. gen
  BY <1>1, <1>2, <1>6, OldIs DEF Kinds, Undecided
<1>7. \A s \in All :
        \/ op.kind # "bootstrap" /\ \E x \in Plugins : s = Do("stop", op.pg, x)
        \/ /\ op.kind = "config"
           /\ \/ \E a \in Adapters : s \in {Do("close", op.ag, a), Do("end", op.ag, a)}
              \/ s = Do("serve", ag, "all")
  BY <1>6, OrderFacts
<1>8. op.kind # "bootstrap" =>
        \A x : Do("stop", op.pg, x) \in All <=> x \in Elements(OrderOf(op.pg))
  BY DoIs
<1>9. op.kind = "config" =>
        /\ \A a \in Adapters : Do("close", op.ag, a) \in All /\ Do("end", op.ag, a) \in All
        /\ Do("serve", ag, "all") \in All
  OBVIOUS
<1> HIDE DEF All
<1>10. TypesOK'
  BY <1>1, <1>2, <1>4 DEF StagingInv, TypesOK, TypeOK, Snapshot
<1>11. Control'
  BY <1>1, <1>2, <1>3, <1>4, <1>5 DEF StagingInv, Control, Kinds
<1>12. Agenda'
  BY <1>1, <1>3, <1>4, <1>5, <1>7 DEF Agenda
<1>13. OrdersOK'
  BY <1>1, Frames
<1>14. \A x \in Elements(OrderOf(pg)) : IsStarted(pg, x)
  <2>1. \A x : ~Awaits("start", pg, x)
    BY <1>1 DEF Awaits, Elements
  <2>. QED
    BY <1>1, <2>1 DEF StagingInv, PluginsOK
<1>15. PluginsOK'
  <2>1. ASSUME op.kind = "bootstrap" PROVE \A x \in Plugins : ~IsStarted(op.pg, x)
    <3>1. op.pg = 0 /\ 0 \notin 1 .. gen /\ 0 \in Generations
      BY <1>1, <2>1, BusyIs DEF StagingInv, Control
    <3>. QED
      BY <3>1 DEF StagingInv, PluginsOK
  <2>2. ASSUME op.kind # "bootstrap"
        PROVE  /\ \A x \in Plugins : IsStarted(op.pg, x) => Do("stop", op.pg, x) \in All
               /\ \A e \in resolved[op.pg].edges :
                    IsStarted(op.pg, e[2]) /\ Do("stop", op.pg, e[1]) \in All =>
                      Before(Replacement, Do("stop", op.pg, e[2]), Do("stop", op.pg, e[1]))
    <3>1. op.pg \in 1 .. gen /\ op.pg \in Generations
      BY <1>6, <2>2, BusyIs
    <3>2. \A x \in Plugins : IsStarted(op.pg, x) => x \in Elements(OrderOf(op.pg))
      BY <3>1 DEF StagingInv, PluginsOK
    <3>3. ASSUME NEW e \in resolved[op.pg].edges, IsStarted(op.pg, e[2])
          PROVE  Before(OrderOf(op.pg), e[1], e[2])
      BY <3>1, <3>2, <3>3 DEF StagingInv, OrdersOK
    <3>. QED
      BY <1>3, <1>8, <2>2, <3>2, <3>3 DEF StopsBackwards
  <2>. QED
    BY <1>1, <1>2, <1>3, <1>4, <1>5, <1>14, <2>1, <2>2
       DEF StagingInv, PluginsOK, EdgesUp, Stops, IsStarted, OrderOf, AllStarted, NoneStarted,
           Range, Elements, Running, Awaits, Sooner
<1>16. AdaptersOK'
  <2>1. \A a \in Adapters : IsOpen(ag, a)
    <3>1. CASE op.kind = "plugins"
      BY <1>6, <3>1, OldIs, <1>1 DEF StagingInv, AdaptersOK
    <3>2. CASE op.kind # "plugins"
      BY <1>1, <3>2 DEF StagingInv, AdaptersOK
    <3>. QED
      BY <3>1, <3>2
  <2>. QED
    BY <1>1, <1>2, <1>3, <1>4, <1>5, <1>9, <2>1
       DEF StagingInv, AdaptersOK, IsOpen, IsServing, Running, Replacing, Awaits
<1>17. StateOK'
  BY <1>1, <1>4, <1>5 DEF StagingInv, StateOK, Content
<1>18. WatchOK'
  BY <1>1, <1>2, <1>3, <1>4, <1>5, <1>9 DEF StagingInv, WatchOK, Running, Awaits
<1>. QED
  BY <1>10, <1>11, <1>12, <1>13, <1>15, <1>16, <1>17, <1>18 DEF StagingInv

----------------------------------------------------------------------------
(* What is replaced, rolled back or torn down goes *)

LEMMA CloseAdapterKeeps ==
  ASSUME StagingInv, CloseAdapter
  PROVE  StagingInv'
<1> DEFINE a == NextStep.who
           g == NextStep.gen
<1>1. /\ Busy /\ op.todo # << >> /\ NextStep.what = "close" /\ Proceed
      /\ a \in Adapters /\ NextStep = Do("close", g, a)
      /\ \/ op.phase = "rollback" /\ op.kind # "plugins" /\ g = ag
         \/ op.phase = "teardown" /\ g = ag
         \/ op.phase = "commit" /\ op.kind = "config" /\ g = op.ag
  BY StepIs, CloseStep DEF CloseAdapter
<1>2. /\ adapters' = [adapters EXCEPT ![g][a] = "closed"]
      /\ UNCHANGED <<gen, resolved, plugins, tasks, active, pg, ag, committed, serving, stopping,
                  booted, complete, failures, disk, loaded, seen, blind>>
      /\ UNCHANGED state /\ UNCHANGED <<store, saved, top, deep, cell, written, secured, unsaved>>
  BY DEF CloseAdapter, flags, state, watch
<1>3. /\ op' \in Operations /\ Busy'
      /\ op'.kind = op.kind /\ op'.phase = op.phase /\ op'.pg = op.pg /\ op'.ag = op.ag
      /\ Elements(op.todo) = {NextStep} \cup Elements(op'.todo)
      /\ \A s, b : Before(op.todo, s, b) /\ s # NextStep => Before(op'.todo, s, b)
  BY <1>1, Popped
<1>4. g \in Generations /\ ag \in Generations
  BY <1>1, OldIs DEF StagingInv, TypesOK, TypeOK
<1>5. \A h, b : /\ Do("close", h, b) = NextStep <=> h = g /\ b = a
                /\ Do("end", h, b) # NextStep
  BY <1>1, DoIs
<1> HIDE DEF g, a
<1>6. \A h \in Generations, b \in Adapters :
        (adapters'[h][b] = "built") <=> IsOpen(h, b) /\ ~(h = g /\ b = a)
  BY <1>1, <1>2, <1>4 DEF StagingInv, TypesOK, TypeOK, IsOpen
<1>7. TypesOK'
  <2>1. adapters' \in [Generations -> [Adapters -> AdapterStates]]
    BY <1>1, <1>2, <1>4 DEF StagingInv, TypesOK, TypeOK, AdapterStates
  <2>. QED
    BY <1>2, <1>3, <2>1 DEF StagingInv, TypesOK, TypeOK
<1>8. Control' /\ Agenda' /\ OrdersOK' /\ PluginsOK' /\ StateOK' /\ WatchOK'
  BY <1>1, <1>2, PoppedFrames, Frames
<1>9. AdaptersOK'
  <2>1. \A h, b : /\ Awaits("close", h, b) /\ ~(h = g /\ b = a) =>
                       Do("close", h, b) \in Elements(op'.todo)
                  /\ Awaits("end", h, b) => Do("end", h, b) \in Elements(op'.todo)
    BY <1>3, <1>5 DEF Awaits
  <2>2. \A h, b, s : Sooner(Do("end", h, b), s) => Before(op'.todo, Do("end", h, b), s)
    BY <1>3, <1>5 DEF Sooner
  <2>3. \A s : s \in Elements(op'.todo) => s \in Elements(op.todo)
    BY <1>3
  <2>4. op.phase # "staging" /\ ~complete
    BY <1>1 DEF StagingInv, Control
  <2>5. Undecided => op.ag \in Generations /\ (g = ag => op.kind = "config" /\ op.ag # g)
    BY <1>1, OldIs, BusyIs DEF Undecided, StagingInv, Control
  <2>6. Undecided' <=> Undecided
    BY <1>1, <1>3 DEF Undecided
  <2>7. CASE op.phase = "commit"
    <3>1. op.ag \in Generations /\ g = op.ag /\ op.ag # ag /\ op.kind = "config"
      BY <1>1, <2>7, OldIs, BusyIs
    <3>. QED
      BY <1>1, <1>2, <1>3, <1>4, <1>6, <2>1, <2>4, <2>7, <3>1
         DEF StagingInv, AdaptersOK, IsOpen, IsServing, Running, Undecided, Replacing, Awaits
  <2>8. CASE op.phase = "rollback"
    <3>1. g = ag /\ op.kind # "plugins"
      BY <1>1, <2>8
    <3>. QED
      BY <1>1, <1>2, <1>3, <1>4, <1>6, <2>1, <2>4, <2>5, <2>6, <2>8, <3>1
         DEF StagingInv, AdaptersOK, IsOpen, IsServing, Running, Replacing, Awaits
  <2>9. CASE op.phase = "teardown"
    <3>1. g = ag /\ ~Undecided
      BY <1>1, <2>9 DEF Undecided
    <3>. QED
      BY <1>1, <1>2, <1>3, <1>4, <1>6, <2>1, <2>2, <2>3, <2>4, <2>6, <2>9, <3>1
         DEF StagingInv, AdaptersOK, IsOpen, IsServing, IsStarted, OrderOf, AllStarted,
             Running, Replacing, Awaits, Sooner
  <2>. QED
    BY <1>1, <2>7, <2>8, <2>9
<1>. QED
  BY <1>7, <1>8, <1>9 DEF StagingInv

LEMMA EndTaskKeeps ==
  ASSUME StagingInv, EndTask
  PROVE  StagingInv'
<1> DEFINE a == NextStep.who
           g == NextStep.gen
<1>1. /\ Busy /\ op.todo # << >> /\ NextStep.what = "end" /\ Proceed
      /\ a \in Adapters /\ NextStep = Do("end", g, a)
      /\ \/ op.phase = "teardown" /\ g = ag
         \/ op.phase = "commit" /\ op.kind = "config" /\ g = op.ag
  BY StepIs, EndStep DEF EndTask
<1>2. /\ tasks' = [tasks EXCEPT ![g][a] = IF @ = "none" THEN @ ELSE "ended"]
      /\ UNCHANGED <<gen, resolved, plugins, adapters, active, pg, ag, committed, serving,
                  stopping, booted, complete, failures, disk, loaded, seen, blind>>
      /\ UNCHANGED state /\ UNCHANGED <<store, saved, top, deep, cell, written, secured, unsaved>>
  BY DEF EndTask, flags, state, watch
<1>3. /\ op' \in Operations /\ Busy'
      /\ op'.kind = op.kind /\ op'.phase = op.phase /\ op'.pg = op.pg /\ op'.ag = op.ag
      /\ Elements(op.todo) = {NextStep} \cup Elements(op'.todo)
      /\ \A s, b : Before(op.todo, s, b) /\ s # NextStep => Before(op'.todo, s, b)
  BY <1>1, Popped
<1>4. g \in Generations /\ ag \in Generations
  BY <1>1, OldIs DEF StagingInv, TypesOK, TypeOK
<1>5. \A h, b : /\ Do("end", h, b) = NextStep <=> h = g /\ b = a
                /\ Do("close", h, b) # NextStep
  BY <1>1, DoIs
<1> HIDE DEF g, a
<1>6. \A h \in Generations, b \in Adapters :
        (tasks'[h][b] = "running") <=> IsServing(h, b) /\ ~(h = g /\ b = a)
  BY <1>1, <1>2, <1>4 DEF StagingInv, TypesOK, TypeOK, IsServing
<1>7. TypesOK'
  <2>1. tasks' \in [Generations -> [Adapters -> TaskStates]]
    BY <1>1, <1>2, <1>4 DEF StagingInv, TypesOK, TypeOK, TaskStates
  <2>. QED
    BY <1>2, <1>3, <2>1 DEF StagingInv, TypesOK, TypeOK
<1>8. Control' /\ Agenda' /\ OrdersOK' /\ PluginsOK' /\ StateOK' /\ WatchOK'
  BY <1>1, <1>2, PoppedFrames, Frames
<1>9. AdaptersOK'
  <2>1. \A h, b : /\ Awaits("end", h, b) /\ ~(h = g /\ b = a) =>
                       Do("end", h, b) \in Elements(op'.todo)
                  /\ Awaits("close", h, b) => Do("close", h, b) \in Elements(op'.todo)
    BY <1>3, <1>5 DEF Awaits
  <2>2. \A h, b, s : Sooner(Do("end", h, b), s) /\ ~(h = g /\ b = a) =>
                       Before(op'.todo, Do("end", h, b), s)
    BY <1>3, <1>5 DEF Sooner
  <2>3. \A s : s \in Elements(op'.todo) => s \in Elements(op.todo)
    BY <1>3
  <2>4. ~complete /\ ~Undecided /\ ~Undecided'
    BY <1>1, <1>3 DEF StagingInv, Control, Undecided
  <2>5. ASSUME op.phase = "commit"
        PROVE  op.ag \in Generations /\ g = op.ag /\ op.ag # ag /\ op.kind = "config"
    BY <1>1, <2>5, OldIs, BusyIs
  <2>6. op.phase = "teardown" => g = ag
    BY <1>1
  <2>7. Do("end", g, a) \notin Elements(op'.todo)
    BY <1>1, Popped DEF g, a
  <2>8. op.phase \in {"commit", "teardown"}
    BY <1>1
  <2>. QED
    BY <1>1, <1>2, <1>3, <1>4, <1>6, <2>1, <2>2, <2>3, <2>4, <2>5, <2>6, <2>7, <2>8
       DEF StagingInv, AdaptersOK, IsOpen, IsServing, IsStarted, OrderOf, AllStarted,
           Running, Replacing, Awaits, Sooner
<1>. QED
  BY <1>7, <1>8, <1>9 DEF StagingInv

LEMMA ServeNewKeeps ==
  ASSUME StagingInv, ServeNew
  PROVE  StagingInv'
<1>1. /\ Busy /\ op.todo # << >> /\ NextStep.what = "serve" /\ Proceed
      /\ NextStep = Do("serve", ag, "all") /\ NextStep.gen = ag
      /\ op.phase = "commit" /\ op.kind = "config"
  BY StepIs, ServeStep DEF ServeNew
<1>2. /\ IF serving THEN active' = active \cup {ag}
                         /\ tasks' = [tasks EXCEPT ![ag] = [a \in Adapters |-> "running"]]
         ELSE UNCHANGED <<active, tasks>>
      /\ seen' = op.seen
      /\ UNCHANGED <<gen, resolved, plugins, adapters, pg, ag, committed, serving,
                  stopping, booted, complete, failures, disk, loaded, blind>>
      /\ UNCHANGED state /\ UNCHANGED <<store, saved, top, deep, cell, written, secured, unsaved>>
  BY <1>1 DEF ServeNew, StartAdapters, flags, state
<1>3. /\ op' \in Operations /\ Busy'
      /\ op'.kind = op.kind /\ op'.phase = op.phase /\ op'.pg = op.pg /\ op'.ag = op.ag
      /\ op'.seen = op.seen
      /\ Elements(op.todo) = {NextStep} \cup Elements(op'.todo)
  BY <1>1, Popped
<1>4. ag \in Generations /\ op.ag \in Generations /\ op.ag # ag /\ booted /\ ~complete
  <2>1. op.ag \in Nat /\ ag \in Nat /\ op.ag < ag /\ op.ag \in Generations
    BY <1>1, OldIs, BusyIs
  <2>2. ag \in Generations /\ booted /\ ~complete
    BY <1>1 DEF StagingInv, Control, TypesOK, TypeOK
  <2>. QED
    BY <2>1, <2>2
<1>5. \A h \in Generations, a \in Adapters :
        /\ (tasks'[h][a] = "running") => IsServing(h, a) \/ h = ag
        /\ tasks'[h][a] \in TaskStates
  BY <1>2, <1>4 DEF StagingInv, TypesOK, TypeOK, TaskStates, IsServing
<1>6. TypesOK'
  <2>1. tasks' \in [Generations -> [Adapters -> TaskStates]]
    <3>1. tasks \in [Generations -> [Adapters -> TaskStates]] /\ "running" \in TaskStates
      BY DEF StagingInv, TypesOK, TypeOK, TaskStates
    <3>2. [a \in Adapters |-> "running"] \in [Adapters -> TaskStates]
      BY <3>1
    <3>3. CASE serving
      BY <1>2, <1>4, <3>1, <3>2, <3>3
    <3>4. CASE ~serving
      BY <1>2, <3>1, <3>4
    <3>. QED
      BY <3>3, <3>4
  <2>2. active' \subseteq Generations
    BY <1>1, <1>2, <1>4 DEF StagingInv, TypesOK, TypeOK
  <2>3. seen' \in [Parts -> Versions]
    <3>1. op \in Operations
      BY <1>1, BusyIs
    <3>. QED
      BY <1>1, <1>2, <3>1 DEF Operations
  <2>. QED
    BY <1>2, <1>3, <2>1, <2>2, <2>3 DEF StagingInv, TypesOK, TypeOK
<1>7. Control' /\ Agenda' /\ OrdersOK' /\ PluginsOK' /\ StateOK'
  BY <1>1, <1>2, PoppedFrames, Frames
<1>8. AdaptersOK'
  <2>1. \A h, a : /\ Awaits("close", h, a) => Do("close", h, a) \in Elements(op'.todo)
                  /\ Awaits("end", h, a) => Do("end", h, a) \in Elements(op'.todo)
    BY <1>1, <1>3, DoIs DEF Awaits
  <2>2. ~Undecided'
    BY <1>1, <1>3 DEF Undecided
  <2>. QED
    BY <1>1, <1>2, <1>3, <1>4, <1>5, <2>1, <2>2
       DEF StagingInv, AdaptersOK, IsOpen, IsServing, Running, Replacing, Awaits
<1>9. WatchOK'
  BY <1>1, <1>2, <1>3, <1>4 DEF WatchOK, Running, Undecided
<1>. QED
  BY <1>6, <1>7, <1>8, <1>9 DEF StagingInv

LEMMA StopPluginKeeps ==
  ASSUME StagingInv, StopPlugin
  PROVE  StagingInv'
<1> DEFINE x == NextStep.who
           g == NextStep.gen
           Up(h, y) == plugins'[h][y] = "started"
<1>1. /\ Busy /\ op.todo # << >> /\ NextStep.what = "stop" /\ Proceed
      /\ x \in Plugins /\ NextStep = Do("stop", g, x) /\ NextStep \in Elements(op.todo)
      /\ \/ op.phase \in {"rollback", "teardown"} /\ g = pg
         \/ op.phase = "commit" /\ g = op.pg /\ op.kind \in {"plugins", "config"}
  BY StepIs, StopStep DEF StopPlugin
<1>2. /\ plugins' = [plugins EXCEPT ![g][x] = "stopped"]
      /\ IF op.kind = "shutdown" /\ x = Keeper
         THEN \/ saved' = Content(pg) /\ secured' = written /\ unsaved' = unsaved
              \/ saved' = saved /\ secured' = secured /\ unsaved' = TRUE
         ELSE saved' = saved /\ secured' = secured /\ unsaved' = unsaved
      /\ UNCHANGED <<gen, resolved, adapters, tasks, active, pg, ag, committed, serving,
                  stopping, booted, complete, failures, disk, loaded, seen, blind>>
      /\ UNCHANGED <<store, top, deep, cell, written>>
  BY DEF StopPlugin, SaveSucceeds, SaveFails, flags, watch
<1>3. /\ op' \in Operations /\ Busy'
      /\ op'.kind = op.kind /\ op'.phase = op.phase /\ op'.pg = op.pg /\ op'.ag = op.ag
      /\ Elements(op.todo) = {NextStep} \cup Elements(op'.todo)
      /\ \A s : ~Before(op.todo, s, NextStep)
      /\ \A s, b : Before(op.todo, s, b) /\ s # NextStep => Before(op'.todo, s, b)
  BY <1>1, Popped
<1>4. /\ pg \in 1 .. gen /\ pg \in Generations /\ g \in Generations /\ ~complete
      /\ (op.kind = "shutdown" <=> op.phase = "teardown")
  <2>1. pg # 0 /\ ~complete /\ gen \in Nat /\ pg \in Nat /\ pg <= gen
        /\ (op.kind = "shutdown" <=> op.phase = "teardown")
    BY <1>1, BusyIs DEF StagingInv, Control, TypesOK, TypeOK, Generations
  <2>2. pg \in 1 .. gen
    BY <2>1
  <2>. QED
    BY <1>1, <2>1, <2>2, OldIs, BusyIs
<1>5. \A h, y : Do("stop", h, y) = NextStep <=> h = g /\ y = x
  BY <1>1, DoIs
<1>6. op.phase = "commit" => g # pg /\ g = op.pg /\ op.kind \in {"plugins", "config"}
  BY <1>1, OldIs
<1> HIDE DEF g, x
<1>7. \A h \in Generations, y \in Plugins :
        Up(h, y) <=> IsStarted(h, y) /\ ~(h = g /\ y = x)
  BY <1>1, <1>2, <1>4 DEF StagingInv, TypesOK, TypeOK, IsStarted
<1> HIDE DEF Up
<1>8. TypesOK'
  <2>1. plugins' \in [Generations -> [Plugins -> PluginStates]]
    BY <1>1, <1>2, <1>4 DEF StagingInv, TypesOK, TypeOK, PluginStates
  <2>2. Content(pg) \in [Places -> SUBSET Writes]
    BY <1>4 DEF StagingInv, TypesOK, TypeOK, Content, Places
  <2>3. saved' \in [Places -> SUBSET Writes] /\ secured' \subseteq Writes /\ unsaved' \in BOOLEAN
    BY <1>2, <2>2 DEF StagingInv, TypesOK, TypeOK
  <2>. QED
    BY <1>2, <1>3, <2>1, <2>3 DEF StagingInv, TypesOK, TypeOK
<1>9. Control' /\ Agenda' /\ OrdersOK' /\ WatchOK'
  BY <1>1, <1>2, PoppedFrames, Frames
<1>10. \A h, y : Awaits("stop", h, y) /\ ~(h = g /\ y = x) => Do("stop", h, y) \in Elements(op'.todo)
  BY <1>3, <1>5 DEF Awaits
<1>11. \A h, y, s : Sooner(Do("stop", h, y), s) /\ ~(h = g /\ y = x) =>
                      Before(op'.todo, Do("stop", h, y), s)
  BY <1>3, <1>5 DEF Sooner
<1>12. \A s : s \in Elements(op'.todo) => s \in Elements(op.todo)
  BY <1>3
<1>13. Stops(g)
  BY <1>1, <1>4 DEF StagingInv, PluginsOK
<1>14. /\ \A y \in Plugins : Up(g, y) => Do("stop", g, y) \in Elements(op'.todo)
       /\ \A e \in resolved[g].edges :
            Up(g, e[2]) /\ Do("stop", g, e[1]) \in Elements(op'.todo) =>
              Before(op'.todo, Do("stop", g, e[2]), Do("stop", g, e[1]))
  <2>1. ASSUME NEW y \in Plugins, Up(g, y)
        PROVE  Do("stop", g, y) \in Elements(op'.todo)
    BY <1>4, <1>7, <1>10, <1>13, <2>1 DEF Stops
  <2>2. ASSUME NEW e \in resolved[g].edges, Up(g, e[2]),
               Do("stop", g, e[1]) \in Elements(op'.todo)
        PROVE  Before(op'.todo, Do("stop", g, e[2]), Do("stop", g, e[1]))
    <3>1. g \in 1 .. gen
      BY <1>1, <1>4, OldIs DEF g
    <3>2. e[2] \in Plugins
      BY <3>1 DEF StagingInv, OrdersOK
    <3>3. IsStarted(g, e[2]) /\ e[2] # x
      BY <1>4, <1>7, <2>2, <3>2
    <3>4. Sooner(Do("stop", g, e[2]), Do("stop", g, e[1]))
      BY <1>12, <1>13, <2>2, <3>3 DEF Stops, Awaits
    <3>. QED
      BY <1>11, <3>3, <3>4
  <2>. QED
    BY <2>1, <2>2
<1>15. \A h \in 1 .. gen : \A e \in resolved[h].edges : Up(h, e[2]) => Up(h, e[1])
  <2> SUFFICES ASSUME NEW h \in 1 .. gen, NEW e \in resolved[h].edges, Up(h, e[2])
               PROVE  Up(h, e[1])
    OBVIOUS
  <2>1. h \in Generations /\ e[1] \in Plugins /\ e[2] \in Plugins
    BY BusyIs DEF StagingInv, OrdersOK
  <2>2. IsStarted(h, e[2]) /\ IsStarted(h, e[1])
    BY <1>7, <2>1 DEF StagingInv, PluginsOK, EdgesUp
  <2>3. ASSUME h = g, e[1] = x PROVE FALSE
    <3>1. Awaits("stop", g, e[1])
      BY <1>1, <1>5, <2>3 DEF Awaits
    <3>2. Sooner(Do("stop", g, e[2]), Do("stop", g, e[1]))
      BY <1>13, <2>2, <2>3, <3>1 DEF Stops
    <3>3. Do("stop", g, e[1]) = NextStep
      BY <1>5, <2>3
    <3>. QED
      BY <1>3, <3>2, <3>3 DEF Sooner
  <2>. QED
    BY <1>7, <2>1, <2>2, <2>3
<1>16. Undecided' <=> Undecided
  BY <1>1, <1>3 DEF Undecided
<1>17. ASSUME NEW h \in 1 .. gen, h # g, AllStarted(h)
       PROVE  \A y \in Elements(OrderOf(h)) : Up(h, y)
  BY <1>7, <1>17, AllStartedIs, OrderFacts
<1>18. Undecided => op.pg \in 1 .. gen /\ op.pg # g
  BY <1>1, <1>4, OldIs DEF Undecided, g
<1>19. PluginsOK'
  <2>1. \A h \in Generations, y \in Plugins : Up(h, y) => IsStarted(h, y)
    BY <1>7
  <2>2. ~Running' /\ ~complete' /\ op'.phase \in {"rollback", "commit", "teardown"}
    BY <1>1, <1>2, <1>3, <1>4 DEF Running
  <2>3. Undecided' => \A y \in Elements(OrderOf(op.pg)) : Up(op.pg, y)
    BY <1>16, <1>17, <1>18 DEF StagingInv, PluginsOK
  <2>4. op.phase = "commit" => \A y \in Elements(OrderOf(pg)) : Up(pg, y)
    BY <1>1, <1>4, <1>6, <1>17 DEF StagingInv, PluginsOK
  <2>5. op.phase # "commit" => g = pg
    BY <1>1
  <2>6. op.kind = "bootstrap" => op.phase # "commit"
    BY <1>6
  <2>. QED
    BY <1>1, <1>2, <1>3, <1>4, <1>6, <1>14, <1>15, <2>1, <2>2, <2>3, <2>4, <2>5, <2>6
       DEF StagingInv, PluginsOK, EdgesUp, Stops, IsStarted, Up, OrderOf, AllStarted,
           Range, Elements, Awaits, Sooner
<1>20. AdaptersOK'
  <2>1. CASE op.phase # "teardown"
    BY <1>1, <1>2, <2>1, PoppedFrames
  <2>2. CASE op.phase = "teardown"
    <3>1. \A a \in Adapters : ~IsServing(ag, a)
      <4> SUFFICES ASSUME NEW a \in Adapters, IsServing(ag, a) PROVE FALSE
        OBVIOUS
      <4>1. Awaits("end", ag, a) /\ Awaits("stop", pg, x)
        BY <1>1, <2>2 DEF StagingInv, AdaptersOK, Awaits, x, g
      <4>2. Sooner(Do("end", ag, a), Do("stop", pg, x))
        BY <1>1, <2>2, <4>1 DEF StagingInv, AdaptersOK, x
      <4>3. Do("stop", pg, x) = NextStep
        BY <1>1, <2>2
      <4>. QED
        BY <1>3, <4>2, <4>3 DEF Sooner
    <3>2. \A h, a : /\ Awaits("close", h, a) => Do("close", h, a) \in Elements(op'.todo)
                    /\ Awaits("end", h, a) => Do("end", h, a) \in Elements(op'.todo)
      BY <1>1, <1>3, DoIs DEF Awaits
    <3>3. \A h, a, s : Sooner(Do("end", h, a), s) => Before(op'.todo, Do("end", h, a), s)
      BY <1>1, <1>3, DoIs DEF Sooner
    <3>4. ~Undecided'
      BY <1>3, <2>2 DEF Undecided
    <3>. QED
      BY <1>1, <1>2, <1>3, <1>4, <1>12, <2>2, <3>1, <3>2, <3>3, <3>4
         DEF StagingInv, AdaptersOK, IsOpen, IsServing, Running, Replacing, Awaits, Sooner
  <2>. QED
    BY <2>1, <2>2
<1>21. StateOK'
  <2>1. op.phase = "teardown" =>
          \/ Do("stop", pg, Keeper) \in Elements(op'.todo)
          \/ unsaved' \/ \A at \in Places : written \subseteq saved'[at]
    <3>1. CASE op.phase = "teardown" /\ x = Keeper
      <4>1. (saved' = Content(pg) \/ unsaved') /\ booted
        BY <1>1, <1>2, <1>4, <3>1 DEF StagingInv, Control
      <4>. QED
        BY <1>4, <4>1 DEF StagingInv, StateOK
    <3>2. CASE op.phase = "teardown" /\ x # Keeper
      BY <1>1, <1>2, <1>10, <3>2 DEF StagingInv, StateOK
    <3>. QED
      BY <3>1, <3>2
  <2>2. \A at \in Places : secured' \subseteq saved'[at]
    <3>1. CASE saved' = saved /\ secured' = secured
      BY <3>1 DEF StagingInv, StateOK
    <3>2. CASE op.kind = "shutdown" /\ saved' = Content(pg) /\ secured' = written
      <4>1. booted
        BY <1>1, <3>2 DEF StagingInv, Control
      <4>. QED
        BY <1>4, <3>2, <4>1 DEF StagingInv, StateOK
    <3>. QED
      BY <1>2, <3>1, <3>2
  <2>. QED
    BY <1>2, <1>3, <1>4, <1>16, <2>1, <2>2 DEF StagingInv, StateOK, Content, Awaits
<1>. QED
  BY <1>8, <1>9, <1>19, <1>20, <1>21 DEF StagingInv

----------------------------------------------------------------------------
(* Operations end *)

LEMMA RollbackEndsKeeps ==
  ASSUME StagingInv, RollbackEnds
  PROVE  StagingInv'
<1>1. /\ Busy /\ op.phase = "rollback" /\ op.todo = << >> /\ op' = Idle
      /\ IF op.kind = "bootstrap" THEN UNCHANGED <<pg, ag>> ELSE pg' = op.pg /\ ag' = op.ag
      /\ UNCHANGED <<gen, resolved, plugins, adapters, tasks, active, committed, serving,
                  stopping, booted, complete, failures, disk, loaded, seen, blind>>
      /\ UNCHANGED <<store, saved, top, deep, cell, written, secured, unsaved>>
  BY DEF RollbackEnds, flags, state, watch
<1>2. ~Busy' /\ ~Undecided' /\ ~Replacing'
  BY <1>1, IdleIs DEF Busy, Undecided, Replacing
<1>3. \A what, g, x : ~Awaits(what, g, x)
  BY <1>1 DEF Awaits, Elements
<1>4. /\ ~complete /\ gen # 0 /\ op.kind \in Kinds /\ pg \in 1 .. gen /\ op \in Operations
      /\ (booted => op.kind # "bootstrap")
  BY <1>1, BusyIs DEF StagingInv, Control, Operations, Kinds
<1>5. op.kind # "bootstrap" =>
        /\ Undecided /\ op.pg \in 1 .. gen /\ op.ag \in 1 .. gen
        /\ op.pg \in Generations /\ op.ag \in Generations
        /\ {op.pg, op.ag} \subseteq committed /\ op.pg # 0 /\ op.ag # 0
        /\ op.pg <= gen /\ op.ag <= gen /\ booted
        /\ op.kind = "plugins" => op.ag = ag
  <2>1. ASSUME op.kind # "bootstrap" PROVE Undecided /\ op.kind \in {"plugins", "config"}
    BY <1>1, <1>4, <2>1 DEF Undecided, Kinds
  <2>2. gen \in Nat
    BY BusyIs
  <2>. QED
    BY <1>1, <2>1, <2>2, OldIs DEF StagingInv, Control
<1>6. op.kind = "bootstrap" => ~booted /\ op.pg = 0 /\ op.ag = 0
  BY <1>1 DEF StagingInv, Control
<1>7. \A x \in Plugins : ~IsStarted(pg, x)
  BY <1>1, <1>3 DEF StagingInv, PluginsOK, Stops
<1>8. TypesOK'
  BY <1>1, <1>5 DEF StagingInv, TypesOK, TypeOK
<1>9. Control'
  BY <1>1, <1>2, <1>4, <1>5, <1>6 DEF StagingInv, Control
<1>10. Agenda' /\ OrdersOK'
  BY <1>1, <1>2, Frames DEF Agenda
<1>11. PluginsOK'
  <2>1. EdgesUp'
    BY <1>1 DEF StagingInv, PluginsOK, EdgesUp, IsStarted
  <2>2. ASSUME NEW g \in Generations, NEW x \in Plugins, IsStarted(g, x)
        PROVE  g = pg' /\ g \in 1 .. gen /\ x \in Elements(OrderOf(g))
    <3>1. g = op.pg /\ g \in 1 .. gen /\ x \in Elements(OrderOf(g))
      BY <1>7, <2>2 DEF StagingInv, PluginsOK
    <3>2. g # 0
      BY <3>1, BusyIs
    <3>. QED
      BY <1>1, <1>6, <3>1, <3>2
  <2>3. booted => AllStarted(op.pg)
    BY <1>4, <1>5 DEF StagingInv, PluginsOK
  <2>. QED
    BY <1>1, <1>2, <1>4, <2>1, <2>2, <2>3
       DEF PluginsOK, Running, IsStarted, OrderOf, AllStarted
<1>12. AdaptersOK'
  <2>1. op.kind # "plugins" => \A a \in Adapters : ~IsOpen(ag, a) /\ ~IsServing(ag, a)
    BY <1>1, <1>3 DEF StagingInv, AdaptersOK
  <2>2. ASSUME NEW g \in Generations, NEW a \in Adapters
        PROVE  /\ IsOpen(g, a) => g # 0 /\ g = ag'
               /\ IsServing(g, a) => booted /\ g = ag'
    <3>1. /\ IsOpen(g, a) => g # 0 /\ (g = ag \/ g = op.ag)
          /\ IsServing(g, a) => booted /\ (g = ag \/ g = op.ag)
      BY DEF StagingInv, AdaptersOK
    <3>. QED
      BY <1>1, <1>4, <1>5, <1>6, <2>1, <3>1
  <2>3. booted => \A a \in Adapters : IsOpen(op.ag, a)
    BY <1>4, <1>5 DEF StagingInv, AdaptersOK
  <2>. QED
    BY <1>1, <1>2, <1>4, <2>2, <2>3 DEF AdaptersOK, Running, IsOpen, IsServing
<1>13. StateOK'
  <2>1. booted => \A at \in Places : written \subseteq Content(op.pg)[at]
    BY <1>4, <1>5 DEF StagingInv, StateOK
  <2>. QED
    BY <1>1, <1>2, <1>4, <2>1 DEF StagingInv, StateOK, Content
<1>14. WatchOK'
  <2>1. booted => Known(op.pg)
    BY <1>4, <1>5 DEF StagingInv, WatchOK
  <2>. QED
    BY <1>1, <1>2, <1>4, <2>1 DEF WatchOK, Running, Known
<1>. QED
  BY <1>8, <1>9, <1>10, <1>11, <1>12, <1>13, <1>14 DEF StagingInv

LEMMA CommitEndsKeeps ==
  ASSUME StagingInv, CommitEnds
  PROVE  StagingInv'
<1>1. /\ Busy /\ op.phase = "commit" /\ op.todo = << >> /\ op' = Idle
      /\ booted' = TRUE
      /\ blind' = {s \in Parts : loaded[pg][s] # op.seen[s]}
      /\ UNCHANGED <<gen, resolved, plugins, adapters, tasks, active, pg, ag, committed, serving,
                  stopping, complete, failures, disk, loaded, seen>>
      /\ UNCHANGED state /\ UNCHANGED <<store, saved, top, deep, cell, written, secured, unsaved>>
  BY DEF CommitEnds, instances, state
<1>2. ~Busy' /\ ~Undecided' /\ ~Replacing'
  BY <1>1, IdleIs DEF Busy, Undecided, Replacing
<1>3. \A what, g, x : ~Awaits(what, g, x)
  BY <1>1 DEF Awaits, Elements
<1>4. /\ ~complete /\ gen # 0 /\ op.kind \in Kinds /\ pg = gen /\ op \in Operations
      /\ {pg, ag} \subseteq committed /\ ag # 0 /\ (booted <=> op.kind # "bootstrap")
  BY <1>1, BusyIs DEF StagingInv, Control, Operations, Kinds
<1>5. TypesOK'
  BY <1>1 DEF StagingInv, TypesOK, TypeOK
<1>6. Control' /\ Agenda' /\ OrdersOK'
  BY <1>1, <1>2, <1>4, Frames DEF StagingInv, Control, Agenda
<1>7. \A x \in Plugins : ~IsStarted(op.pg, x)
  BY <1>1, <1>3 DEF StagingInv, PluginsOK, Stops, NoneStarted
<1>8. PluginsOK'
  <2>1. ASSUME NEW g \in Generations, NEW x \in Plugins, IsStarted(g, x)
        PROVE  g = pg /\ g \in 1 .. gen /\ x \in Elements(OrderOf(g))
    BY <1>7, <2>1 DEF StagingInv, PluginsOK
  <2>2. AllStarted(pg)
    BY <1>1 DEF StagingInv, PluginsOK
  <2>. QED
    BY <1>1, <1>2, <1>4, <2>1, <2>2
       DEF StagingInv, PluginsOK, EdgesUp, Running, IsStarted, OrderOf, AllStarted
<1>9. AdaptersOK'
  <2>1. op.kind = "config" => \A a \in Adapters : ~IsOpen(op.ag, a) /\ ~IsServing(op.ag, a)
    BY <1>1, <1>3 DEF StagingInv, AdaptersOK, Replacing
  <2>2. op.kind = "plugins" => op.ag = ag
    BY <1>1, OldIs
  <2>3. op.kind = "bootstrap" => op.ag = 0
    BY <1>1 DEF StagingInv, Control
  <2>4. ASSUME NEW g \in Generations, NEW a \in Adapters
        PROVE  /\ IsOpen(g, a) => g # 0 /\ g = ag
               /\ IsServing(g, a) => g = ag
    <3>1. /\ IsOpen(g, a) => g # 0 /\ (g = ag \/ g = op.ag)
          /\ IsServing(g, a) => booted /\ (g = ag \/ g = op.ag)
      BY DEF StagingInv, AdaptersOK
    <3>. QED
      BY <1>4, <2>1, <2>2, <2>3, <3>1 DEF Kinds
  <2>5. \A a \in Adapters : IsOpen(ag, a)
    BY <1>1 DEF StagingInv, AdaptersOK
  <2>. QED
    BY <1>1, <1>2, <1>4, <2>4, <2>5 DEF AdaptersOK, Running, IsOpen, IsServing
<1>10. StateOK'
  <2>1. \A at \in Places : written \subseteq Content(pg)[at]
    BY <1>4 DEF StagingInv, StateOK
  <2>. QED
    BY <1>1, <1>2, <1>4, <2>1 DEF StagingInv, StateOK, Content
<1>11. WatchOK'
  <2>1. seen = op.seen
    BY <1>1, <1>3 DEF StagingInv, WatchOK
  <2>. QED
    BY <1>1, <1>2, <2>1 DEF WatchOK, Known
<1>. QED
  BY <1>5, <1>6, <1>8, <1>9, <1>10, <1>11 DEF StagingInv

LEMMA ShutdownEndsKeeps ==
  ASSUME StagingInv, ShutdownEnds
  PROVE  StagingInv'
<1>1. /\ Busy /\ op.phase = "teardown" /\ op.todo = << >> /\ op' = Idle
      /\ complete' = TRUE
      /\ UNCHANGED <<gen, resolved, plugins, adapters, tasks, active, pg, ag, committed, serving,
                  stopping, booted, failures, disk, loaded, seen, blind>>
      /\ UNCHANGED state /\ UNCHANGED <<store, saved, top, deep, cell, written, secured, unsaved>>
  BY DEF ShutdownEnds, instances, state, watch
<1>2. ~Busy' /\ ~Undecided' /\ ~Replacing' /\ ~Running'
  BY <1>1, IdleIs DEF Busy, Undecided, Replacing, Running
<1>3. \A what, g, x : ~Awaits(what, g, x)
  BY <1>1 DEF Awaits, Elements
<1>4. /\ ~complete /\ gen # 0 /\ op.kind = "shutdown" /\ booted /\ stopping /\ ~serving
      /\ {pg, ag} \subseteq committed /\ op.pg = pg /\ op.ag = ag
  BY <1>1 DEF StagingInv, Control
<1>5. TypesOK'
  BY <1>1 DEF StagingInv, TypesOK, TypeOK
<1>6. Control' /\ Agenda' /\ OrdersOK'
  BY <1>1, <1>2, <1>4, Frames DEF StagingInv, Control, Agenda
<1>7. \A x \in Plugins : ~IsStarted(pg, x)
  BY <1>1, <1>3 DEF StagingInv, PluginsOK, Stops
<1>8. PluginsOK'
  BY <1>1, <1>2, <1>4, <1>7
     DEF StagingInv, PluginsOK, EdgesUp, IsStarted, OrderOf, NoneStarted
<1>9. AdaptersOK'
  BY <1>1, <1>2, <1>3, <1>4 DEF StagingInv, AdaptersOK, IsOpen, IsServing
<1>10. StateOK'
  BY <1>1, <1>2, <1>3 DEF StagingInv, StateOK, Content
<1>11. WatchOK'
  BY <1>2 DEF WatchOK
<1>. QED
  BY <1>5, <1>6, <1>8, <1>9, <1>10, <1>11 DEF StagingInv

LEMMA TeardownIs ==
  ASSUME StagingInv, pg \in 1 .. gen, ag \in Generations
  PROVE  /\ Lists(Teardown,
                  {Do("close", ag, a) : a \in Adapters} \cup {Do("end", ag, a) : a \in Adapters}
                  \cup {Do("stop", pg, x) : x \in Elements(OrderOf(pg))})
         /\ StopsBackwards(Teardown, pg, OrderOf(pg))
         /\ \A a \in Adapters, x \in Elements(OrderOf(pg)) :
              Before(Teardown, Do("end", ag, a), Do("stop", pg, x))
<1> DEFINE A == {Do("close", ag, a) : a \in Adapters} \cup {Do("end", ag, a) : a \in Adapters}
           T == {Do("stop", pg, x) : x \in Elements(OrderOf(pg))}
           first == StopAdapters(ag)
           then == ShutdownPlugins(pg)
<1>1. Lists(first, A)
  BY ClosingIs
<1>2. Lists(then, T) /\ StopsBackwards(then, pg, OrderOf(pg))
  BY OrderFacts, ShutdownPluginsIs
<1>3. A \cap T = {}
  BY DoIs
<1>4. Teardown = first \o then
  BY DEF Teardown
<1>5. /\ \A a \in Adapters : Do("end", ag, a) \in A
      /\ \A x \in Elements(OrderOf(pg)) : Do("stop", pg, x) \in T
  OBVIOUS
<1> HIDE DEF A, T, first, then
<1>6. /\ Lists(first \o then, A \cup T)
      /\ \A x, y : Before(then, x, y) \/ (x \in A /\ y \in T) => Before(first \o then, x, y)
  BY <1>1, <1>2, <1>3, ListsConcat
<1>7. StopsBackwards(first \o then, pg, OrderOf(pg))
  BY <1>2, <1>6 DEF StopsBackwards
<1>8. \A a \in Adapters, x \in Elements(OrderOf(pg)) :
        Before(first \o then, Do("end", ag, a), Do("stop", pg, x))
  BY <1>5, <1>6
<1>. QED
  BY <1>4, <1>6, <1>7, <1>8 DEF A, T

LEMMA BeginShutdownKeeps ==
  ASSUME StagingInv, BeginShutdown
  PROVE  StagingInv'
<1>1. /\ ~Busy /\ booted /\ stopping /\ ~serving /\ ~complete
      /\ op' = Operation("shutdown", "teardown", Teardown, seen)
      /\ active' = active \ {ag}
      /\ UNCHANGED <<gen, resolved, plugins, adapters, tasks, pg, ag, committed, serving,
                  stopping, booted, complete, failures, disk, loaded, seen, blind>>
      /\ UNCHANGED state /\ UNCHANGED <<store, saved, top, deep, cell, written, secured, unsaved>>
  BY DEF BeginShutdown, flags, state, watch
<1>2. /\ pg \in 1 .. gen /\ pg \in Generations /\ ag \in Generations /\ gen # 0
      /\ {pg, ag} \subseteq committed /\ Running
  <2>1. pg # 0 /\ gen # 0 /\ pg <= gen /\ {pg, ag} \subseteq committed
    BY <1>1 DEF StagingInv, Control
  <2>2. pg \in Nat /\ pg \in Generations /\ ag \in Generations /\ gen \in Nat
    BY BusyIs DEF StagingInv, TypesOK, TypeOK, Generations
  <2>3. pg \in 1 .. gen
    BY <2>1, <2>2
  <2>. QED
    BY <1>1, <2>1, <2>2, <2>3 DEF Running
<1> DEFINE All == {Do("close", ag, a) : a \in Adapters} \cup {Do("end", ag, a) : a \in Adapters}
                  \cup {Do("stop", pg, x) : x \in Elements(OrderOf(pg))}
<1>3. /\ Teardown \in Seq(Steps) /\ WithoutRepeats(Teardown) /\ Elements(Teardown) = All
      /\ StopsBackwards(Teardown, pg, OrderOf(pg))
      /\ \A a \in Adapters, x \in Elements(OrderOf(pg)) :
           Before(Teardown, Do("end", ag, a), Do("stop", pg, x))
  BY <1>2, TeardownIs DEF Lists
<1>4. /\ op' \in Operations /\ op'.kind = "shutdown" /\ op'.pg = pg /\ op'.ag = ag
      /\ op'.phase = "teardown" /\ op'.todo = Teardown
  BY <1>1, <1>2, <1>3 DEF Operation, Operations, StagingInv, TypesOK, TypeOK
<1>5. Busy' /\ ~Undecided' /\ ~Replacing' /\ ~Running'
  BY <1>4 DEF Busy, Undecided, Replacing, Running
<1>6. \A s \in All :
        \/ \E x \in Plugins : s = Do("stop", pg, x)
        \/ \E a \in Adapters : s \in {Do("close", ag, a), Do("end", ag, a)}
  BY <1>2, OrderFacts
<1>7. /\ \A x : Do("stop", pg, x) \in All <=> x \in Elements(OrderOf(pg))
      /\ \A a \in Adapters : Do("close", ag, a) \in All /\ Do("end", ag, a) \in All
  BY DoIs
<1> HIDE DEF All
<1>8. TypesOK'
  BY <1>1, <1>4 DEF StagingInv, TypesOK, TypeOK
<1>9. Control'
  BY <1>1, <1>2, <1>3, <1>4, <1>5 DEF StagingInv, Control
<1>10. Agenda' /\ OrdersOK'
  BY <1>1, <1>3, <1>4, <1>6, Frames DEF Agenda
<1>11. \A x \in Plugins : IsStarted(pg, x) => x \in Elements(OrderOf(pg))
  BY <1>2 DEF StagingInv, PluginsOK
<1>12. PluginsOK'
  <2>1. ASSUME NEW e \in resolved[pg].edges, IsStarted(pg, e[2])
        PROVE  Before(Teardown, Do("stop", pg, e[2]), Do("stop", pg, e[1]))
    <3>1. Before(OrderOf(pg), e[1], e[2])
      BY <1>2, <1>11, <2>1 DEF StagingInv, OrdersOK
    <3>. QED
      BY <1>3, <3>1 DEF StopsBackwards
  <2>2. Stops(pg)'
    BY <1>1, <1>3, <1>4, <1>7, <1>11, <2>1 DEF Stops, IsStarted, Awaits, Sooner
  <2>. QED
    BY <1>1, <1>4, <1>5, <2>2
       DEF StagingInv, PluginsOK, EdgesUp, IsStarted, OrderOf
<1>13. AdaptersOK'
  <2>1. AllStarted(pg)
    BY <1>2 DEF StagingInv, PluginsOK
  <2>2. \A a \in Adapters, x \in Plugins : Do("stop", pg, x) \in All =>
          Before(Teardown, Do("end", ag, a), Do("stop", pg, x))
    BY <1>3, <1>7
  <2>. QED
    BY <1>1, <1>3, <1>4, <1>5, <1>7, <2>1, <2>2
       DEF StagingInv, AdaptersOK, IsOpen, IsServing, IsStarted, OrderOf, AllStarted,
           Awaits, Sooner
<1>14. StateOK'
  <2>1. Do("stop", pg, Keeper) \in All
    BY <1>2, <1>7, OrderFacts
  <2>. QED
    BY <1>1, <1>3, <1>4, <1>5, <2>1 DEF StagingInv, StateOK, Content, Awaits
<1>15. WatchOK'
  BY <1>4, <1>5 DEF WatchOK
<1>. QED
  BY <1>8, <1>9, <1>10, <1>12, <1>13, <1>14, <1>15 DEF StagingInv

----------------------------------------------------------------------------
(* Between the steps *)

LEMMA ServeKeeps ==
  ASSUME StagingInv, Serve
  PROVE  StagingInv'
<1>1. /\ booted /\ ~Busy /\ ~serving /\ ~stopping /\ serving' = TRUE
      /\ active' = active \cup {ag}
      /\ tasks' = [tasks EXCEPT ![ag] = [a \in Adapters |-> "running"]]
      /\ UNCHANGED <<op, gen, resolved, plugins, adapters, pg, ag, committed, stopping,
                  booted, complete, failures, disk, loaded, seen, blind>>
      /\ UNCHANGED state /\ UNCHANGED <<store, saved, top, deep, cell, written, secured, unsaved>>
  BY DEF Serve, StartAdapters, state, watch
<1>2. ag \in Generations /\ ~complete /\ gen # 0
  BY <1>1 DEF StagingInv, Control, TypesOK, TypeOK
<1>3. ~Busy' /\ ~Undecided' /\ ~Replacing' /\ ~Undecided /\ ~Replacing
  BY <1>1 DEF Busy, Undecided, Replacing
<1>4. tasks' \in [Generations -> [Adapters -> TaskStates]]
  <2>1. tasks \in [Generations -> [Adapters -> TaskStates]] /\ "running" \in TaskStates
    BY DEF StagingInv, TypesOK, TypeOK, TaskStates
  <2>2. [a \in Adapters |-> "running"] \in [Adapters -> TaskStates]
    BY <2>1
  <2>. QED
    BY <1>1, <2>1, <2>2
<1>5. \A h \in Generations, a \in Adapters :
        (tasks'[h][a] = "running") => IsServing(h, a) \/ h = ag
  BY <1>1, <1>2 DEF StagingInv, TypesOK, TypeOK, IsServing
<1>6. TypesOK'
  BY <1>1, <1>2, <1>4 DEF StagingInv, TypesOK, TypeOK
<1>7. Control' /\ Agenda' /\ OrdersOK' /\ PluginsOK' /\ StateOK' /\ WatchOK'
  <2>1. Control'
    BY <1>1, <1>2, <1>3 DEF StagingInv, Control, Busy
  <2>. QED
    BY <1>1, <2>1, Frames, StateFrame
<1>8. AdaptersOK'
  BY <1>1, <1>2, <1>3, <1>5 DEF StagingInv, AdaptersOK, IsOpen, IsServing, Running, Busy
<1>. QED
  BY <1>6, <1>7, <1>8 DEF StagingInv

\* Flags that tell what is to come.
LEMMA FlagsKeep ==
  ASSUME StagingInv,
         UNCHANGED <<op, gen, resolved, plugins, adapters, tasks, active, pg, ag, committed,
                     booted, complete, failures, disk, loaded, seen, blind>>,
         UNCHANGED <<store, saved, top, deep, cell, written, secured, unsaved>>,
         stopping' = TRUE, serving' = serving \/ serving' = FALSE
  PROVE  StagingInv'
<1>1. TypesOK'
  BY DEF StagingInv, TypesOK, TypeOK
<1>2. Control'
  BY DEF StagingInv, Control, Busy
<1>. QED
  BY <1>1, <1>2, Frames, StateFrame DEF StagingInv, state

LEMMA StopKeeps ==
  ASSUME StagingInv, Stop \/ ServeEnds \/ CallShutdown
  PROVE  StagingInv'
<1>1. /\ UNCHANGED <<op, gen, resolved, plugins, adapters, tasks, active, pg, ag, committed,
                     booted, complete, failures, disk, loaded, seen, blind>>
      /\ UNCHANGED <<store, saved, top, deep, cell, written, secured, unsaved>>
      /\ stopping' = TRUE
      /\ serving' = serving \/ serving' = FALSE
  BY DEF Stop, ServeEnds, CallShutdown, EnterShutdown, instances, flags, state, watch
<1>. QED
  BY <1>1, FlagsKeep

LEMMA AdapterFailsKeeps ==
  ASSUME StagingInv, NEW g \in Generations, NEW a \in Adapters, AdapterFails(g, a)
  PROVE  StagingInv'
<1>1. /\ tasks' = [tasks EXCEPT ![g][a] = "failed"]
      /\ failures' = (failures \/ Reported(g))
      /\ UNCHANGED <<op, gen, resolved, plugins, adapters, active, pg, ag, committed, serving,
                  stopping, booted, complete, disk, loaded, seen, blind>>
      /\ UNCHANGED state /\ UNCHANGED <<store, saved, top, deep, cell, written, secured, unsaved>>
  BY DEF AdapterFails, state, watch
<1>2. failures' \in BOOLEAN
  BY <1>1
<1>3. tasks' \in [Generations -> [Adapters -> TaskStates]]
  BY <1>1 DEF StagingInv, TypesOK, TypeOK, TaskStates
<1>4. \A h \in Generations, b \in Adapters : (tasks'[h][b] = "running") => IsServing(h, b)
  BY <1>1 DEF StagingInv, TypesOK, TypeOK, IsServing
<1>5. TypesOK'
  BY <1>1, <1>2, <1>3 DEF StagingInv, TypesOK, TypeOK
<1>6. Control'
  BY <1>1 DEF StagingInv, Control, Busy
<1>7. AdaptersOK'
  <2>1. ag \in Generations
    BY DEF StagingInv, TypesOK, TypeOK
  <2>2. Replacing => op.ag \in Generations
    BY OldIs DEF Replacing
  <2>. QED
    BY <1>1, <1>4, <2>1, <2>2
       DEF StagingInv, AdaptersOK, IsOpen, IsServing, IsStarted, OrderOf, AllStarted,
           Running, Undecided, Replacing, Busy, Awaits, Sooner
<1>. QED
  BY <1>1, <1>5, <1>6, <1>7, Frames, StateFrame DEF StagingInv

LEMMA HandlerWritesKeeps ==
  ASSUME StagingInv, HandlerWrites
  PROVE  StagingInv'
<1>1. /\ ~Busy /\ serving /\ WriteState(pg, "handler")
      /\ written' = written \cup {<<pg, "handler">>} /\ UNCHANGED <<secured, unsaved>>
      /\ UNCHANGED <<op, gen, resolved, plugins, adapters, tasks, active, pg, ag, committed, serving,
                  stopping, booted, complete, failures, disk, loaded, seen, blind>>
  BY DEF HandlerWrites, instances, flags, watch
<1>2. /\ booted /\ ~complete /\ pg \in 1 .. gen /\ pg \in Generations /\ pg \in committed
  <2>1. booted /\ ~complete /\ pg # 0 /\ pg <= gen /\ pg \in committed
    BY <1>1 DEF StagingInv, Control
  <2>2. pg \in Nat /\ pg \in Generations /\ gen \in Nat
    BY BusyIs DEF StagingInv, TypesOK, TypeOK, Generations
  <2>. QED
    BY <2>1, <2>2
<1>3. /\ top' \in [Generations -> SUBSET Writes] /\ deep' \in [Generations -> SUBSET Writes]
      /\ \A h \in Generations :
           /\ top[h] \subseteq top'[h] /\ deep[h] \subseteq deep'[h]
           /\ top'[h] \subseteq top[h] \cup {<<pg, "handler">>}
           /\ deep'[h] \subseteq deep[h] \cup {<<pg, "handler">>}
      /\ <<pg, "handler">> \in top'[pg] /\ <<pg, "handler">> \in deep'[cell[pg]]
      /\ store' = store /\ saved' = saved /\ cell' = cell
  BY <1>1, <1>2, WriteKeeps
<1>4. cell[pg] \in Generations
  BY <1>2 DEF StagingInv, TypesOK
<1>5. TypesOK'
  BY <1>1, <1>2, <1>3 DEF StagingInv, TypesOK, TypeOK, Writes
<1>6. Control'
  BY <1>1, <1>2, <1>3 DEF StagingInv, Control, Busy
<1>7. StateOK'
  <2>1. ~Busy' /\ ~Undecided'
    BY <1>1 DEF Busy, Undecided
  <2>2. ASSUME NEW g \in 1 .. gen
        PROVE  \A w \in top'[g] \cup (IF store # "json" THEN deep'[g] ELSE {}) :
                 w[1] \in committed \cup {g}
    <3>1. g \in Generations
      BY BusyIs
    <3>. QED
      BY <1>2, <1>3, <2>2, <3>1 DEF StagingInv, StateOK
  <2> DEFINE Then == [top |-> top'[pg], deep |-> deep'[cell'[pg]]]
  <2>3. \A at \in Places : written' \subseteq Then[at]
    BY <1>1, <1>2, <1>3, <1>4 DEF StagingInv, StateOK, Content, Places
  <2>. QED
    BY <1>1, <1>2, <1>3, <2>1, <2>2, <2>3 DEF StagingInv, StateOK, Content
<1>. QED
  BY <1>1, <1>5, <1>6, <1>7, Frames DEF StagingInv

LEMMA EditKeeps ==
  ASSUME StagingInv, Edit
  PROVE  StagingInv'
<1>1. /\ disk.config + disk.code < MaxEdits
      /\ UNCHANGED <<op, gen, resolved, plugins, adapters, tasks, active, pg, ag, committed, serving,
                  stopping, booted, complete, failures, loaded, seen, blind>>
      /\ UNCHANGED state /\ UNCHANGED <<store, saved, top, deep, cell, written, secured, unsaved>>
  BY DEF Edit, instances, flags, state
<1>2. PICK s \in Parts : disk' = [disk EXCEPT ![s] = @ + 1]
  BY DEF Edit
<1>3. disk \in [Parts -> Versions] /\ MaxEdits \in Nat
  BY StagingAssumption DEF StagingInv, TypesOK, TypeOK
<1>4. disk["config"] \in Nat /\ disk["code"] \in Nat /\ disk["config"] + disk["code"] < MaxEdits
  BY <1>1, <1>3 DEF Parts, Versions
<1>5. disk[s] + 1 \in Versions
  BY <1>3, <1>4 DEF Parts, Versions
<1>6. disk' \in [Parts -> Versions]
  BY <1>2, <1>3, <1>5
<1>7. TypesOK'
  BY <1>1, <1>6 DEF StagingInv, TypesOK, TypeOK
<1>8. Control'
  BY <1>1 DEF StagingInv, Control, Busy
<1>. QED
  BY <1>1, <1>7, <1>8, Frames, StateFrame DEF StagingInv

----------------------------------------------------------------------------
(* Staging begins *)

\* What is resolved is in order, and the Keeper is in it.
LEMMA ResolvedIs ==
  ASSUME NEW v \in Versions, NEW mf \in ResolvableManifests(v)
  PROVE  LET r == Resolved(mf)
         IN  /\ r.order \in Seq(Plugins) /\ WithoutRepeats(r.order)
             /\ Keeper \in Elements(r.order)
             /\ \A e \in r.edges : /\ e[1] # e[2] /\ {e[1], e[2]} \subseteq Plugins
                                   /\ e[2] \in Elements(r.order)
                                   /\ Before(r.order, e[1], e[2])
<1>1. IsManifest(mf) /\ Keeper \in NamesOf(mf) /\ Resolvable(mf)
  BY StagingAssumption DEF ResolvableManifests
<1>2. NamesOf(mf) \subseteq Plugins
  BY <1>1, KeyIs, StagingAssumption
<1>3. Orderly(mf, Order(mf)) /\ Elements(Order(mf)) = NamesOf(mf)
  BY <1>1, OrderIsOrderly, OrderIsComplete
<1>4. Order(mf) \in Seq(Plugins)
  BY <1>2, <1>3, SeqMonotonic DEF Orderly
<1>5. /\ Resolved(mf).order = Order(mf)
      /\ Resolved(mf).edges = {e \in NamesOf(mf) \X NamesOf(mf) : Edge(mf, e[1], e[2])}
  BY DEF Resolved
<1>6. ASSUME NEW e \in Resolved(mf).edges
      PROVE  /\ e[1] # e[2] /\ {e[1], e[2]} \subseteq Plugins
             /\ e[2] \in Elements(Order(mf)) /\ Before(Order(mf), e[1], e[2])
  <2>1. e[1] \in NamesOf(mf) /\ e[2] \in NamesOf(mf) /\ Edge(mf, e[1], e[2])
    BY <1>5
  <2>. QED
    BY <1>2, <1>3, <2>1 DEF Orderly, Edge
<1>. QED
  BY <1>1, <1>3, <1>4, <1>5, <1>6 DEF Orderly

LEMMA BeginIs ==
  ASSUME StagingInv, NEW kind \in Kinds, MayBegin(kind), gen < MaxGenerations
  PROVE  /\ op = Idle /\ ~stopping /\ ~complete
         /\ gen + 1 \in 1 .. MaxGenerations /\ gen + 1 \in Generations
         /\ pg \in Generations /\ ag \in Generations /\ pg < gen + 1 /\ ag < gen + 1
         /\ pg # gen + 1 /\ ag # gen + 1
         /\ IF kind = "bootstrap"
            THEN gen = 0 /\ pg = 0 /\ ag = 0 /\ ~booted /\ saved = [top |-> {}, deep |-> {}]
            ELSE /\ Running /\ booted /\ serving /\ pg # 0 /\ ag # 0 /\ pg \in 1 .. gen
                 /\ {pg, ag} \subseteq committed /\ gen # 0
<1>1. /\ pg \in Generations /\ ag \in Generations /\ pg \in Nat /\ ag \in Nat /\ gen \in Nat
      /\ MaxGenerations \in Nat
  BY BusyIs DEF StagingInv, TypesOK, TypeOK, Generations
<1>2. ~Busy /\ ~stopping /\ ~complete /\ (IF kind = "bootstrap" THEN gen = 0 ELSE serving)
  BY DEF MayBegin
<1>3. pg <= gen /\ ag <= gen
  BY DEF StagingInv, Control
<1>4. gen + 1 \in 1 .. MaxGenerations /\ gen + 1 \in Generations /\ pg < gen + 1 /\ ag < gen + 1
  BY <1>1, <1>3 DEF Generations
<1>5. CASE kind = "bootstrap"
  <2>1. gen = 0 /\ pg = 0 /\ ag = 0 /\ ~booted /\ saved = [top |-> {}, deep |-> {}]
    BY <1>2, <1>5 DEF StagingInv, Control
  <2>. QED
    BY <1>1, <1>2, <1>4, <1>5, <2>1, BusyIs
<1>6. CASE kind # "bootstrap"
  <2>1. serving /\ booted /\ pg # 0 /\ ag # 0 /\ gen # 0 /\ {pg, ag} \subseteq committed
    BY <1>2, <1>6 DEF StagingInv, Control
  <2>2. pg \in 1 .. gen
    BY <1>1, <1>3, <2>1
  <2>. QED
    BY <1>1, <1>2, <1>4, <1>6, <2>1, <2>2, BusyIs DEF Running
<1>. QED
  BY <1>5, <1>6

LEMMA LoadKeeps ==
  ASSUME StagingInv, NEW kind \in Kinds, MayBegin(kind), gen < MaxGenerations,
         LoadState(kind, gen + 1),
         gen' = gen + 1, pg' = gen + 1, UNCHANGED <<booted, complete, committed>>,
         op' \in Operations, op'.kind = kind, op'.phase = "staging", op'.pg = pg
  PROVE  /\ StateOK'
         /\ top' \in [Generations -> SUBSET Writes] /\ deep' \in [Generations -> SUBSET Writes]
         /\ cell' \in [Generations -> Generations] /\ saved' \in [Places -> SUBSET Writes]
         /\ store' = store /\ written' = written
         /\ secured' = written /\ unsaved' = unsaved
         /\ \A g \in 1 .. gen' : cell'[g] \in 1 .. g
<1> DEFINE g == gen + 1
<1>1. /\ g \in Generations /\ pg \in Generations /\ pg # g /\ ~complete
      /\ IF kind = "bootstrap"
         THEN gen = 0 /\ pg = 0 /\ ~booted /\ saved = [top |-> {}, deep |-> {}]
         ELSE booted /\ pg # 0 /\ pg \in 1 .. gen /\ pg \in committed
  BY BeginIs
<1>2. /\ saved' = SavedNow
      /\ top'  = [top EXCEPT ![g] = saved'.top]
      /\ cell' = [cell EXCEPT ![g] = IF Shares(kind) THEN cell[pg] ELSE g]
      /\ deep' = [deep EXCEPT ![g] = IF Shares(kind) THEN {} ELSE saved'.deep]
      /\ secured' = written
      /\ UNCHANGED <<store, written, unsaved>>
  BY DEF LoadState
<1>3. /\ top \in [Generations -> SUBSET Writes] /\ deep \in [Generations -> SUBSET Writes]
      /\ cell \in [Generations -> Generations] /\ saved \in [Places -> SUBSET Writes]
  BY DEF StagingInv, TypesOK, TypeOK
<1>4. SavedNow \in [Places -> SUBSET Writes]
  <2>1. Content(pg) \in [Places -> SUBSET Writes]
    BY <1>1, <1>3 DEF Content, Places
  <2>. QED
    BY <1>3, <2>1 DEF SavedNow
<1>5. saved'.top \subseteq Writes /\ saved'.deep \subseteq Writes
  BY <1>2, <1>4 DEF Places
<1>6. /\ top' \in [Generations -> SUBSET Writes] /\ deep' \in [Generations -> SUBSET Writes]
      /\ cell' \in [Generations -> Generations] /\ saved' \in [Places -> SUBSET Writes]
  BY <1>1, <1>2, <1>3, <1>4, <1>5
<1>7. Shares(kind) => kind = "plugins" /\ store = "json"
  BY DEF Shares
<1>8. /\ top'[g] = saved'.top
      /\ cell'[g] = IF Shares(kind) THEN cell[pg] ELSE g
      /\ deep'[g] = IF Shares(kind) THEN {} ELSE saved'.deep
      /\ \A h \in Generations : h # g => top'[h] = top[h] /\ deep'[h] = deep[h] /\ cell'[h] = cell[h]
  BY <1>1, <1>2, <1>3
<1>9. gen \in Nat /\ 1 .. gen \subseteq Generations /\ 1 .. g = 1 .. gen \cup {g} /\ g \notin 1 .. gen
      /\ \A h \in 1 .. gen : h # g
  BY BusyIs
<1> HIDE DEF g
<1>10. ASSUME NEW h \in 1 .. g
       PROVE  cell'[h] \in 1 .. h /\ (store # "json" => cell'[h] = h)
  <2>1. CASE h \in 1 .. gen
    BY <1>8, <1>9, <2>1 DEF StagingInv, StateOK
  <2>2. CASE h = g /\ Shares(kind)
    <3>1. cell[pg] \in 1 .. pg /\ pg \in 1 .. gen
      BY <1>1, <1>7, <2>2 DEF StagingInv, StateOK
    <3>2. cell[pg] \in 1 .. g
      BY <3>1, <1>9 DEF g
    <3>. QED
      BY <1>7, <1>8, <2>2, <3>2
  <2>3. CASE h = g /\ ~Shares(kind)
    <3>1. g \in 1 .. g
      BY <1>9
    <3>. QED
      BY <1>8, <2>3, <3>1
  <2>. QED
    BY <1>9, <2>1, <2>2, <2>3
<1>11. /\ \A w \in saved'.top : w[1] \in committed
       /\ store # "json" => \A w \in saved'.deep : w[1] \in committed
  <2>1. CASE pg = 0
    <3>1. saved' = [top |-> {}, deep |-> {}]
      BY <1>1, <1>2, <2>1 DEF SavedNow
    <3>. QED
      BY <3>1
  <2>2. CASE pg # 0
    <3>1. saved' = Content(pg) /\ pg \in 1 .. gen /\ pg \in committed
      BY <1>1, <1>2, <2>2 DEF SavedNow
    <3>. QED
      BY <3>1 DEF Content, StagingInv, StateOK
  <2>. QED
    BY <2>1, <2>2
<1>12. ASSUME NEW h \in 1 .. g
       PROVE  \A w \in top'[h] \cup (IF store # "json" THEN deep'[h] ELSE {}) :
                w[1] \in committed \cup {h}
  <2>1. CASE h \in 1 .. gen
    BY <1>8, <1>9, <2>1 DEF StagingInv, StateOK
  <2>2. CASE h = g
    BY <1>8, <1>11, <2>2
  <2>. QED
    BY <1>9, <2>1, <2>2
<1> DEFINE Then(h) == [top |-> top'[h], deep |-> deep'[cell'[h]]]
<1>13. ASSUME booted
       PROVE  \A at \in Places : written \subseteq Then(g)[at] /\ written \subseteq Then(pg)[at]
  <2>1. pg \in 1 .. gen /\ pg # 0 /\ cell[pg] \in 1 .. pg
    BY <1>1, <1>13 DEF StagingInv, StateOK
  <2>2. cell[pg] \in Generations /\ cell[pg] # g
    BY <1>3, <1>1, <1>9, <2>1 DEF g
  <2>3. \A at \in Places : written \subseteq Content(pg)[at]
    BY <1>1, <1>13 DEF StagingInv, StateOK
  <2>4. written \subseteq top[pg] /\ written \subseteq deep[cell[pg]]
    BY <2>3 DEF Content, Places
  <2>5. saved'.top = top[pg] /\ saved'.deep = deep[cell[pg]]
    BY <1>2, <2>1 DEF SavedNow, Content
  <2>6. top'[pg] = top[pg] /\ cell'[pg] = cell[pg] /\ deep'[cell[pg]] = deep[cell[pg]]
    BY <1>1, <1>8, <2>2
  <2>7. top'[g] = top[pg] /\ deep'[cell'[g]] = deep[cell[pg]]
    <3>1. CASE Shares(kind)
      BY <1>8, <2>5, <2>6, <3>1
    <3>2. CASE ~Shares(kind)
      BY <1>8, <2>5, <3>2
    <3>. QED
      BY <3>1, <3>2
  <2>. QED
    BY <2>4, <2>6, <2>7 DEF Places
<1>14. StateOK'
  <2>1. written # {} => booted
    BY DEF StagingInv, StateOK
  <2>2. Undecided' => booted
    BY <1>1 DEF Undecided
  <2>3. \A at \in Places : written \subseteq saved'[at]
    <3>1. CASE booted
      <4>1. pg # 0 /\ saved' = Content(pg)
        BY <1>1, <1>2, <3>1 DEF SavedNow
      <4>. QED
        BY <1>1, <3>1, <4>1 DEF StagingInv, StateOK
    <3>2. CASE ~booted
      BY <2>1, <3>2
    <3>. QED
      BY <3>1, <3>2
  <2>. QED
    BY <1>1, <1>2, <1>10, <1>12, <1>13, <2>1, <2>2, <2>3 DEF StateOK, Content, g
<1>. QED
  BY <1>2, <1>6, <1>10, <1>14 DEF g

LEMMA BeginKeeps ==
  ASSUME StagingInv, NEW kind \in Kinds, Begin(kind)
  PROVE  StagingInv'
<1> DEFINE g == gen + 1
           vf == VersionsFor(kind)
<1>1. /\ MayBegin(kind) /\ gen < MaxGenerations
      /\ seen' = SeenAfterBuild(kind)
      /\ UNCHANGED <<tasks, active, committed, serving, stopping, booted, complete, failures,
                  disk, blind>>
  BY DEF Begin, flags
<1>2. PICK mf \in ResolvableManifests(vf.config) :
        /\ gen' = g /\ pg' = g
        /\ ag' = IF kind = "plugins" THEN ag ELSE g
        /\ resolved' = [resolved EXCEPT ![g] = Resolved(mf)]
        /\ plugins'  = [plugins EXCEPT ![g] =
                          [x \in Plugins |-> IF x \in NamesOf(mf) THEN "built" ELSE "none"]]
        /\ adapters' = IF kind = "plugins" THEN adapters
                       ELSE [adapters EXCEPT ![g] = NewAdapters]
        /\ loaded' = [loaded EXCEPT ![g] = vf]
        /\ op' = Operation(kind, "staging", StepsOf("start", g, resolved'[g].order), seen)
        /\ LoadState(kind, g)
  BY DEF Begin
<1>3. /\ op = Idle /\ ~stopping /\ ~complete /\ ~Busy
      /\ g \in 1 .. MaxGenerations /\ g \in Generations /\ g # 0
      /\ pg \in Generations /\ ag \in Generations /\ pg < g /\ ag < g
      /\ pg # g /\ ag # g
      /\ IF kind = "bootstrap"
         THEN gen = 0 /\ pg = 0 /\ ag = 0 /\ ~booted /\ saved = [top |-> {}, deep |-> {}]
         ELSE /\ Running /\ booted /\ serving /\ pg # 0 /\ ag # 0 /\ pg \in 1 .. gen
              /\ {pg, ag} \subseteq committed /\ gen # 0
  BY <1>1, BeginIs DEF MayBegin
<1>4. /\ gen \in Nat /\ 1 .. gen \subseteq Generations /\ 1 .. g = 1 .. gen \cup {g}
      /\ \A h \in 1 .. gen : h # g
  BY BusyIs
<1>5. vf \in [Parts -> Versions] /\ vf.config \in Versions
  <2>1. disk \in [Parts -> Versions] /\ loaded[pg] \in [Parts -> Versions]
    BY <1>3 DEF StagingInv, TypesOK, TypeOK
  <2>. QED
    BY <2>1 DEF VersionsFor, Parts
<1> DEFINE todo == StepsOf("start", g, Resolved(mf).order)
<1> HIDE DEF g, vf
<1>6. /\ \A h \in Generations : resolved'[h] = IF h = g THEN Resolved(mf) ELSE resolved[h]
      /\ DOMAIN resolved' = Generations
  BY <1>2, <1>3 DEF StagingInv, TypesOK
<1>7. /\ Resolved(mf).order \in Seq(Plugins) /\ WithoutRepeats(Resolved(mf).order)
      /\ Keeper \in Elements(Resolved(mf).order)
      /\ \A e \in Resolved(mf).edges : /\ e[1] # e[2] /\ {e[1], e[2]} \subseteq Plugins
                                    /\ e[2] \in Elements(Resolved(mf).order)
                                    /\ Before(Resolved(mf).order, e[1], e[2])
  BY <1>2, <1>5, ResolvedIs
<1>8. /\ Lists(todo, {Do("start", g, x) : x \in Elements(Resolved(mf).order)})
      /\ \A x, y : Before(Resolved(mf).order, x, y) =>
           Before(todo, Do("start", g, x), Do("start", g, y))
  BY <1>3, <1>7, StepsAre, StepsListed
<1>9. resolved'[g] = Resolved(mf) /\ op' = Operation(kind, "staging", todo, seen)
  BY <1>2, <1>3, <1>6
<1> HIDE DEF todo
<1>10. /\ op' \in Operations /\ op'.kind = kind /\ op'.phase = "staging" /\ op'.todo = todo
       /\ op'.pg = pg /\ op'.ag = ag /\ op'.seen = seen
  BY <1>3, <1>8, <1>9 DEF Operation, Operations, StagingInv, TypesOK, TypeOK, Lists
<1>11. Busy' /\ ~Running' /\ ~Replacing' /\ (Undecided' <=> kind # "bootstrap")
  BY <1>10 DEF Busy, Undecided, Replacing, Running, Kinds
<1>12. /\ StateOK'
       /\ top' \in [Generations -> SUBSET Writes] /\ deep' \in [Generations -> SUBSET Writes]
       /\ cell' \in [Generations -> Generations] /\ saved' \in [Places -> SUBSET Writes]
       /\ store' = store /\ written' = written
       /\ secured' = written /\ unsaved' = unsaved
       /\ \A h \in 1 .. gen' : cell'[h] \in 1 .. h
  BY <1>1, <1>2, <1>10, LoadKeeps DEF g
<1>13. /\ plugins' \in [Generations -> [Plugins -> PluginStates]]
       /\ \A h \in Generations : h # g => plugins'[h] = plugins[h]
       /\ \A x \in Plugins : plugins'[g][x] # "started"
  <2> DEFINE fresh == [x \in Plugins |-> IF x \in NamesOf(mf) THEN "built" ELSE "none"]
  <2>1. fresh \in [Plugins -> PluginStates] /\ \A x \in Plugins : fresh[x] # "started"
    BY DEF PluginStates
  <2>2. plugins' = [plugins EXCEPT ![g] = fresh]
    BY <1>2
  <2>3. plugins \in [Generations -> [Plugins -> PluginStates]]
    BY DEF StagingInv, TypesOK, TypeOK
  <2> HIDE DEF fresh
  <2>. QED
    BY <1>3, <2>1, <2>2, <2>3
<1>14. /\ adapters' \in [Generations -> [Adapters -> AdapterStates]]
       /\ \A h \in Generations : h # g => adapters'[h] = adapters[h]
       /\ IF kind = "plugins" THEN adapters' = adapters
          ELSE \A a \in Adapters : adapters'[g][a] = "built"
  <2>1. NewAdapters \in [Adapters -> AdapterStates] /\ \A a \in Adapters : NewAdapters[a] = "built"
    BY DEF NewAdapters, AdapterStates
  <2>2. adapters \in [Generations -> [Adapters -> AdapterStates]]
    BY DEF StagingInv, TypesOK, TypeOK
  <2>. QED
    BY <1>2, <1>3, <2>1, <2>2
<1>15. /\ loaded' \in [Generations -> [Parts -> Versions]]
       /\ \A h \in Generations : h # g => loaded'[h] = loaded[h]
  BY <1>2, <1>3, <1>5 DEF StagingInv, TypesOK, TypeOK
<1>16. seen' \in [Parts -> Versions] /\ (kind # "bootstrap" => seen' = seen)
  BY <1>1 DEF SeenAfterBuild, Snapshot, StagingInv, TypesOK, TypeOK
<1>17. TypesOK'
  BY <1>1, <1>2, <1>3, <1>6, <1>10, <1>12, <1>13, <1>14, <1>15, <1>16
     DEF StagingInv, TypesOK, TypeOK
<1>18. Control'
  <2>1. pg' <= gen' /\ ag' <= gen' /\ committed' \subseteq 0 .. gen'
    <3>1. committed \subseteq 0 .. gen /\ 0 .. gen \subseteq 0 .. g
      BY <1>4 DEF StagingInv, Control, g
    <3>2. ag <= g /\ g <= g
      BY <1>3, <1>4 DEF g, Generations
    <3>. QED
      BY <1>1, <1>2, <3>1, <3>2
  <2>2. WithoutRepeats(op'.todo)
    BY <1>8, <1>10 DEF Lists
  <2>3. complete' = FALSE /\ (serving' => booted') /\ (booted' => ag' # 0)
    BY <1>1, <1>2, <1>3 DEF StagingInv, Control
  <2>4. kind \in {"bootstrap", "plugins", "config"}
    BY DEF Kinds
  <2>. QED
    BY <1>1, <1>2, <1>3, <1>10, <1>11, <2>1, <2>2, <2>3, <2>4 DEF Control
<1>19. OrdersOK'
  <2>1. ASSUME NEW h \in 1 .. gen'
        PROVE  /\ OrderOf(h)' \in Seq(Plugins) /\ WithoutRepeats(OrderOf(h)')
               /\ Keeper \in Elements(OrderOf(h)')
               /\ \A e \in resolved'[h].edges :
                    /\ e[1] # e[2] /\ {e[1], e[2]} \subseteq Plugins
                    /\ e[2] \in Elements(OrderOf(h)') => Before(OrderOf(h)', e[1], e[2])
    <3>1. CASE h = g
      BY <1>7, <1>9, <3>1 DEF OrderOf
    <3>2. CASE h \in 1 .. gen
      <4>1. resolved'[h] = resolved[h]
        BY <1>4, <1>6, <3>2
      <4>. QED
        BY <3>2, <4>1 DEF StagingInv, OrdersOK, OrderOf
    <3>. QED
      BY <1>2, <1>4, <2>1, <3>1, <3>2
  <2>. QED
    BY <2>1 DEF OrdersOK
<1>20. OrderOf(pg)' = Resolved(mf).order /\ resolved'[pg'] = Resolved(mf)
  BY <1>2, <1>9 DEF OrderOf
<1>21. \A x : Do("start", g, x) \in Elements(todo) <=> x \in Elements(Resolved(mf).order)
  BY <1>8, DoIs DEF Lists
<1>22. Agenda'
  <2>1. \A s \in Elements(todo) : \E x \in Elements(Resolved(mf).order) : s = Do("start", g, x)
    BY <1>8 DEF Lists
  <2>. QED
    BY <1>2, <1>10, <1>20, <2>1 DEF Agenda
<1>23. PluginsOK'
  <2>1. \A h \in Generations, x \in Plugins : IsStarted(h, x)' => h # g /\ IsStarted(h, x)
    BY <1>13 DEF IsStarted
  <2>2. ASSUME NEW h \in Generations, NEW x \in Plugins, IsStarted(h, x)'
        PROVE  /\ h = op'.pg /\ h \in 1 .. gen' /\ x \in Elements(OrderOf(h)')
    <3>1. h # g /\ IsStarted(h, x)
      BY <2>1, <2>2
    <3>2. h = pg /\ h \in 1 .. gen /\ x \in Elements(OrderOf(h))
      BY <1>3, <3>1 DEF StagingInv, PluginsOK
    <3>3. OrderOf(h)' = OrderOf(h)
      BY <1>6, <3>1 DEF OrderOf
    <3>. QED
      BY <1>2, <1>4, <1>10, <3>2, <3>3
  <2>3. EdgesUp'
    <3>1. ASSUME NEW h \in 1 .. gen', NEW e \in resolved'[h].edges, IsStarted(h, e[2])'
          PROVE  IsStarted(h, e[1])'
      <4>1. h \in Generations /\ {e[1], e[2]} \subseteq Plugins
        BY <1>2, <1>3, <1>4, <1>19, <3>1 DEF OrdersOK
      <4>2. h # g /\ IsStarted(h, e[2]) /\ h \in 1 .. gen
        BY <1>2, <1>4, <2>1, <3>1, <4>1
      <4>3. resolved'[h] = resolved[h] /\ plugins'[h] = plugins[h]
        BY <1>6, <1>13, <4>1, <4>2
      <4>. QED
        BY <3>1, <4>2, <4>3 DEF StagingInv, PluginsOK, EdgesUp, IsStarted
    <3>. QED
      BY <3>1 DEF EdgesUp

  <2>4. ASSUME kind # "bootstrap"
        PROVE  \A x \in Elements(resolved'[pg].order) : plugins'[pg][x] = "started"
    <3>1. \A x \in Elements(OrderOf(pg)) : IsStarted(pg, x)
      BY <1>3, <2>4, AllStartedIs DEF StagingInv, PluginsOK
    <3>2. resolved'[pg] = resolved[pg] /\ plugins'[pg] = plugins[pg]
      BY <1>3, <1>6, <1>13
    <3>. QED
      BY <3>1, <3>2 DEF OrderOf, IsStarted
  <2>5. Undecided' => AllStarted(op.pg)'
    BY <1>10, <1>11, <2>4 DEF AllStarted, IsStarted, OrderOf, Range, Elements
  <2>6. \A x \in Elements(OrderOf(pg)') : Awaits("start", pg, x)'
    BY <1>2, <1>10, <1>20, <1>21 DEF Awaits
  <2>7. \A e \in resolved'[pg'].edges : Sooner(Do("start", pg, e[1]), Do("start", pg, e[2]))'
    BY <1>2, <1>7, <1>8, <1>10, <1>20 DEF Sooner
  <2>8. complete' = FALSE
    BY <1>1, <1>3 DEF StagingInv, TypesOK, TypeOK
  <2>. QED
    BY <1>10, <1>11, <2>2, <2>3, <2>5, <2>6, <2>7, <2>8 DEF PluginsOK
<1>24. AdaptersOK'
  <2>1. \A h \in Generations, a \in Adapters : IsOpen(h, a)' =>
          IsOpen(h, a) \/ (kind # "plugins" /\ h = g)
    BY <1>14 DEF IsOpen
  <2>2. ASSUME NEW h \in Generations, NEW a \in Adapters
        PROVE  /\ IsOpen(h, a)' => h # 0 /\ (h = ag' \/ h = op'.ag)
               /\ IsServing(h, a)' => booted' /\ h = op'.ag
    BY <1>1, <1>2, <1>3, <1>10, <2>1 DEF StagingInv, AdaptersOK, IsServing
  <2>3. kind # "bootstrap" => \A a \in Adapters : adapters'[ag][a] = "built"
    BY <1>3, <1>14 DEF StagingInv, AdaptersOK, IsOpen
  <2>4. kind # "plugins" =>
          \A a \in Adapters : tasks'[g][a] # "running" /\ adapters'[g][a] = "built"
    BY <1>1, <1>3, <1>14 DEF StagingInv, AdaptersOK, IsServing
  <2>5. complete' = FALSE
    BY <1>1, <1>3 DEF StagingInv, TypesOK, TypeOK
  <2>. QED
    BY <1>2, <1>10, <1>11, <2>2, <2>3, <2>4, <2>5 DEF AdaptersOK, IsOpen, IsServing
<1>25. WatchOK'
  <2>1. ASSUME kind # "bootstrap"
        PROVE  \A s \in Parts \ blind' : loaded'[pg][s] = seen'[s]
    BY <1>1, <1>3, <1>15, <1>16, <2>1 DEF StagingInv, WatchOK, Known
  <2>. QED
    BY <1>10, <1>11, <2>1 DEF WatchOK, Known
<1>. QED
  BY <1>12, <1>17, <1>18, <1>19, <1>22, <1>23, <1>24, <1>25 DEF StagingInv

----------------------------------------------------------------------------
(* The theorems *)

LEMMA InitKeeps ==
  ASSUME Init
  PROVE  StagingInv
<1>1. 0 \in Generations /\ 0 \in Versions /\ 1 .. 0 = {} /\ 0 .. 0 = {0}
  BY StagingAssumption DEF Generations, Versions
<1>2. /\ op = Idle /\ gen = 0 /\ pg = 0 /\ ag = 0 /\ committed = {0}
      /\ resolved = [g \in Generations |-> Resolved(<< >>)]
      /\ serving = FALSE /\ stopping = FALSE /\ booted = FALSE
      /\ complete = FALSE /\ failures = FALSE
      /\ saved = [top |-> {}, deep |-> {}] /\ written = {} /\ store \in Stores
      /\ secured = {} /\ unsaved = FALSE
      /\ seen = Unedited /\ disk = Unedited /\ blind = {}
      /\ top = [g \in Generations |-> {}] /\ deep = [g \in Generations |-> {}]
      /\ active = {} /\ cell = [g \in Generations |-> g]
      /\ loaded = [g \in Generations |-> Unedited]
  BY DEF Init
<1>3. /\ \A g \in Generations, x \in Plugins : ~IsStarted(g, x)
      /\ \A g \in Generations, a \in Adapters : ~IsOpen(g, a) /\ ~IsServing(g, a)
      /\ plugins \in [Generations -> [Plugins -> PluginStates]]
      /\ adapters \in [Generations -> [Adapters -> AdapterStates]]
      /\ tasks \in [Generations -> [Adapters -> TaskStates]]
  BY DEF Init, IsStarted, IsOpen, IsServing, PluginStates, AdapterStates, TaskStates
<1>4. ~Busy /\ ~Running /\ ~Undecided /\ ~Replacing
  BY <1>2, IdleIs DEF Busy, Running, Undecided, Replacing
<1>5. Unedited \in [Parts -> Versions]
  BY <1>1 DEF Unedited
<1>6. TypesOK
  <2>1. saved \in [Places -> SUBSET Writes]
    BY <1>2 DEF Places
  <2>2. /\ top \in [Generations -> SUBSET Writes] /\ deep \in [Generations -> SUBSET Writes]
        /\ cell \in [Generations -> Generations]
        /\ loaded \in [Generations -> [Parts -> Versions]]
        /\ DOMAIN resolved = Generations
    BY <1>2, <1>5
  <2>. QED
    BY <1>1, <1>2, <1>3, <1>5, <2>1, <2>2 DEF TypesOK, TypeOK
<1>7. Control /\ Agenda /\ OrdersOK /\ StateOK /\ WatchOK
  BY <1>1, <1>2, <1>4 DEF Control, Agenda, OrdersOK, StateOK, WatchOK
<1>8. PluginsOK /\ AdaptersOK
  BY <1>1, <1>2, <1>3, <1>4 DEF PluginsOK, EdgesUp, AdaptersOK
<1>. QED
  BY <1>6, <1>7, <1>8 DEF StagingInv

LEMMA NothingKeeps ==
  ASSUME StagingInv, UNCHANGED vars
  PROVE  StagingInv'
<1>1. /\ UNCHANGED <<op, gen, resolved, plugins, adapters, tasks, active, pg, ag, committed,
                     serving, stopping, booted, complete, failures, disk, loaded, seen, blind>>
      /\ UNCHANGED state /\ UNCHANGED <<store, saved, top, deep, cell, written, secured, unsaved>>
  BY DEF vars, instances, flags, state, watch
<1>2. TypesOK'
  BY <1>1 DEF StagingInv, TypesOK, TypeOK
<1>3. Control'
  BY <1>1 DEF StagingInv, Control, Busy
<1>. QED
  BY <1>1, <1>2, <1>3, Frames, StateFrame DEF StagingInv

LEMMA NextKeeps ==
  ASSUME StagingInv, [Next]_vars
  PROVE  StagingInv'
<1>1. CASE UNCHANGED vars
  BY <1>1, NothingKeeps
<1>2. CASE Progress
  BY <1>2, StartPluginKeeps, StartFailsKeeps, StagedKeeps, SnapshotFailsKeeps, CloseAdapterKeeps,
     EndTaskKeeps, ServeNewKeeps, StopPluginKeeps, RollbackEndsKeeps, CommitEndsKeeps,
     ShutdownEndsKeeps, BeginShutdownKeeps, StopKeeps
     DEF Progress
<1>3. CASE \E k \in Kinds : Begin(k)
  BY <1>3, BeginKeeps
<1>4. CASE \E g \in Generations, a \in Adapters : AdapterFails(g, a)
  BY <1>4, AdapterFailsKeeps
<1>5. CASE Serve \/ Stop \/ CallShutdown \/ HandlerWrites \/ Edit
  BY <1>5, ServeKeeps, StopKeeps, HandlerWritesKeeps, EditKeeps
<1>6. CASE Rest
  BY <1>1, <1>6 DEF Rest
<1>. QED
  BY <1>1, <1>2, <1>3, <1>4, <1>5, <1>6 DEF Next

LEMMA StagingInvariance == Spec => []StagingInv
<1>1. Init => StagingInv
  BY InitKeeps
<1>2. StagingInv /\ [Next]_vars => StagingInv'
  BY NextKeeps
<1>. QED
  BY <1>1, <1>2, PTL DEF Spec

\* What a bootstrapped Runtime has made current.
LEMMA CurrentIs ==
  ASSUME StagingInv, booted
  PROVE  /\ pg \in 1 .. gen /\ ag \in 1 .. gen /\ 1 .. gen \subseteq Generations
         /\ ~Busy => pg \in committed /\ ag \in committed
         /\ ~Busy /\ ~complete => Running
<1>1. /\ gen \in Nat /\ pg \in Nat /\ ag \in Nat /\ 1 .. gen \subseteq Generations
  BY BusyIs DEF StagingInv, TypesOK, TypeOK, Generations
<1>2. pg # 0 /\ ag # 0 /\ pg <= gen /\ ag <= gen /\ (~Busy => {pg, ag} \subseteq committed)
  BY DEF StagingInv, Control
<1>. QED
  BY <1>1, <1>2 DEF Running

\* The lifecycle operations keep what the Runtime holds of its types: of the
\* Keeper, every generation refers to a nested value of one not after it.
THEOREM StagingTypeCorrect == Spec => []TypeOK
<1>1. StagingInv => TypeOK
  BY DEF StagingInv, TypesOK
<1>. QED
  BY <1>1, StagingInvariance, PTL

\* After reloads that failed at any step, after those that succeeded and after
\* shutdown(), the plugins and adapters that are up are the current ones, all
\* of them, or none.
THEOREM OneSetIsLeft == Spec => []Settled
<1>1. ASSUME StagingInv, ~Busy, booted
      PROVE  /\ pg \in committed /\ ag \in committed
             /\ \A g \in Generations :
                  IF g = pg /\ ~complete THEN AllStarted(g) ELSE NoneStarted(g)
             /\ \A g \in 1 .. gen : \A a \in Adapters :
                  g # ag \/ complete => adapters[g][a] # "built" /\ tasks[g][a] # "running"
             /\ ~complete => \A a \in Adapters : adapters[ag][a] = "built"
  <2>1. /\ pg \in committed /\ ag \in committed /\ 1 .. gen \subseteq Generations
        /\ ~complete => Running
    BY <1>1, CurrentIs
  <2>2. ASSUME NEW g \in Generations
        PROVE  IF g = pg /\ ~complete THEN AllStarted(g) ELSE NoneStarted(g)
    BY <1>1, <2>1 DEF StagingInv, PluginsOK, NoneStarted
  <2>3. ASSUME NEW g \in 1 .. gen, NEW a \in Adapters, g # ag \/ complete
        PROVE  adapters[g][a] # "built" /\ tasks[g][a] # "running"
    BY <1>1, <2>1, <2>3 DEF StagingInv, AdaptersOK, IsOpen, IsServing
  <2>. QED
    BY <1>1, <2>1, <2>2, <2>3 DEF StagingInv, AdaptersOK, IsOpen
<1>2. StagingInv => Settled
  BY <1>1 DEF Settled
<1>. QED
  BY <1>2, StagingInvariance, PTL

\* In staging, rollback, commit and teardown, a plugin is up only while those
\* it needs are, and adapters serve only while a generation of plugins is up
\* as a whole.
THEOREM WhatIsNeededIsUp == Spec => []NeededIsUp
<1>1. ASSUME StagingInv, NEW g \in Generations, Serves(g)
      PROVE  \E h \in 1 .. gen : AllStarted(h)
  <2>1. PICK a \in Adapters : IsServing(g, a)
    BY <1>1 DEF Serves, IsServing
  <2>2. booted /\ (g = ag \/ (Busy /\ g = op.ag))
    BY <1>1, <2>1 DEF StagingInv, AdaptersOK
  <2>3. pg \in 1 .. gen /\ (~Busy /\ ~complete => Running)
    BY <1>1, <2>2, CurrentIs
  <2>4. CASE ~Busy
    BY <1>1, <2>1, <2>2, <2>3, <2>4 DEF StagingInv, PluginsOK, AdaptersOK
  <2>5. CASE Undecided
    BY <1>1, <2>5, OldIs DEF Undecided, StagingInv, PluginsOK
  <2>6. CASE Busy /\ op.phase = "commit"
    BY <1>1, <2>3, <2>6 DEF StagingInv, PluginsOK
  <2>7. CASE Busy /\ op.phase = "teardown"
    <3>1. g = ag
      BY <1>1, <2>2, <2>7 DEF StagingInv, Control
    <3>. QED
      BY <1>1, <2>1, <2>3, <2>7, <3>1 DEF StagingInv, AdaptersOK
  <2>8. Busy => op.phase \in {"commit", "teardown"} \/ Undecided
    <3>1. Busy => op \in Operations /\ op.kind # "bootstrap"
      BY <1>1, <2>2, BusyIs DEF StagingInv, Control
    <3>2. Busy => (op.kind = "shutdown" => op.phase = "teardown")
      BY <1>1 DEF StagingInv, Control
    <3>. QED
      BY <3>1, <3>2 DEF Operations, Kinds, Undecided
  <2>. QED
    BY <2>4, <2>5, <2>6, <2>7, <2>8
<1>2. StagingInv => EdgesUp
  BY DEF StagingInv, PluginsOK
<1>3. StagingInv => NeededIsUp
  BY <1>1, <1>2 DEF NeededIsUp, EdgesUp
<1>. QED
  BY <1>3, StagingInvariance, PTL

\* What handlers of the Keeper have written survives any number of reloads,
\* those that fail included, and shutdown() leaves it in the store, or when its
\* save fails what the last reload has saved there.
THEOREM WritesAreKept == Spec => []NothingIsLost
<1>1. StagingInv => NothingIsLost
  <2>1. ASSUME StagingInv, ~Busy, booted, NEW p \in Places
        PROVE  /\ ~complete => written \subseteq Content(pg)[p]
               /\ complete => (IF unsaved THEN secured ELSE written) \subseteq saved[p]
    BY <2>1 DEF StagingInv, StateOK
  <2>. QED
    BY <2>1 DEF NothingIsLost
<1>. QED
  BY <1>1, StagingInvariance, PTL

\* What the plugins of a reload that failed have written is nowhere in the
\* state of those that were kept, nested values that a JSON store shares apart.
THEOREM FailureLeavesNoTrace == Spec => []FailedStagingLeavesNoTrace
<1>1. ASSUME StagingInv, ~Busy, booted
      PROVE  /\ \A w \in top[pg] : w[1] \in committed
             /\ store # "json" => \A w \in deep[cell[pg]] : w[1] \in committed
  <2>1. pg \in 1 .. gen /\ pg \in committed
    BY <1>1, CurrentIs
  <2>. QED
    BY <1>1, <2>1 DEF StagingInv, StateOK
<1>2. StagingInv => FailedStagingLeavesNoTrace
  BY <1>1 DEF FailedStagingLeavesNoTrace
<1>. QED
  BY <1>2, StagingInvariance, PTL

\* What was edited after the current plugins were built differs from what the
\* watcher has seen, but for parts that a snapshot has taken for built.
THEOREM EditsAreSeen == Spec => []EditsAreNoticed
<1>1. ASSUME StagingInv, ~Busy, booted, ~complete, NEW s \in Parts \ blind
      PROVE  loaded[pg][s] = disk[s] \/ Noticed(s)
  BY <1>1 DEF StagingInv, WatchOK, Running, Known, Noticed, Snapshot
<1>2. StagingInv => EditsAreNoticed
  BY <1>1 DEF EditsAreNoticed
<1>. QED
  BY <1>2, StagingInvariance, PTL
=============================================================================
