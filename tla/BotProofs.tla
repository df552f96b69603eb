------------------------------- MODULE BotProofs -------------------------------
(***************************************************************************)
(* Proofs about module Bot, for any events, handlers, rules, permissions,  *)
(* connections, requests and updates.                                      *)
(*                                                                         *)
(* The first half is about values.  A result of a tree agrees with what    *)
(* the tree means (Agrees) for all answers that extend the known ones      *)
(* (Fits): node by node, since a node only refers to those before it.  So  *)
(* an evaluation that is over has picked whom the event is for, and one    *)
(* that goes on asks a predicate that has not answered: after as many      *)
(* rounds as there are predicates it awaits one or is over.                *)
(*                                                                         *)
(* The second half is about steps.  Each is one of the transports or       *)
(* leaves them alone, which carries over what TransportProofs shows of     *)
(* them.  The invariant adds where evaluations may be, that every reader   *)
(* that waits does so for one event, and where jobs may be.                *)
(***************************************************************************)
EXTENDS Bot, TransportProofs, SelectionProofs

----------------------------------------------------------------------------
(* Nodes, lists and cases *)

\* A node is one of these.
LEMMA NodeIs ==
  ASSUME NEW i \in Nat, NEW leaves, NEW plain, NEW node \in Nodes(i, leaves, plain)
  PROVE  \/ node.op = "allow"
         \/ node.op = "leaf" /\ node.of \in plain
         \/ /\ node.op = "fields"
            /\ DOMAIN node.conditions \subseteq Nat
            /\ \A k \in DOMAIN node.conditions :
                 LET c == node.conditions[k] IN
                 /\ c.of \in leaves
                 /\ c.op = "exists" => c.want \in BOOLEAN
         \/ /\ node.op \in {"all", "any"}
            /\ DOMAIN node.of \subseteq Nat
            /\ \A k \in DOMAIN node.of : node.of[k] \in 1 .. i - 1
         \/ node.op = "not" /\ node.of \in 1 .. i - 1
         \/ /\ node.op = "cases"
            /\ DOMAIN node.cases = 1 .. Len(node.cases) /\ Len(node.cases) \in Nat
            /\ \A k \in DOMAIN node.cases :
                 LET c == node.cases[k] IN
                 c.rule \in 1 .. i - 1 /\ c.priority \in Int /\ c.name \in Int
<1> DEFINE Conditions == [op : {"exists"}, of : leaves, want : BOOLEAN]
                         \cup [op : Comparisons, of : leaves]
           CaseSet == [name : Int, priority : Int, rule : 1 .. i - 1]
<1>1. CASE node \in [op : {"allow"}]
  BY <1>1
<1>2. CASE node \in [op : {"leaf"}, of : plain]
  BY <1>2
<1>3. CASE node \in [op : {"fields"}, conditions : Seq(Conditions)]
  <2>1. node.op = "fields" /\ node.conditions \in Seq(Conditions)
    BY <1>3
  <2>2. \A c \in Conditions : c.of \in leaves /\ (c.op = "exists" => c.want \in BOOLEAN)
    BY DEF Comparisons
  <2> HIDE DEF Conditions
  <2>3. /\ DOMAIN node.conditions \subseteq Nat
        /\ \A k \in DOMAIN node.conditions : node.conditions[k] \in Conditions
    BY <2>1
  <2>. QED
    BY <2>1, <2>2, <2>3
<1>4. CASE node \in [op : {"all", "any"}, of : Seq(1 .. i - 1)]
  <2>1. node.op \in {"all", "any"} /\ node.of \in Seq(1 .. i - 1)
    BY <1>4
  <2>. QED
    BY <2>1
<1>5. CASE node \in [op : {"not"}, of : 1 .. i - 1]
  BY <1>5
<1>6. CASE node \in [op : {"cases"}, first : BOOLEAN, cases : Seq(CaseSet)]
  <2>1. node.op = "cases" /\ node.cases \in Seq(CaseSet)
    BY <1>6
  <2>2. \A c \in CaseSet : c.rule \in 1 .. i - 1 /\ c.priority \in Int /\ c.name \in Int
    OBVIOUS
  <2> HIDE DEF CaseSet
  <2>3. /\ DOMAIN node.cases = 1 .. Len(node.cases) /\ Len(node.cases) \in Nat
        /\ \A k \in DOMAIN node.cases : node.cases[k] \in CaseSet
    BY <2>1
  <2>. QED
    BY <2>1, <2>2, <2>3
<1>. QED
  BY <1>1, <1>2, <1>3, <1>4, <1>5, <1>6 DEF Nodes

LEMMA TreeIs ==
  ASSUME NEW tree, NEW leaves, NEW plain, IsTree(tree, leaves, plain)
  PROVE  /\ Len(tree) \in Nat \ {0}
         /\ tree \in Seq(Nodes(Len(tree), leaves, plain))
BY DEF IsTree

LEMMA EarliestIs ==
  ASSUME NEW S \in SUBSET Nat, S # {}
  PROVE  Earliest(S) \in S /\ \A k \in S : Earliest(S) <= k
BY LeastNatural DEF Earliest

\* What a list says is what ends its evaluation, or that nothing did.
LEMMA FirstToSayIs ==
  ASSUME NEW w \in {"yes", "no"}, NEW results, DOMAIN results \subseteq Nat
  PROVE  \/ /\ FirstToSay(w, results) = Truth(w = "no")
            /\ \A i \in DOMAIN results : results[i].says \notin {w, "ask", "raises"}
         \/ \E i \in DOMAIN results : /\ FirstToSay(w, results) = results[i]
                                      /\ results[i].says \in {w, "ask", "raises"}
<1> DEFINE stops == {i \in DOMAIN results : results[i].says \in {w, "ask", "raises"}}
<1>1. CASE stops = {}
  BY <1>1 DEF FirstToSay
<1>2. CASE stops # {}
  <2>1. Earliest(stops) \in stops
    BY <1>2, EarliestIs
  <2>2. FirstToSay(w, results) = results[Earliest(stops)]
    BY <1>2 DEF FirstToSay
  <2>. QED
    BY <2>1, <2>2
<1>. QED
  BY <1>1, <1>2

\* Cases that are not equal have an order, which is total.
LEMMA LeastCase ==
  ASSUME NEW n \in Nat, NEW cases,
         \A k \in 1 .. n : cases[k].priority \in Int /\ cases[k].name \in Int,
         NEW S \in SUBSET (1 .. n), S # {}
  PROVE  \E i \in S : \A j \in S \ {i} : CaseBefore(cases, i, j)
<1> DEFINE Bad == {m \in 0 .. n : \E T \in SUBSET (1 .. m) :
                     T # {} /\ ~ \E i \in T : \A j \in T \ {i} : CaseBefore(cases, i, j)}
<1>0. ASSUME ~ \E i \in S : \A j \in S \ {i} : CaseBefore(cases, i, j) PROVE n \in Bad
  <2>1. n \in 0 .. n
    OBVIOUS
  <2>. QED
    BY <1>0, <2>1
<1> HIDE DEF Bad
<1> SUFFICES ASSUME Bad # {} PROVE FALSE
  BY <1>0
<1> USE DEF Bad
<1>1. PICK m \in Bad : \A k \in Bad : m <= k
  <2>. Bad \in SUBSET Nat
    OBVIOUS
  <2>. QED
    BY LeastNatural
<1>2. PICK T \in SUBSET (1 .. m) :
        T # {} /\ ~ \E i \in T : \A j \in T \ {i} : CaseBefore(cases, i, j)
  BY <1>1
<1>3. m \in 1 .. n
  <2>1. m \in 0 .. n /\ \E t \in T : t \in 1 .. m
    BY <1>2
  <2>. QED
    BY <2>1
<1>4. m - 1 \in 0 .. n /\ m - 1 \notin Bad
  <2>1. m - 1 \in 0 .. n /\ ~(m <= m - 1)
    BY <1>3
  <2> HIDE DEF Bad
  <2>. QED
    BY <1>1, <2>1
<1> DEFINE U == T \ {m}
<1>5. U \in SUBSET (1 .. m - 1)
  BY <1>3
<1>6. CASE U = {}
  <2>1. PICK t \in T : TRUE
    BY <1>2
  <2>2. \A j \in T \ {t} : FALSE
    BY <2>1, <1>6
  <2>. QED
    BY <2>1, <2>2, <1>2
<1>7. CASE U # {}
  <2>1. PICK i \in U : \A j \in U \ {i} : CaseBefore(cases, i, j)
    BY <1>4, <1>5, <1>7
  <2>0. U \subseteq 1 .. n /\ m \in 1 .. n /\ \A u \in U : u < m
    BY <1>3, <1>5
  <2>2. CASE m \notin T
    BY <2>1, <2>2, <1>2
  <2>3. CASE m \in T
    <3>1. CaseBefore(cases, i, m) \/ CaseBefore(cases, m, i)
      BY <2>0 DEF CaseBefore
    <3>2. CASE CaseBefore(cases, i, m)
      BY <3>2, <2>1, <1>2
    <3>3. CASE CaseBefore(cases, m, i)
      <4>1. \A j \in U \ {i} : CaseBefore(cases, m, j)
        BY <3>3, <2>1, <2>0 DEF CaseBefore
      <4>. QED
        BY <4>1, <3>3, <2>3, <1>2
    <3>. QED
      BY <3>1, <3>2, <3>3
  <2>. QED
    BY <2>2, <2>3
<1>. QED
  BY <1>6, <1>7

----------------------------------------------------------------------------
(* What a node says *)

\* A result s, from the answers known, of what is b in the end.
Agrees(s, b, known) ==
  /\ s.says \in {"yes", "no", "ask", "raises"}
  /\ s.says = "yes" => b
  /\ s.says = "no" => ~b
  /\ s.says = "ask" => s.of \in Leaves \ DOMAIN known

\* said is what all predicates say, and known what some of them have said.
Fits(said, known) ==
  /\ known \in Known /\ said \in Complete
  /\ \A a \in DOMAIN known : said[a] = known[a]

LEMMA KnownIs ==
  ASSUME NEW known \in Known
  PROVE  /\ known = [a \in DOMAIN known |-> known[a]]
         /\ DOMAIN known \in SUBSET Leaves
         /\ \A a \in DOMAIN known : known[a] \in Answers[a]
BY DEF Known, Complete

LEMMA AnswersAre ==
  ASSUME NEW a \in Leaves, NEW x \in Answers[a]
  PROVE  x \in LeafAnswers /\ (a \in Plain => x # "missing")
BY RulesAssumption DEF Plain

LEMMA PredicateAgrees ==
  ASSUME NEW known, NEW said, Fits(said, known), NEW a \in Plain
  PROVE  Agrees(Predicate(a, known), said[a] = "yes", known)
<1>0. a \in Leaves
  BY DEF Plain
<1>1. CASE a \in DOMAIN known
  <2>1. known[a] \in LeafAnswers \ {"missing"} /\ said[a] = known[a]
    BY <1>0, <1>1, KnownIs, AnswersAre DEF Fits
  <2>. QED
    BY <1>1, <2>1 DEF Agrees, Predicate, Says, LeafAnswers
<1>2. CASE a \notin DOMAIN known
  BY <1>0, <1>2 DEF Agrees, Predicate, Ask
<1>. QED
  BY <1>1, <1>2

\* What a condition means.
Meets(c, said) ==
  IF c.op = "exists" THEN c.want = (said[c.of] # "missing") ELSE said[c.of] = "yes"

LEMMA ConditionAgrees ==
  ASSUME NEW known, NEW said, Fits(said, known), NEW c, c.of \in Leaves,
         c.op = "exists" => c.want \in BOOLEAN
  PROVE  Agrees(Condition(c, known), Meets(c, said), known)
<1>1. CASE c.of \in DOMAIN known
  <2>1. known[c.of] \in LeafAnswers /\ said[c.of] = known[c.of]
    BY <1>1, KnownIs, AnswersAre DEF Fits
  <2>. QED
    BY <1>1, <2>1 DEF Agrees, Condition, Predicate, Says, Truth, LeafAnswers, Meets
<1>2. CASE c.of \notin DOMAIN known
  BY <1>2 DEF Agrees, Condition, Predicate, Ask
<1>. QED
  BY <1>1, <1>2

LEMMA TruthAgrees ==
  ASSUME NEW b \in BOOLEAN, NEW known
  PROVE  Agrees(Truth(b), b, known)
BY DEF Agrees, Truth, Says

LEMMA AllAgree ==
  ASSUME NEW known, NEW results, DOMAIN results \subseteq Nat, NEW truths,
         \A i \in DOMAIN results : Agrees(results[i], truths[i], known)
  PROVE  Agrees(FirstToSay("no", results), \A i \in DOMAIN results : truths[i], known)
<1>1. CASE /\ FirstToSay("no", results) = Truth(TRUE)
           /\ \A i \in DOMAIN results : results[i].says \notin {"no", "ask", "raises"}
  <2>1. \A i \in DOMAIN results : truths[i]
    BY <1>1 DEF Agrees
  <2>. QED
    BY <1>1, <2>1, TruthAgrees DEF Agrees
<1>2. CASE \E i \in DOMAIN results : /\ FirstToSay("no", results) = results[i]
                                     /\ results[i].says \in {"no", "ask", "raises"}
  BY <1>2 DEF Agrees
<1>. QED
  BY <1>1, <1>2, FirstToSayIs

LEMMA AnyAgrees ==
  ASSUME NEW known, NEW results, DOMAIN results \subseteq Nat, NEW truths,
         \A i \in DOMAIN results : Agrees(results[i], truths[i], known)
  PROVE  Agrees(FirstToSay("yes", results), \E i \in DOMAIN results : truths[i], known)
<1>1. CASE /\ FirstToSay("yes", results) = Truth(FALSE)
           /\ \A i \in DOMAIN results : results[i].says \notin {"yes", "ask", "raises"}
  <2>1. ~ \E i \in DOMAIN results : truths[i]
    BY <1>1 DEF Agrees
  <2>. QED
    BY <1>1, <2>1, TruthAgrees DEF Agrees
<1>2. CASE \E i \in DOMAIN results : /\ FirstToSay("yes", results) = results[i]
                                     /\ results[i].says \in {"yes", "ask", "raises"}
  BY <1>2 DEF Agrees
<1>. QED
  BY <1>1, <1>2, FirstToSayIs

LEMMA NotAgrees ==
  ASSUME NEW known, NEW s, NEW b \in BOOLEAN, Agrees(s, b, known)
  PROVE  Agrees(Not(s), ~b, known)
BY DEF Agrees, Not, Decided, Truth, Says

LEMMA CasesAgree ==
  ASSUME NEW known, NEW cases, NEW first, NEW results, NEW truths,
         Len(cases) \in Nat, DOMAIN cases = 1 .. Len(cases),
         \A k \in DOMAIN cases : cases[k].priority \in Int /\ cases[k].name \in Int,
         \A k \in DOMAIN cases : Agrees(results[k], truths[k], known)
  PROVE  Agrees(CasesSay(cases, results, first), \E k \in DOMAIN cases : truths[k], known)
<1> DEFINE stops == {i \in DOMAIN cases : \/ ~Decided(results[i])
                                          \/ first /\ results[i].says = "yes"}
<1>1. CASE stops = {}
  <2>1. CasesSay(cases, results, first)
          = Truth(\E i \in DOMAIN cases : results[i].says = "yes")
    BY <1>1 DEF CasesSay
  <2>2. \A i \in DOMAIN cases : Decided(results[i])
    BY <1>1
  <2>3. (\E i \in DOMAIN cases : results[i].says = "yes")
          = (\E k \in DOMAIN cases : truths[k])
    BY <2>2 DEF Decided, Agrees
  <2>. QED
    BY <2>1, <2>3, TruthAgrees
<1>2. CASE stops # {}
  <2> DEFINE last == CHOOSE i \in stops : \A j \in stops \ {i} : CaseBefore(cases, i, j)
  <2>1. CasesSay(cases, results, first) = results[last]
    BY <1>2 DEF CasesSay
  <2>2. \E i \in stops : \A j \in stops \ {i} : CaseBefore(cases, i, j)
    BY <1>2, LeastCase
  <2>3. last \in stops
    BY <2>2
  <2>4. results[last].says # "no" /\ Agrees(results[last], truths[last], known)
    BY <2>3 DEF Decided
  <2> HIDE DEF last
  <2>. QED
    BY <2>1, <2>3, <2>4 DEF Agrees
<1>. QED
  BY <1>1, <1>2

----------------------------------------------------------------------------
(* The recursion over the nodes of a tree *)

\* A node only looks at those before it.
LEMMA SaysLocal ==
  ASSUME NEW i \in Nat, NEW leaves, NEW plain, NEW node \in Nodes(i, leaves, plain),
         NEW known, NEW f, NEW g, \A k \in 1 .. i - 1 : f[k] = g[k]
  PROVE  NodeSays(node, i, f, known) = NodeSays(node, i, g, known)
<1>0. \A d \in 1 .. i - 1 : f[i - d] = g[i - d]
  OBVIOUS
<1>1. CASE node.op \in {"allow", "leaf", "fields"}
  BY <1>1 DEF NodeSays
<1>2. CASE /\ node.op \in {"all", "any"}
           /\ \A k \in DOMAIN node.of : node.of[k] \in 1 .. i - 1
  <2>1. [k \in DOMAIN node.of |-> f[i - node.of[k]]]
          = [k \in DOMAIN node.of |-> g[i - node.of[k]]]
    BY <1>0, <1>2
  <2>2. CASE node.op = "all"
    BY <2>1, <2>2 DEF NodeSays
  <2>3. CASE node.op = "any"
    BY <2>1, <2>3 DEF NodeSays
  <2>. QED
    BY <1>2, <2>2, <2>3
<1>3. CASE node.op = "not" /\ node.of \in 1 .. i - 1
  BY <1>0, <1>3 DEF NodeSays
<1>4. CASE /\ node.op = "cases"
           /\ \A k \in DOMAIN node.cases : node.cases[k].rule \in 1 .. i - 1
  <2>1. [k \in DOMAIN node.cases |-> f[i - node.cases[k].rule]]
          = [k \in DOMAIN node.cases |-> g[i - node.cases[k].rule]]
    BY <1>0, <1>4
  <2>. QED
    BY <1>4, <2>1 DEF NodeSays
<1>. QED
  BY NodeIs, <1>1, <1>2, <1>3, <1>4

\* What a node means is not changed by where its tree stands in another.
LEMMA HoldsAnywhere ==
  ASSUME NEW i \in Nat, NEW at \in Nat, NEW leaves, NEW plain,
         NEW node \in Nodes(i, leaves, plain), NEW said, NEW f, NEW g,
         \A d \in 1 .. i - 1 : f[at - d] = g[i - d]
  PROVE  NodeHolds(node, at, f, said) = NodeHolds(node, i, g, said)
<1>1. CASE node.op \in {"allow", "leaf", "fields"}
  BY <1>1 DEF NodeHolds
<1>2. CASE /\ node.op \in {"all", "any"}
           /\ \A k \in DOMAIN node.of : node.of[k] \in 1 .. i - 1
  BY <1>2 DEF NodeHolds
<1>3. CASE node.op = "not" /\ node.of \in 1 .. i - 1
  BY <1>3 DEF NodeHolds
<1>4. CASE /\ node.op = "cases"
           /\ \A k \in DOMAIN node.cases : node.cases[k].rule \in 1 .. i - 1
  BY <1>4 DEF NodeHolds
<1>. QED
  BY NodeIs, <1>1, <1>2, <1>3, <1>4

\* f is what the first n nodes say.
SaidTo(n, f, tree, known) ==
  f = [i \in 1 .. n |-> NodeSays(tree[i], i, f, known)]

HeldTo(n, f, tree, said) ==
  f = [i \in 1 .. n |-> NodeHolds(tree[i], i, f, said)]

LEMMA SaidExists ==
  ASSUME NEW tree, IsTree(tree, Leaves, Plain), NEW known
  PROVE  \E f : SaidTo(Len(tree), f, tree, known)
<1> DEFINE Bad == {n \in 0 .. Len(tree) : ~ \E f : SaidTo(n, f, tree, known)}
<1>0. Len(tree) \in Nat
  BY TreeIs
<1> SUFFICES ASSUME Bad # {} PROVE FALSE
  BY <1>0
<1>1. PICK n \in Bad : \A k \in Bad : n <= k
  <2>. Bad \in SUBSET Nat
    OBVIOUS
  <2>. QED
    BY LeastNatural
<1>2. n \in 0 .. Len(tree) /\ ~ \E f : SaidTo(n, f, tree, known)
  OBVIOUS
<1>3. n # 0
  <2>1. SaidTo(0, [i \in 1 .. 0 |-> 0], tree, known)
    BY DEF SaidTo
  <2>. QED
    BY <1>2, <2>1
<1>4. n - 1 \in 0 .. Len(tree) /\ n - 1 \notin Bad
  <2>1. n - 1 \in 0 .. Len(tree) /\ ~(n <= n - 1)
    BY <1>0, <1>2, <1>3
  <2> HIDE DEF Bad
  <2>. QED
    BY <1>1, <2>1
<1>5. PICK f : SaidTo(n - 1, f, tree, known)
  BY <1>4
<1> DEFINE g == [i \in 1 .. n |-> IF i < n THEN f[i] ELSE NodeSays(tree[n], n, f, known)]
<1>6. ASSUME NEW i \in 1 .. n PROVE g[i] = NodeSays(tree[i], i, g, known)
  <2>1. \A k \in 1 .. i - 1 : f[k] = g[k]
    BY <1>2
  <2>2. g[i] = NodeSays(tree[i], i, f, known)
    BY <1>2, <1>5 DEF SaidTo
  <2>3. i \in Nat /\ tree[i] \in Nodes(i, Leaves, Plain)
    BY <1>2, <1>0 DEF IsTree
  <2> HIDE DEF g
  <2>. QED
    BY <2>1, <2>2, <2>3, SaysLocal
<1>7. SaidTo(n, g, tree, known)
  <2>1. g = [i \in 1 .. n |-> g[i]]
    OBVIOUS
  <2> HIDE DEF g
  <2>. QED
    BY <1>6, <2>1 DEF SaidTo
<1>. QED
  BY <1>2, <1>7

LEMMA HeldExists ==
  ASSUME NEW tree, IsTree(tree, Leaves, Plain), NEW said
  PROVE  \E f : HeldTo(Len(tree), f, tree, said)
<1> DEFINE Bad == {n \in 0 .. Len(tree) : ~ \E f : HeldTo(n, f, tree, said)}
<1>0. Len(tree) \in Nat
  BY TreeIs
<1> SUFFICES ASSUME Bad # {} PROVE FALSE
  BY <1>0
<1>1. PICK n \in Bad : \A k \in Bad : n <= k
  <2>. Bad \in SUBSET Nat
    OBVIOUS
  <2>. QED
    BY LeastNatural
<1>2. n \in 0 .. Len(tree) /\ ~ \E f : HeldTo(n, f, tree, said)
  OBVIOUS
<1>3. n # 0
  <2>1. HeldTo(0, [i \in 1 .. 0 |-> 0], tree, said)
    BY DEF HeldTo
  <2>. QED
    BY <1>2, <2>1
<1>4. n - 1 \in 0 .. Len(tree) /\ n - 1 \notin Bad
  <2>1. n - 1 \in 0 .. Len(tree) /\ ~(n <= n - 1)
    BY <1>0, <1>2, <1>3
  <2> HIDE DEF Bad
  <2>. QED
    BY <1>1, <2>1
<1>5. PICK f : HeldTo(n - 1, f, tree, said)
  BY <1>4
<1> DEFINE g == [i \in 1 .. n |-> IF i < n THEN f[i] ELSE NodeHolds(tree[n], n, f, said)]
<1>6. ASSUME NEW i \in 1 .. n PROVE g[i] = NodeHolds(tree[i], i, g, said)
  <2>1. \A d \in 1 .. i - 1 : f[i - d] = g[i - d]
    BY <1>2
  <2>2. g[i] = NodeHolds(tree[i], i, f, said)
    BY <1>2, <1>5 DEF HeldTo
  <2>3. i \in Nat /\ tree[i] \in Nodes(i, Leaves, Plain)
    BY <1>2, <1>0 DEF IsTree
  <2> HIDE DEF g
  <2>. QED
    BY <2>1, <2>2, <2>3, HoldsAnywhere
<1>7. HeldTo(n, g, tree, said)
  <2>1. g = [i \in 1 .. n |-> g[i]]
    OBVIOUS
  <2> HIDE DEF g
  <2>. QED
    BY <1>6, <2>1 DEF HeldTo
<1>. QED
  BY <1>2, <1>7

\* What the evaluation of a node says agrees with what the node means, when
\* that is so of those before it.
LEMMA NodeAgrees ==
  ASSUME NEW known, NEW said, Fits(said, known), NEW i \in Nat,
         NEW node \in Nodes(i, Leaves, Plain), NEW f, NEW g,
         \A k \in 1 .. i - 1 : g[k] \in BOOLEAN /\ Agrees(f[k], g[k], known)
  PROVE  /\ NodeHolds(node, i, g, said) \in BOOLEAN
         /\ Agrees(NodeSays(node, i, f, known), NodeHolds(node, i, g, said), known)
<1>0. \A d \in 1 .. i - 1 : g[i - d] \in BOOLEAN /\ Agrees(f[i - d], g[i - d], known)
  OBVIOUS
<1>1. CASE node.op = "allow"
  BY <1>1 DEF NodeSays, NodeHolds, Agrees, Says
<1>2. CASE node.op = "leaf" /\ node.of \in Plain
  <2>1. NodeSays(node, i, f, known) = Predicate(node.of, known)
    BY <1>2 DEF NodeSays
  <2>2. NodeHolds(node, i, g, said) = (said[node.of] = "yes")
    BY <1>2 DEF NodeHolds
  <2>. QED
    BY <1>2, <2>1, <2>2, PredicateAgrees
<1>3. CASE /\ node.op = "fields"
           /\ DOMAIN node.conditions \subseteq Nat
           /\ \A k \in DOMAIN node.conditions :
                LET c == node.conditions[k] IN
                c.of \in Leaves /\ (c.op = "exists" => c.want \in BOOLEAN)
  <2> DEFINE K == DOMAIN node.conditions
  <2>1. PICK r : r = [k \in K |-> Condition(node.conditions[k], known)]
    OBVIOUS
  <2>2. PICK t : t = [k \in K |-> Meets(node.conditions[k], said)]
    OBVIOUS
  <2>3. \A k \in K : Agrees(r[k], t[k], known)
    <3> TAKE k \in K
    <3>1. Agrees(Condition(node.conditions[k], known), Meets(node.conditions[k], said), known)
      BY <1>3, ConditionAgrees
    <3>. QED
      BY <2>1, <2>2, <3>1
  <2>4. Agrees(FirstToSay("no", r), \A k \in DOMAIN r : t[k], known)
    BY <2>1, <2>3, <1>3, AllAgree
  <2>5. NodeSays(node, i, f, known) = FirstToSay("no", r)
    BY <1>3, <2>1 DEF NodeSays
  <2>6. NodeHolds(node, i, g, said) = \A k \in K : Meets(node.conditions[k], said)
    BY <1>3 DEF NodeHolds, Meets
  <2>7. NodeHolds(node, i, g, said) = \A k \in DOMAIN r : t[k]
    BY <2>1, <2>2, <2>6
  <2>. QED
    BY <2>4, <2>5, <2>6, <2>7
<1>4. CASE /\ node.op \in {"all", "any"}
           /\ DOMAIN node.of \subseteq Nat
           /\ \A k \in DOMAIN node.of : node.of[k] \in 1 .. i - 1
  <2> DEFINE K == DOMAIN node.of
  <2>1. PICK r : r = [k \in K |-> f[i - node.of[k]]]
    OBVIOUS
  <2>2. PICK t : t = [k \in K |-> g[i - node.of[k]]]
    OBVIOUS
  <2>3. DOMAIN r = K /\ \A k \in DOMAIN r : Agrees(r[k], t[k], known)
    BY <2>1, <2>2, <1>0, <1>4
  <2>4. CASE node.op = "all"
    <3>1. Agrees(FirstToSay("no", r), \A k \in DOMAIN r : t[k], known)
      BY <2>3, <1>4, AllAgree
    <3>2. NodeSays(node, i, f, known) = FirstToSay("no", r)
      BY <2>1, <2>4 DEF NodeSays
    <3>3. NodeHolds(node, i, g, said) = \A k \in DOMAIN r : t[k]
      BY <2>1, <2>2, <2>4 DEF NodeHolds
    <3>. QED
      BY <3>1, <3>2, <3>3
  <2>5. CASE node.op = "any"
    <3>1. Agrees(FirstToSay("yes", r), \E k \in DOMAIN r : t[k], known)
      BY <2>3, <1>4, AnyAgrees
    <3>2. NodeSays(node, i, f, known) = FirstToSay("yes", r)
      BY <2>1, <2>5 DEF NodeSays
    <3>3. NodeHolds(node, i, g, said) = \E k \in DOMAIN r : t[k]
      BY <2>1, <2>2, <2>5 DEF NodeHolds
    <3>. QED
      BY <3>1, <3>2, <3>3
  <2>. QED
    BY <1>4, <2>4, <2>5
<1>5. CASE node.op = "not" /\ node.of \in 1 .. i - 1
  <2>1. NodeSays(node, i, f, known) = Not(f[i - node.of])
    BY <1>5 DEF NodeSays
  <2>2. NodeHolds(node, i, g, said) = ~g[i - node.of]
    BY <1>5 DEF NodeHolds
  <2>3. g[i - node.of] \in BOOLEAN /\ Agrees(f[i - node.of], g[i - node.of], known)
    BY <1>0, <1>5
  <2>. QED
    BY <2>1, <2>2, <2>3, NotAgrees
<1>6. CASE /\ node.op = "cases"
           /\ DOMAIN node.cases = 1 .. Len(node.cases) /\ Len(node.cases) \in Nat
           /\ \A k \in DOMAIN node.cases :
                LET c == node.cases[k] IN
                c.rule \in 1 .. i - 1 /\ c.priority \in Int /\ c.name \in Int
  <2> DEFINE K == DOMAIN node.cases
  <2>1. PICK r : r = [k \in K |-> f[i - node.cases[k].rule]]
    OBVIOUS
  <2>2. PICK t : t = [k \in K |-> g[i - node.cases[k].rule]]
    OBVIOUS
  <2>3. \A k \in K : Agrees(r[k], t[k], known)
    BY <2>1, <2>2, <1>0, <1>6
  <2>4. Agrees(CasesSay(node.cases, r, node.first),
               \E k \in DOMAIN node.cases : t[k], known)
    <3>1. \A k \in DOMAIN node.cases :
            node.cases[k].priority \in Int /\ node.cases[k].name \in Int
      BY <1>6
    <3>. QED
      BY <2>3, <3>1, <1>6, CasesAgree
  <2>5. NodeSays(node, i, f, known) = CasesSay(node.cases, r, node.first)
    BY <2>1, <1>6 DEF NodeSays
  <2>6. NodeHolds(node, i, g, said) = \E k \in DOMAIN node.cases : t[k]
    BY <2>2, <1>6 DEF NodeHolds
  <2>. QED
    BY <2>4, <2>5, <2>6
<1>. QED
  BY NodeIs, <1>1, <1>2, <1>3, <1>4, <1>5, <1>6

\* From whatever answers are known, a tree that has a result has the one it is
\* documented to mean, whatever the others would say; and one that asks, asks a
\* predicate that has not answered.
THEOREM TreesSayWhatTheyMean ==
  ASSUME NEW tree, IsTree(tree, Leaves, Plain), NEW known, NEW said, Fits(said, known)
  PROVE  /\ Holds(tree, said) \in BOOLEAN
         /\ Agrees(Evaluate(tree, known), Holds(tree, said), known)
<1>0. Len(tree) \in Nat \ {0}
  BY TreeIs
<1> DEFINE F == CHOOSE f : f = [i \in 1 .. Len(tree) |-> NodeSays(tree[i], i, f, known)]
           G == CHOOSE f : f = [i \in 1 .. Len(tree) |-> NodeHolds(tree[i], i, f, said)]
<1>1. Evaluate(tree, known) = F[Len(tree)] /\ Holds(tree, said) = G[Len(tree)]
  BY DEF Evaluate, Holds
<1>2. F = [i \in 1 .. Len(tree) |-> NodeSays(tree[i], i, F, known)]
  BY SaidExists DEF SaidTo
<1>3. G = [i \in 1 .. Len(tree) |-> NodeHolds(tree[i], i, G, said)]
  BY HeldExists DEF HeldTo
<1> HIDE DEF F, G
<1> DEFINE Good(i) == G[i] \in BOOLEAN /\ Agrees(F[i], G[i], known)
           Bad == {i \in 1 .. Len(tree) : ~Good(i)}
<1>4. ASSUME Bad # {} PROVE FALSE
  <2>1. PICK i \in Bad : \A k \in Bad : i <= k
    <3>. Bad \in SUBSET Nat
      BY <1>0
    <3>. QED
      BY <1>4, LeastNatural
  <2>2. i \in 1 .. Len(tree) /\ ~Good(i)
    OBVIOUS
  <2>3. \A k \in 1 .. i - 1 : Good(k)
    <3> TAKE k \in 1 .. i - 1
    <3>1. k \in 1 .. Len(tree) /\ ~(i <= k)
      BY <1>0, <2>2
    <3>2. k \notin Bad
      <4> HIDE DEF Bad
      <4>. QED
        BY <2>1, <3>1
    <3> HIDE DEF Good
    <3>. QED
      BY <3>1, <3>2
  <2>4. i \in Nat /\ tree[i] \in Nodes(i, Leaves, Plain)
    BY <1>0, <2>2 DEF IsTree
  <2>5. F[i] = NodeSays(tree[i], i, F, known) /\ G[i] = NodeHolds(tree[i], i, G, said)
    BY <1>2, <1>3, <2>2
  <2>6. \A k \in 1 .. i - 1 : G[k] \in BOOLEAN /\ Agrees(F[k], G[k], known)
    BY <2>3
  <2>7. /\ NodeHolds(tree[i], i, G, said) \in BOOLEAN
        /\ Agrees(NodeSays(tree[i], i, F, known), NodeHolds(tree[i], i, G, said), known)
    BY <2>4, <2>6, NodeAgrees
  <2>. QED
    BY <2>2, <2>5, <2>7
<1>5. Good(Len(tree))
  <2>1. Len(tree) \in 1 .. Len(tree)
    BY <1>0
  <2> HIDE DEF Good
  <2>. QED
    BY <1>4, <2>1
<1>. QED
  BY <1>1, <1>5

----------------------------------------------------------------------------
(* Permissions that are made of others *)

\* What every node of a tree means.
LEMMA HoldsIs ==
  ASSUME NEW tree, IsTree(tree, Leaves, Plain), NEW said
  PROVE  \E g : HeldTo(Len(tree), g, tree, said) /\ Holds(tree, said) = g[Len(tree)]
<1> DEFINE G == CHOOSE f : f = [i \in 1 .. Len(tree) |-> NodeHolds(tree[i], i, f, said)]
<1>1. Holds(tree, said) = G[Len(tree)]
  BY DEF Holds
<1>2. G = [i \in 1 .. Len(tree) |-> NodeHolds(tree[i], i, G, said)]
  BY HeldExists DEF HeldTo
<1> HIDE DEF G
<1>. QED
  BY <1>1, <1>2 DEF HeldTo

IsPartOf(part, before, tree) ==
  /\ before + Len(part) <= Len(tree)
  /\ \A i \in 1 .. Len(part) : tree[before + i] = part[i]

\* A tree means the same as a part of another.
LEMMA PartHolds ==
  ASSUME NEW part, IsTree(part, Leaves, Plain), NEW tree, NEW before \in Nat,
         Len(tree) \in Nat, IsPartOf(part, before, tree),
         NEW said, NEW f, HeldTo(Len(tree), f, tree, said)
  PROVE  f[before + Len(part)] = Holds(part, said)
<1> USE DEF IsPartOf
<1>0. Len(part) \in Nat \ {0}
  BY TreeIs
<1>1. PICK g : HeldTo(Len(part), g, part, said) /\ Holds(part, said) = g[Len(part)]
  BY HoldsIs
<1> DEFINE Bad == {i \in 1 .. Len(part) : f[before + i] # g[i]}
<1>2. ASSUME Bad # {} PROVE FALSE
  <2>1. PICK i \in Bad : \A k \in Bad : i <= k
    <3>. Bad \in SUBSET Nat
      BY <1>0
    <3>. QED
      BY <1>2, LeastNatural
  <2>2. i \in 1 .. Len(part) /\ f[before + i] # g[i]
    OBVIOUS
  <2> DEFINE at == before + i
  <2>3. \A d \in 1 .. i - 1 : f[at - d] = g[i - d]
    <3> TAKE d \in 1 .. i - 1
    <3>1. i - d \in 1 .. Len(part) /\ ~(i <= i - d) /\ at - d = before + (i - d)
      BY <1>0, <2>2
    <3>2. i - d \notin Bad
      <4> HIDE DEF Bad
      <4>. QED
        BY <2>1, <3>1
    <3>. QED
      BY <3>1, <3>2
  <2>4. i \in Nat /\ at \in 1 .. Len(tree) /\ part[i] \in Nodes(i, Leaves, Plain)
    BY <1>0, <2>2 DEF IsTree
  <2>5. f[at] = NodeHolds(part[i], at, f, said)
    BY <2>2, <2>4 DEF HeldTo
  <2>6. g[i] = NodeHolds(part[i], i, g, said)
    BY <1>1, <2>2 DEF HeldTo
  <2>7. NodeHolds(part[i], at, f, said) = NodeHolds(part[i], i, g, said)
    <3>1. at \in Nat
      BY <2>4
    <3>2. PICK node \in Nodes(i, Leaves, Plain) : node = part[i]
      BY <2>4
    <3> HIDE DEF at
    <3>3. NodeHolds(node, at, f, said) = NodeHolds(node, i, g, said)
      BY <2>3, <2>4, <3>1, HoldsAnywhere
    <3>. QED
      BY <3>2, <3>3
  <2>. QED
    BY <2>2, <2>5, <2>6, <2>7
<1>3. f[before + Len(part)] = g[Len(part)]
  <2>1. Len(part) \in 1 .. Len(part)
    BY <1>0
  <2>. QED
    BY <1>2, <2>1
<1>. QED
  BY <1>1, <1>3

LEMMA FirstPartHolds ==
  ASSUME NEW part, IsTree(part, Leaves, Plain), NEW tree, Len(tree) \in Nat,
         Len(part) <= Len(tree), \A i \in 1 .. Len(part) : tree[i] = part[i],
         NEW said, NEW f, HeldTo(Len(tree), f, tree, said)
  PROVE  f[Len(part)] = Holds(part, said)
<1>1. Len(part) \in Nat
  BY TreeIs
<1>2. PICK none \in Nat : none = 0
  OBVIOUS
<1>3. none + Len(part) = Len(part)
  BY <1>1, <1>2
<1>4. IsPartOf(part, none, tree)
  BY <1>1, <1>2 DEF IsPartOf
<1>5. f[none + Len(part)] = Holds(part, said)
  BY <1>4, PartHolds
<1>. QED
  BY <1>3, <1>5

\* A tree may be a part of another.
LEMMA NodesGrow ==
  ASSUME NEW i \in Nat, NEW k \in Nat, i <= k, NEW leaves, NEW plain
  PROVE  Nodes(i, leaves, plain) \subseteq Nodes(k, leaves, plain)
<1> DEFINE CaseSet(n) == [name : Int, priority : Int, rule : 1 .. n - 1]
<1>1. 1 .. i - 1 \subseteq 1 .. k - 1
  OBVIOUS
<1>2. Seq(1 .. i - 1) \subseteq Seq(1 .. k - 1)
  BY <1>1
<1>3. [op : {"all", "any"}, of : Seq(1 .. i - 1)]
        \subseteq [op : {"all", "any"}, of : Seq(1 .. k - 1)]
  BY <1>2
<1>4. [op : {"not"}, of : 1 .. i - 1] \subseteq [op : {"not"}, of : 1 .. k - 1]
  BY <1>1
<1>5. CaseSet(i) \subseteq CaseSet(k)
  BY <1>1
<1>6. [op : {"cases"}, first : BOOLEAN, cases : Seq(CaseSet(i))]
        \subseteq [op : {"cases"}, first : BOOLEAN, cases : Seq(CaseSet(k))]
  <2> HIDE DEF CaseSet
  <2>1. Seq(CaseSet(i)) \subseteq Seq(CaseSet(k))
    BY <1>5
  <2>. QED
    BY <2>1
<1>. QED
  BY <1>3, <1>4, <1>6 DEF Nodes

\* A node after a tree makes a tree, of which that is a part.
LEMMA NegatedIs ==
  ASSUME NEW p, IsTree(p, Leaves, Plain), NEW said
  PROVE  /\ IsTree(Negated(p), Leaves, Plain)
         /\ Holds(Negated(p), said) <=> ~Holds(p, said)
<1> DEFINE node == [op |-> "not", of |-> 1]
           N == Len(p) + 1
<1>0. Len(p) \in Nat \ {0} /\ p \in Seq(Nodes(Len(p), Leaves, Plain))
  BY TreeIs
<1>1. \A i \in 1 .. Len(p) : /\ p[i] \in Nodes(i, Leaves, Plain)
                           /\ p[i] \in Nodes(N, Leaves, Plain)
  <2> TAKE i \in 1 .. Len(p)
  <2>1. p[i] \in Nodes(i, Leaves, Plain)
    BY DEF IsTree
  <2>2. i \in Nat /\ N \in Nat /\ i <= N
    BY <1>0
  <2>. QED
    BY <2>1, <2>2, NodesGrow
<1>2. node \in Nodes(N, Leaves, Plain)
  <2>1. 1 \in 1 .. N - 1
    BY <1>0
  <2>2. node \in [op : {"not"}, of : 1 .. N - 1]
    BY <2>1
  <2>. QED
    BY <2>2 DEF Nodes
<1>3. PICK t : t = Negated(p)
  OBVIOUS
<1>4. /\ Len(t) = N /\ t[N] = node /\ DOMAIN t = 1 .. N
      /\ \A i \in 1 .. Len(p) : t[i] = p[i]
  BY <1>0, <1>3 DEF Negated
<1>5. IsTree(t, Leaves, Plain)
  <2>1. \A i \in 1 .. N : /\ t[i] \in Nodes(i, Leaves, Plain)
                         /\ t[i] \in Nodes(N, Leaves, Plain)
    BY <1>0, <1>1, <1>2, <1>4
  <2>2. t \in Seq(Nodes(N, Leaves, Plain))
    BY <1>0, <1>1, <1>2, <1>3, <1>4, <2>1 DEF Negated
  <2>3. t # << >>
    BY <1>0, <1>4
  <2>. QED
    BY <1>4, <2>1, <2>2, <2>3 DEF IsTree
<1>6. PICK f : HeldTo(N, f, t, said) /\ Holds(t, said) = f[N]
  BY <1>4, <1>5, HoldsIs
<1>7. f[Len(p)] = Holds(p, said)
  <2>1. Len(t) \in Nat /\ Len(p) <= Len(t) /\ HeldTo(Len(t), f, t, said)
    BY <1>0, <1>4, <1>6
  <2>. QED
    BY <1>4, <2>1, FirstPartHolds
<1>8. f[N] = NodeHolds(node, N, f, said)
  BY <1>0, <1>4, <1>6 DEF HeldTo
<1>9. NodeHolds(node, N, f, said) <=> ~f[N - 1]
  BY DEF NodeHolds
<1>10. N - 1 = Len(p)
  BY <1>0
<1> HIDE DEF N
<1>. QED
  BY <1>3, <1>5, <1>6, <1>7, <1>8, <1>9, <1>10

\* Two trees, one after the other, and a node for both.
LEMMA JoinedIs ==
  ASSUME NEW op \in {"all", "any"}, NEW p, IsTree(p, Leaves, Plain),
         NEW q, IsTree(q, Leaves, Plain), NEW said
  PROVE  /\ IsTree(Joined(op, p, q), Leaves, Plain)
         /\ op = "all" =>
              (Holds(Joined(op, p, q), said) <=> Holds(p, said) /\ Holds(q, said))
         /\ op = "any" =>
              (Holds(Joined(op, p, q), said) <=> Holds(p, said) \/ Holds(q, said))
<1> DEFINE of == <<1 + Len(q), 1>>
           node == [op |-> op, of |-> of]
           N == Len(p) + Len(q) + 1
<1>0. /\ Len(p) \in Nat \ {0} /\ p \in Seq(Nodes(Len(p), Leaves, Plain))
      /\ Len(q) \in Nat \ {0} /\ q \in Seq(Nodes(Len(q), Leaves, Plain))
  BY TreeIs
<1>1. ASSUME NEW r, IsTree(r, Leaves, Plain), NEW i \in 1 .. Len(r), NEW k \in Nat, i <= k
      PROVE  r[i] \in Nodes(k, Leaves, Plain)
  <2>1. i \in Nat /\ r[i] \in Nodes(i, Leaves, Plain)
    BY <1>1, TreeIs DEF IsTree
  <2>. QED
    BY <1>1, <2>1, NodesGrow
<1>2. node \in Nodes(N, Leaves, Plain)
  <2>1. 1 \in 1 .. N - 1 /\ 1 + Len(q) \in 1 .. N - 1
    BY <1>0
  <2>2. of \in Seq(1 .. N - 1)
    BY <2>1
  <2>3. node \in [op : {"all", "any"}, of : Seq(1 .. N - 1)]
    BY <2>2
  <2>. QED
    BY <2>3 DEF Nodes
<1>3. PICK t : t = Joined(op, p, q)
  OBVIOUS
<1>4. /\ Len(t) = N /\ t[N] = node /\ DOMAIN t = 1 .. N
      /\ \A i \in 1 .. Len(p) : t[i] = p[i]
      /\ \A i \in 1 .. Len(q) : t[Len(p) + i] = q[i]
  <2>1. PICK r : r = p \o q
    OBVIOUS
  <2>2. /\ r \in Seq(Nodes(Len(p), Leaves, Plain) \cup Nodes(Len(q), Leaves, Plain))
        /\ Len(r) = Len(p) + Len(q)
        /\ \A i \in 1 .. Len(p) : r[i] = p[i]
        /\ \A i \in 1 .. Len(q) : r[Len(p) + i] = q[i]
    BY <1>0, <2>1
  <2>3. t = r \o <<node>>
    BY <1>3, <2>1 DEF Joined
  <2> HIDE DEF node
  <2>4. /\ Len(t) = Len(r) + 1 /\ t[Len(r) + 1] = node /\ DOMAIN t = 1 .. Len(r) + 1
        /\ \A i \in 1 .. Len(r) : t[i] = r[i]
    BY <2>2, <2>3
  <2>5. Len(r) + 1 = N
    BY <2>2
  <2>6. \A i \in 1 .. Len(p) : i \in 1 .. Len(r)
    BY <1>0, <2>2
  <2>7. \A i \in 1 .. Len(q) : Len(p) + i \in 1 .. Len(r)
    BY <1>0, <2>2
  <2>. QED
    BY <2>2, <2>4, <2>5, <2>6, <2>7
<1>5. IsTree(t, Leaves, Plain)
  <2>1. \A i \in 1 .. N : /\ t[i] \in Nodes(i, Leaves, Plain)
                         /\ t[i] \in Nodes(N, Leaves, Plain)
    <3> TAKE i \in 1 .. N
    <3>0. N \in Nat /\ i \in Nat /\ i <= N
      BY <1>0
    <3>1. CASE i \in 1 .. Len(p)
      BY <1>1, <1>4, <3>0, <3>1
    <3>2. CASE i \in Len(p) + 1 .. Len(p) + Len(q)
      <4>0. i - Len(p) \in 1 .. Len(q)
        BY <1>0, <3>2
      <4>1. PICK k \in 1 .. Len(q) : k = i - Len(p)
        BY <4>0
      <4>2. i = Len(p) + k /\ k <= i
        BY <1>0, <4>1
      <4>3. t[i] = q[k] /\ k <= N
        BY <1>4, <3>0, <4>2
      <4>. QED
        BY <1>1, <3>0, <4>2, <4>3
    <3>3. CASE i = N
      BY <1>2, <1>4, <3>3
    <3>. QED
      BY <1>0, <3>1, <3>2, <3>3
  <2>2. t \in Seq(Nodes(N, Leaves, Plain))
    <3>1. N \in Nat /\ Len(t) = N
      BY <1>0, <1>4
    <3>2. t = [i \in 1 .. N |-> t[i]]
      BY <1>0, <1>3, <1>4 DEF Joined
    <3> HIDE DEF N
    <3>. QED
      BY <2>1, <3>1, <3>2
  <2>3. t # << >>
    BY <1>0, <1>4
  <2>. QED
    BY <1>4, <2>1, <2>2, <2>3 DEF IsTree
<1>6. PICK f : HeldTo(N, f, t, said) /\ Holds(t, said) = f[N]
  BY <1>4, <1>5, HoldsIs
<1>7. f[Len(p)] = Holds(p, said) /\ f[Len(p) + Len(q)] = Holds(q, said)
  <2>1. Len(t) \in Nat /\ Len(p) <= Len(t) /\ Len(p) + Len(q) <= Len(t)
    BY <1>0, <1>4
  <2>2. HeldTo(Len(t), f, t, said)
    BY <1>4, <1>6
  <2> HIDE DEF N
  <2>3. f[Len(p)] = Holds(p, said)
    BY <1>4, <2>1, <2>2, FirstPartHolds
  <2>4. f[Len(p) + Len(q)] = Holds(q, said)
    <3>1. PICK before \in Nat : before = Len(p)
      BY <1>0
    <3>2. IsPartOf(q, before, t)
      BY <1>4, <2>1, <3>1 DEF IsPartOf
    <3> HIDE DEF of, node
    <3>3. f[before + Len(q)] = Holds(q, said)
      BY <2>1, <2>2, <3>2, PartHolds, Zenon
    <3>. QED
      BY <3>1, <3>3
  <2>. QED
    BY <1>0, <2>3, <2>4
<1>8. f[N] = NodeHolds(node, N, f, said)
  <2>1. N \in 1 .. N /\ t[N] = node
    BY <1>0, <1>4
  <2> HIDE DEF N, node
  <2>. QED
    BY <1>6, <2>1 DEF HeldTo
<1>9. DOMAIN of = 1 .. 2 /\ of[1] = 1 + Len(q) /\ of[2] = 1
  OBVIOUS
<1>10. N - of[1] = Len(p) /\ N - of[2] = Len(p) + Len(q)
  BY <1>0, <1>9
<1>11. node.op = op /\ node.of = of
  OBVIOUS
<1> HIDE DEF N, of, node
<1>12. op = "all" => (NodeHolds(node, N, f, said) <=> f[N - of[1]] /\ f[N - of[2]])
  BY <1>9, <1>11 DEF NodeHolds
<1>13. op = "any" => (NodeHolds(node, N, f, said) <=> f[N - of[1]] \/ f[N - of[2]])
  BY <1>9, <1>11 DEF NodeHolds
<1>. QED
  BY <1>3, <1>5, <1>6, <1>7, <1>8, <1>10, <1>12, <1>13

LEMMA AllowAllIs ==
  ASSUME NEW said
  PROVE  IsTree(AllowAll, Leaves, Plain) /\ (Holds(AllowAll, said) <=> TRUE)
<1> DEFINE node == [op |-> "allow"]
<1>1. node \in Nodes(1, Leaves, Plain)
  <2>1. node \in [op : {"allow"}]
    OBVIOUS
  <2>. QED
    BY <2>1 DEF Nodes
<1>2. PICK t : t = AllowAll
  OBVIOUS
<1>3. Len(t) = 1 /\ t[1] = node
  BY <1>2 DEF AllowAll
<1>4. IsTree(t, Leaves, Plain)
  BY <1>1, <1>2, <1>3 DEF IsTree, AllowAll
<1>5. PICK f : HeldTo(1, f, t, said) /\ Holds(t, said) = f[1]
  BY <1>3, <1>4, HoldsIs
<1>6. f[1] = NodeHolds(node, 1, f, said)
  BY <1>3, <1>5 DEF HeldTo
<1>7. NodeHolds(node, 1, f, said) = TRUE
  BY DEF NodeHolds
<1>. QED
  BY <1>2, <1>4, <1>5, <1>6, <1>7

\* The operators of permissions mean what they say, on every tree.
THEOREM PermissionsMean ==
  ASSUME NEW p, IsTree(p, Leaves, Plain), NEW q, IsTree(q, Leaves, Plain), NEW said
  PROVE  /\ Holds(AllowAll, said) /\ ~Holds(DenyAll, said)
         /\ Holds(Negated(p), said) <=> ~Holds(p, said)
         /\ Holds(BothHold(p, q), said) <=> Holds(p, said) /\ Holds(q, said)
         /\ Holds(EitherHolds(p, q), said) <=> Holds(p, said) \/ Holds(q, said)
         /\ \A t \in {AllowAll, DenyAll, Negated(p), BothHold(p, q), EitherHolds(p, q)} :
              IsTree(t, Leaves, Plain)
BY AllowAllIs, NegatedIs, JoinedIs DEF DenyAll, BothHold, EitherHolds

----------------------------------------------------------------------------
(* How the evaluation of an event stands *)

Allowed(h, said) ==
  Holds(Handlers[h].rule, said) /\ Holds(Handlers[h].permission, said)

LEMMA VerdictAgrees ==
  ASSUME NEW h \in DOMAIN Handlers, NEW known, NEW said, Fits(said, known)
  PROVE  Agrees(Verdict(Handlers[h], known), Allowed(h, said), known)
<1> DEFINE rule == Handlers[h].rule
           permission == Handlers[h].permission
<1>1. IsTree(rule, Leaves, Plain) /\ IsTree(permission, Leaves, Plain)
  BY RulesAssumption
<1> HIDE DEF rule, permission
<1>2. PICK r : r = <<Evaluate(rule, known), Evaluate(permission, known)>>
  OBVIOUS
<1>3. PICK t : t = <<Holds(rule, said), Holds(permission, said)>>
  OBVIOUS
<1>4. DOMAIN r = 1 .. 2 /\ r[1] = Evaluate(rule, known) /\ r[2] = Evaluate(permission, known)
  BY <1>2
<1>5. t[1] = Holds(rule, said) /\ t[2] = Holds(permission, said)
  BY <1>3
<1>6. Agrees(r[1], t[1], known) /\ Agrees(r[2], t[2], known)
  BY <1>1, <1>4, <1>5, TreesSayWhatTheyMean
<1>7. \A i \in DOMAIN r : Agrees(r[i], t[i], known)
  BY <1>4, <1>6
<1>8. Agrees(FirstToSay("no", r), \A i \in DOMAIN r : t[i], known)
  <2>1. DOMAIN r \subseteq Nat
    BY <1>4
  <2>. QED
    BY <2>1, <1>7, AllAgree
<1>9. (\A i \in DOMAIN r : t[i]) <=> Holds(rule, said) /\ Holds(permission, said)
  BY <1>4, <1>5
<1>10. Verdict(Handlers[h], known) = FirstToSay("no", r)
  BY <1>2 DEF Verdict, rule, permission
<1>11. Agrees(FirstToSay("no", r), Holds(rule, said) /\ Holds(permission, said), known)
  BY <1>8, <1>9 DEF Agrees
<1>. QED
  BY <1>10, <1>11 DEF Allowed, rule, permission

LEMMA FitExists ==
  ASSUME NEW known \in Known
  PROVE  \E said \in Complete : Fits(said, known)
<1>1. PICK asked \in SUBSET Leaves, said \in Complete : known = [a \in asked |-> said[a]]
  BY DEF Known
<1>. QED
  BY <1>1 DEF Fits

\* An evaluation that is not over asks a predicate that has not answered, and
\* one that is over has picked whom the event is for, whatever the others say.
LEMMA StandingIs ==
  ASSUME NEW e \in Events, NEW known \in Known
  PROVE  LET now == Standing[e][known] IN
         /\ now.says \in {"picks", "ask", "raises"}
         /\ now.says = "ask" => now.of \in Leaves \ DOMAIN known
         /\ now.says = "picks" =>
              /\ now = Picks(now.of) /\ now.of \in SUBSET DOMAIN Handlers
              /\ \A said : Fits(said, known) => now.of = Selected(e, said)
<1> DEFINE M     == Matching[e]
           said  == [h \in M |-> Verdict(Handlers[h], known)]
           yes   == {h \in M : said[h].says = "yes"}
           stops == {h \in M : ~Decided(said[h]) \/ (h \in yes /\ Handlers[h].block)}
           now   == Standing[e][known]
           hs    == {h \in yes : \A s \in stops : h <= s}
<1>1. now = IF stops # {} /\ ~Decided(said[Earliest(stops)]) THEN said[Earliest(stops)]
            ELSE Picks(hs)
  BY DEF Standing
<1>2. M \subseteq DOMAIN Handlers /\ DOMAIN Handlers \subseteq Nat
  BY RulesAssumption DEF Matching
<1>3. ASSUME NEW h \in M, NEW t, Fits(t, known)
      PROVE  Agrees(said[h], Allowed(h, t), known)
  BY <1>2, <1>3, VerdictAgrees
<1>4. ASSUME stops # {} PROVE Earliest(stops) \in stops /\ \A s \in stops : Earliest(stops) <= s
  <2>1. stops \in SUBSET Nat
    BY <1>2
  <2> HIDE DEF stops
  <2>. QED
    BY <2>1, <1>4, EarliestIs
<1> HIDE DEF M, now
<1>5. PICK t : Fits(t, known)
  BY FitExists
<1>6. CASE stops # {} /\ ~Decided(said[Earliest(stops)])
  <2> DEFINE m == Earliest(stops)
  <2>1. m \in M /\ ~Decided(said[m])
    BY <1>4, <1>6
  <2>2. Agrees(said[m], Allowed(m, t), known)
    BY <2>1, <1>3, <1>5
  <2>3. now = said[m]
    BY <1>1, <1>6
  <2> HIDE DEF m, said
  <2>. QED
    BY <2>1, <2>2, <2>3 DEF Agrees, Decided, now
<1>7. CASE ~(stops # {} /\ ~Decided(said[Earliest(stops)]))
  <2>1. now = Picks(hs)
    BY <1>1, <1>7
  <2>2. now.says = "picks" /\ now.of = hs /\ now = Picks(now.of)
    BY <2>1 DEF Picks
  <2>3. hs \in SUBSET DOMAIN Handlers
    BY <1>2
  <2>4. ASSUME NEW x, Fits(x, known) PROVE hs = Selected(e, x)
    <3> DEFINE allowed == {h \in M : Allowed(h, x)}
               sel == {h \in allowed : \A g \in allowed : g < h => ~Handlers[g].block}
    <3>1. Selected(e, x) = sel
      BY DEF Selected, Allowed, M
    <3>2. \A h \in M : /\ said[h].says = "yes" => h \in allowed
                       /\ said[h].says = "no" => h \notin allowed
      BY <1>3, <2>4 DEF Agrees
    <3>3. \A h \in M : h \notin stops =>
            /\ h \in yes <=> h \in allowed
            /\ h \in allowed => ~Handlers[h].block
      BY <3>2 DEF Decided
    <3>4. yes \subseteq allowed
      BY <3>2
    <3>4a. \A h \in M : h \in Nat
      BY <1>2
    <3>5. CASE stops = {}
      <4>1. hs = yes /\ yes = allowed /\ \A g \in allowed : ~Handlers[g].block
        BY <3>3, <3>4, <3>5
      <4>. QED
        BY <3>1, <4>1
    <3>6. CASE stops # {}
      <4> DEFINE m == Earliest(stops)
      <4>1. m \in M /\ Decided(said[m]) /\ m \in stops /\ \A s \in stops : m <= s
        BY <1>4, <1>7, <3>6
      <4>2. m \in yes /\ m \in allowed /\ Handlers[m].block
        BY <4>1, <3>4
      <4>2a. yes \subseteq M /\ allowed \subseteq M /\ stops \subseteq M
        OBVIOUS
      <4> HIDE DEF m, stops, yes, allowed, said
      <4>3. ASSUME NEW h \in hs PROVE h \in sel
        <5>1. h \in allowed /\ h \in M /\ h <= m
          BY <3>4, <4>1, <4>2a
        <5>2. \A g \in allowed : g < h => g \notin stops
          BY <5>1, <4>1, <4>2a, <3>4a
        <5>. QED
          BY <5>1, <5>2, <3>3, <4>2a
      <4>4. ASSUME NEW h \in sel PROVE h \in hs
        <5>1. h \in allowed /\ h \in M /\ ~(m < h)
          BY <4>2, <4>2a
        <5>2. h <= m
          BY <5>1, <4>1, <3>4a
        <5>3. CASE h = m
          BY <5>3, <4>1, <4>2
        <5>4. CASE h # m
          <6>1. h \notin stops
            BY <5>1, <5>2, <5>4, <4>1, <3>4a
          <6>2. h \in yes
            BY <6>1, <5>1, <3>3
          <6>3. \A s \in stops : h <= s
            BY <5>1, <5>2, <4>1, <4>2a, <3>4a
          <6>. QED
            BY <6>2, <6>3
        <5>. QED
          BY <5>3, <5>4
      <4>. QED
        BY <3>1, <4>3, <4>4
    <3>. QED
      BY <3>5, <3>6
  <2> HIDE DEF hs, yes, stops, said
  <2>. QED
    BY <2>2, <2>3, <2>4 DEF now
<1>. QED
  BY <1>6, <1>7

\* What an evaluation that is over has picked is what it is documented to pick.
LEMMA DocumentedIs ==
  ASSUME NEW e \in Events, NEW known \in Known, NEW hs, Standing[e][known] = Picks(hs)
  PROVE  Documented[e][known] = {hs} /\ hs \in SUBSET DOMAIN Handlers
<1>1. Standing[e][known].says = "picks" /\ Standing[e][known].of = hs
  BY DEF Picks
<1>2. hs \in SUBSET DOMAIN Handlers /\ \A said : Fits(said, known) => hs = Selected(e, said)
  BY <1>1, StandingIs
<1>3. PICK t \in Complete : Fits(t, known)
  BY FitExists
<1>4. Documented[e][known] =
        {Selected(e, said) : said \in {s \in Complete : \A a \in DOMAIN known : s[a] = known[a]}}
  BY DEF Documented
<1>5. \A s : Fits(s, known) <=> s \in {x \in Complete : \A a \in DOMAIN known : x[a] = known[a]}
  BY DEF Fits
<1>. QED
  BY <1>2, <1>3, <1>4, <1>5

----------------------------------------------------------------------------
(* The courses an evaluation may take *)

LEMMA NothingKnown == << >> \in Known
<1> DEFINE said == [a \in Leaves |-> CHOOSE x \in Answers[a] : TRUE]
<1>1. \A a \in Leaves : said[a] \in Answers[a] /\ said[a] \in LeafAnswers
  BY RulesAssumption
<1>2. said \in Complete
  <2> DEFINE g == said
  <2>1. g \in [Leaves -> LeafAnswers] /\ \A a \in Leaves : g[a] \in Answers[a]
    BY <1>1
  <2>. QED
    BY <2>1 DEF Complete
<1> HIDE DEF said
<1>3. << >> = [a \in {} |-> said[a]]
  OBVIOUS
<1>4. [a \in {} |-> said[a]] \in Known
  <2>1. \A asked \in SUBSET Leaves : [a \in asked |-> said[a]] \in Known
    BY <1>2 DEF Known
  <2>2. {} \in SUBSET Leaves
    OBVIOUS
  <2>. QED
    BY <2>1, <2>2
<1>. QED
  BY <1>3, <1>4

LEMMA AnswerKnown ==
  ASSUME NEW known \in Known, NEW a \in Leaves \ DOMAIN known, NEW x \in Answers[a]
  PROVE  /\ With(known, a, x) \in Known
         /\ IsFiniteSet(DOMAIN known) /\ Cardinality(DOMAIN known) \in Nat
         /\ Cardinality(DOMAIN With(known, a, x)) = Cardinality(DOMAIN known) + 1
<1>1. PICK asked \in SUBSET Leaves, said \in Complete : known = [b \in asked |-> said[b]]
  BY DEF Known
<1> DEFINE then == [said EXCEPT ![a] = x]
           more == DOMAIN known \cup {a}
<1>2. DOMAIN known = asked /\ more \in SUBSET Leaves
  BY <1>1
<1>3. then \in Complete
  <2>1. x \in LeafAnswers
    BY AnswersAre
  <2>. QED
    BY <2>1 DEF Complete
<1>4. With(known, a, x) = [b \in more |-> then[b]]
  <2>1. \A b \in more : then[b] = IF b = a THEN x ELSE known[b]
    BY <1>1, <1>2 DEF Complete
  <2>. QED
    BY <2>1 DEF With
<1>5. With(known, a, x) \in Known
  <2> HIDE DEF then, more
  <2>. QED
    BY <1>2, <1>3, <1>4 DEF Known
<1>6. IsFiniteSet(asked)
  BY RulesAssumption, FS_Subset
<1>7. Cardinality(asked \cup {a}) = Cardinality(asked) + 1
  BY <1>2, <1>6, FS_AddElement
<1>8. Cardinality(asked) \in Nat
  BY <1>6, FS_CardinalityType
<1>9. DOMAIN With(known, a, x) = asked \cup {a}
  BY <1>2 DEF With
<1>. QED
  BY <1>2, <1>5, <1>6, <1>7, <1>8, <1>9

\* Where the evaluation of e may be.
OnCourse(e, s) ==
  /\ s = At(s.phase, s.known, s.picked)
  /\ s.phase \in {"asking", "evaluating", "evaluated", "raised"}
  /\ s.known \in Known
  /\ s.picked \in SUBSET DOMAIN Handlers
  /\ s.phase = "evaluating" => Standing[e][s.known].says = "ask"
  /\ s.phase = "evaluated" => Standing[e][s.known] = Picks(s.picked)

\* After n answers at least n are known, unless it awaits or is over.
HasAsked(e, s, n) ==
  /\ OnCourse(e, s)
  /\ s.phase = "asking" => Cardinality(DOMAIN s.known) >= n

LEMMA AtIs ==
  ASSUME NEW phase, NEW known, NEW picked
  PROVE  LET s == At(phase, known, picked) IN
         /\ s.phase = phase /\ s.known = known /\ s.picked = picked
         /\ s = At(s.phase, s.known, s.picked)
BY DEF At

LEMMA AnsweredHasAsked ==
  ASSUME NEW e \in Events, NEW known \in Known, NEW a \in Leaves \ DOMAIN known,
         NEW n \in Nat, Cardinality(DOMAIN known) >= n, NEW s \in Answered(known, a)
  PROVE  HasAsked(e, s, n + 1)
<1>1. PICK x \in Answers[a] : s = At("asking", With(known, a, x), {})
  BY DEF Answered
<1>2. s.phase = "asking" /\ s.known = With(known, a, x) /\ s.picked = {}
      /\ s = At(s.phase, s.known, s.picked)
  BY <1>1, AtIs
<1>3. Cardinality(DOMAIN s.known) >= n + 1
  BY <1>2, AnswerKnown
<1>4. s.known \in Known
  BY <1>2, AnswerKnown
<1>. QED
  BY <1>2, <1>3, <1>4 DEF HasAsked, OnCourse

LEMMA GoesOnHasAsked ==
  ASSUME NEW e \in Events, NEW n \in Nat, NEW s, HasAsked(e, s, n), NEW t \in GoesOn(e, s)
  PROVE  HasAsked(e, t, n + 1)
<1>0. OnCourse(e, s)
  BY DEF HasAsked
<1>1. CASE s.phase # "asking"
  <2>1. t = s
    BY <1>1 DEF GoesOn
  <2>. QED
    BY <1>0, <1>1, <2>1 DEF HasAsked
<1>2. CASE s.phase = "asking"
  <2> DEFINE now == Standing[e][s.known]
  <2>1. s.known \in Known /\ Cardinality(DOMAIN s.known) >= n
    BY <1>2 DEF HasAsked, OnCourse
  <2>2. /\ now.says \in {"picks", "ask", "raises"}
        /\ now.says = "ask" => now.of \in Leaves \ DOMAIN s.known
        /\ now.says = "picks" => now = Picks(now.of) /\ now.of \in SUBSET DOMAIN Handlers
    BY <2>1, StandingIs
  <2>3. t \in IF now.says = "picks" THEN {At("evaluated", s.known, now.of)}
              ELSE IF now.says # "ask" THEN {Idle("raised")}
              ELSE IF now.of \in Async THEN {At("evaluating", s.known, {})}
              ELSE Answered(s.known, now.of)
    BY <1>2 DEF GoesOn
  <2>4. CASE now.says = "picks"
    <3>1. t = At("evaluated", s.known, now.of)
      BY <2>3, <2>4
    <3>2. t.phase = "evaluated" /\ t.known = s.known /\ t.picked = now.of
          /\ t = At(t.phase, t.known, t.picked)
      BY <3>1, AtIs
    <3>. QED
      BY <2>1, <2>2, <2>4, <3>2 DEF HasAsked, OnCourse
  <2>5. CASE now.says = "raises"
    <3>1. t = At("raised", << >>, {})
      BY <2>3, <2>5 DEF Idle
    <3>2. t.phase = "raised" /\ t.known = << >> /\ t.picked = {}
          /\ t = At(t.phase, t.known, t.picked)
      BY <3>1, AtIs
    <3>. QED
      BY <3>2, NothingKnown DEF HasAsked, OnCourse
  <2>6. CASE now.says = "ask" /\ now.of \in Async
    <3>1. t = At("evaluating", s.known, {})
      BY <2>3, <2>6
    <3>2. t.phase = "evaluating" /\ t.known = s.known /\ t.picked = {}
          /\ t = At(t.phase, t.known, t.picked)
      BY <3>1, AtIs
    <3>. QED
      BY <2>1, <2>6, <3>2 DEF HasAsked, OnCourse
  <2>7. CASE now.says = "ask" /\ now.of \notin Async
    <3>1. t \in Answered(s.known, now.of) /\ now.of \in Leaves \ DOMAIN s.known
      BY <2>2, <2>3, <2>7
    <3>. QED
      BY <2>1, <3>1, AnsweredHasAsked
  <2> HIDE DEF now
  <2>. QED
    BY <2>2, <2>4, <2>5, <2>6, <2>7
<1>. QED
  BY <1>1, <1>2

\* f is what the first n rounds lead to.
AfterTo(n, f, e, S) ==
  f = [m \in 0 .. n |-> IF m = 0 THEN S ELSE UNION {GoesOn(e, s) : s \in f[m - 1]}]

LEMMA AfterExists ==
  ASSUME NEW N \in Nat, NEW e, NEW S
  PROVE  \E f : AfterTo(N, f, e, S)
<1> DEFINE Bad == {n \in Nat : ~ \E f : AfterTo(n, f, e, S)}
<1> SUFFICES ASSUME Bad # {} PROVE FALSE
  OBVIOUS
<1>1. PICK n \in Bad : \A k \in Bad : n <= k
  <2>. Bad \in SUBSET Nat
    OBVIOUS
  <2>. QED
    BY LeastNatural
<1>2. n \in Nat /\ ~ \E f : AfterTo(n, f, e, S)
  OBVIOUS
<1>3. n # 0
  <2> DEFINE f == [m \in 0 .. 0 |-> S]
  <2>1. f = [m \in 0 .. 0 |-> IF m = 0 THEN S ELSE UNION {GoesOn(e, s) : s \in f[m - 1]}]
    OBVIOUS
  <2> HIDE DEF f
  <2>2. AfterTo(0, f, e, S)
    BY <2>1 DEF AfterTo
  <2>. QED
    BY <1>2, <2>2
<1>4. n - 1 \in Nat /\ n - 1 \notin Bad
  <2>1. n - 1 \in Nat /\ ~(n <= n - 1)
    BY <1>2, <1>3
  <2> HIDE DEF Bad
  <2>. QED
    BY <1>1, <2>1
<1>5. PICK f : AfterTo(n - 1, f, e, S)
  BY <1>4
<1> DEFINE Round == UNION {GoesOn(e, s) : s \in f[n - 1]}
           g == [m \in 0 .. n |-> IF m < n THEN f[m] ELSE Round]
<1>6. ASSUME NEW m \in 0 .. n
      PROVE  g[m] = IF m = 0 THEN S ELSE UNION {GoesOn(e, s) : s \in g[m - 1]}
  <2>1. CASE m = 0
    <3>1. g[0] = f[0] /\ f[0] = S
      BY <1>2, <1>3, <1>5 DEF AfterTo
    <3>. QED
      BY <2>1, <3>1
  <2>2. CASE m # 0
    <3>1. m - 1 \in 0 .. n /\ m - 1 < n /\ g[m - 1] = f[m - 1]
      BY <1>2, <2>2
    <3>2. CASE m = n
      <4>1. g[m] = Round
        BY <3>2
      <4>. QED
        BY <2>2, <3>1, <3>2, <4>1
    <3>3. CASE m # n
      <4>1. m \in 0 .. n - 1 /\ g[m] = f[m]
        BY <1>2, <3>3
      <4>2. f[m] = UNION {GoesOn(e, s) : s \in f[m - 1]}
        BY <1>5, <2>2, <4>1 DEF AfterTo
      <4> HIDE DEF g
      <4>. QED
        BY <2>2, <3>1, <4>1, <4>2
    <3>. QED
      BY <3>2, <3>3
  <2>. QED
    BY <2>1, <2>2
<1>7. AfterTo(n, g, e, S)
  <2>1. g = [m \in 0 .. n |-> g[m]]
    OBVIOUS
  <2> HIDE DEF g
  <2>. QED
    BY <1>6, <2>1 DEF AfterTo
<1>. QED
  BY <1>2, <1>7

\* and it always goes on.
LEMMA GoesOnSomewhere ==
  ASSUME NEW e \in Events, NEW n \in Nat, NEW s, HasAsked(e, s, n)
  PROVE  GoesOn(e, s) # {}
<1>1. CASE s.phase # "asking"
  BY <1>1 DEF GoesOn
<1>2. CASE s.phase = "asking"
  <2>1. s.known \in Known
    BY DEF HasAsked, OnCourse
  <2>2. Standing[e][s.known].says = "ask" => Answered(s.known, Standing[e][s.known].of) # {}
    BY <2>1, StandingIs, RulesAssumption DEF Answered
  <2>. QED
    BY <1>2, <2>2 DEF GoesOn
<1>. QED
  BY <1>1, <1>2

\* An evaluation goes on until it awaits or is over: it never asks for ever.
LEMMA CoursesEnd ==
  ASSUME NEW e \in Events, NEW S, S # {}, \A s \in S : HasAsked(e, s, 0)
  PROVE  /\ Courses(e, S) # {}
         /\ \A t \in Courses(e, S) : OnCourse(e, t) /\ t.phase # "asking"
<1> DEFINE N == Cardinality(Leaves)
           A == CHOOSE f : f = [m \in 0 .. N + 1 |->
                  IF m = 0 THEN S ELSE UNION {GoesOn(e, s) : s \in f[m - 1]}]
<1>1. N \in Nat
  BY RulesAssumption, FS_CardinalityType
<1>2. Courses(e, S) = A[N + 1]
  BY DEF Courses
<1>3. A = [m \in 0 .. N + 1 |-> IF m = 0 THEN S ELSE UNION {GoesOn(e, s) : s \in A[m - 1]}]
  <2>1. N + 1 \in Nat
    BY <1>1
  <2> HIDE DEF N
  <2>2. PICK f : AfterTo(N + 1, f, e, S)
    BY <2>1, AfterExists
  <2>3. f = [m \in 0 .. N + 1 |->
               IF m = 0 THEN S ELSE UNION {GoesOn(e, s) : s \in f[m - 1]}]
    BY <2>2 DEF AfterTo
  <2>. QED
    BY <2>3
<1> HIDE DEF A, N
<1> DEFINE Good(n) == A[n] # {} /\ \A s \in A[n] : HasAsked(e, s, n)
           Bad == {n \in 0 .. N + 1 : ~Good(n)}
<1>4. ASSUME Bad # {} PROVE FALSE
  <2>1. PICK n \in Bad : \A k \in Bad : n <= k
    <3>. Bad \in SUBSET Nat
      BY <1>1
    <3>. QED
      BY <1>4, LeastNatural
  <2>2. n \in 0 .. N + 1 /\ ~Good(n)
    OBVIOUS
  <2>3. n # 0
    <3>1. A[0] = S
      BY <1>1, <1>3
    <3>. QED
      BY <2>2, <3>1
  <2>4. n - 1 \in 0 .. N + 1 /\ n - 1 \in Nat /\ ~(n <= n - 1) /\ (n - 1) + 1 = n
    BY <1>1, <2>2, <2>3
  <2>5. n - 1 \notin Bad
    <3> HIDE DEF Bad
    <3>. QED
      BY <2>1, <2>4
  <2>6. Good(n - 1)
    <3> HIDE DEF Good
    <3>. QED
      BY <2>4, <2>5
  <2>7. A[n] = UNION {GoesOn(e, s) : s \in A[n - 1]}
    BY <1>3, <2>2, <2>3
  <2>8. ASSUME NEW u \in A[n] PROVE HasAsked(e, u, n)
    <3>1. PICK s \in A[n - 1] : u \in GoesOn(e, s)
      BY <2>7
    <3>2. HasAsked(e, s, n - 1)
      BY <2>6
    <3>3. HasAsked(e, u, (n - 1) + 1)
      BY <2>4, <3>1, <3>2, GoesOnHasAsked
    <3>. QED
      BY <2>4, <3>3
  <2>9. A[n] # {}
    <3>1. PICK s \in A[n - 1] : HasAsked(e, s, n - 1)
      BY <2>6
    <3>2. GoesOn(e, s) # {}
      BY <2>4, <3>1, GoesOnSomewhere
    <3>. QED
      BY <2>7, <3>1, <3>2
  <2>. QED
    BY <2>2, <2>8, <2>9
<1>5. A[N + 1] # {} /\ \A t \in A[N + 1] : HasAsked(e, t, N + 1)
  <2>1. N + 1 \in 0 .. N + 1
    BY <1>1
  <2>2. Good(N + 1)
    <3> HIDE DEF Good
    <3>. QED
      BY <1>4, <2>1
  <2>. QED
    BY <2>2
<1>6. ASSUME NEW t \in A[N + 1], t.phase = "asking" PROVE FALSE
  <2>1. DOMAIN t.known \in SUBSET Leaves
    BY <1>5, <1>6, KnownIs DEF HasAsked, OnCourse
  <2>2. Cardinality(DOMAIN t.known) <= N
    BY <2>1, RulesAssumption, FS_Subset DEF N
  <2>3. Cardinality(DOMAIN t.known) \in Nat
    BY <2>1, RulesAssumption, FS_Subset, FS_CardinalityType
  <2>4. Cardinality(DOMAIN t.known) >= N + 1
    BY <1>5, <1>6 DEF HasAsked
  <2>. QED
    BY <1>1, <2>2, <2>3, <2>4
<1>. QED
  BY <1>2, <1>5, <1>6 DEF HasAsked

\* So where an evaluation starts, or goes on, is where it may be.
LEMMA StartsOnCourse ==
  ASSUME NEW e \in Events
  PROVE  Starts[e] # {} /\ \A t \in Starts[e] : OnCourse(e, t) /\ t.phase # "asking"
<1>1. Starts[e] = Courses(e, {At("asking", << >>, {})})
  BY DEF Starts
<1>2. ASSUME NEW s \in {At("asking", << >>, {})} PROVE HasAsked(e, s, 0)
  <2>1. s.phase = "asking" /\ s.known = << >> /\ s.picked = {}
        /\ s = At(s.phase, s.known, s.picked)
    BY <1>2, AtIs
  <2>2. Cardinality(DOMAIN << >>) >= 0
    <3>1. DOMAIN << >> \in SUBSET Leaves
      BY NothingKnown, KnownIs
    <3>2. Cardinality(DOMAIN << >>) \in Nat
      BY <3>1, RulesAssumption, FS_Subset, FS_CardinalityType
    <3>. QED
      BY <3>2
  <2>. QED
    BY <2>1, <2>2, NothingKnown DEF HasAsked, OnCourse
<1>. QED
  BY <1>1, <1>2, CoursesEnd

LEMMA ContinuedOnCourse ==
  ASSUME NEW e \in Events, NEW known \in Known
  PROVE  /\ Standing[e][known].says = "ask" => Continued[e][known] # {}
         /\ \A t \in Continued[e][known] : OnCourse(e, t) /\ t.phase # "asking"
<1> DEFINE now == Standing[e][known]
<1>0. CASE now.says # "ask"
  BY <1>0 DEF Continued
<1>1. CASE now.says = "ask"
  <2>1. now.of \in Leaves \ DOMAIN known
    BY <1>1, StandingIs
  <2>2. ASSUME NEW s \in Answered(known, now.of) PROVE HasAsked(e, s, 0)
    <3>1. Cardinality(DOMAIN known) >= 0 /\ Cardinality(DOMAIN known) \in Nat
      <4>1. DOMAIN known \in SUBSET Leaves
        BY KnownIs
      <4>2. Cardinality(DOMAIN known) \in Nat
        BY <4>1, RulesAssumption, FS_Subset, FS_CardinalityType
      <4>. QED
        BY <4>2
    <3>2. HasAsked(e, s, 0 + 1)
      BY <2>1, <2>2, <3>1, AnsweredHasAsked
    <3>3. s.phase = "asking" => Cardinality(DOMAIN s.known) >= 0
      <4>1. s.known \in Known
        BY <3>2 DEF HasAsked, OnCourse
      <4>2. DOMAIN s.known \in SUBSET Leaves
        BY <4>1, KnownIs
      <4>3. Cardinality(DOMAIN s.known) \in Nat
        BY <4>2, RulesAssumption, FS_Subset, FS_CardinalityType
      <4>. QED
        BY <4>3
    <3>. QED
      BY <3>2, <3>3 DEF HasAsked
  <2>3. Continued[e][known] = Courses(e, Answered(known, now.of))
    BY <1>1 DEF Continued
  <2>4. Answered(known, now.of) # {}
    BY <2>1, RulesAssumption DEF Answered
  <2>. QED
    BY <2>2, <2>3, <2>4, CoursesEnd
<1>. QED
  BY <1>0, <1>1

\* An evaluation never stands still and never asks for ever: from where it
\* starts, and from every answer it has waited for, it gets to its end or to a
\* predicate that it awaits.
THEOREM EvaluationsGoOn ==
  ASSUME NEW e \in Events
  PROVE  /\ Starts[e] # {}
         /\ \A s \in Starts[e] : s.phase \in {"evaluating", "evaluated", "raised"}
         /\ \A known \in Known :
              /\ Standing[e][known].says = "ask" => Continued[e][known] # {}
              /\ \A s \in Continued[e][known] :
                   s.phase \in {"evaluating", "evaluated", "raised"}
BY StartsOnCourse, ContinuedOnCourse DEF OnCourse

----------------------------------------------------------------------------
(* The invariant *)

Phases == {"new", "waiting", "evaluating", "evaluated", "raised", "cancelled",
           "accepted", "refused", "failed"}

States == [phase : Phases, known : Known, picked : SUBSET DOMAIN Handlers]

\* An evaluation that awaits a predicate needs it, and one that is over has
\* picked what its answers say.
IsTrue(e, s) ==
  /\ s.phase = "evaluating" => Standing[e][s.known].says = "ask"
  /\ s.phase = "evaluated" => Standing[e][s.known] = Picks(s.picked)

EvaluationsOK == event \in [Events -> States] /\ \A e \in Events : IsTrue(e, event[e])

\* A reader waits for the one event it has dispatched.
ReadersOK ==
  /\ source \in [Events -> Conns \cup {None}]
  /\ busy = {source[e] : e \in Events} \ {None}
  /\ \A d, e \in Events : source[d] = source[e] /\ source[e] # None => d = e
  /\ \A e \in Events : event[e].phase = "new" => source[e] = None

Places == {"none", "queued", "before", "around", "resolving", "handler", "after",
           "error", "ended"}

JobStates == [at : Places, nexts : 0 .. MaxNext]

JobsOK ==
  /\ job \in [Jobs -> JobStates]
  /\ cancelling \subseteq Events \cup Jobs

BotInv == WireInv /\ IntakeInv /\ EvaluationsOK /\ ReadersOK /\ JobsOK

----------------------------------------------------------------------------
(* A bot is made of transports *)

TransportStep ==
  \/ WireNext /\ UNCHANGED intakeVars
  \/ IntakeNext /\ UNCHANGED wireVars
  \/ UNCHANGED <<wireVars, intakeVars>>

\* The reader of a connection takes a payload, or goes on.
LEMMA ReaderSteps ==
  ASSUME WireInv, ReadersOK, NEW e,
         \/ \E c \in Conns : Receive(e, c)
         \/ Admit(e) \/ Refuse(e) \/ Fail(e)
  PROVE  ReaderStep /\ UNCHANGED intakeVars
<1>0. busy \subseteq Conns
  BY DEF WireInv, WireTypeOK
<1>1. CASE \E c \in Conns : Receive(e, c)
  BY <1>0, <1>1 DEF Receive, ReaderStep
<1>2. CASE Admit(e) \/ Refuse(e) \/ Fail(e)
  BY <1>0, <1>2 DEF Admit, Refuse, Fail, Returned, ReaderStep
<1>. QED
  BY <1>1, <1>2

\* Every step of a bot is one of a transport, one of the way in, or neither.
LEMMA NextIsTransportStep ==
  ASSUME WireInv, ReadersOK, Next PROVE TransportStep
<1>1. CASE External
  BY <1>1 DEF External, TransportStep, WireNext
<1>2. CASE WireProgress
  BY <1>2 DEF WireProgress, TransportStep, WireNext
<1>3. CASE Arrives /\ UNCHANGED <<wireVars, botVars>>
  BY <1>3 DEF Arrives, TransportStep, IntakeNext
<1>4. CASE \E p \in Requests : GiveNext(p) \/ Respond(p)
  BY <1>4 DEF GiveNext, Respond, TransportStep, IntakeNext
<1>5. CASE Poll
  BY <1>5 DEF Poll, PollGoesOn, TransportStep, IntakeNext
<1>6. ASSUME NEW e \in Events,
             \/ \E c \in Conns : Receive(e, c)
             \/ PredicateCalls(e) \/ EvaluationProgress(e)
      PROVE  TransportStep
  <2>1. CASE StartEvaluation(e) \/ PredicateReturns(e)
    BY <2>1 DEF StartEvaluation, PredicateReturns, TransportStep
  <2>2. CASE PredicateCalls(e)
    BY <2>2 DEF PredicateCalls, TransportStep, WireNext
  <2>3. CASE EvaluationIsCancelled(e)
    BY <2>3 DEF EvaluationIsCancelled, DropCall, AwaitsCall, TransportStep, WireNext
  <2>4. CASE (\E c \in Conns : Receive(e, c)) \/ Admit(e) \/ Refuse(e) \/ Fail(e)
    BY <2>4, ReaderSteps DEF TransportStep, WireNext
  <2>. QED
    BY <1>6, <2>1, <2>2, <2>3, <2>4 DEF EvaluationProgress
<1>7. ASSUME NEW j \in Jobs, JobProgress(j) \/ CallNext(j) \/ HandlerCalls(j)
      PROVE  TransportStep
  <2>1. CASE JobStep(j) \/ CallNext(j)
    BY <2>1 DEF JobStep, CallNext, TransportStep
  <2>2. CASE HandlerCalls(j)
    BY <2>2 DEF HandlerCalls, TransportStep, WireNext
  <2>3. CASE JobIsCancelled(j)
    BY <2>3 DEF JobIsCancelled, DropCall, AwaitsCall, TransportStep, WireNext
  <2>. QED
    BY <1>7, <2>1, <2>2, <2>3 DEF JobProgress
<1>8. CASE Stop \/ BeginShutdown \/ Rest \/ BeginReload \/ CutHandlers \/ EndReload
  BY <1>8 DEF Stop, BeginShutdown, Rest, vars, BeginReload, CutHandlers, EndReload,
    TransportStep, IntakeNext
<1>9. CASE CloseAdapter \/ EndShutdown
  BY <1>9 DEF CloseAdapter, EndShutdown, TransportStep, WireNext
<1>. QED
  BY <1>1, <1>2, <1>3, <1>4, <1>5, <1>6, <1>7, <1>8, <1>9 DEF Next

\* So the transports keep what they keep on their own.
LEMMA TransportStepHolds ==
  ASSUME WireInv, IntakeInv, TransportStep PROVE WireInv' /\ IntakeInv'
<1>1. WireInv'
  BY WireNextHolds DEF TransportStep
<1>2. mode' = mode
  BY ModeStays DEF TransportStep, wireVars
<1>3. IntakeInv'
  BY <1>2, StandingStill, IntakeNextHolds DEF TransportStep
<1>. QED
  BY <1>1, <1>3

----------------------------------------------------------------------------
(* The steps of a bot *)

\* No event is new again.
StayBegun == \A d \in Events : event'[d].phase = "new" => event[d].phase = "new"

\* The dispatch of an event begins or is over.
LEMMA IdleHolds ==
  ASSUME EvaluationsOK, NEW e, NEW phase \in Phases \ {"new", "evaluating", "evaluated"},
         event' = [event EXCEPT ![e] = Idle(phase)]
  PROVE  EvaluationsOK' /\ StayBegun
<1>1. Idle(phase) \in States /\ Idle(phase).phase = phase
  BY NothingKnown DEF Idle, At, States
<1>2. PICK s : s = Idle(phase)
  OBVIOUS
<1>3. s \in States /\ s.phase = phase
  BY <1>1, <1>2
<1>4. event' = [event EXCEPT ![e] = s]
  BY <1>2
<1>5. event' \in [Events -> States]
  BY <1>3, <1>4 DEF EvaluationsOK
<1>6. ASSUME NEW d \in Events
      PROVE  IsTrue(d, event'[d]) /\ (event'[d].phase = "new" => event[d].phase = "new")
  <2>1. event'[d] = s \/ event'[d] = event[d]
    BY <1>4 DEF EvaluationsOK
  <2>2. IsTrue(d, s) /\ s.phase # "new"
    BY <1>3 DEF IsTrue
  <2>3. IsTrue(d, event[d])
    BY DEF EvaluationsOK
  <2>. QED
    BY <2>1, <2>2, <2>3
<1>7. (\A d \in Events : IsTrue(d, event[d]))'
  BY <1>6 DEF IsTrue
<1>. QED
  BY <1>5, <1>6, <1>7 DEF EvaluationsOK, StayBegun

\* It goes on along its course.
LEMMA GoOnHolds ==
  ASSUME EvaluationsOK, NEW e \in Events, NEW courses, GoOn(e, courses),
         \A s \in courses : OnCourse(e, s) /\ s.phase # "asking"
  PROVE  EvaluationsOK' /\ StayBegun
<1>1. PICK s \in courses : event' = [event EXCEPT ![e] = s]
  BY DEF GoOn
<1>2. OnCourse(e, s) /\ s.phase \in {"evaluating", "evaluated", "raised"}
  BY DEF OnCourse
<1>3. s \in States
  <2>1. s = [phase |-> s.phase, known |-> s.known, picked |-> s.picked]
    BY <1>2 DEF OnCourse, At
  <2>2. s.phase \in Phases /\ s.known \in Known /\ s.picked \in SUBSET DOMAIN Handlers
    BY <1>2 DEF OnCourse, Phases
  <2>. QED
    BY <2>1, <2>2 DEF States
<1>4. IsTrue(e, s) /\ s.phase # "new"
  BY <1>2 DEF OnCourse, IsTrue
<1>5. event' \in [Events -> States]
  BY <1>1, <1>3 DEF EvaluationsOK
<1>6. ASSUME NEW d \in Events
      PROVE  IsTrue(d, event'[d]) /\ (event'[d].phase = "new" => event[d].phase = "new")
  <2>1. (d = e /\ event'[d] = s) \/ event'[d] = event[d]
    BY <1>1 DEF EvaluationsOK
  <2>2. IsTrue(d, event[d])
    BY DEF EvaluationsOK
  <2>. QED
    BY <2>1, <2>2, <1>4
<1>7. (\A d \in Events : IsTrue(d, event[d]))'
  BY <1>6 DEF IsTrue
<1>. QED
  BY <1>5, <1>6, <1>7 DEF EvaluationsOK, StayBegun

\* What is raised stays where an evaluation may be.
LEMMA RaisedOnCourse ==
  ASSUME NEW e, NEW s \in {Idle("raised")}
  PROVE  OnCourse(e, s) /\ s.phase # "asking"
<1>1. s.phase = "raised" /\ s.known = << >> /\ s.picked = {}
      /\ s = At(s.phase, s.known, s.picked)
  BY AtIs DEF Idle
<1>. QED
  BY <1>1, NothingKnown DEF OnCourse

\* No reader takes a payload or goes on.
LEMMA ReadersStay ==
  ASSUME ReadersOK, UNCHANGED <<source, busy>>,
         StayBegun
  PROVE  ReadersOK'
BY DEF ReadersOK, StayBegun

LEMMA EvaluationsStay ==
  ASSUME EvaluationsOK, UNCHANGED event PROVE EvaluationsOK' /\ StayBegun
BY DEF EvaluationsOK, IsTrue, StayBegun

LEMMA JobsStay ==
  ASSUME JobsOK, UNCHANGED <<job, cancelling>> PROVE JobsOK'
BY DEF JobsOK

Fine == EvaluationsOK /\ ReadersOK /\ JobsOK

LEMMA FineStays ==
  ASSUME Fine, UNCHANGED <<botVars, busy>> PROVE Fine'
BY EvaluationsStay, ReadersStay, JobsStay DEF Fine, botVars

\* No call and no connection changes what readers wait for.
LEMMA CallsLeaveReaders ==
  ASSUME NEW k, StartCall(k) \/ Reply(k) \/ CallProgress(k) \/ GiveUp(k) \/ DropCall(k)
  PROVE  UNCHANGED busy
BY DEF StartCall, Reply, CallProgress, WokenCall, CallEnds, GiveUp, DropCall, wireVars

LEMMA LinksLeaveReaders ==
  ASSUME NEW c, LinkStep(c) \/ LinkProgress(c)
  PROVE  UNCHANGED busy
BY DEF LinkStep, Accept, Dial, Lose, LinkProgress, ReplacementEnds, Dialled, Unbind,
  DialFails

LEMMA ReceiveHolds ==
  ASSUME Fine, NEW e \in Events, NEW c \in Conns, Receive(e, c) PROVE Fine'
<1> USE DEF Fine, Receive, Emitted
<1>1. EvaluationsOK' /\ StayBegun
  BY IdleHolds DEF Phases
<1>2. JobsOK'
  BY JobsStay
<1>3. CASE UNCHANGED <<source, busy>>
  BY <1>1, <1>2, <1>3, ReadersStay
<1>4. CASE /\ event' = [event EXCEPT ![e] = Idle("waiting")]
           /\ source' = [source EXCEPT ![e] = c]
           /\ busy' = busy \cup {c}
  <2>1. source[e] = None /\ c \notin {source[d] : d \in Events}
    BY DEF ReadersOK, Conns, None
  <2>2. source' \in [Events -> Conns \cup {None}]
    BY <1>4 DEF ReadersOK
  <2>3. \A d \in Events : source'[d] = IF d = e THEN c ELSE source[d]
    BY <1>4 DEF ReadersOK
  <2>4. c # None
    BY DEF Conns, None
  <2>5. busy' = {source'[d] : d \in Events} \ {None}
    BY <1>4, <2>1, <2>3, <2>4 DEF ReadersOK
  <2>6. \A d, o \in Events : source'[d] = source'[o] /\ source'[o] # None => d = o
    BY <2>1, <2>3 DEF ReadersOK
  <2>7. event'[e].phase # "new"
    <3>1. event'[e] = Idle("waiting")
      BY <1>4 DEF EvaluationsOK
    <3>. QED
      BY <3>1 DEF Idle, At
  <2>8. \A d \in Events : event'[d].phase = "new" => source'[d] = None
    BY <2>3, <2>7, <1>1 DEF ReadersOK, StayBegun
  <2>. QED
    BY <1>1, <1>2, <2>2, <2>5, <2>6, <2>8 DEF ReadersOK
<1>. QED
  BY <1>3, <1>4

\* dispatch() is over, and the reader that waited for it goes on.
LEMMA ReturnedHolds ==
  ASSUME EvaluationsOK, ReadersOK, NEW e \in Events,
         NEW phase \in {"accepted", "refused", "failed"}, Returned(e, phase)
  PROVE  EvaluationsOK' /\ ReadersOK'
<1> USE DEF Returned
<1>1. EvaluationsOK' /\ StayBegun
  BY IdleHolds DEF Phases
<1>2. source' \in [Events -> Conns \cup {None}]
  BY DEF ReadersOK
<1>3. \A d \in Events : source'[d] = IF d = e THEN None ELSE source[d]
  BY DEF ReadersOK
<1>4. busy' = {source'[d] : d \in Events} \ {None}
  BY <1>3 DEF ReadersOK
<1>5. \A d, o \in Events : source'[d] = source'[o] /\ source'[o] # None => d = o
  BY <1>3 DEF ReadersOK
<1>6. \A d \in Events : event'[d].phase = "new" => source'[d] = None
  BY <1>1, <1>3 DEF ReadersOK, StayBegun
<1>. QED
  BY <1>1, <1>2, <1>4, <1>5, <1>6 DEF ReadersOK

LEMMA NoJobIs ==
  /\ NoJob \in JobStates
  /\ \A at \in Places : [NoJob EXCEPT !.at = at] \in JobStates
<1>1. 0 \in 0 .. MaxNext /\ "none" \in Places
  BY BotAssumption DEF Places
<1>2. NoJob \in JobStates
  BY <1>1 DEF NoJob, JobStates
<1>3. PICK s \in JobStates : s = NoJob
  BY <1>2
<1>4. \A at \in Places : [s EXCEPT !.at = at] \in JobStates
  BY DEF JobStates
<1>. QED
  BY <1>2, <1>3, <1>4

\* An evaluation is over: its jobs are queued, or none are.
LEMMA DispatchEndHolds ==
  ASSUME Fine, NEW e \in Events, Admit(e) \/ Refuse(e) \/ Fail(e)
  PROVE  Fine'
<1>1. EvaluationsOK' /\ ReadersOK'
  BY ReturnedHolds DEF Fine, Admit, Refuse, Fail
<1>2. cancelling' = cancelling
  BY DEF Admit, Refuse, Fail, Returned
<1>3. CASE UNCHANGED job
  BY <1>1, <1>2, <1>3, JobsStay DEF Fine
<1>4. CASE Admit(e)
  <2>1. job' = [j \in Jobs |-> IF j[1] = e /\ j[2] \in event[e].picked
                               THEN [NoJob EXCEPT !.at = "queued"] ELSE job[j]]
    BY <1>4 DEF Admit
  <2>2. [NoJob EXCEPT !.at = "queued"] \in JobStates
    BY NoJobIs DEF Places
  <2>3. job \in [Jobs -> JobStates] /\ cancelling \subseteq Events \cup Jobs
    BY DEF Fine, JobsOK, JobStates
  <2>4. job' \in [Jobs -> JobStates]
    BY <2>1, <2>2, <2>3
  <2>. QED
    BY <1>1, <1>2, <2>3, <2>4 DEF Fine, JobsOK, JobStates
<1>. QED
  BY <1>3, <1>4 DEF Refuse, Fail

\* Evaluations go on.
LEMMA EvaluationHolds ==
  ASSUME Fine, NEW e \in Events, StartEvaluation(e) \/ PredicateReturns(e)
  PROVE  Fine'
<1>0. event[e] \in States /\ event[e].known \in Known
  BY DEF Fine, EvaluationsOK, States
<1>1. EvaluationsOK' /\ StayBegun
  <2>1. CASE StartEvaluation(e)
    <3> DEFINE courses == IF stopped /\ NeedsContext(e) THEN {Idle("raised")} ELSE Starts[e]
    <3>1. GoOn(e, courses)
      BY <2>1 DEF StartEvaluation
    <3>2. \A s \in courses : OnCourse(e, s) /\ s.phase # "asking"
      BY StartsOnCourse, RaisedOnCourse
    <3> HIDE DEF courses
    <3>. QED
      BY <3>1, <3>2, GoOnHolds DEF Fine
  <2>2. CASE PredicateReturns(e)
    <3> DEFINE courses == IF stopped THEN {Idle("raised")} ELSE Continued[e][event[e].known]
    <3>1. GoOn(e, courses)
      BY <2>2 DEF PredicateReturns
    <3>2. \A s \in courses : OnCourse(e, s) /\ s.phase # "asking"
      BY <1>0, ContinuedOnCourse, RaisedOnCourse
    <3> HIDE DEF courses
    <3>. QED
      BY <3>1, <3>2, GoOnHolds DEF Fine
  <2>. QED
    BY <2>1, <2>2
<1>2. UNCHANGED <<wireVars, source, job>> /\ cancelling' \subseteq cancelling
  BY DEF StartEvaluation, PredicateReturns
<1>3. JobsOK'
  BY <1>2 DEF Fine, JobsOK
<1>. QED
  BY <1>1, <1>2, <1>3, ReadersStay DEF Fine, wireVars

\* Jobs go on.
LEMMA MovedToIs ==
  ASSUME JobsOK, NEW j \in Jobs, NEW at \in Places
  PROVE  MovedTo(j, at) \in JobStates /\ MovedTo(j, at).at = at
<1>1. job[j] \in JobStates
  BY DEF JobsOK, JobStates
<1>2. PICK s \in JobStates : s = job[j]
  BY <1>1
<1>3. [s EXCEPT !.at = at] \in JobStates /\ [s EXCEPT !.at = at].at = at
  BY DEF JobStates
<1>4. [NoJob EXCEPT !.at = at].at = at
  BY DEF NoJob
<1>. QED
  BY <1>2, <1>3, <1>4, NoJobIs DEF MovedTo

LEMMA PlacesAfter ==
  ASSUME NEW at \in Places \ {"none", "ended"}
  PROVE  /\ After(at) \in Places /\ AfterRaising(at) \in Places /\ GoesTo(at) \in Places
         /\ stopped => GoesTo(at) = AfterRaising(at)
BY DEF Places, After, AfterRaising, GoesTo

LEMMA MoveHolds ==
  ASSUME JobsOK, NEW j \in Jobs, NEW at \in Places, Move(j, at)
  PROVE  job' \in [Jobs -> JobStates]
<1>1. job' = [job EXCEPT ![j] = MovedTo(j, at)] /\ job \in [Jobs -> JobStates]
  BY DEF Move, JobsOK, JobStates
<1>2. MovedTo(j, at) \in JobStates
  BY MovedToIs
<1>. QED
  BY <1>1, <1>2

LEMMA JobStepHolds ==
  ASSUME JobsOK, NEW j \in Jobs, JobStep(j) \/ CallNext(j)
  PROVE  JobsOK'
<1>0. job \in [Jobs -> JobStates] /\ job[j] \in JobStates /\ job[j].at \in Places
  BY DEF JobsOK, JobStates
<1>1. cancelling' = cancelling
  BY DEF JobStep, CallNext
<1>2. job' \in [Jobs -> JobStates]
  <2>1. CASE JobStep(j)
    <3>1. job[j].at \in Places \ {"none", "ended"}
      BY <1>0, <2>1 DEF JobStep, JobEnded
    <3>2. CASE Move(j, GoesTo(job[j].at))
      BY <3>1, <3>2, PlacesAfter, MoveHolds
    <3>3. CASE Move(j, AfterRaising(job[j].at))
      BY <3>1, <3>3, PlacesAfter, MoveHolds
    <3>. QED
      BY <2>1, <3>2, <3>3 DEF JobStep
  <2>2. CASE CallNext(j)
    <3>1. PICK at \in Enters : job' = [job EXCEPT ![j] = [at |-> at, nexts |-> @.nexts + 1]]
      BY <2>2 DEF CallNext
    <3>2. PICK s : s = job[j]
      OBVIOUS
    <3>3. s \in JobStates /\ s.nexts \in 0 .. MaxNext /\ s.nexts < MaxNext
      BY <1>0, <2>2, <3>2 DEF CallNext, JobStates
    <3>4. s.nexts + 1 \in 0 .. MaxNext
      BY <3>3, BotAssumption
    <3>5. PICK n : n = s.nexts + 1
      OBVIOUS
    <3>6. job' = [job EXCEPT ![j] = [at |-> at, nexts |-> n]]
      BY <1>0, <3>1, <3>2, <3>5
    <3>7. [at |-> at, nexts |-> n] \in JobStates
      BY <3>1, <3>4, <3>5 DEF JobStates, Enters, Places
    <3>. QED
      BY <1>0, <3>6, <3>7
  <2>. QED
    BY <2>1, <2>2
<1>. QED
  BY <1>1, <1>2 DEF JobsOK, JobStates

\* A reload makes stale what an evaluation has picked.
LEMMA EndReloadHolds == ASSUME Fine, EndReload PROVE Fine'
<1>1. PICK s : s = Idle("cancelled")
  OBVIOUS
<1>2. s \in States /\ s.phase = "cancelled"
  BY <1>1, NothingKnown DEF Idle, At, States, Phases
<1>3. /\ event' = [e \in Events |->
            IF event[e].phase = "evaluated" /\ event[e].picked # {} THEN s ELSE event[e]]
      /\ UNCHANGED <<wireVars, source, job>> /\ cancelling' = {}
  BY <1>1 DEF EndReload
<1>4. \A e \in Events : event'[e] = s \/ event'[e] = event[e]
  BY <1>3
<1>5. \A e \in Events : IsTrue(e, event[e]) /\ event[e] \in States
  BY DEF Fine, EvaluationsOK
<1>6. event' \in [Events -> States]
  BY <1>2, <1>3, <1>5
<1>7. \A e \in Events : IsTrue(e, event'[e])
  BY <1>2, <1>4, <1>5 DEF IsTrue
<1>8. (\A e \in Events : IsTrue(e, event[e]))'
  BY <1>7 DEF IsTrue
<1>9. EvaluationsOK' /\ StayBegun
  BY <1>2, <1>4, <1>6, <1>8 DEF EvaluationsOK, StayBegun
<1>10. JobsOK'
  BY <1>3 DEF Fine, JobsOK
<1>. QED
  BY <1>3, <1>9, <1>10, ReadersStay DEF Fine, wireVars

\* A step of a bot leaves evaluations, readers and jobs in order.
LEMMA StepIsFine ==
  ASSUME Fine, Next PROVE Fine'
<1>1. CASE External \/ WireProgress
  BY <1>1, CallsLeaveReaders, LinksLeaveReaders, FineStays DEF External, WireProgress
<1>2. CASE Arrives /\ UNCHANGED <<wireVars, botVars>>
  BY <1>2, FineStays DEF wireVars
<1>3. CASE \E p \in Requests : GiveNext(p) \/ Respond(p)
  <2>1. ASSUME NEW p \in Requests, GiveNext(p) PROVE Fine'
    <3>1. EvaluationsOK' /\ StayBegun
      BY <2>1, IdleHolds DEF Fine, GiveNext, Emit, Emitted, Phases
    <3>. QED
      BY <2>1, <3>1, ReadersStay, JobsStay DEF Fine, GiveNext, wireVars
  <2>2. ASSUME NEW p \in Requests, Respond(p) PROVE Fine'
    BY <2>2, FineStays DEF Respond, wireVars
  <2>. QED
    BY <1>3, <2>1, <2>2
<1>4. CASE Poll
  <2>1. UNCHANGED <<wireVars, source, job, cancelling>>
    BY <1>4 DEF Poll
  <2>2. UNCHANGED event \/ \E n : Emit(n)
    BY <1>4 DEF Poll, PollGoesOn
  <2>3. EvaluationsOK' /\ StayBegun
    BY <2>2, EvaluationsStay, IdleHolds DEF Fine, Emit, Emitted, Phases
  <2>. QED
    BY <2>1, <2>3, ReadersStay, JobsStay DEF Fine, wireVars
<1>5. ASSUME NEW e \in Events,
             \/ \E c \in Conns : Receive(e, c)
             \/ PredicateCalls(e) \/ EvaluationProgress(e)
      PROVE  Fine'
  <2>1. CASE \E c \in Conns : Receive(e, c)
    BY <2>1, ReceiveHolds
  <2>2. CASE PredicateCalls(e)
    BY <2>2, CallsLeaveReaders, FineStays DEF PredicateCalls
  <2>3. CASE StartEvaluation(e) \/ PredicateReturns(e)
    BY <2>3, EvaluationHolds
  <2>4. CASE EvaluationIsCancelled(e)
    <3>1. EvaluationsOK' /\ StayBegun
      BY <2>4, IdleHolds DEF Fine, EvaluationIsCancelled, Phases
    <3>2. UNCHANGED <<busy, source, job, cancelling>>
      BY <2>4, CallsLeaveReaders DEF EvaluationIsCancelled
    <3>. QED
      BY <3>1, <3>2, ReadersStay, JobsStay DEF Fine
  <2>5. CASE Admit(e) \/ Refuse(e) \/ Fail(e)
    BY <2>5, DispatchEndHolds
  <2>. QED
    BY <1>5, <2>1, <2>2, <2>3, <2>4, <2>5 DEF EvaluationProgress
<1>6. ASSUME NEW j \in Jobs, JobProgress(j) \/ CallNext(j) \/ HandlerCalls(j)
      PROVE  Fine'
  <2>1. CASE JobStep(j) \/ CallNext(j)
    <3>1. UNCHANGED <<wireVars, source, event>>
      BY <2>1 DEF JobStep, CallNext
    <3>. QED
      BY <2>1, <3>1, JobStepHolds, EvaluationsStay, ReadersStay DEF Fine, wireVars
  <2>2. CASE HandlerCalls(j)
    BY <2>2, CallsLeaveReaders, FineStays DEF HandlerCalls
  <2>3. CASE JobIsCancelled(j)
    <3>1. UNCHANGED <<busy, source, event>> /\ cancelling' = cancelling \ {j}
      BY <2>3, CallsLeaveReaders DEF JobIsCancelled
    <3>2. job' \in [Jobs -> JobStates]
      BY <2>3, MoveHolds DEF Fine, JobIsCancelled, JobsOK, JobStates, Places
    <3>3. JobsOK'
      BY <3>1, <3>2 DEF Fine, JobsOK, JobStates
    <3>. QED
      BY <3>1, <3>3, EvaluationsStay, ReadersStay DEF Fine
  <2>. QED
    BY <1>6, <2>1, <2>2, <2>3 DEF JobProgress
<1>7. CASE BeginShutdown \/ BeginReload \/ CutHandlers
  <2>1. UNCHANGED <<wireVars, source, event, job>> /\ cancelling' \subseteq Events \cup Jobs
    BY <1>7 DEF BeginShutdown, BeginReload, CutHandlers
  <2>2. JobsOK'
    BY <2>1 DEF Fine, JobsOK
  <2>. QED
    BY <2>1, <2>2, EvaluationsStay, ReadersStay DEF Fine, wireVars
<1>8. CASE Stop \/ Rest \/ CloseAdapter \/ EndShutdown
  <2>1. UNCHANGED <<busy, source, event, job, cancelling>>
    BY <1>8 DEF Stop, Rest, CloseAdapter, EndShutdown, BeginClose, EndClose, vars,
      botVars, wireVars
  <2>. QED
    BY <2>1, EvaluationsStay, ReadersStay, JobsStay DEF Fine
<1>9. CASE EndReload
  BY <1>9, EndReloadHolds
<1>. QED
  BY <1>1, <1>2, <1>3, <1>4, <1>5, <1>6, <1>7, <1>8, <1>9 DEF Next

----------------------------------------------------------------------------
LEMMA InitHolds == Init => BotInv
<1> SUFFICES ASSUME Init PROVE BotInv
  OBVIOUS
<1>1. WireInv /\ IntakeInv
  BY WireInitHolds, IntakeInitHolds DEF Init
<1>2. EvaluationsOK
  <2>1. PICK s : s = Idle("new")
    OBVIOUS
  <2>2. s \in States /\ s.phase = "new"
    BY <2>1, NothingKnown DEF Idle, At, States, Phases
  <2>3. event = [e \in Events |-> s]
    BY <2>1 DEF Init
  <2>. QED
    BY <2>2, <2>3 DEF EvaluationsOK, IsTrue
<1>3. ReadersOK
  BY DEF Init, WireInit, ReadersOK
<1>4. JobsOK
  <2>1. NoJob \in JobStates
    BY NoJobIs
  <2>2. job = [j \in Jobs |-> NoJob] /\ cancelling = {}
    BY DEF Init
  <2>. QED
    BY <2>1, <2>2 DEF JobsOK, JobStates
<1>. QED
  BY <1>1, <1>2, <1>3, <1>4 DEF BotInv

LEMMA NextHolds == BotInv /\ [Next]_vars => BotInv'
<1> SUFFICES ASSUME BotInv, [Next]_vars PROVE BotInv'
  OBVIOUS
<1> USE DEF BotInv
<1>1. TransportStep /\ Fine'
  <2>1. CASE Next
    BY <2>1, NextIsTransportStep, StepIsFine DEF Fine
  <2>2. CASE UNCHANGED vars
    <3>1. UNCHANGED <<wireVars, intakeVars>> /\ UNCHANGED <<botVars, busy>>
      BY <2>2 DEF vars, wireVars
    <3>. QED
      BY <3>1, FineStays DEF TransportStep, Fine
  <2>. QED
    BY <2>1, <2>2
<1>. QED
  BY <1>1, TransportStepHolds DEF Fine

LEMMA Invariant == Spec => []BotInv
BY InitHolds, NextHolds, PTL DEF Spec

----------------------------------------------------------------------------
(* The theorems *)

\* A bot implements the way in: whatever it does with events, its connections,
\* calls, requests and polls do what those of Intake do on their own.
THEOREM BotHasTransports == Spec => IntakeSpec
<1>1. BotInv /\ [Next]_vars =>
        [ \/ WireNext /\ UNCHANGED intakeVars
          \/ IntakeNext /\ UNCHANGED wireVars ]_<<wireVars, intakeVars>>
  <2> SUFFICES ASSUME BotInv, [Next]_vars PROVE TransportStep
    BY DEF TransportStep
  <2>. QED
    BY NextIsTransportStep DEF BotInv, vars, TransportStep
<1>2. Init => WireInit /\ IntakeInit
  BY DEF Init
<1>. QED
  BY <1>1, <1>2, Invariant, PTL DEF Spec, IntakeSpec

\* And the way in leaves the connections of Wire alone.
LEMMA IntakeHasWire == IntakeSpec => WireSpec
<1>1. [ \/ WireNext /\ UNCHANGED intakeVars
        \/ IntakeNext /\ UNCHANGED wireVars ]_<<wireVars, intakeVars>> => [WireNext]_wireVars
  OBVIOUS
<1>. QED
  BY <1>1, PTL DEF IntakeSpec, WireSpec

\* So whichever predicates and handlers call the API, whichever readers wait
\* for them, and whenever the bot closes its adapter: a call waits only on the
\* connection that calls are sent on (Connected).
THEOREM BotStaysConnected == Spec => []Connected
BY BotHasTransports, IntakeHasWire, TransportsStayConnected, PTL

\* And whatever becomes of an event, and however often the bot is reloaded: an
\* adapter emits it once, unless it came before the time it is stamped with
\* (EmittedOnce).
THEOREM BotEmitsOnce == Spec => []EmittedOnce
BY BotHasTransports, EventsAreEmittedOnce, PTL

\* A bot is always in a state of its type, in which the connections whose
\* reader waits are those of the events that are dispatched (TypeOK).
THEOREM BotIsTyped == Spec => []TypeOK
<1>1. BotInv => TypeOK
  <2> SUFFICES ASSUME BotInv PROVE TypeOK
    OBVIOUS
  <2>1. WireTypeOK /\ PostTypeOK /\ PollTypeOK
    BY DEF BotInv, WireInv, IntakeInv, PostInv, PollInv
  <2>2. EvaluationsOK /\ ReadersOK /\ JobsOK
    BY DEF BotInv
  <2>. QED
    BY <2>1, <2>2 DEF TypeOK, WireTypeOK, PostTypeOK, PollTypeOK, Statuses,
      EvaluationsOK, States, Phases, ReadersOK, JobsOK, JobStates, Places
<1>. QED
  BY <1>1, Invariant, PTL

\* An event is given to exactly the handlers whose rule and permission hold,
\* up to the first that blocks, whichever predicates have been asked and
\* whatever the others would have said (PicksAsDocumented).
THEOREM BotPicksAsDocumented == Spec => []PicksAsDocumented
<1>1. BotInv => PicksAsDocumented
  <2> SUFFICES ASSUME BotInv, NEW e \in Events, event[e].phase = "evaluated"
               PROVE  Documented[e][event[e].known] = {event[e].picked}
    BY DEF PicksAsDocumented
  <2>1. event[e] \in States /\ IsTrue(e, event[e])
    BY DEF BotInv, EvaluationsOK
  <2>2. event[e].known \in Known /\ Standing[e][event[e].known] = Picks(event[e].picked)
    BY <2>1 DEF States, IsTrue
  <2>. QED
    BY <2>2, DocumentedIs
<1>. QED
  BY <1>1, Invariant, PTL

\* A job of a bot that has been told to stop only ends, or goes back to the
\* middlewares around it.
LEMMA StaleStep ==
  ASSUME BotInv, Next, stopped, NEW j \in Jobs, Begins(j) PROVE FALSE
<1>0. job \in [Jobs -> JobStates] /\ \A i \in Jobs : job[i].at \in Places
  BY DEF BotInv, JobsOK, JobStates
<1>1. job' # job
  BY DEF Begins
<1>2. ASSUME NEW i \in Jobs, NEW at \in Places, Move(i, at),
             at \in {"ended", job[i].at} \/ (job[i].at \in {"resolving", "handler"} /\ at = "around")
      PROVE  FALSE
  <2>1. MovedTo(i, at).at = at
    BY <1>2, MovedToIs DEF BotInv
  <2>2. j = i /\ job'[j] = MovedTo(i, at)
    BY <1>0, <1>2 DEF Move, Begins
  <2>. QED
    BY <1>2, <2>1, <2>2 DEF Begins
<1>3. ASSUME NEW e \in Events, Admit(e) PROVE FALSE
  <2>1. job'[j] = [NoJob EXCEPT !.at = "queued"] \/ job'[j] = job[j]
    BY <1>3 DEF Admit
  <2>. QED
    BY <2>1 DEF Begins, NoJob
<1>4. ASSUME NEW i \in Jobs, JobStep(i) PROVE FALSE
  <2>1. job[i].at \in Places \ {"none", "ended"}
    BY <1>0, <1>4 DEF JobStep, JobEnded
  <2>2. PICK at : at = AfterRaising(job[i].at)
    OBVIOUS
  <2>3. /\ at \in Places /\ GoesTo(job[i].at) = at
        /\ at = "ended" \/ (job[i].at \in {"resolving", "handler"} /\ at = "around")
    BY <2>1, <2>2, PlacesAfter DEF AfterRaising
  <2>4. Move(i, at)
    BY <1>4, <2>2, <2>3 DEF JobStep
  <2>. QED
    BY <1>2, <2>3, <2>4
<1>5. ASSUME NEW i \in Jobs, CallNext(i) PROVE FALSE
  <2>1. job' = [job EXCEPT ![i] = [at |-> "around", nexts |-> @.nexts + 1]]
    BY <1>5 DEF Enters, CallNext
  <2>2. job'[j].at = job[j].at
    BY <1>0, <1>5, <2>1 DEF CallNext
  <2>. QED
    BY <2>2 DEF Begins
<1>6. ASSUME NEW i \in Jobs, JobIsCancelled(i) PROVE FALSE
  BY <1>1, <1>2, <1>6 DEF JobIsCancelled, Places
<1>7. \/ UNCHANGED job
      \/ \E e \in Events : Admit(e)
      \/ \E i \in Jobs : JobStep(i) \/ CallNext(i) \/ JobIsCancelled(i)
  BY DEF Next, External, WireProgress, botVars, GiveNext, Respond, Poll, Receive,
    PredicateCalls, EvaluationProgress, StartEvaluation, PredicateReturns,
    EvaluationIsCancelled, Refuse, Fail, JobProgress, HandlerCalls, BeginReload,
    CutHandlers, EndReload, Stop, BeginShutdown, CloseAdapter, EndShutdown, Rest, vars
<1>. QED
  BY <1>1, <1>3, <1>4, <1>5, <1>6, <1>7

\* Once the runtime has been told to stop, no middleware and no handler is
\* entered any more (NothingBeginsStale).
THEOREM BotBeginsNothingStale == Spec => NothingBeginsStale
<1>1. BotInv /\ [Next]_vars => [\A j \in Jobs : Begins(j) => ~stopped]_vars
  BY StaleStep
<1>. QED
  BY <1>1, Invariant, PTL DEF Spec, NothingBeginsStale
=============================================================================
