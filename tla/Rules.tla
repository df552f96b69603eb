-------------------------------- MODULE Rules --------------------------------
(***************************************************************************)
(* Rules and permissions: trees of predicates that are asked one after the *)
(* other, each asked only when those before it leave the result open.      *)
(*                                                                         *)
(* Asking may take an await, so a tree is evaluated from the answers known *)
(* so far: it has a result, or there is a predicate to ask next.  A leaf   *)
(* stands for one occurrence of a predicate.  Match payloads are left out: *)
(* they are data that no decision looks at.                                *)
(*                                                                         *)
(* A tree is the sequence of its nodes, each after those it is made of,    *)
(* which it names by how far before it they are; the last is the root.     *)
(***************************************************************************)
EXTENDS Integers, SequencesExt, FiniteSets

\* What a leaf answers: a predicate holds or not or raises, and the path of a
\* field condition may be missing.
LeafAnswers == {"yes", "no", "raises", "missing"}

\* How the evaluation of a tree stands.
Says(w) == [says |-> w]
Ask(a)  == [says |-> "ask", of |-> a]

Decided(s) == s.says \in {"yes", "no"}
Truth(b)   == Says(IF b THEN "yes" ELSE "no")

----------------------------------------------------------------------------
(* Leaves *)

\* _normalize_rule_result(): a mapping is a match, None is not.
Predicate(a, known) ==
  IF a \in DOMAIN known THEN Says(known[a]) ELSE Ask(a)

\* Mutant: a comparison with a value that is not there is a comparison.
ComparesMissing(c, known) ==
  LET s == Predicate(c.of, known) IN
  IF s.says \in {"ask", "raises"} THEN s
  ELSE IF c.op = "exists" THEN Truth(c.want = (s.says # "missing"))
  ELSE Truth(s.says = "yes" \/ (s.says = "missing" /\ c.op = "not_equals"))

\* _evaluate_condition(): but for "exists", a missing value never matches.
Condition(c, known) ==
  LET s == Predicate(c.of, known) IN
  IF s.says \in {"ask", "raises"} THEN s
  ELSE IF c.op = "exists" THEN Truth(c.want = (s.says # "missing"))
  ELSE Truth(s.says = "yes")

----------------------------------------------------------------------------
(* Trees *)

\* The result that ends the evaluation of a list, if there is one.
Earliest(stops) == CHOOSE i \in stops : \A k \in stops : i <= k

\* Of a conjunction or disjunction it is the first that says w.
FirstToSay(w, results) ==
  LET stops == {i \in DOMAIN results : results[i].says \in {w, "ask", "raises"}}
  IN  IF stops = {} THEN Truth(w = "no") ELSE results[Earliest(stops)]

Not(s) == IF Decided(s) THEN Truth(s.says = "no") ELSE s

\* Ruleset._ordered_cases(), which sorts and so keeps the order of equal ones.
CaseBefore(cases, i, j) ==
  LET c == cases[i]
      d == cases[j]
  IN  \/ c.priority < d.priority
      \/ c.priority = d.priority /\ c.name < d.name
      \/ c.priority = d.priority /\ c.name = d.name /\ i < j

\* Ruleset.as_rule(): every case is evaluated in its order unless the first
\* that matches ends it; one that matches is enough.
CasesSay(cases, results, first) ==
  LET stops == {i \in DOMAIN cases : \/ ~Decided(results[i])
                                     \/ first /\ results[i].says = "yes"}
  IN  IF stops # {}
      THEN results[CHOOSE i \in stops :
                     \A j \in stops \ {i} : CaseBefore(cases, i, j)]
      ELSE Truth(\E i \in DOMAIN cases : results[i].says = "yes")

\* What the node at i says, when said is what those before it say.
NodeSays(node, i, said, known) ==
  CASE node.op = "allow"  -> Says("yes")
    [] node.op = "leaf"   -> Predicate(node.of, known)
    [] node.op = "fields" -> FirstToSay("no", [k \in DOMAIN node.conditions |->
                                                 Condition(node.conditions[k], known)])
    [] node.op = "all"    -> FirstToSay("no", [k \in DOMAIN node.of |-> said[i - node.of[k]]])
    [] node.op = "any"    -> FirstToSay("yes", [k \in DOMAIN node.of |-> said[i - node.of[k]]])
    [] node.op = "not"    -> Not(said[i - node.of])
    [] node.op = "cases"  -> CasesSay(node.cases, [k \in DOMAIN node.cases |->
                                                     said[i - node.cases[k].rule]],
                                      node.first)

Evaluate(tree, known) ==
  LET said[i \in 1 .. Len(tree)] == NodeSays(tree[i], i, said, known)
  IN  said[Len(tree)]

\* FieldOp, but for EXISTS
Comparisons == {"equals", "not_equals", "in", "contains", "startswith", "endswith",
                "regex", "gt", "ge", "lt", "le"}

\* What may stand at place i of a tree over leaves, those in plain predicates.
Nodes(i, leaves, plain) ==
  LET Earlier    == 1 .. i - 1
      Conditions == [op : {"exists"}, of : leaves, want : BOOLEAN]
                      \cup [op : Comparisons, of : leaves]
  IN  [op : {"allow"}]
      \cup [op : {"leaf"}, of : plain]
      \cup [op : {"fields"}, conditions : Seq(Conditions)]
      \cup [op : {"all", "any"}, of : Seq(Earlier)]
      \cup [op : {"not"}, of : Earlier]
      \cup [op : {"cases"}, first : BOOLEAN,
            cases : Seq([name : Int, priority : Int, rule : Earlier])]

IsTree(tree, leaves, plain) ==
  /\ tree \in Seq(Nodes(Len(tree), leaves, plain)) \ {<< >>}
  /\ \A i \in 1 .. Len(tree) : tree[i] \in Nodes(i, leaves, plain)

----------------------------------------------------------------------------
(* Permissions: trees of the operators of permissions.py *)

AllowAll == <<[op |-> "allow"]>>

Negated(p) == Append(p, [op |-> "not", of |-> 1])

DenyAll == Negated(AllowAll)

\* Permission.__and__(), __or__()
Joined(op, p, q)  == p \o q \o <<[op |-> op, of |-> <<1 + Len(q), 1>>]>>
BothHold(p, q)    == Joined("all", p, q)
EitherHolds(p, q) == Joined("any", p, q)

\* any_of() and all_of() nest to the left; nobody passes an empty any_of().
PermissionAnyOf(ps) ==
  IF ps = << >> THEN DenyAll ELSE FoldLeft(EitherHolds, Head(ps), Tail(ps))

PermissionAllOf(ps) == FoldLeft(BothHold, AllowAll, ps)

----------------------------------------------------------------------------
(* What a tree is documented to mean, for answers that are all known *)

NodeHolds(node, i, holds, answers) ==
  CASE node.op = "allow"  -> TRUE
    [] node.op = "leaf"   -> answers[node.of] = "yes"
    [] node.op = "fields" ->
         \A k \in DOMAIN node.conditions :
           LET c == node.conditions[k] IN
           IF c.op = "exists" THEN c.want = (answers[c.of] # "missing")
           ELSE answers[c.of] = "yes"
    [] node.op = "all"    -> \A k \in DOMAIN node.of : holds[i - node.of[k]]
    [] node.op = "any"    -> \E k \in DOMAIN node.of : holds[i - node.of[k]]
    [] node.op = "not"    -> ~holds[i - node.of]
    [] node.op = "cases"  -> \E k \in DOMAIN node.cases : holds[i - node.cases[k].rule]

Holds(tree, answers) ==
  LET holds[i \in 1 .. Len(tree)] == NodeHolds(tree[i], i, holds, answers)
  IN  holds[Len(tree)]
=============================================================================
