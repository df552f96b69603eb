---------------------------- MODULE ExperimentPlan ----------------------------
(***************************************************************************)
(* What an experiment sets down before it runs: variants with their        *)
(* trials, which of the variants is the baseline, and the cases that       *)
(* baseline and candidate are compared on.                                 *)
(*                                                                         *)
(* A variant is named by its number.  The specification of a trial has its *)
(* id, its agent and its task, which stands for everything but the agent.  *)
(* Plans are immutable, and equal when their hashes are.                   *)
(***************************************************************************)
EXTENDS Naturals, Sequences, Selection

NoBaseline == 0

Distinct(s) == \A i, j \in DOMAIN s : s[i] = s[j] => i = j

\* A variant is a sequence of specifications; a slot is a place in one.
Slots(p) == UNION {{v} \X DOMAIN p.variants[v] : v \in DOMAIN p.variants}

SpecAt(p, slot) == p.variants[slot[1]][slot[2]]
TrialAt(p, slot) == SpecAt(p, slot).trial

TrialsOf(p) == {TrialAt(p, slot) : slot \in Slots(p)}

\* TaskDistributionManifest() does not raise.
IsDistribution(cases) == cases # << >> /\ Distinct(cases)

\* What a trial is compared as: all but its agent.
Projection(spec, case) == <<case, spec.task>>

\* Two variants that differ in nothing but their agents.
IsComparison(p) ==
  /\ IsDistribution(p.cases)
  /\ p.baseline # NoBaseline /\ Len(p.variants) = 2
  /\ \A v \in DOMAIN p.variants :
       /\ Len(p.variants[v]) = Len(p.cases)
       /\ \A i \in DOMAIN p.cases :
            Projection(p.variants[v][i], p.cases[i])
              = Projection(p.variants[p.baseline][i], p.cases[i])

\* ExperimentPlan() does not raise.
IsPlan(p) ==
  /\ p.variants # << >>
  /\ \A v \in DOMAIN p.variants : p.variants[v] # << >>
  /\ \A a, b \in Slots(p) : TrialAt(p, a) = TrialAt(p, b) => a = b
  /\ p.baseline \in DOMAIN p.variants \cup {NoBaseline}
  /\ p.cases # << >> => IsComparison(p)

\* Its variants, the trials of each and its cases are tuples.
IsSequence(s) == s \in Seq({s[i] : i \in DOMAIN s})

IsTyped(p) ==
  /\ IsSequence(p.variants) /\ IsSequence(p.cases)
  /\ \A v \in DOMAIN p.variants : IsSequence(p.variants[v])

\* The trials of a plan in their order.
Precedes(a, b) == a[1] < b[1] \/ (a[1] = b[1] /\ a[2] < b[2])

FirstOf(p, S) ==
  TrialAt(p, CHOOSE a \in Slots(p) :
    /\ TrialAt(p, a) \in S
    /\ \A b \in Slots(p) : Precedes(b, a) => TrialAt(p, b) \notin S)

----------------------------------------------------------------------------
(* Results *)

\* An ExperimentResult: for every variant the trials that have a result, in
\* the order of the plan, and those that were started and have none.
ResultOf(p, started, committed) ==
  LET those(S) == [v \in DOMAIN p.variants |->
        Only([i \in DOMAIN p.variants[v] |-> p.variants[v][i].trial], S)]
  IN  [plan |-> p, results |-> those(committed),
       started |-> those(started \ committed)]

Complete(r) ==
  \A v \in DOMAIN r.plan.variants : Len(r.results[v]) = Len(r.plan.variants[v])

Candidate(p) == CHOOSE v \in DOMAIN p.variants : v # p.baseline

\* compare_experiment() accepts the result,
Comparable(r) == r.plan.cases # << >> /\ Complete(r)

\* and pairs the baseline's and the candidate's result of every case.
Comparison(r) ==
  [i \in DOMAIN r.plan.cases |->
     <<r.results[r.plan.baseline][i], r.results[Candidate(r.plan)][i]>>]
=============================================================================
