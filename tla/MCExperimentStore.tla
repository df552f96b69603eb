-------------------------- MODULE MCExperimentStore --------------------------
(***************************************************************************)
(* Instances of ExperimentStore for TLC: two trials, once as baseline and  *)
(* candidate for one case, and once in one variant with nothing to compare.*)
(***************************************************************************)
EXTENDS ExperimentStore, TLC

CONSTANTS t1, t2

Trial(t) == [trial |-> t, agent |-> t, task |-> "task"]

MCPlans ==
  {[baseline |-> 1, cases |-> <<"case">>,
    variants |-> <<<<Trial(t1)>>, <<Trial(t2)>>>>],
   [baseline |-> NoBaseline, cases |-> << >>,
    variants |-> <<<<Trial(t1), Trial(t2)>>>>]}

Symmetry == Permutations(Runners)
=============================================================================
