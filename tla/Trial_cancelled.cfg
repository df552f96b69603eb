SPECIFICATION Spec
CONSTANTS
  free = free
  asked = asked
  sworn = sworn
  tokens = tokens
  cost = cost
  Unknown = Unknown
  Resources = {tokens, cost}
  Specs <- MCSpecs
  Policy <- MCPolicy
  MaxCalls = 2
  MaxUsage <- MCMaxUsage
  ToolUsages <- MCUsages
  MaxActions = 3
INVARIANT EveryTrialIsReplayable
