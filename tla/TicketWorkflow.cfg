CONSTANTS
  Profiles <- MCProfiles
  HumanTiers <- MCHumanTiers
  FactSets <- MCFactSets
  PolicyOrders <- MCPolicyOrders
SPECIFICATION Spec
INVARIANTS
  ReviewedUnlessResumed
  DeployedOnlyMergedOrAnswered
PROPERTIES
  TerminalIsFinal
  ImplementsLifecycle
