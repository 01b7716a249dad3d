CONSTANTS
  light = light
  medium = medium
  strong = strong
  codex = codex
  other = other
  week = week
  day = day
  NoStep = NoStep
  Steps = {light, medium, strong}
  Providers = {codex, other}
  AdapterProvider = codex
  Pools = {week, day}
  Contexts <- MCContexts
  Policies <- MCPolicies
SPECIFICATION FairSpec
INVARIANTS
  ApprovedAsShown
  RevalidatedAttempts
  BoundedForwardWalk
  ContinuesOnlyAsConfigured
  ResultTellsWhatHappened
  NoInternalRefusal
PROPERTIES
  KeepsPromise
  ComesToRest
