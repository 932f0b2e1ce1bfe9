SPECIFICATION FairSpec
CONSTANTS
  a = a
  b = b
  guard = guard
  off = off
  limit = limit
  limit2 = limit2
  retry = retry
  user = user
  Calls <- AB
  Policies <- AllPolicies
  Kind <- KindOfPolicy
  Limit <- OneSlot
  MaxChain = 5
  Chain <- CrossedChain
  MaxAttempts <- TwoAttempts
  CallerCtx <- OneDeadline
  FnOutcomes = {"ok", "transient", "fatal"}
  BeforeOutcomes = {"ok"}
  AfterOutcomes = {"ok"}
  UserRetryCap = 0
  PanicsOnNilCtx = {}
INVARIANTS NothingHeldAtRest RetriesEnd WaitsAreTimed
PROPERTIES BulkheadSpec Terminates
