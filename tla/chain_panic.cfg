SPECIFICATION Spec
CONSTANTS
  a = a
  b = b
  guard = guard
  off = off
  limit = limit
  limit2 = limit2
  retry = retry
  user = user
  Calls <- AB
  Policies <- AllPolicies
  Kind <- KindOfPolicy
  Limit <- OneSlot
  MaxChain = 4
  Chain <- UserFirstChain
  MaxAttempts <- TwoAttempts
  CallerCtx <- OneCancels
  FnOutcomes = {"ok"}
  BeforeOutcomes = {"ok", "panic"}
  AfterOutcomes = {"ok"}
  UserRetryCap = 0
  PanicsOnNilCtx = {}
INVARIANT FnKeepsCallerContext
