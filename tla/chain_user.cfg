SPECIFICATION Spec
CONSTANTS
  a = a
  b = b
  guard = guard
  off = off
  limit = limit
  limit2 = limit2
  retry = retry
  user = user
  Calls <- AB
  Policies <- AllPolicies
  Kind <- KindOfPolicy
  Limit <- OneSlot
  MaxChain = 4
  Chain <- UserChain
  MaxAttempts <- TwoAttempts
  CallerCtx <- Deadlines
  FnOutcomes = {"ok", "transient"}
  BeforeOutcomes = {"ok", "err", "panic"}
  AfterOutcomes = {"ok", "err"}
  UserRetryCap = 2
  PanicsOnNilCtx = {b}
INVARIANTS TypeOK SlotConservation DroppedOnlyIfVetoed
