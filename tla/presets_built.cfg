SPECIFICATION Spec
CONSTANTS
  Given <- SomeGiven
  Options <- SomeOptions
  MaxOptions = 3
INVARIANTS TypeOK GuardBeforeLimits RefusesNothingMore RetriesAsked
