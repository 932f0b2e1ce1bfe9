SPECIFICATION Spec
CONSTANTS
  Depth = 3
  Timeout <- MixedDepths
  CallerDeadlines = {5}
  MaxTime = 6
INVARIANTS TypeOK Guarded EndsWithParent CancelledOnReturn
