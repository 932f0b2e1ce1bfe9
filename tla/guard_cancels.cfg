SPECIFICATION Spec
CONSTANTS
  Depth = 2
  Timeout <- LooseInside
  CallerDeadlines = {}
  MaxTime = 2
INVARIANT OwnCancelOnly
