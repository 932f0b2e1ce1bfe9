SPECIFICATION Spec
CONSTANTS
  Width = 6
  DefaultAttempts = 3
  DefaultBase = 2
  DefaultCap = 10
  Ratio = 4
  PolicyConfigs <- SomeConfigs
  HTTPConfigs <- SomeHTTPConfigs
INVARIANTS PolicyTypeOK WaitInRange WithinConfigured
PROPERTY NeverShorter
CHECK_DEADLOCK FALSE
