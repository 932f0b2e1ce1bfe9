SPECIFICATION Spec
CONSTANTS
  LibraryErrors <- AllLibraryErrors
  JoinedErrors <- SomeJoinedErrors
  MaxNodes = 6
INVARIANTS TypeOK CauseKept
PROPERTIES MeaningSticks CancelIsFinal
CHECK_DEADLOCK FALSE
