SPECIFICATION Spec
CONSTANTS
  empty = empty
  short = short
  long = long
  big = big
  w1 = w1
  w2 = w2
  Frames <- FourFrames
  Size <- Sizes
  HdrLen = 2
  WriteMax = 2
  Writers = {w1}
  Script <- OneWriter
  Buffer = 2
  Habits <- PatientReader
INVARIANT PayloadsIntact
