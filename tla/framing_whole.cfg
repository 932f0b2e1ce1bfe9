SPECIFICATION FairSpec
CONSTANTS
  empty = empty
  short = short
  long = long
  big = big
  w1 = w1
  w2 = w2
  Frames <- FourFrames
  Size <- Sizes
  HdrLen = 2
  WriteMax = 2
  Writers = {w1, w2}
  Script <- TwoWriters
  Buffer = 2
  Habits <- AllHabits
INVARIANTS TypeOK InSync
PROPERTIES ChannelSpec EveryoneReturns AllDelivered
