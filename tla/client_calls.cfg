SPECIFICATION Spec
CONSTANTS
  get = get
  put = put
  dial = dial
  bare = bare
  r = r
  json = json
  mine = mine
  rev = rev
  rev2 = rev2
  mute = mute
  g1 = g1
  g2 = g2
  g3 = g3
  g4 = g4
  g5 = g5
  Codecs = {json, mine, rev, rev2, mute}
  Spellings <- AllSpellings
  Normal <- Normalised
  Blank = ""
  Name <- CodecNames
  Builtins = {json}
  Registrars = {g1, g2, g3, g4, g5}
  Registers <- Offers
  Calls <- Four
  NoFramer = {bare}
  Operation <- Ops
  Asked <- Asks
  Requests = {r}
  Request <- Shared
  Hooks = 2
  Panicking = {1}
  MaxAttempts = 2
SYMMETRY Alike
INVARIANTS TypeOK WatchesOwnContext HooksAgree NoStrayConnection FirstWins CodecIsRegistered
