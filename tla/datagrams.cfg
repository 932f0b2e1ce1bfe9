SPECIFICATION DatagramFairSpec
CONSTANTS
  r1 = r1
  r2 = r2
  w = w
  p = p
  q = q
  small = small
  large = large
  junk = junk
  Callers <- Three
  Direction <- TwoReaders
  Timeout <- WritesFaster
  Peers = {p, q}
  Payloads = {small, large, junk}
  Length <- Lengths
  Decodable = {small, large}
  Incoming <- FromBoth
  InboxCap = 2
INVARIANTS DatagramTypeOK BlocksAtMostTimeout
PROPERTIES NoEarlyTimeout CallsReturn DatagramSpec
