SPECIFICATION FairSpec
CONSTANTS
  a = a
  b = b
  t = t
  u = u
  Peers <- TwoPeers
  Neighbours <- OneNeighbour
  Tools <- TwoTools
  LocalTools <- OneLocal
  Suffix <- OwnSuffix
  Offerings <- TheirOfferings
  Expected = 1
  MaxChanges = 1
INVARIANTS
  NameKeepsMeaning
  Told
PROPERTIES
  ManifestArrives
