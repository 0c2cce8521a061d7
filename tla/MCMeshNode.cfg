CONSTANTS
  p1 = p1
  p2 = p2
  t1 = t1
  Manifest = m
  Tools <- MCTools
  Peers <- MCPeers
  Boots = 1
  MaxDials = 2
  MaxConnects = 3
  MaxStarts = 2
  Faults <- AllFaults
SPECIFICATION Spec
INVARIANTS PeersAreTold JoinedAnnouncesAll
PROPERTIES AdvertisedIsServed IdentityKept
SYMMETRY Perms
CHECK_DEADLOCK FALSE
