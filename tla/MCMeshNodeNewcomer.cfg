CONSTANTS
  p1 = p1
  p2 = p2
  t1 = t1
  Manifest = m
  Tools <- MCTools
  Peers <- MCPeers
  Boots = 0
  MaxDials = 1
  MaxConnects = 2
  MaxStarts = 1
  Faults <- NoFaults
SPECIFICATION Spec
INVARIANTS ReachesTheNewPeer
CHECK_DEADLOCK FALSE
