CONSTANTS
  p1 = p1
  p2 = p2
  t1 = t1
  c1 = c1
  c2 = c2
  r1 = r1
  Routes <- MCRoutes
  AuthPeers <- MCAuthPeers
  Silent <- MCSilent
  nobody = nobody
  Peers <- MCPeers
  Tools <- MCTools
  Calls <- MCCalls
  Offers <- MCOffers
  Local <- nobody
  StaticPeer <- p1
  MaxPort = 2
  MaxAttempts = 2
  MaxBegins = 2
SPECIFICATION Spec
INVARIANTS FaultedIsEvicted
PROPERTIES CallsSettle
CHECK_DEADLOCK FALSE
