---------------------------- MODULE MCRemoteCall ----------------------------
(* Small instances of RemoteCall. *)
EXTENDS RemoteCall

CONSTANTS p1, p2, t1, c1, c2, r1, nobody
MCPeers == {p1, p2}
MCTools == {t1}
MCCalls == {c1, c2}
MCRoutes == {r1}
MCAuthPeers == {p1}
MCSilent == {p2}
MCOffers == [p \in MCPeers |-> MCTools]
=============================================================================
