------------------------ MODULE MCManifestDiscovery ------------------------
(* Two peers that have a tool of the same name; one may get or lose a tool that *)
(* the local server has too.                                                   *)
EXTENDS ManifestDiscovery

CONSTANTS a, b, t, u

TwoPeers == {a, b}
OneNeighbour == {a}
TwoTools == {t, u}
OneLocal == {u}
OwnSuffix == [p \in TwoPeers |-> p]
TheirOfferings == (a :> {{t}, {t, u}}) @@ (b :> {{t}})
=============================================================================
