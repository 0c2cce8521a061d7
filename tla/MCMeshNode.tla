---------------------------- MODULE MCMeshNode ----------------------------
(* Small instances of MeshNode: one tool, two peers. *)
EXTENDS MeshNode, TLC

CONSTANTS p1, p2, t1
MCPeers == {p1, p2}
MCTools == {t1}
AllFaults == {"provide", "read", "write"}
NoFaults == {}

\* The peers are alike.
Perms == Permutations(MCPeers)
=============================================================================
