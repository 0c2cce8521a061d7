--------------------------- MODULE MCQueryBudget ---------------------------
(* Small instances of QueryBudget: two processes, or one that restarts, one  *)
(* client and a tool on the store of the configuration.                     *)
EXTENDS QueryBudget, TLC

CONSTANTS p1, p2, c1, t1, f1, f2, s1

MCProcs == {p1, p2}
MCOneProc == {p1}
MCClients == {c1}
MCTools == {t1}
MCFields == {f1}
MCFields2 == {f1, f2}
MCStores == {s1}
MCStoreOf == t1 :> s1
MCLimit1 == [k \in Cells |-> 1]
AllButRead == {"crash", "lockIO", "saveIO", "unlinkIO"}
OnlyCrash == {"crash"}

\* The processes are alike, and so are two fields with one limit.
Perms == Permutations(MCProcs) \cup Permutations(MCFields2)
=============================================================================
