---------------------------- MODULE BudgetLedger ----------------------------
(***************************************************************************)
(* What the persistent query budget of LiopServer promises, whatever the   *)
(* number of server processes that share the store: one ledger per          *)
(* (client, tool, field), charged atomically for all the fields of a query  *)
(* and never beyond the limit of a field, forgiven only by a reset.         *)
(* QueryBudget.tla shows that the lock-file protocol implements it.          *)
(***************************************************************************)
EXTENDS Integers

CONSTANTS
  Cells,      \* the (client, tool, field) triples the ledger counts
  Queries,    \* the sets of cells one query may charge
  Resets,     \* the sets of cells one reset may forgive
  Limit       \* Limit[k]: how many queries cell k admits

VARIABLE ledger

Init == ledger = [k \in Cells |-> 0]

\* A query is charged on all its cells or on none.
Charge(K) ==
  /\ \A k \in K : ledger[k] < Limit[k]
  /\ ledger' = [k \in Cells |-> IF k \in K THEN ledger[k] + 1 ELSE ledger[k]]

Forgive(K) ==
  ledger' = [k \in Cells |-> IF k \in K THEN 0 ELSE ledger[k]]

Next ==
  \/ \E K \in Queries : Charge(K)
  \/ \E K \in Resets : Forgive(K)

Spec == Init /\ [][Next]_ledger

=============================================================================
