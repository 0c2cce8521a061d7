--------------------------- MODULE SlidingWindow ---------------------------
(***************************************************************************)
(* What a sliding-window limit promises: a call is admitted only if fewer   *)
(* than Max were admitted in the last Width units of time. Refusals change  *)
(* nothing. A limit may be lifted by hand.                                  *)
(***************************************************************************)
EXTENDS Integers, Sequences

CONSTANTS Max, Width

VARIABLES now, admitted

vars == <<now, admitted>>

\* All but fewer than Max were admitted Width ago or before.
HasRoom ==
  \E k \in 0..Len(admitted) :
    /\ Len(admitted) - k < Max
    /\ \A i \in 1..k : now - admitted[i] >= Width

Init == now = 0 /\ admitted = <<>>

Admit ==
  /\ HasRoom
  /\ admitted' = Append(admitted, now)
  /\ UNCHANGED now

Lift == admitted' = <<>> /\ UNCHANGED now

Tick == now' = now + 1 /\ UNCHANGED admitted

Next == Admit \/ Lift \/ Tick

Spec == Init /\ [][Next]_vars
=============================================================================
