---------------------------- MODULE MCHeapTimer -----------------------------
(* HeapTimer with four timers, one of them cyclic, of two periods.         *)
EXTENDS HeapTimer

FourIds    == 1..4
OnlyFirst  == {1}
OneAndTwo  == [id \in 1..4 |-> IF id \in {1, 2} THEN 1 ELSE 2]
=============================================================================
