---------------------------- MODULE MCLossLedger ----------------------------
(* Up to two opening vintages, the younger given first; seven tax years.  *)
EXTENDS LossLedger

Loss(origin, amount) == [origin |-> origin, amount |-> amount]

SomeOpenings == {<<>>, <<Loss(0, 2)>>, <<Loss(0, 1), Loss(-1, 1)>>}
SomeYears == 0..3
SomeIncomes == {-2, -1, 0, 1, 2}
=============================================================================
