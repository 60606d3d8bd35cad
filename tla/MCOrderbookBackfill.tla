------------------------- MODULE MCOrderbookBackfill -------------------------
(* OrderbookBackfill on small instances. *)
EXTENDS OrderbookBackfill

CONSTANT o1

(* Orders of one owner. *)
TwoOrders == [u \in 1 .. 2 |-> o1]

OneOrder == [u \in 1 .. 1 |-> o1]

=============================================================================
