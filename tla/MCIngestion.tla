---------------------------- MODULE MCIngestion ----------------------------
(* Ingestion of one settlement: an order that the scanner saw, another of  *)
(* the same owner that only the listing of the owner names.                *)
EXTENDS Ingestion

OneOwner == [o \in Orders |-> "w"]
OneAppData == [o \in Orders |-> IF o = "o2" THEN {"a"} ELSE {}]
OneSettlement == [t \in Txs |-> {"o1"}]
OneAuction == [t \in Txs |-> "u"]
OneAuctionOrders == [u \in Auctions |-> {"o1"}]
Lives == [o \in Orders |-> IF o = "o1" THEN <<"fulfilled">>
                                       ELSE <<"presignaturePending", "expired">>]
From(found, served, count) ==
  [seeds |-> found, public |-> served, captures |-> count]

Discoveries ==
  { From({<<"tx_hash", "t">>}, {}, 0),
    From({<<"tx_competition", "t">>}, {}, 0),
    From({<<"tx_competition", "t">>}, {"t"}, 0),
    From({<<"owner", "w">>, <<"order_uid", "misnamed">>}, {}, 0),
    From({}, {}, 1) }
=============================================================================
