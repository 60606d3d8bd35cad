SPECIFICATION Spec
CONSTANTS
  Orders = {"o1", "o2"}
  Owners = {"w"}
  AppData = {"a"}
  Txs = {"t"}
  Auctions = {"u"}
  OwnerOf <- OneOwner
  AppDataOf <- OneAppData
  SettledIn <- OneSettlement
  AuctionOf <- OneAuction
  AuctionOrders <- OneAuctionOrders
  Life <- Lives
  Scenarios <- Discoveries
  Misnamed = {"misnamed"}
  BatchLimit = 2
  Concurrency = 1
  MaxAttempts = 2
  MaxFaults = 1
INVARIANTS TypeOK DoneLeavesNoHole
PROPERTIES QueueDrains StatusConverges
CHECK_DEADLOCK FALSE
