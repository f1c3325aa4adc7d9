SPECIFICATION FairSpec
CONSTANTS
    Users <- MCUsers
    Settlements <- MCSettlements
    Orders <- MCOrders
    Trade <- MCTrade
    Locked <- MCLocked
    FeePercent = 1
    Jobs = {"loop"}
    Concurrency = 2
    MaxRetries = 2
    MaxFaults = 3
INVARIANTS
    TransferredAtMostOnce
    ProcessingIsOwned
PROPERTIES
    EverySettlementEnds
    FinalizedUnlessFault
CHECK_DEADLOCK FALSE
