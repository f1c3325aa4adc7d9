SPECIFICATION FairSpec
CONSTANTS
    Users <- MCUsers
    Settlements <- MCSettlements
    Orders <- MCOrders
    Trade <- MCTrade
    Locked <- MCLocked
    FeePercent = 1
    Jobs = {"loop"}
    Concurrency = 1
    MaxRetries = 2
    MaxFaults = 1
PROPERTY
    CompletedGetsFinalized
CHECK_DEADLOCK FALSE
