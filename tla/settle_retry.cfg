SPECIFICATION Spec
CONSTANTS
    Users <- MCUsers
    Settlements <- MCSettlements
    Orders <- MCOrders
    Trade <- MCTrade
    Locked <- MCLocked
    FeePercent = 1
    Jobs = {"loop", "retry"}
    Concurrency = 2
    MaxRetries = 2
    MaxFaults = 2
INVARIANTS
    TypeOK
    FinalizedAtMostOnce
    
    TransfersCharged
    SettlementConservesMoney
CHECK_DEADLOCK FALSE
