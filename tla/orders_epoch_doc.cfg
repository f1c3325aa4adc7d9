\* Orders without epoch, from the schedulers, stop the cycle.
CONSTANTS
    Users <- MCUsers
    Buys <- MCBuys
    Sells <- MCSells
    Owner <- MCOwner
    Zone <- MCZone
    Unbacked = {"b1", "s2"}
    Offers <- UndercutOffers
    Funds <- MCFunds
    Requests = {}
    Updates = {}
    Cycles = {"loop"}
    Loop = "loop"
    Sweeping = FALSE
    AmmAnswers = {"error"}
    MaxFaults = 0
CHECK_DEADLOCK FALSE
SPECIFICATION FairSpec
PROPERTIES EachBuyIsTried
