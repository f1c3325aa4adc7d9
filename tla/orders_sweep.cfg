\* Nobody cancels: the loop alone sweeps and matches.
CONSTANTS
    Users <- MCUsers
    Buys <- MCBuys
    Sells <- MCSells
    Owner <- MCOwner
    Zone <- MCZone
    Unbacked = {}
    Offers <- UndercutOffers
    Funds <- MCFunds
    Requests = {}
    Updates = {}
    Cycles = {"loop"}
    Loop = "loop"
    Sweeping = TRUE
    AmmAnswers = {"supplied", "nothing", "error"}
    MaxFaults = 0
CHECK_DEADLOCK FALSE
SPECIFICATION FairSpec
INVARIANT EscrowFollowsStatus
PROPERTY CrossingEventuallyTrades
