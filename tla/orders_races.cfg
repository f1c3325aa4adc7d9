\* A cancel, an update, the sweep and the loop; one statement or process may fail.
CONSTANTS
    Users <- MCUsers
    Buys <- MCBuys
    Sells <- OneSell
    Owner <- MCOwner
    Zone <- MCZone
    Unbacked = {"b2", "s1"}
    Offers <- MCOffers
    Funds <- TightFunds
    Requests = {"r1"}
    Updates = {"u1"}
    Cycles = {"loop"}
    Loop = "loop"
    Sweeping = TRUE
    AmmAnswers = {"error"}
    MaxFaults = 1
CHECK_DEADLOCK FALSE
SPECIFICATION Spec
INVARIANTS WealthConserved BalanceNonNegative
