\* Two cancel requests for one order.
CONSTANTS
    Users <- MCUsers
    Buys <- OneBuy
    Sells <- OneSell
    Owner <- MCOwner
    Zone <- MCZone
    Unbacked = {}
    Offers <- MCOffers
    Funds <- MCFunds
    Requests = {"r1", "r2"}
    Updates = {}
    Cycles = {"loop"}
    Loop = "loop"
    Sweeping = FALSE
    AmmAnswers = {"error"}
    MaxFaults = 0
CHECK_DEADLOCK FALSE
SPECIFICATION Spec
INVARIANTS RefundWithinEscrow
