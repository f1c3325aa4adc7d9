\* One matching loop and one user who cancels; no statement fails.
CONSTANTS
    Users <- MCUsers
    Buys <- OneBuy
    Sells <- MCSells
    Owner <- MCOwner
    Zone <- MCZone
    Unbacked = {}
    Offers <- MCOffers
    Funds <- MCFunds
    Requests = {"r1"}
    Updates = {}
    Cycles = {"loop"}
    Loop = "loop"
    Sweeping = TRUE
    AmmAnswers = {"supplied", "nothing", "error"}
    MaxFaults = 0
SPECIFICATION Spec
INVARIANTS TypeOK  
 
CHECK_DEADLOCK FALSE
