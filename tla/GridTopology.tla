---------------------------- MODULE GridTopology ----------------------------
(***************************************************************************)
(* The transmission costs of GridTopologyService: what it costs to carry   *)
(* one kWh from the seller's zone to the buyer's.  Money is in satang      *)
(* (1/100 THB), losses are in percent.  A zone is <<id>>, or NoZone when   *)
(* the order carries none.                                                 *)
(***************************************************************************)
EXTENDS Integers

NoZone == <<>>

Distance(from, to) ==
    LET d == from[1] - to[1] IN IF d < 0 THEN -d ELSE d

(* calculate_wheeling_charge only ever uses the built-in tariff: the rates *)
(* that load_rates caches are read by the _async variants alone, which the *)
(* matching engine does not call.                                          *)
calculate_wheeling_charge(from, to) ==
    IF NoZone \in {from, to} THEN 200
    ELSE CASE Distance(from, to) = 0 -> 50
           [] Distance(from, to) = 1 -> 100
           [] OTHER -> 150 + 10 * Distance(from, to)

calculate_loss_factor(from, to) ==
    IF NoZone \in {from, to} THEN 5
    ELSE CASE Distance(from, to) = 0 -> 1
           [] Distance(from, to) = 1 -> 3
           [] 3 + Distance(from, to) > 15 -> 15
           [] OTHER -> 3 + Distance(from, to)

(* Prices are whole baht (multiples of 100 satang), so the division that   *)
(* stands for the decimal product is exact.                                *)
LossCostUnit(price, from, to) == (price * calculate_loss_factor(from, to)) \div 100

LandedPrice(price, from, to) ==
    price + calculate_wheeling_charge(from, to) + LossCostUnit(price, from, to)
=============================================================================
