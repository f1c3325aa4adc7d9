-------------------------- MODULE MCTradingOrders --------------------------
(* Small books for TLC.  Users and orders are strings; every id names its  *)
(* side, owner and zone below.                                             *)
EXTENDS TradingOrders

(* Two buys of ann's, one sell each of bob's and cid's; bob is next door   *)
(* to ann, cid has no zone.                                                *)
MCUsers == {"ann", "bob", "cid"}
MCBuys == {"b1", "b2"}
MCSells == {"s1", "s2"}
MCOwner == [o \in Orders |->
              CASE o \in {"b1", "b2"} -> "ann" [] o = "s1" -> "bob" [] o = "s2" -> "cid"]
MCZone == [o \in Orders |->
              CASE o \in {"b1", "b2"} -> <<1>> [] o = "s1" -> <<2>> [] o = "s2" -> NoZone]
MCFunds == [u \in MCUsers |-> IF u = "ann" THEN 3300 ELSE 0]

(* Not enough for the larger of b1's offers: only a refund makes it pass. *)
TightFunds == [u \in MCUsers |-> IF u = "ann" THEN 2600 ELSE 0]

(* Every pair of them can meet; 3 against 4 leaves dust, 2 leaves more. *)
MCOffers == [o \in Orders |->
              CASE o = "b1" -> {<<4, 500>>, <<5, 600>>}
                [] o = "b2" -> {<<3, 500>>}
                [] o = "s1" -> {<<3, 200>>, <<2, 400>>}
                [] o = "s2" -> {<<2, 200>>}]

(* cid undercuts bob by one satang once carried to ann's zone. *)
UndercutOffers == [MCOffers EXCEPT !["s2"] = {<<2, 100>>}]

(* One buy against two sells. *)
OneBuy == {"b1"}
OneSell == {"s1"}
=============================================================================
