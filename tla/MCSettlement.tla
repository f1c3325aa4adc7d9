---------------------------- MODULE MCSettlement ----------------------------
(* Two trades: one between neighbouring zones, one from an unknown zone.   *)
EXTENDS Settlement

MCUsers == {"ann", "bob", "cid"}
MCSettlements == {"t1", "t2"}
MCOrders == {"b1", "b2", "s1", "s2"}
MCTrade == [s \in MCSettlements |->
    IF s = "t1"
    THEN [buyer |-> "ann", seller |-> "bob", orders |-> {"b1", "s1"},
          energy |-> 2, price |-> 400, from |-> <<2>>, to |-> <<1>>]
    ELSE [buyer |-> "bob", seller |-> "cid", orders |-> {"b2", "s2"},
          energy |-> 3, price |-> 200, from |-> NoZone, to |-> <<1>>]]

(* Each buyer locked a little more than the trade costs. *)
MCLocked == [u \in MCUsers |-> CASE u = "ann" -> 1000 [] u = "bob" -> 700 [] u = "cid" -> 0]
=============================================================================
