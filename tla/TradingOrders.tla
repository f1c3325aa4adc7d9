--------------------------- MODULE TradingOrders ---------------------------
(***************************************************************************)
(* Orders, the escrow behind them, and everything that writes them: the    *)
(* order handlers of the API, the expiry sweep and the matching cycle of   *)
(* OrderMatchingEngine.                                                    *)
(*                                                                         *)
(* Every SQL statement outside a transaction is one step, and so is every  *)
(* transaction; between two of them any other process may run.  What a     *)
(* handler or a cycle remembers from an earlier SELECT is its local state. *)
(*                                                                         *)
(* Units: energy in 0.05 kWh, prices in satang per kWh, money in their     *)
(* product.                                                                *)
(***************************************************************************)
EXTENDS GridTopology, FiniteSets, FiniteSetsExt

CONSTANTS
    Users,
    Buys, Sells,    \* the order ids of each side
    Owner,          \* [order -> user], trading_orders.user_id
    Zone,           \* [order -> zone], trading_orders.zone_id
    Unbacked,       \* orders the schedulers insert: no escrow, no epoch
    Offers,         \* [order -> the (energy, price) pairs its owner may ask for]
    Funds,          \* [user -> balance at the start]
    Requests,       \* the API requests that cancel an order, each served once
    Updates,        \* the API requests that update an order, each served once
    Cycles,         \* the matching loop and the cycles the admin endpoint runs
    Loop,           \* the one of them that is run_matching_loop
    Sweeping,       \* TRUE when orders carry expiry times that can pass
    AmmAnswers,     \* what attempt_amm_match may answer
    MaxFaults       \* bound: failed statements and restarts in one behaviour

Orders == Buys \cup Sells

ASSUME SidesAssumption == Buys \cap Sells = {} /\ IsFiniteSet(Buys) /\ IsFiniteSet(Sells)
ASSUME OwnerAssumption == Owner \in [Orders -> Users]
ASSUME FundsAssumption == Funds \in [Users -> Nat]
ASSUME OffersAssumption == Offers \in [Orders -> SUBSET ((Nat \ {0}) \X Nat)]
ASSUME MaxFaultsAssumption == MaxFaults \in Nat
ASSUME RequestsAssumption == Requests \cap Updates = {}

VARIABLES
    order,          \* trading_orders: [order -> row]
    balance,        \* users.balance
    locked_amount,  \* users.locked_amount
    locked_energy,  \* users.locked_energy
    escrow,         \* sum of an order's escrow_records in status 'locked'
    held,           \* what has been locked minus what has been unlocked for an order
    traded,         \* order_matches: energy matched, per buy and sell
    swapped,        \* energy the AMM pool has supplied, per buy
    req,            \* per request: where it stands and what it remembers
    eng,            \* per cycle: where it stands and what it remembers
    faults          \* failed statements and restarts so far

ledger == <<balance, locked_amount, locked_energy, escrow, held>>
vars == <<order, ledger, traded, swapped, req, eng, faults>>

NoOrder == "none"
NoRow == [status |-> "absent", energy |-> 0, price |-> 0, filled |-> 0, epoch |-> FALSE, created |-> 0]
NoRows == [o \in {} |-> NoRow]

Open == {"pending", "active", "partially_filled"}

Remaining(row) == row.energy - row.filled

MIN_TRADE_AMOUNT == 2

Resting == [pc |-> "idle", stale |-> NoRows, buys |-> NoRows, sells |-> NoRows,
            cur |-> NoOrder, sell |-> NoOrder, cand |-> {}, filled |-> 0]
Waiting == [pc |-> "idle", order |-> NoOrder, row |-> NoRow, energy |-> 0, price |-> 0]
Answered == [Waiting EXCEPT !.pc = "done"]

Init ==
    /\ order = [o \in Orders |-> NoRow]
    /\ balance = Funds
    /\ locked_amount = [u \in Users |-> 0]
    /\ locked_energy = [u \in Users |-> 0]
    /\ escrow = [o \in Orders |-> 0]
    /\ held = [o \in Orders |-> 0]
    /\ traded = [b \in Buys |-> [s \in Sells |-> 0]]
    /\ swapped = [b \in Buys |-> 0]
    /\ req = [r \in Requests \cup Updates |-> Waiting]
    /\ eng = [c \in Cycles |-> Resting]
    /\ faults = 0

(* A statement that fails or a process that stops, at most MaxFaults times. *)
Fault ==
    /\ faults < MaxFaults
    /\ faults' = faults + 1

-----------------------------------------------------------------------------
(* Escrow: the transactions of MarketClearingService.                      *)

(* A mutant: the balance is not checked. *)
lock_funds_unchecked(o, amount) ==
    LET u == Owner[o] IN
    /\ balance' = [balance EXCEPT ![u] = @ - amount]
    /\ locked_amount' = [locked_amount EXCEPT ![u] = @ + amount]
    /\ escrow' = [escrow EXCEPT ![o] = @ + amount]
    /\ held' = [held EXCEPT ![o] = @ + amount]
    /\ UNCHANGED locked_energy

lock_funds(o, amount) ==
    LET u == Owner[o] IN
    /\ balance[u] >= amount
    /\ balance' = [balance EXCEPT ![u] = @ - amount]
    /\ locked_amount' = [locked_amount EXCEPT ![u] = @ + amount]
    /\ escrow' = [escrow EXCEPT ![o] = @ + amount]
    /\ held' = [held EXCEPT ![o] = @ + amount]
    /\ UNCHANGED locked_energy

lock_energy(o, amount) ==
    LET u == Owner[o] IN
    /\ locked_energy' = [locked_energy EXCEPT ![u] = @ + amount]
    /\ escrow' = [escrow EXCEPT ![o] = @ + amount]
    /\ held' = [held EXCEPT ![o] = @ + amount]
    /\ UNCHANGED <<balance, locked_amount>>

(* A mutant: the refund is credited and the lock is kept. *)
unlock_funds_keeps_lock(o, amount) ==
    /\ balance' = [balance EXCEPT ![Owner[o]] = @ + amount]
    /\ escrow' = [escrow EXCEPT ![o] = 0]
    /\ held' = [held EXCEPT ![o] = @ - amount]
    /\ UNCHANGED <<locked_amount, locked_energy>>

(* A mutant: the escrow record is reduced by the amount, not released. *)
unlock_energy_subtracts(o, amount) ==
    /\ locked_energy' = [locked_energy EXCEPT ![Owner[o]] = @ - amount]
    /\ escrow' = [escrow EXCEPT ![o] = @ - amount]
    /\ held' = [held EXCEPT ![o] = @ - amount]
    /\ UNCHANGED <<balance, locked_amount>>

(* unlock_* moves the amount back and releases every escrow record of the  *)
(* order, whatever it was for.                                             *)
unlock_funds(o, amount) ==
    LET u == Owner[o] IN
    /\ balance' = [balance EXCEPT ![u] = @ + amount]
    /\ locked_amount' = [locked_amount EXCEPT ![u] = @ - amount]
    /\ escrow' = [escrow EXCEPT ![o] = 0]
    /\ held' = [held EXCEPT ![o] = @ - amount]
    /\ UNCHANGED locked_energy

unlock_energy(o, amount) ==
    LET u == Owner[o] IN
    /\ locked_energy' = [locked_energy EXCEPT ![u] = @ - amount]
    /\ escrow' = [escrow EXCEPT ![o] = 0]
    /\ held' = [held EXCEPT ![o] = @ - amount]
    /\ UNCHANGED <<balance, locked_amount>>

(* A mutant: the filled part is refunded too. *)
RefundAll(o, row) ==
    IF o \in Buys THEN unlock_funds(o, row.energy * row.price) ELSE unlock_energy(o, row.energy)

(* What a closed order gets back: the remaining energy, or its price. *)
Refund(o, row) ==
    IF o \in Buys THEN unlock_funds(o, Remaining(row) * row.price)
                  ELSE unlock_energy(o, Remaining(row))

-----------------------------------------------------------------------------
(* The order handlers.                                                     *)

Stamp == 1 + Cardinality({o \in Orders : order[o].status # "absent"})

NewRow(e, p, epoch) ==
    [status |-> "pending", energy |-> e, price |-> p, filled |-> 0, epoch |-> epoch, created |-> Stamp]

(* One transaction: the row, the balance check under FOR UPDATE, the lock  *)
(* and the escrow record.  A buyer who cannot pay leaves no trace.  What   *)
(* follows the commit (broadcast, audit, on-chain order) may fail and is   *)
(* reported to the caller, but undoes nothing.                             *)
create_order(o, e, p) ==
    /\ order[o].status = "absent"
    /\ o \notin Unbacked
    /\ order' = [order EXCEPT ![o] = NewRow(e, p, TRUE)]
    /\ IF o \in Buys THEN lock_funds(o, e * p) ELSE lock_energy(o, e)
    /\ UNCHANGED <<traded, swapped, req, eng, faults>>

(* The recurring scheduler and the price monitor insert their orders       *)
(* directly: pending, without escrow and without epoch.                    *)
InsertUnbacked(o, e, p) ==
    /\ order[o].status = "absent"
    /\ o \in Unbacked
    /\ order' = [order EXCEPT ![o] = NewRow(e, p, FALSE)]
    /\ UNCHANGED <<ledger, traded, swapped, req, eng, faults>>

Answer(r) == req' = [req EXCEPT ![r] = Answered]

(* cancel_order, first statement: only a pending order passes. *)
CancelRead(r, o) ==
    /\ req[r].pc = "idle"
    /\ order[o].status = "pending"
    /\ req' = [req EXCEPT ![r] = [@ EXCEPT !.pc = "cancel", !.order = o, !.row = order[o]]]
    /\ UNCHANGED <<order, ledger, traded, swapped, eng, faults>>

(* Second statement: UPDATE ... RETURNING *, with no condition on status.  *)
CancelWrite(r) ==
    LET o == req[r].order IN
    /\ req[r].pc = "cancel"
    /\ order' = [order EXCEPT ![o].status = "cancelled"]
    /\ IF Remaining(order[o]) > 0
       THEN req' = [req EXCEPT ![r] = [@ EXCEPT !.pc = "unlock", !.row = order[o]]]
       ELSE Answer(r)
    /\ UNCHANGED <<ledger, traded, swapped, eng, faults>>

(* Third: a transaction of its own; its failure is logged, not undone. *)
CancelUnlock(r) ==
    /\ req[r].pc = "unlock"
    /\ \/ Refund(req[r].order, req[r].row) /\ UNCHANGED faults
       \/ Fault /\ UNCHANGED ledger
    /\ Answer(r)
    /\ UNCHANGED <<order, traded, swapped, eng>>

(* update_order, first statement: only a pending order passes.  The new    *)
(* energy and price come from the request.                                 *)
UpdateRead(r, o, e, p) ==
    /\ req[r].pc = "idle"
    /\ order[o].status = "pending"
    /\ req' = [req EXCEPT ![r] = [pc |-> "adjust", order |-> o, row |-> order[o],
                                  energy |-> e, price |-> p]]
    /\ UNCHANGED <<order, ledger, traded, swapped, eng, faults>>

Stage(r, pc) == req' = [req EXCEPT ![r].pc = pc]

(* The change of escrow, from what the first statement read.  A lock that  *)
(* fails ends the request; an unlock that fails is logged and ignored.     *)
UpdateAdjust(r) ==
    LET o == req[r].order
        q == req[r]
        change == IF o \in Buys THEN q.energy * q.price - q.row.energy * q.row.price
                                ELSE q.energy - q.row.energy
    IN
    /\ q.pc = "adjust"
    /\ \/ /\ change > 0
          /\ IF o \in Buys THEN lock_funds(o, change) ELSE lock_energy(o, change)
          /\ Stage(r, "write")
          /\ UNCHANGED faults
       \/ /\ change > 0
          /\ \/ o \in Buys /\ balance[Owner[o]] < change /\ UNCHANGED faults
             \/ Fault
          /\ Answer(r)
          /\ UNCHANGED ledger
       \/ /\ change < 0
          /\ \/ /\ IF o \in Buys THEN unlock_funds(o, -change) ELSE unlock_energy(o, -change)
                /\ UNCHANGED faults
             \/ Fault /\ UNCHANGED ledger
          /\ Stage(r, "write")
       \/ /\ change = 0
          /\ Stage(r, "write")
          /\ UNCHANGED <<ledger, faults>>
    /\ UNCHANGED <<order, traded, swapped, eng>>

(* Last statement: unconditional UPDATE of energy and price. *)
UpdateWrite(r) ==
    LET o == req[r].order IN
    /\ req[r].pc = "write"
    /\ \/ /\ order' = [order EXCEPT ![o].energy = req[r].energy, ![o].price = req[r].price]
          /\ UNCHANGED faults
       \/ Fault /\ UNCHANGED order
    /\ Answer(r)
    /\ UNCHANGED <<ledger, traded, swapped, eng>>

-----------------------------------------------------------------------------
(* OrderMatchingEngine: run_matching_loop sweeps, then runs a cycle; the   *)
(* admin endpoint runs a cycle beside it.                                  *)

Snapshot(S) == [o \in {x \in S : order[x].status \in Open} |-> order[o]]
Drop(rows, o) == [x \in DOMAIN rows \ {o} |-> rows[x]]

Goto(c, pc) == eng' = [eng EXCEPT ![c].pc = pc]
AfterCycle(c) == IF c = Loop THEN Resting ELSE [Resting EXCEPT !.pc = "done"]
Return(c) == eng' = [eng EXCEPT ![c] = AfterCycle(c)]

(* expire_stale_orders: SELECT the open orders whose time has passed. *)
SweepRead(c) ==
    /\ c = Loop
    /\ eng[c].pc = "idle"
    /\ \E S \in SUBSET {o \in Orders : order[o].status \in Open} :
          /\ Sweeping \/ S = {}
          /\ eng' = [eng EXCEPT ![c] = [Resting EXCEPT !.pc = "sweep", !.stale = Snapshot(S)]]
    /\ UNCHANGED <<order, ledger, traded, swapped, req, faults>>

(* UPDATE status = 'expired', unconditional; an error ends the sweep. *)
SweepExpire(c) ==
    /\ eng[c].pc = "sweep"
    /\ \E o \in DOMAIN eng[c].stale :
          \/ /\ order' = [order EXCEPT ![o].status = "expired"]
             /\ IF Remaining(eng[c].stale[o]) > 0
                THEN eng' = [eng EXCEPT ![c].pc = "refund", ![c].cur = o]
                ELSE eng' = [eng EXCEPT ![c].stale = Drop(@, o)]
             /\ UNCHANGED faults
          \/ /\ Fault
             /\ eng' = [eng EXCEPT ![c].stale = NoRows]
             /\ UNCHANGED order
    /\ UNCHANGED <<ledger, traded, swapped, req>>

(* The refund of an expired order, from the row the SELECT returned. *)
SweepRefund(c) ==
    LET o == eng[c].cur IN
    /\ eng[c].pc = "refund"
    /\ \/ Refund(o, eng[c].stale[o]) /\ UNCHANGED faults
       \/ Fault /\ UNCHANGED ledger
    /\ eng' = [eng EXCEPT ![c].pc = "sweep", ![c].cur = NoOrder, ![c].stale = Drop(@, o)]
    /\ UNCHANGED <<order, traded, swapped, req>>

(* match_orders_cycle, first SELECT.  The loop starts it after the sweep,  *)
(* the admin endpoint at any time.                                         *)
ReadBuys(c) ==
    /\ IF c = Loop THEN eng[c].pc = "sweep" /\ eng[c].stale = NoRows
                   ELSE eng[c].pc = "idle"
    /\ eng' = [eng EXCEPT ![c] = [Resting EXCEPT !.pc = "sells", !.buys = Snapshot(Buys)]]
    /\ UNCHANGED <<order, ledger, traded, swapped, req, faults>>

(* Second SELECT; an empty side ends the cycle. *)
ReadSells(c) ==
    /\ eng[c].pc = "sells"
    /\ IF eng[c].buys = NoRows \/ Snapshot(Sells) = NoRows
       THEN Return(c)
       ELSE eng' = [eng EXCEPT ![c].pc = "next", ![c].sells = Snapshot(Sells)]
    /\ UNCHANGED <<order, ledger, traded, swapped, req, faults>>

Landed(c, b, s) == LandedPrice(eng[c].sells[s].price, Zone[s], Zone[b])

(* Buys are tried oldest first. *)
Oldest(c, b) == \A x \in DOMAIN eng[c].buys : eng[c].buys[b].created <= eng[c].buys[x].created

(* A mutant: a seller with exactly the minimum left is taken for dust. *)
CandidatesAboveMinimum(c, b) ==
    {s \in DOMAIN eng[c].sells :
        /\ Remaining(eng[c].sells[s]) > MIN_TRADE_AMOUNT
        /\ Landed(c, b, s) <= eng[c].buys[b].price}

(* The sellers a buy may be matched with: enough left to trade, and a      *)
(* landed price the buyer is willing to pay.                               *)
Candidates(c, b) ==
    {s \in DOMAIN eng[c].sells :
        /\ Remaining(eng[c].sells[s]) >= MIN_TRADE_AMOUNT
        /\ Landed(c, b, s) <= eng[c].buys[b].price}

(* Cheapest landed price first; ties keep the order of the SELECT. *)
Before(c, b, s, x) ==
    LET p == eng[c].sells[s]
        q == eng[c].sells[x]
    IN \/ Landed(c, b, s) < Landed(c, b, x)
       \/ /\ Landed(c, b, s) = Landed(c, b, x)
          /\ p.price < q.price \/ (p.price = q.price /\ p.created <= q.created)

Best(c, s) == \A x \in eng[c].cand : Before(c, eng[c].cur, s, x)

(* A mutant: the matches of this cycle are not counted. *)
NeededAtStart(c) == Remaining(eng[c].buys[eng[c].cur])

(* What the current buy still needs, by the cycle's own account. *)
Needed(c) == eng[c].buys[eng[c].cur].energy - eng[c].filled

EndCycle(c) ==
    /\ eng[c].pc = "next"
    /\ eng[c].buys = NoRows
    /\ Return(c)
    /\ UNCHANGED <<order, ledger, traded, swapped, req, faults>>

NextBuy(c, b) ==
    /\ eng[c].pc = "next"
    /\ b \in DOMAIN eng[c].buys
    /\ Oldest(c, b)
    /\ Remaining(eng[c].buys[b]) >= MIN_TRADE_AMOUNT
    /\ eng' = [eng EXCEPT ![c].pc = "match", ![c].cur = b, ![c].filled = eng[c].buys[b].filled,
                          ![c].cand = Candidates(c, b)]
    /\ UNCHANGED <<order, ledger, traded, swapped, req, faults>>

(* Dust protection: what is left of the buy is too small to trade.  The    *)
(* order is cancelled, and its escrow is left where it is.                 *)
SkipDust(c, b) ==
    LET left == Remaining(eng[c].buys[b]) IN
    /\ eng[c].pc = "next"
    /\ b \in DOMAIN eng[c].buys
    /\ Oldest(c, b)
    /\ left < MIN_TRADE_AMOUNT
    /\ \/ left > 0 /\ order' = [order EXCEPT ![b].status = "cancelled"] /\ UNCHANGED faults
       \/ left > 0 /\ Fault /\ UNCHANGED order
       \/ left <= 0 /\ UNCHANGED <<order, faults>>
    /\ eng' = [eng EXCEPT ![c].buys = Drop(@, b)]
    /\ UNCHANGED <<ledger, traded, swapped, req>>

MatchAmount(c, s) ==
    LET left == Remaining(eng[c].sells[s]) IN IF Needed(c) < left THEN Needed(c) ELSE left

HasEpoch(c, s) == eng[c].buys[eng[c].cur].epoch \/ eng[c].sells[s].epoch

(* create_order_match, then trigger_settlement and the in-memory totals;   *)
(* when the INSERT fails the candidate is passed over.                     *)
Match(c, s) ==
    LET amount == MatchAmount(c, s)
        e == eng[c]
    IN
    /\ eng[c].pc = "match"
    /\ s \in eng[c].cand
    /\ Best(c, s)
    /\ Needed(c) > 0
    /\ HasEpoch(c, s)
    /\ \/ /\ traded' = [traded EXCEPT ![eng[c].cur][s] = @ + amount]
          /\ eng' = [eng EXCEPT ![c] =
                        [e EXCEPT !.pc = "sold", !.sell = s, !.cand = e.cand \ {s}, !.filled = e.filled + amount,
                                  !.sells = [e.sells EXCEPT ![s].filled = e.sells[s].filled + amount]]]
          /\ UNCHANGED faults
       \/ /\ Fault
          /\ eng' = [eng EXCEPT ![c] = [e EXCEPT !.cand = e.cand \ {s}]]
          /\ UNCHANGED traded
    /\ UNCHANGED <<order, ledger, swapped, req>>

(* ok_or_else(... "Epoch ID required")?: the cycle returns on the spot,    *)
(* before the buy's own totals have been written.                          *)
EpochRequired(c, s) ==
    /\ eng[c].pc = "match"
    /\ s \in eng[c].cand
    /\ Best(c, s)
    /\ Needed(c) > 0
    /\ ~ HasEpoch(c, s)
    /\ Return(c)
    /\ UNCHANGED <<order, ledger, traded, swapped, req, faults>>

FillStatus(filled, energy, nothing) ==
    IF filled >= energy THEN "filled" ELSE IF filled > 0 THEN "partially_filled" ELSE nothing

(* A mutant: only the status is written. *)
WriteStatusOnly(o, filled, status) ==
    /\ order' = [order EXCEPT ![o].status = status]
    /\ UNCHANGED faults

(* A mutant: the new fill replaces the total instead of adding to it. *)
WriteIncrement(o, filled, status) ==
    /\ order' = [order EXCEPT ![o].filled = filled - @, ![o].status = status]
    /\ UNCHANGED faults

(* The writes of the cycle are absolute and unconditional, and their       *)
(* errors are ignored.                                                     *)
WriteFill(o, filled, status) ==
    \/ /\ order' = [order EXCEPT ![o].filled = filled, ![o].status = status]
       /\ UNCHANGED faults
    \/ Fault /\ UNCHANGED order

WriteSell(c) ==
    LET s == eng[c].sell
        row == eng[c].sells[s]
    IN
    /\ eng[c].pc = "sold"
    /\ WriteFill(s, row.filled, FillStatus(row.filled, row.energy, "partially_filled"))
    /\ eng' = [eng EXCEPT ![c].pc = "match", ![c].sell = NoOrder]
    /\ UNCHANGED <<ledger, traded, swapped, req>>

DoneWithBuy(c) ==
    eng' = [eng EXCEPT ![c].pc = "next", ![c].buys = Drop(@, eng[c].cur), ![c].cur = NoOrder,
                       ![c].cand = {}, ![c].filled = 0]

WriteBuy(c) ==
    LET b == eng[c].cur
        status == FillStatus(eng[c].filled, eng[c].buys[b].energy, "active")
    IN
    /\ eng[c].pc = "match"
    /\ eng[c].cand = {} \/ Needed(c) <= 0
    /\ WriteFill(b, eng[c].filled, status)
    /\ IF Needed(c) > MIN_TRADE_AMOUNT /\ status # "filled"
       THEN Goto(c, "amm") ELSE DoneWithBuy(c)
    /\ UNCHANGED <<ledger, traded, swapped, req>>

(* attempt_amm_match: the pool supplies all that is needed, nothing (a     *)
(* confidential order), or the call fails.                                 *)
AmmFallback(c) ==
    LET b == eng[c].cur IN
    /\ eng[c].pc = "amm"
    /\ \/ /\ "supplied" \in AmmAnswers
          /\ swapped' = [swapped EXCEPT ![b] = @ + Needed(c)]
          /\ eng' = [eng EXCEPT ![c].pc = "swapped", ![c].filled = @ + Needed(c)]
       \/ "nothing" \in AmmAnswers /\ Goto(c, "swapped") /\ UNCHANGED swapped
       \/ "error" \in AmmAnswers /\ DoneWithBuy(c) /\ UNCHANGED swapped
    /\ UNCHANGED <<order, ledger, traded, req, faults>>

WriteAmm(c) ==
    LET b == eng[c].cur IN
    /\ eng[c].pc = "swapped"
    /\ WriteFill(b, eng[c].filled,
                 IF eng[c].filled >= eng[c].buys[b].energy THEN "filled" ELSE "partially_filled")
    /\ DoneWithBuy(c)
    /\ UNCHANGED <<ledger, traded, swapped, req>>

-----------------------------------------------------------------------------

(* The gateway process restarts: requests and cycles are forgotten, the    *)
(* database is not.                                                        *)
Restart ==
    /\ Fault
    /\ req' = [r \in Requests \cup Updates |-> IF req[r].pc = "idle" THEN Waiting ELSE Answered]
    /\ eng' = [c \in Cycles |-> IF eng[c].pc = "idle" THEN Resting ELSE AfterCycle(c)]
    /\ UNCHANGED <<order, ledger, traded, swapped>>

Handlers ==
    \/ \E o \in Orders : \E a \in Offers[o] :
          create_order(o, a[1], a[2]) \/ InsertUnbacked(o, a[1], a[2])
    \/ \E r \in Requests : (\E o \in Orders : CancelRead(r, o)) \/ CancelWrite(r) \/ CancelUnlock(r)
    \/ \E r \in Updates :
          \/ \E o \in Orders : \E a \in Offers[o] : UpdateRead(r, o, a[1], a[2])
          \/ UpdateAdjust(r)
          \/ UpdateWrite(r)

Sweep(c) == SweepRead(c) \/ SweepExpire(c) \/ SweepRefund(c)

Cycle(c) ==
    \/ ReadBuys(c) \/ ReadSells(c) \/ EndCycle(c)
    \/ \E b \in Buys : NextBuy(c, b) \/ SkipDust(c, b)
    \/ \E s \in Sells : Match(c, s) \/ EpochRequired(c, s)
    \/ WriteSell(c) \/ WriteBuy(c) \/ AmmFallback(c) \/ WriteAmm(c)

Next ==
    \/ Handlers
    \/ \E c \in Cycles : Sweep(c) \/ Cycle(c)
    \/ Restart

Spec == Init /\ [][Next]_vars

(* run_matching_loop never stops: it sweeps, runs a cycle, sleeps, and     *)
(* starts again whatever the outcome.  Users owe the system nothing.       *)
FairSpec == Spec /\ WF_vars(Sweep(Loop)) /\ WF_vars(Cycle(Loop))

-----------------------------------------------------------------------------

Rows == [status : Open \cup {"absent", "filled", "cancelled", "expired"}, energy : Nat, price : Nat,
         filled : Nat, epoch : BOOLEAN, created : Nat]

TypeOK ==
    /\ order \in [Orders -> Rows]
    /\ balance \in [Users -> Int]
    /\ locked_amount \in [Users -> Int]
    /\ locked_energy \in [Users -> Int]
    /\ escrow \in [Orders -> Nat]
    /\ held \in [Orders -> Int]
    /\ traded \in [Buys -> [Sells -> Nat]]
    /\ swapped \in [Buys -> Nat]
    /\ faults \in Nat

(* No handler, sweep or cycle creates or destroys currency: before         *)
(* settlement moves it, a user's balance and locked_amount together are    *)
(* what the user started with, whatever is refunded, however often, and    *)
(* whichever statement fails.                                              *)
WealthConserved == \A u \in Users : balance[u] + locked_amount[u] = Funds[u]

(* The check under FOR UPDATE in create_order and lock_funds is enough: no *)
(* interleaving of orders and updates spends the same balance twice.       *)
BalanceNonNegative == \A u \in Users : balance[u] >= 0

(* The energy an order has got rid of or received. *)
Bought(b) == MapThenSumSet(LAMBDA s : traded[b][s], Sells) + swapped[b]
Sold(s) == MapThenSumSet(LAMBDA b : traded[b][s], Buys)
Executed(o) == IF o \in Buys THEN Bought(o) ELSE Sold(o)

(* A single matching loop never sells or buys more than an order asks for, *)
(* although it works on snapshots and users cancel meanwhile.              *)
NoOverfill == \A o \in Orders : Executed(o) <= order[o].energy

(* The admin endpoint runs a cycle beside the loop on its own snapshots.   *)
(* The damage is bounded: each such cycle can sell or buy an order's       *)
(* amount at most once more.                                               *)
OverfillPerTrigger == \A o \in Orders : Executed(o) <= Cardinality(Cycles) * order[o].energy

InCycle(c) == eng[c].pc \in {"next", "match", "sold", "amm", "swapped"}

(* Whenever no cycle is under way, filled_amount is what order_matches and *)
(* the AMM swaps add up to: the next cycle starts from the truth.          *)
FillsRecorded ==
    (\A c \in Cycles : ~ InCycle(c)) => \A o \in Orders : order[o].filled = Executed(o)

(* filled_amount never goes back, so a cycle never undoes another's fill. *)
FillsOnlyGrow == [][\A o \in Orders : order'[o].filled >= order[o].filled]_vars

Value(o, amount) == IF o \in Buys THEN amount * order[o].price ELSE amount

(* While nobody cancels, what is held for an order follows its status:     *)
(* all of it while the order is open, filled or closed as dust, and the    *)
(* filled part once expire_stale_orders has swept it.                      *)
EscrowFollowsStatus ==
    \A o \in Orders \ Unbacked :
        IF order[o].status # "expired"
        THEN held[o] = Value(o, order[o].energy)
        ELSE \/ held[o] = Value(o, order[o].filled)
             \/ \E c \in Cycles : eng[c].pc = "refund" /\ eng[c].cur = o

Crossing(b, s) ==
    /\ {order[b].status, order[s].status} \subseteq Open
    /\ Remaining(order[b]) >= MIN_TRADE_AMOUNT
    /\ Remaining(order[s]) >= MIN_TRADE_AMOUNT
    /\ LandedPrice(order[s].price, Zone[s], Zone[b]) <= order[b].price

(* A buy and a sell that cross do not stay in the book side by side: the   *)
(* loop eventually trades one of them away.                                *)
CrossingEventuallyTrades == \A b \in Buys, s \in Sells : Crossing(b, s) ~> ~ Crossing(b, s)

(* match_orders_cycle says "Try to match each buy order": an order that    *)
(* fails must not keep the others from being tried.                        *)
EachBuyIsTried ==
    \A b \in Buys \ Unbacked, s \in Sells \ Unbacked : Crossing(b, s) ~> ~ Crossing(b, s)

(* cancel_order answers "Order cancelled successfully": an order it has    *)
(* cancelled is out of the book for good.                                  *)
CancelledStaysCancelled ==
    [][\A o \in Orders : order[o].status = "cancelled" => order'[o].status = "cancelled"]_vars

(* cancel_order will "Refund Escrow for remaining portion": no more than   *)
(* was escrowed comes back.                                                *)
RefundWithinEscrow == \A o \in Orders : held[o] >= 0
=============================================================================
