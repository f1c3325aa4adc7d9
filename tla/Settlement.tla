----------------------------- MODULE Settlement -----------------------------
(***************************************************************************)
(* SettlementService: what becomes of a trade once the matching engine has *)
(* handed it over.  A settlement row is moved through pending, processing, *)
(* completed and failed by execute_settlement, which sends energy tokens   *)
(* on chain and then moves the escrowed money in the database.             *)
(*                                                                         *)
(* Two background jobs call execute_settlement: process_pending_settlements*)
(* ("loop"), which startup.rs runs, and retry_failed_settlements ("retry").*)
(* Rows that cross chains are not modelled: their INSERT asks for status   *)
(* pending_bridge, which chk_settlement_status refuses.                    *)
(***************************************************************************)
EXTENDS GridTopology, FiniteSets, FiniteSetsExt

CONSTANTS
    Users,
    Settlements,
    Orders,         \* the orders the settled trades belong to
    Trade,          \* [settlement -> [buyer, seller, orders, energy, price, from, to]]
    Locked,         \* [user -> locked_amount at the start]
    FeePercent,     \* SettlementConfig.fee_rate, in percent
    Jobs,           \* the background jobs that run, of {"loop", "retry"}
    Concurrency,    \* how many settlements process_pending_settlements runs at once
    MaxRetries,     \* argument of retry_failed_settlements
    MaxFaults       \* bound: failed calls and crashes in one behaviour

ASSUME TradeAssumption ==
    /\ Trade \in [Settlements -> [buyer : Users, seller : Users, orders : SUBSET Orders, energy : Nat, price : Nat,
                                  from : {NoZone} \cup {<<z>> : z \in 0..9},
                                  to : {NoZone} \cup {<<z>> : z \in 0..9}]]
    /\ Locked \in [Users -> Nat]
ASSUME SettlementsAssumption == IsFiniteSet(Settlements)
ASSUME JobsAssumption == Jobs \subseteq {"loop", "retry"}
ASSUME BoundsAssumption == {FeePercent, Concurrency, MaxRetries, MaxFaults} \subseteq Nat

VARIABLES
    status,         \* settlements.status; "absent" before the INSERT
    retry_count,    \* settlements.retry_count
    transfers,      \* token transfers that landed on chain, per settlement
    finalized,      \* committed runs of finalize_escrow, per settlement
    balance,        \* users.balance, as a change from the start
    locked_amount,  \* users.locked_amount
    locked_energy,  \* users.locked_energy, as a change from the start
    escrowed,       \* orders with an escrow record in status 'locked'
    revenue,        \* platform_revenue, summed per revenue_type
    run,            \* per job and settlement: where execute_settlement stands
    faults

money == <<balance, locked_amount, locked_energy, escrowed, revenue>>
vars == <<status, retry_count, transfers, finalized, money, run, faults>>

Stages == {"idle", "queued", "send", "confirm", "finalize", "fail", "error"}

Init ==
    /\ status = [s \in Settlements |-> "absent"]
    /\ retry_count = [s \in Settlements |-> 0]
    /\ transfers = [s \in Settlements |-> 0]
    /\ finalized = [s \in Settlements |-> 0]
    /\ balance = [u \in Users |-> 0]
    /\ locked_amount = Locked
    /\ locked_energy = [u \in Users |-> 0]
    /\ escrowed = Orders
    /\ revenue = [platform_fee |-> 0, wheeling_charge |-> 0, loss_cost |-> 0]
    /\ run = [j \in Jobs |-> [s \in Settlements |-> "idle"]]
    /\ faults = 0

Fault ==
    /\ faults < MaxFaults
    /\ faults' = faults + 1

Goto(j, s, stage) == run' = [run EXCEPT ![j][s] = stage]

-----------------------------------------------------------------------------
(* The amounts of a settlement, as the matching engine and                 *)
(* create_settlement compute them.                                         *)

TotalValue(s) == Trade[s].energy * Trade[s].price
WheelingCharge(s) == Trade[s].energy * calculate_wheeling_charge(Trade[s].from, Trade[s].to)
LossCost(s) == Trade[s].energy * LossCostUnit(Trade[s].price, Trade[s].from, Trade[s].to)
FeeAmount(s) == (TotalValue(s) * FeePercent) \div 100

(* A mutant: the wheeling charge is booked and not deducted. *)
NetWithoutWheeling(s) == TotalValue(s) - FeeAmount(s)

NetAmount(s) == TotalValue(s) - FeeAmount(s) - WheelingCharge(s)

create_settlement(s) ==
    /\ status[s] = "absent"
    /\ status' = [status EXCEPT ![s] = "pending"]
    /\ UNCHANGED <<retry_count, transfers, finalized, money, run, faults>>

-----------------------------------------------------------------------------
(* The two jobs.  Each works off one batch before it reads the next.       *)

(* A mutant: rows another batch is working on are read again. *)
SelectedUnfinished(j) ==
    {s \in Settlements : status[s] \in {"pending", "processing", "completed"}}

(* A mutant: the retry budget is not looked at. *)
SelectedOverBudget(j) ==
    {s \in Settlements : status[s] = IF j = "loop" THEN "pending" ELSE "failed"}

(* The WHERE clause of each job's SELECT. *)
Selected(j) ==
    {s \in Settlements :
        IF j = "loop" THEN status[s] = "pending"
                      ELSE status[s] = "failed" /\ retry_count[s] < MaxRetries}

Running(j) == {s \in Settlements : run[j][s] \notin {"idle", "queued"}}

ReadBatch(j) ==
    /\ \A s \in Settlements : run[j][s] = "idle"
    /\ Selected(j) # {}
    /\ run' = [run EXCEPT ![j] = [s \in Settlements |-> IF s \in Selected(j) THEN "queued" ELSE "idle"]]
    /\ UNCHANGED <<status, retry_count, transfers, finalized, money, faults>>

(* execute_settlement, first statement: the row is taken whatever its      *)
(* status is by now.  If the statement fails, the call returns.            *)
Start(j, s) ==
    /\ run[j][s] = "queued"
    /\ Cardinality(Running(j)) < (IF j = "loop" THEN Concurrency ELSE 1)
    /\ \/ status' = [status EXCEPT ![s] = "processing"] /\ Goto(j, s, "send") /\ UNCHANGED faults
       \/ Fault /\ Goto(j, s, "error") /\ UNCHANGED status
    /\ UNCHANGED <<retry_count, transfers, finalized, money>>

(* get_settlement and execute_blockchain_transfer.  The transfer lands and *)
(* is reported; it is refused; or it lands and the call fails after it     *)
(* (a lost answer, or the get_slot that follows it).  If get_settlement    *)
(* fails the call returns at once, and the row stays as it is.             *)
Send(j, s) ==
    /\ run[j][s] = "send"
    /\ \/ /\ transfers' = [transfers EXCEPT ![s] = @ + 1]
          /\ Goto(j, s, "confirm")
          /\ UNCHANGED faults
       \/ /\ Goto(j, s, "fail")
          /\ UNCHANGED <<transfers, faults>>
       \/ /\ Fault
          /\ transfers' = [transfers EXCEPT ![s] = @ + 1]
          /\ Goto(j, s, "fail")
       \/ /\ Fault
          /\ Goto(j, s, "error")
          /\ UNCHANGED transfers
    /\ UNCHANGED <<status, retry_count, finalized, money>>

(* A mutant: a confirmation the database refuses counts as a failure. *)
ConfirmOrFail(j, s) ==
    /\ run[j][s] = "confirm"
    /\ \/ status' = [status EXCEPT ![s] = "completed"] /\ Goto(j, s, "finalize") /\ UNCHANGED faults
       \/ status' = [status EXCEPT ![s] = "failed"] /\ Goto(j, s, "error") /\ UNCHANGED faults
    /\ UNCHANGED <<retry_count, transfers, finalized, money>>

(* A mutant: the call returns once the row is confirmed. *)
ConfirmAndReturn(j, s) ==
    /\ run[j][s] = "confirm"
    /\ status' = [status EXCEPT ![s] = "completed"]
    /\ Goto(j, s, "idle")
    /\ UNCHANGED <<retry_count, transfers, finalized, money, faults>>

(* update_settlement_confirmed. *)
Confirm(j, s) ==
    /\ run[j][s] = "confirm"
    /\ \/ status' = [status EXCEPT ![s] = "completed"] /\ Goto(j, s, "finalize") /\ UNCHANGED faults
       \/ Fault /\ Goto(j, s, "error") /\ UNCHANGED status
    /\ UNCHANGED <<retry_count, transfers, finalized, money>>

Booked(s) ==
    [platform_fee |-> FeeAmount(s), wheeling_charge |-> WheelingCharge(s), loss_cost |-> LossCost(s)]

(* finalize_escrow, one transaction.  Its failure is logged, and the call  *)
(* succeeds all the same.                                                  *)
finalize_escrow(j, s) ==
    /\ run[j][s] = "finalize"
    /\ \/ /\ locked_energy' = [locked_energy EXCEPT ![Trade[s].seller] = @ - Trade[s].energy]
          /\ locked_amount' = [locked_amount EXCEPT ![Trade[s].buyer] = @ - TotalValue(s)]
          /\ balance' = [balance EXCEPT ![Trade[s].seller] = @ + NetAmount(s)]
          /\ revenue' = [k \in DOMAIN revenue |-> revenue[k] + Booked(s)[k]]
          /\ escrowed' = escrowed \ Trade[s].orders
          /\ finalized' = [finalized EXCEPT ![s] = @ + 1]
          /\ UNCHANGED faults
       \/ Fault /\ UNCHANGED <<finalized, money>>
    /\ Goto(j, s, "idle")
    /\ UNCHANGED <<status, retry_count, transfers>>

(* A mutant: the failure is not recorded. *)
FailSilently(j, s) ==
    /\ run[j][s] = "fail"
    /\ Goto(j, s, "error")
    /\ UNCHANGED <<status, retry_count, transfers, finalized, money, faults>>

Fail(j, s) ==
    /\ run[j][s] = "fail"
    /\ \/ status' = [status EXCEPT ![s] = "failed"] /\ UNCHANGED faults
       \/ Fault /\ UNCHANGED status
    /\ Goto(j, s, "error")
    /\ UNCHANGED <<retry_count, transfers, finalized, money>>

(* What a job does with an error.  process_pending_settlements logs it.    *)
(* retry_failed_settlements charges the row when the error looks transient;*)
(* otherwise it asks for status permanently_failed, which                  *)
(* chk_settlement_status refuses, and the "?" drops the rest of the batch. *)
AfterError(j, s) ==
    /\ run[j][s] = "error"
    /\ \/ /\ j = "loop"
          /\ Goto(j, s, "idle")
          /\ UNCHANGED <<retry_count, faults>>
       \/ /\ j = "retry"
          /\ retry_count' = [retry_count EXCEPT ![s] = @ + 1]
          /\ Goto(j, s, "idle")
          /\ UNCHANGED faults
       \/ /\ j = "retry"
          /\ run' = [run EXCEPT ![j] = [x \in Settlements |-> "idle"]]
          /\ UNCHANGED <<retry_count, faults>>
       \/ /\ j = "retry"
          /\ Fault
          /\ run' = [run EXCEPT ![j] = [x \in Settlements |-> "idle"]]
          /\ UNCHANGED retry_count
    /\ UNCHANGED <<status, transfers, finalized, money>>

(* The gateway process stops and starts again. *)
Crash ==
    /\ Fault
    /\ run' = [j \in Jobs |-> [s \in Settlements |-> "idle"]]
    /\ UNCHANGED <<status, retry_count, transfers, finalized, money>>

Job(j) ==
    \/ ReadBatch(j)
    \/ \E s \in Settlements :
          \/ Start(j, s) \/ Send(j, s) \/ Confirm(j, s) \/ finalize_escrow(j, s)
          \/ Fail(j, s) \/ AfterError(j, s)

Next ==
    \/ \E s \in Settlements : create_settlement(s)
    \/ \E j \in Jobs : Job(j)
    \/ Crash

Spec == Init /\ [][Next]_vars

(* startup.rs loops over process_pending_settlements for ever and awaits   *)
(* every call it makes; each call has a timeout of its own.                *)
FairSpec == Spec /\ \A j \in Jobs : WF_vars(Job(j))

-----------------------------------------------------------------------------

TypeOK ==
    /\ status \in [Settlements -> {"absent", "pending", "processing", "completed", "failed"}]
    /\ retry_count \in [Settlements -> 0..MaxRetries]
    /\ transfers \in [Settlements -> Nat]
    /\ finalized \in [Settlements -> Nat]
    /\ balance \in [Users -> Int]
    /\ locked_amount \in [Users -> Int]
    /\ locked_energy \in [Users -> Int]
    /\ escrowed \subseteq Orders
    /\ revenue \in [{"platform_fee", "wheeling_charge", "loss_cost"} -> Nat]
    /\ run \in [Jobs -> [Settlements -> Stages]]
    /\ faults \in 0..MaxFaults

(* The buyer's lock is released and the seller paid at most once per       *)
(* settlement, although finalize_escrow itself checks nothing: both jobs,  *)
(* their stale batches, failing calls and restarts included.               *)
FinalizedAtMostOnce == \A s \in Settlements : finalized[s] <= 1

(* Money moves only for energy that was delivered: finalize_escrow has run *)
(* only for rows in status completed whose transfer landed.                *)
PaidMeansDelivered ==
    \A s \in Settlements : finalized[s] > 0 => status[s] = "completed" /\ transfers[s] > 0

(* execute_settlement sends the tokens a second time only after a fault:   *)
(* a lost answer, a failing statement or a crash after the first transfer. *)
TransfersCharged == \A s \in Settlements : transfers[s] <= 1 + faults

(* With process_pending_settlements alone, which is what startup.rs runs,  *)
(* no fault makes the seller send twice: the row is left in processing or  *)
(* failed, where the job does not look.                                    *)
TransferredAtMostOnce == "retry" \notin Jobs => \A s \in Settlements : transfers[s] <= 1

(* A row in processing has a job at work on it, unless something failed:   *)
(* without faults, no path through execute_settlement abandons a row.      *)
ProcessingIsOwned ==
    \A s \in Settlements :
        status[s] = "processing" => faults > 0 \/ \E j \in Jobs : run[j][s] \in {"send", "confirm", "fail"}

Sum(f) == MapThenSumSet(LAMBDA u : f[u], Users)

(* What leaves the buyers' locks arrives with the sellers, as fees or as   *)
(* wheeling charges.                                                       *)
SettlementConservesMoney ==
    Sum(balance) + Sum(locked_amount) + revenue.platform_fee + revenue.wheeling_charge = Sum(Locked)

(* Every settlement process_pending_settlements can see ends completed or  *)
(* failed; only a fault can leave it in processing instead.                *)
EverySettlementEnds ==
    \A s \in Settlements :
        (status[s] = "pending") ~>
            (status[s] \in {"completed", "failed"} \/ (status[s] = "processing" /\ faults > 0))

(* execute_settlement goes on to finalize_escrow: a completed settlement   *)
(* gets its money moved unless something failed.                           *)
FinalizedUnlessFault ==
    \A s \in Settlements : (status[s] = "completed") ~> (finalized[s] > 0 \/ faults > 0)

(* The comment on a failed finalize_escrow: "In production, this should be *)
(* retryable", so a completed settlement has its escrow finalized sooner   *)
(* or later.                                                               *)
CompletedGetsFinalized ==
    \A s \in Settlements : status[s] = "completed" ~> finalized[s] > 0
=============================================================================
