------------------------ MODULE TradingOrdersProofs ------------------------
(***************************************************************************)
(* The ledger behind the orders, for any book, any users and any number of *)
(* concurrent requests, cycles and faults: no step of a handler, of the    *)
(* sweep or of a matching cycle creates currency, destroys it or overdraws *)
(* a balance.                                                              *)
(*                                                                         *)
(* What has to be carried along is what the processes remember: refunds    *)
(* are computed from rows read long before, and are never negative because *)
(* each is guarded by the same row it is computed from.                    *)
(***************************************************************************)
EXTENDS TradingOrders, FiniteSetTheorems, TLAPS

PartialRows(S) == UNION {[D -> Rows] : D \in SUBSET S}

Ledger ==
    /\ balance \in [Users -> Int]
    /\ locked_amount \in [Users -> Int]
    /\ locked_energy \in [Users -> Int]
    /\ escrow \in [Orders -> Nat]
    /\ held \in [Orders -> Int]
    /\ WealthConserved
    /\ BalanceNonNegative

Book ==
    /\ order \in [Orders -> Rows]
    /\ traded \in [Buys -> [Sells -> Nat]]
    /\ swapped \in [Buys -> Nat]
    /\ faults \in Nat

ReqRecs == [pc : {"idle", "cancel", "unlock", "adjust", "write", "done"}, order : Orders \cup {NoOrder},
            row : Rows, energy : Nat, price : Nat]

ReqOK(q) ==
    /\ q.pc \in {"cancel", "unlock", "adjust", "write"} => q.order \in Orders
    /\ q.pc = "unlock" => Remaining(q.row) > 0

Reqs ==
    /\ req \in [Requests \cup Updates -> ReqRecs]
    /\ \A r \in Requests \cup Updates : ReqOK(req[r])

EngRecs == [pc : {"idle", "sweep", "refund", "sells", "next", "match", "sold", "amm", "swapped", "done"},
            stale : PartialRows(Orders), buys : PartialRows(Buys), sells : PartialRows(Sells),
            cur : Orders \cup {NoOrder}, sell : Orders \cup {NoOrder}, cand : SUBSET Sells, filled : Nat]

EngOK(e) ==
    /\ e.pc = "refund" => e.cur \in DOMAIN e.stale /\ Remaining(e.stale[e.cur]) > 0
    /\ e.pc \in {"match", "sold", "amm", "swapped"} => e.cur \in DOMAIN e.buys
    /\ e.pc = "sells" => e.cand = {}
    /\ e.pc = "sold" => e.sell \in DOMAIN e.sells
    /\ e.pc = "amm" => e.buys[e.cur].energy > e.filled
    /\ \A s \in e.cand : s \in DOMAIN e.sells /\ Remaining(e.sells[s]) > 0

Engs ==
    /\ eng \in [Cycles -> EngRecs]
    /\ \A c \in Cycles : EngOK(eng[c])

IInv == Ledger /\ Book /\ Reqs /\ Engs

-----------------------------------------------------------------------------
(* Arithmetic and rows.                                                    *)

(* Amounts and prices multiply to amounts of money. *)
LEMMA ProductNat == \A a, b \in Nat : a * b \in Nat
OBVIOUS

(* The numbers of a well-formed row of trading_orders. *)
LEMMA RowFields ==
    ASSUME NEW r \in Rows
    PROVE  /\ r.energy \in Nat /\ r.price \in Nat /\ r.filled \in Nat
           /\ Remaining(r) \in Int
BY DEF Rows, Remaining

(* What a snapshot holds are well-formed rows. *)
LEMMA PartialRow ==
    ASSUME NEW S, NEW f \in PartialRows(S), NEW x \in DOMAIN f
    PROVE  f[x] \in Rows /\ x \in S
BY DEF PartialRows

(* A snapshot stays one when a row is done with. *)
LEMMA DropType ==
    ASSUME NEW S, NEW f \in PartialRows(S), NEW x
    PROVE  Drop(f, x) \in PartialRows(S)
<1>. PICK D \in SUBSET S : f \in [D -> Rows]
  BY DEF PartialRows
<1>1. Drop(f, x) \in [D \ {x} -> Rows]
  BY DEF Drop
<1>. QED
  BY <1>1 DEF PartialRows

(* The empty snapshot is one. *)
LEMMA NoRowsType == \A S : NoRows \in PartialRows(S)
<1>. TAKE S
<1>1. NoRows \in [{} -> Rows]
  BY DEF NoRows
<1>. QED
  BY <1>1 DEF PartialRows

(* What a SELECT of the engine returns is a snapshot. *)
LEMMA SnapshotType ==
    ASSUME NEW S \in SUBSET Orders, order \in [Orders -> Rows]
    PROVE  Snapshot(S) \in PartialRows(S)
<1>. DEFINE D == {x \in S : order[x].status \in Open}
<1>1. Snapshot(S) \in [D -> Rows]
  BY DEF Snapshot
<1>. QED
  BY <1>1 DEF PartialRows

(* The row of an order not yet inserted is well-formed. *)
LEMMA NoRowType == NoRow \in Rows
BY DEF NoRow, Rows

(* created_at, as the number of rows inserted before. *)
LEMMA StampNat == Stamp \in Nat
<1>1. IsFiniteSet(Orders)
  BY SidesAssumption, FS_Union DEF Orders
<1>2. IsFiniteSet({o \in Orders : order[o].status # "absent"})
  BY <1>1, FS_Subset
<1>. QED
  BY <1>2, FS_CardinalityType DEF Stamp

-----------------------------------------------------------------------------
(* The escrow transactions keep the ledger.                                *)

(* lock_funds moves what the balance covers. *)
LEMMA LockFunds ==
    ASSUME Ledger, NEW o \in Orders, NEW amount \in Nat, lock_funds(o, amount)
    PROVE  Ledger'
<1>1. Owner[o] \in Users
  BY OwnerAssumption
<1>2. /\ balance' \in [Users -> Int] /\ locked_amount' \in [Users -> Int]
      /\ locked_energy' \in [Users -> Int]
  BY <1>1 DEF Ledger, lock_funds
<1>3. escrow' \in [Orders -> Nat] /\ held' \in [Orders -> Int]
  BY DEF Ledger, lock_funds
<1>4. WealthConserved'
  BY <1>1, FundsAssumption DEF Ledger, lock_funds, WealthConserved
<1>5. BalanceNonNegative'
  BY <1>1 DEF Ledger, lock_funds, BalanceNonNegative
<1>. QED
  BY <1>2, <1>3, <1>4, <1>5 DEF Ledger

(* lock_energy moves no currency. *)
LEMMA LockEnergy ==
    ASSUME Ledger, NEW o \in Orders, NEW amount \in Nat, lock_energy(o, amount)
    PROVE  Ledger'
<1>1. Owner[o] \in Users
  BY OwnerAssumption
<1>2. /\ balance' \in [Users -> Int] /\ locked_amount' \in [Users -> Int]
      /\ locked_energy' \in [Users -> Int]
  BY <1>1 DEF Ledger, lock_energy
<1>3. escrow' \in [Orders -> Nat] /\ held' \in [Orders -> Int]
  BY DEF Ledger, lock_energy
<1>4. WealthConserved'
  BY <1>1, FundsAssumption DEF Ledger, lock_energy, WealthConserved
<1>5. BalanceNonNegative'
  BY <1>1 DEF Ledger, lock_energy, BalanceNonNegative
<1>. QED
  BY <1>2, <1>3, <1>4, <1>5 DEF Ledger

(* unlock_funds moves back what it is told, out of the lock. *)
LEMMA UnlockFunds ==
    ASSUME Ledger, NEW o \in Orders, NEW amount \in Nat, unlock_funds(o, amount)
    PROVE  Ledger'
<1>1. Owner[o] \in Users
  BY OwnerAssumption
<1>2. /\ balance' \in [Users -> Int] /\ locked_amount' \in [Users -> Int]
      /\ locked_energy' \in [Users -> Int]
  BY <1>1 DEF Ledger, unlock_funds
<1>3. escrow' \in [Orders -> Nat] /\ held' \in [Orders -> Int]
  BY DEF Ledger, unlock_funds
<1>4. WealthConserved'
  BY <1>1, FundsAssumption DEF Ledger, unlock_funds, WealthConserved
<1>5. BalanceNonNegative'
  BY <1>1 DEF Ledger, unlock_funds, BalanceNonNegative
<1>. QED
  BY <1>2, <1>3, <1>4, <1>5 DEF Ledger

(* unlock_energy moves no currency. *)
LEMMA UnlockEnergy ==
    ASSUME Ledger, NEW o \in Orders, NEW amount \in Nat, unlock_energy(o, amount)
    PROVE  Ledger'
<1>1. Owner[o] \in Users
  BY OwnerAssumption
<1>2. /\ balance' \in [Users -> Int] /\ locked_amount' \in [Users -> Int]
      /\ locked_energy' \in [Users -> Int]
  BY <1>1 DEF Ledger, unlock_energy
<1>3. escrow' \in [Orders -> Nat] /\ held' \in [Orders -> Int]
  BY DEF Ledger, unlock_energy
<1>4. WealthConserved'
  BY <1>1, FundsAssumption DEF Ledger, unlock_energy, WealthConserved
<1>5. BalanceNonNegative'
  BY <1>1 DEF Ledger, unlock_energy, BalanceNonNegative
<1>. QED
  BY <1>2, <1>3, <1>4, <1>5 DEF Ledger

(* A step that leaves the ledger alone keeps it. *)
LEMMA LedgerStutter == Ledger /\ UNCHANGED ledger => Ledger'
BY DEF Ledger, ledger, WealthConserved, BalanceNonNegative

(* A refund guarded by its own row is not negative. *)
LEMMA RefundKeepsLedger ==
    ASSUME Ledger, NEW o \in Orders, NEW r \in Rows, Remaining(r) > 0, Refund(o, r)
    PROVE  Ledger'
<1>1. Remaining(r) \in Nat /\ r.price \in Nat
  BY RowFields
<1>2. Remaining(r) * r.price \in Nat
  BY <1>1, ProductNat
<1>. QED
  BY <1>1, <1>2, UnlockFunds, UnlockEnergy DEF Refund
-----------------------------------------------------------------------------
(* The order handlers.                                                     *)

(* Requests ask for natural amounts and prices. *)
LEMMA OfferType ==
    ASSUME NEW o \in Orders, NEW a \in Offers[o]
    PROVE  a[1] \in Nat /\ a[2] \in Nat
BY OffersAssumption

(* The INSERT of create_order and of the schedulers writes a well-formed   *)
(* row.                                                                    *)
LEMMA NewRowType ==
    ASSUME NEW e \in Nat, NEW p \in Nat, NEW epoch \in BOOLEAN
    PROVE  NewRow(e, p, epoch) \in Rows
BY StampNat DEF NewRow, Rows, Open

(* Rows, requests and cycles that a step does not touch stay as they were. *)
LEMMA ReqsStutter == Reqs /\ UNCHANGED req => Reqs'
BY DEF Reqs

(* The same for the cycles. *)
LEMMA EngsStutter == Engs /\ UNCHANGED eng => Engs'
BY DEF Engs

(* create_order and the inserts of the schedulers. *)
LEMMA CreateStep ==
    ASSUME IInv, NEW o \in Orders, NEW e \in Nat, NEW p \in Nat,
           create_order(o, e, p) \/ InsertUnbacked(o, e, p)
    PROVE  IInv'
<1>. USE DEF IInv
<1>1. Ledger'
  <2>1. e * p \in Nat
    BY ProductNat
  <2>. QED
    BY <2>1, LockFunds, LockEnergy, LedgerStutter DEF create_order, InsertUnbacked
<1>2. Book'
  BY NewRowType DEF create_order, InsertUnbacked, Book
<1>3. Reqs' /\ Engs'
  BY ReqsStutter, EngsStutter DEF create_order, InsertUnbacked
<1>. QED
  BY <1>1, <1>2, <1>3

(* A request that waits or was answered remembers nothing. *)
LEMMA AnsweredType == Waiting \in ReqRecs /\ Answered \in ReqRecs /\ ReqOK(Waiting) /\ ReqOK(Answered)
BY NoRowType DEF Waiting, Answered, ReqRecs, ReqOK

(* One request moves: its new record is what has to be looked at. *)
LEMMA ReqUpdate ==
    ASSUME Reqs, NEW r \in Requests \cup Updates, NEW q \in ReqRecs, ReqOK(q),
           req' = [req EXCEPT ![r] = q]
    PROVE  Reqs'
BY DEF Reqs

(* cancel_order, the SELECT. *)
LEMMA CancelReadStep ==
    ASSUME IInv, NEW r \in Requests, NEW o \in Orders, CancelRead(r, o)
    PROVE  IInv'
<1>. USE DEF IInv
<1>. DEFINE q == [req[r] EXCEPT !.pc = "cancel", !.order = o, !.row = order[o]]
<1>1. q \in ReqRecs /\ ReqOK(q)
  BY DEF Reqs, ReqRecs, ReqOK, Book
<1>2. Reqs'
  BY <1>1, ReqUpdate DEF CancelRead
<1>. QED
  BY <1>2, LedgerStutter, EngsStutter DEF CancelRead, Book

(* cancel_order, the UPDATE: the refund that follows is positive. *)
LEMMA CancelWriteStep ==
    ASSUME IInv, NEW r \in Requests, CancelWrite(r)
    PROVE  IInv'
<1>. USE DEF IInv
<1>. DEFINE o == req[r].order
            q == [req[r] EXCEPT !.pc = "unlock", !.row = order[o]]
<1>1. o \in Orders
  BY DEF CancelWrite, Reqs, ReqOK
<1>2. Book'
  BY ZenonT(60), <1>1 DEF CancelWrite, Book, Rows
<1>3. CASE Remaining(order[o]) > 0
  <2>1. q \in ReqRecs /\ ReqOK(q)
    BY <1>1, <1>3 DEF Reqs, ReqRecs, ReqOK, Book
  <2>. QED
    BY <1>2, <1>3, <2>1, ReqUpdate, LedgerStutter, EngsStutter DEF CancelWrite
<1>4. CASE ~ (Remaining(order[o]) > 0)
  BY <1>2, <1>4, AnsweredType, ReqUpdate, LedgerStutter, EngsStutter DEF CancelWrite, Answer
<1>. QED
  BY <1>3, <1>4

(* cancel_order, the refund. *)
LEMMA CancelUnlockStep ==
    ASSUME IInv, NEW r \in Requests, CancelUnlock(r)
    PROVE  IInv'
<1>. USE DEF IInv
<1>1. req[r].order \in Orders /\ req[r].row \in Rows /\ Remaining(req[r].row) > 0
  BY DEF CancelUnlock, Reqs, ReqRecs, ReqOK
<1>2. Ledger'
  BY <1>1, RefundKeepsLedger, LedgerStutter DEF CancelUnlock
<1>3. Reqs'
  BY ZenonT(60), AnsweredType, ReqUpdate DEF CancelUnlock, Answer
<1>4. Book'
  BY DEF CancelUnlock, Book, Fault
<1>. QED
  BY <1>2, <1>3, <1>4, EngsStutter DEF CancelUnlock

(* update_order, the SELECT. *)
LEMMA UpdateReadStep ==
    ASSUME IInv, NEW r \in Updates, NEW o \in Orders, NEW e \in Nat, NEW p \in Nat, UpdateRead(r, o, e, p)
    PROVE  IInv'
<1>. USE DEF IInv
<1>. DEFINE q == [pc |-> "adjust", order |-> o, row |-> order[o], energy |-> e, price |-> p]
<1>1. q \in ReqRecs /\ ReqOK(q)
  BY DEF ReqRecs, ReqOK, Book
<1>2. Reqs'
  BY ZenonT(60), <1>1, ReqUpdate DEF UpdateRead
<1>. QED
  BY <1>2, LedgerStutter, EngsStutter DEF UpdateRead, Book

(* The escrow moves by the difference of two products, in the direction    *)
(* its sign says.                                                          *)
LEMMA UpdateAdjustStep ==
    ASSUME IInv, NEW r \in Updates, UpdateAdjust(r)
    PROVE  IInv'
<1>. USE DEF IInv
<1>. DEFINE q == req[r]
            o == q.order
            change == IF o \in Buys THEN q.energy * q.price - q.row.energy * q.row.price
                                    ELSE q.energy - q.row.energy
<1>1. q \in ReqRecs /\ q.pc = "adjust" /\ o \in Orders
  BY DEF UpdateAdjust, Reqs, ReqOK
<1>2. change \in Int
  <2>1. q.energy \in Nat /\ q.price \in Nat /\ q.row.energy \in Nat /\ q.row.price \in Nat
    BY <1>1, RowFields DEF ReqRecs
  <2>2. q.energy * q.price \in Nat /\ q.row.energy * q.row.price \in Nat
    BY <2>1, ProductNat
  <2>. QED
    BY <2>1, <2>2
<1>3. Ledger'
  <2>1. \/ UNCHANGED ledger
        \/ change > 0 /\ (lock_funds(o, change) \/ lock_energy(o, change))
        \/ change < 0 /\ (unlock_funds(o, -change) \/ unlock_energy(o, -change))
    BY ONLY UpdateAdjust(r) DEF UpdateAdjust
  <2>. HIDE DEF change, o
  <2>2. CASE UNCHANGED ledger
    BY <2>2, LedgerStutter
  <2>3. CASE change > 0 /\ (lock_funds(o, change) \/ lock_energy(o, change))
    <3>1. change \in Nat
      BY <1>2, <2>3
    <3>. QED
      BY <1>1, <2>3, <3>1, LockFunds, LockEnergy
  <2>4. CASE change < 0 /\ (unlock_funds(o, -change) \/ unlock_energy(o, -change))
    <3>1. -change \in Nat
      BY <1>2, <2>4
    <3>. QED
      BY <1>1, <2>4, <3>1, UnlockFunds, UnlockEnergy
  <2>. QED
    BY SMTT(60), <2>1, <2>2, <2>3, <2>4
<1>4. Reqs'
  <2>1. req' = [req EXCEPT ![r] = Answered] \/ req' = [req EXCEPT ![r].pc = "write"]
    BY DEF UpdateAdjust, Answer, Stage
  <2>2. [q EXCEPT !.pc = "write"] \in ReqRecs /\ ReqOK([q EXCEPT !.pc = "write"])
    BY SMTT(60), <1>1 DEF ReqRecs, ReqOK
  <2>. QED
    BY SMTT(60), <2>1, <2>2, AnsweredType, ReqUpdate
<1>5. Book'
  BY DEF UpdateAdjust, Book, Fault
<1>. QED
  BY SMTT(60), <1>3, <1>4, <1>5, EngsStutter DEF UpdateAdjust

(* update_order, the UPDATE. *)
LEMMA UpdateWriteStep ==
    ASSUME IInv, NEW r \in Updates, UpdateWrite(r)
    PROVE  IInv'
<1>. USE DEF IInv
<1>1. req[r].order \in Orders /\ req[r].energy \in Nat /\ req[r].price \in Nat
  BY DEF UpdateWrite, Reqs, ReqRecs, ReqOK
<1>2. Book'
  <2>1. order' \in [Orders -> Rows]
    <3>. DEFINE o == req[r].order
                row == [order[o] EXCEPT !.energy = req[r].energy, !.price = req[r].price]
    <3>1. row \in Rows
      BY ZenonT(60), <1>1 DEF Book, Rows
    <3>2. order' = [order EXCEPT ![o] = row] \/ order' = order
      BY <1>1 DEF UpdateWrite, Book
    <3>. QED
      BY <1>1, <3>1, <3>2 DEF Book
  <2>2. faults' \in Nat
    BY DEF UpdateWrite, Book, Fault
  <2>. QED
    BY <2>1, <2>2 DEF UpdateWrite, Book
<1>3. Reqs'
  BY AnsweredType, ReqUpdate DEF UpdateWrite, Answer
<1>. QED
  BY <1>2, <1>3, LedgerStutter, EngsStutter DEF UpdateWrite
-----------------------------------------------------------------------------
(* The sweep and the matching cycle.                                       *)

(* One cycle moves: its new record is what has to be looked at. *)
LEMMA EngUpdate ==
    ASSUME Engs, NEW c \in Cycles, NEW e \in EngRecs, EngOK(e), eng' = [eng EXCEPT ![c] = e]
    PROVE  Engs'
BY DEF Engs

(* A cycle at rest remembers nothing. *)
LEMMA RestingType ==
    ASSUME NEW c
    PROVE  /\ Resting \in EngRecs /\ EngOK(Resting)
           /\ AfterCycle(c) \in EngRecs /\ EngOK(AfterCycle(c))
BY NoRowsType DEF Resting, AfterCycle, EngRecs, EngOK

(* The fields of a cycle's record. *)
LEMMA EngFields ==
    ASSUME Engs, NEW c \in Cycles
    PROVE  /\ eng[c] \in EngRecs /\ EngOK(eng[c])
           /\ eng[c].stale \in PartialRows(Orders) /\ eng[c].buys \in PartialRows(Buys)
           /\ eng[c].sells \in PartialRows(Sells) /\ eng[c].filled \in Nat
           /\ eng[c].cand \subseteq Sells
BY DEF Engs, EngRecs

(* expire_stale_orders, the SELECT. *)
LEMMA SweepReadStep ==
    ASSUME IInv, NEW c \in Cycles, SweepRead(c)
    PROVE  IInv'
<1>. USE DEF IInv
<1>. PICK S \in SUBSET Orders :
         eng' = [eng EXCEPT ![c] = [Resting EXCEPT !.pc = "sweep", !.stale = Snapshot(S)]]
  BY DEF SweepRead
<1>. DEFINE e == [Resting EXCEPT !.pc = "sweep", !.stale = Snapshot(S)]
<1>1. Snapshot(S) \in PartialRows(Orders)
  BY SMTT(60), SnapshotType DEF Book, PartialRows
<1>2. e \in EngRecs /\ EngOK(e)
  BY <1>1, RestingType, NoRowsType DEF Resting, EngRecs, EngOK
<1>3. Engs'
  BY <1>2, EngUpdate
<1>. QED
  BY <1>3, LedgerStutter, ReqsStutter DEF SweepRead, Book

(* expire_stale_orders, the UPDATE. *)
LEMMA SweepExpireStep ==
    ASSUME IInv, NEW c \in Cycles, SweepExpire(c)
    PROVE  IInv'
<1>. USE DEF IInv
<1>. PICK o \in DOMAIN eng[c].stale :
        \/ /\ order' = [order EXCEPT ![o].status = "expired"]
           /\ IF Remaining(eng[c].stale[o]) > 0
              THEN eng' = [eng EXCEPT ![c].pc = "refund", ![c].cur = o]
              ELSE eng' = [eng EXCEPT ![c].stale = Drop(@, o)]
           /\ UNCHANGED faults
        \/ /\ Fault
           /\ eng' = [eng EXCEPT ![c].stale = NoRows]
           /\ UNCHANGED order
  BY DEF SweepExpire
<1>1. o \in Orders
  BY SMTT(60), EngFields, PartialRow
<1>2. Book'
  <2>1. order' \in [Orders -> Rows]
    BY <1>1 DEF Book, Rows
  <2>. QED
    BY <2>1 DEF SweepExpire, Book, Fault
<1>. DEFINE e1 == [eng[c] EXCEPT !.pc = "refund", !.cur = o]
            e2 == [eng[c] EXCEPT !.stale = Drop(@, o)]
            e3 == [eng[c] EXCEPT !.stale = NoRows]
<1>3. eng[c].pc = "sweep"
  BY SMTT(60) DEF SweepExpire
<1>4. Remaining(eng[c].stale[o]) > 0 => e1 \in EngRecs /\ EngOK(e1)
  BY ZenonT(60), <1>1, EngFields DEF EngRecs, EngOK
<1>5. e2 \in EngRecs /\ EngOK(e2)
  BY <1>3, EngFields, DropType DEF EngRecs, EngOK
<1>6. e3 \in EngRecs /\ EngOK(e3)
  BY <1>3, EngFields, NoRowsType DEF EngRecs, EngOK
<1>7. \/ Remaining(eng[c].stale[o]) > 0 /\ eng' = [eng EXCEPT ![c] = e1]
      \/ eng' = [eng EXCEPT ![c] = e2]
      \/ eng' = [eng EXCEPT ![c] = e3]
  BY EngFields DEF EngRecs, Engs
<1>8. Engs'
  <2>. HIDE DEF e1, e2, e3
  <2>. QED
    BY <1>4, <1>5, <1>6, <1>7, EngUpdate
<1>. QED
  BY SMTT(60), <1>2, <1>8, LedgerStutter, ReqsStutter DEF SweepExpire

(* expire_stale_orders, the refund from the row it read. *)
LEMMA SweepRefundStep ==
    ASSUME IInv, NEW c \in Cycles, SweepRefund(c)
    PROVE  IInv'
<1>. USE DEF IInv
<1>. DEFINE o == eng[c].cur
            e == [eng[c] EXCEPT !.pc = "sweep", !.cur = NoOrder, !.stale = Drop(@, o)]
<1>1. o \in DOMAIN eng[c].stale /\ Remaining(eng[c].stale[o]) > 0
  BY EngFields DEF SweepRefund, EngOK
<1>2. o \in Orders /\ eng[c].stale[o] \in Rows
  BY SMTT(60), <1>1, EngFields, PartialRow
<1>3. Ledger'
  BY SMTT(60), <1>1, <1>2, RefundKeepsLedger, LedgerStutter DEF SweepRefund
<1>4. e \in EngRecs /\ EngOK(e)
  BY EngFields, DropType DEF EngRecs, EngOK
<1>5. eng' = [eng EXCEPT ![c] = e]
  BY EngFields DEF SweepRefund, Engs, EngRecs
<1>6. Engs'
  BY <1>4, <1>5, EngUpdate
<1>7. Book'
  BY DEF SweepRefund, Book, Fault
<1>. QED
  BY <1>3, <1>6, <1>7, ReqsStutter DEF SweepRefund

(* match_orders_cycle, the SELECT of the buys. *)
LEMMA ReadBuysStep ==
    ASSUME IInv, NEW c \in Cycles, ReadBuys(c)
    PROVE  IInv'
<1>. USE DEF IInv
<1>. DEFINE e == [Resting EXCEPT !.pc = "sells", !.buys = Snapshot(Buys)]
<1>1. Snapshot(Buys) \in PartialRows(Buys)
  BY SnapshotType DEF Book, Orders
<1>2. e \in EngRecs /\ EngOK(e)
  BY <1>1, RestingType, NoRowsType DEF Resting, EngRecs, EngOK
<1>3. Engs'
  BY <1>2, EngUpdate DEF ReadBuys
<1>. QED
  BY <1>3, LedgerStutter, ReqsStutter DEF ReadBuys, Book

(* A cycle that returns forgets its snapshots. *)
LEMMA ReturnKeepsEngs ==
    ASSUME Engs, NEW c \in Cycles, Return(c)
    PROVE  Engs'
BY RestingType, EngUpdate DEF Return

(* match_orders_cycle, the SELECT of the sells. *)
LEMMA ReadSellsStep ==
    ASSUME IInv, NEW c \in Cycles, ReadSells(c)
    PROVE  IInv'
<1>. USE DEF IInv
<1>. DEFINE e == [eng[c] EXCEPT !.pc = "next", !.sells = Snapshot(Sells)]
<1>1. Snapshot(Sells) \in PartialRows(Sells)
  BY SnapshotType DEF Book, Orders
<1>2. e \in EngRecs /\ EngOK(e)
  BY ZenonT(60), <1>1, EngFields DEF ReadSells, EngRecs, EngOK
<1>3. Return(c) \/ eng' = [eng EXCEPT ![c] = e]
  BY EngFields DEF ReadSells, Engs, EngRecs
<1>4. Engs'
  BY <1>2, <1>3, EngUpdate, ReturnKeepsEngs
<1>. QED
  BY <1>4, LedgerStutter, ReqsStutter DEF ReadSells, Book

(* EndCycle and the "?" on a missing epoch: the cycle returns. *)
LEMMA ReturnStep ==
    ASSUME IInv, NEW c \in Cycles, EndCycle(c) \/ \E s \in Sells : EpochRequired(c, s)
    PROVE  IInv'
<1>1. Return(c) /\ UNCHANGED <<order, ledger, traded, swapped, req, faults>>
  BY DEF EndCycle, EpochRequired
<1>. QED
  BY <1>1, ReturnKeepsEngs, LedgerStutter, ReqsStutter DEF IInv, Book

(* The candidates of a buy have something left to sell. *)
LEMMA NextBuyStep ==
    ASSUME IInv, NEW c \in Cycles, NEW b \in Buys, NextBuy(c, b)
    PROVE  IInv'
<1>. USE DEF IInv
<1>. DEFINE e == [eng[c] EXCEPT !.pc = "match", !.cur = b, !.filled = eng[c].buys[b].filled,
                                !.cand = Candidates(c, b)]
<1>1. b \in DOMAIN eng[c].buys /\ eng[c].buys[b].filled \in Nat
  BY SMTT(60), EngFields, PartialRow, RowFields DEF NextBuy
<1>2. Candidates(c, b) \subseteq DOMAIN eng[c].sells /\ DOMAIN eng[c].sells \subseteq Sells
  BY SMTT(60), EngFields, PartialRow DEF Candidates
<1>3. \A s \in Candidates(c, b) : Remaining(eng[c].sells[s]) > 0
  BY SMTT(60), EngFields, PartialRow, RowFields DEF Candidates, MIN_TRADE_AMOUNT
<1>4. e \in EngRecs
  BY ZenonT(60), <1>1, <1>2, EngFields DEF EngRecs, Orders
<1>5. EngOK(e)
  BY <1>1, <1>2, <1>3, EngFields DEF EngRecs, EngOK
<1>6. eng' = [eng EXCEPT ![c] = e]
  BY EngFields DEF NextBuy, Engs, EngRecs
<1>7. Engs'
  BY <1>4, <1>5, <1>6, EngUpdate
<1>. QED
  BY SMTT(60), <1>7, LedgerStutter, ReqsStutter DEF NextBuy, Book

Statuses == Open \cup {"absent", "filled", "cancelled", "expired"}

(* The absolute writes of the engine keep the rows well-formed. *)
LEMMA RowWrite ==
    ASSUME Book, NEW o \in Orders, NEW st \in Statuses, NEW n \in Nat
    PROVE  /\ [order EXCEPT ![o].status = st] \in [Orders -> Rows]
           /\ [order EXCEPT ![o].filled = n, ![o].status = st] \in [Orders -> Rows]
<1>. DEFINE r1 == [order[o] EXCEPT !.status = st]
            r2 == [order[o] EXCEPT !.filled = n, !.status = st]
<1>1. r1 \in Rows /\ r2 \in Rows
  BY ZenonT(60) DEF Book, Rows, Statuses
<1>2. /\ [order EXCEPT ![o].status = st] = [order EXCEPT ![o] = r1]
      /\ [order EXCEPT ![o].filled = n, ![o].status = st] = [order EXCEPT ![o] = r2]
  BY DEF Book
<1>. QED
  BY <1>1, <1>2 DEF Book

(* Dust protection changes a status and no money. *)
LEMMA SkipDustStep ==
    ASSUME IInv, NEW c \in Cycles, NEW b \in Buys, SkipDust(c, b)
    PROVE  IInv'
<1>. USE DEF IInv
<1>. DEFINE e == [eng[c] EXCEPT !.buys = Drop(@, b)]
<1>1. e \in EngRecs /\ EngOK(e)
  BY EngFields, DropType DEF SkipDust, EngRecs, EngOK
<1>2. eng' = [eng EXCEPT ![c] = e]
  BY EngFields DEF SkipDust, Engs, EngRecs
<1>3. Engs'
  BY <1>1, <1>2, EngUpdate
<1>4. Book'
  <2>1. order' \in [Orders -> Rows]
    <3>1. [order EXCEPT ![b].status = "cancelled"] \in [Orders -> Rows]
      BY ZenonT(60), RowWrite DEF Statuses, Orders
    <3>2. order' = order \/ order' = [order EXCEPT ![b].status = "cancelled"]
      BY DEF SkipDust
    <3>. QED
      BY <3>1, <3>2 DEF Book
  <2>2. faults' \in Nat
    BY DEF SkipDust, Book, Fault
  <2>. QED
    BY <2>1, <2>2 DEF SkipDust, Book
<1>. QED
  BY <1>3, <1>4, LedgerStutter, ReqsStutter DEF SkipDust

(* The in-memory total of a sell stays a natural number. *)
LEMMA FillPartial ==
    ASSUME NEW S, NEW f \in PartialRows(S), NEW x \in DOMAIN f, NEW n \in Nat
    PROVE  /\ [f EXCEPT ![x].filled = n] \in PartialRows(S)
           /\ DOMAIN [f EXCEPT ![x].filled = n] = DOMAIN f
<1>. PICK D \in SUBSET S : f \in [D -> Rows]
  BY DEF PartialRows
<1>1. [f EXCEPT ![x].filled = n] \in [D -> Rows]
  BY SMTT(60) DEF Rows
<1>. QED
  BY <1>1 DEF PartialRows

(* create_order_match records a positive amount. *)
LEMMA MatchStep ==
    ASSUME IInv, NEW c \in Cycles, NEW s \in Sells, Match(c, s)
    PROVE  IInv'
<1>. USE DEF IInv
<1>. DEFINE amount == MatchAmount(c, s)
            total == eng[c].sells[s].filled + amount
            sells == [eng[c].sells EXCEPT ![s].filled = total]
            e == [eng[c] EXCEPT !.pc = "sold", !.sell = s, !.cand = eng[c].cand \ {s},
                                !.filled = eng[c].filled + amount, !.sells = sells]
            f == [eng[c] EXCEPT !.cand = eng[c].cand \ {s}]
<1>1. eng[c].cur \in DOMAIN eng[c].buys /\ s \in DOMAIN eng[c].sells /\ Remaining(eng[c].sells[s]) > 0
  BY EngFields DEF Match, EngOK
<1>2. eng[c].cur \in Buys /\ eng[c].buys[eng[c].cur] \in Rows /\ eng[c].sells[s] \in Rows
  BY SMTT(60), <1>1, EngFields, PartialRow
<1>3. amount \in Nat
  <2>1. Needed(c) \in Int /\ Remaining(eng[c].sells[s]) \in Int
    BY SMTT(60), <1>2, EngFields, RowFields DEF Needed
  <2>2. Needed(c) > 0
    BY DEF Match
  <2>. QED
    BY SMTT(60), <1>1, <2>1, <2>2 DEF MatchAmount
<1>4. total \in Nat
  BY SMTT(60), <1>2, <1>3, RowFields
<1>. HIDE DEF amount
<1>5. sells \in PartialRows(Sells) /\ DOMAIN sells = DOMAIN eng[c].sells
  BY SMTT(60), <1>1, <1>4, EngFields, FillPartial
<1>6. \A x \in eng[c].cand \ {s} : x \in DOMAIN sells /\ Remaining(sells[x]) > 0
  BY SMTT(60), <1>5, EngFields DEF EngOK
<1>7. f \in EngRecs /\ EngOK(f)
  BY EngFields DEF EngRecs, EngOK
<1>8. e \in EngRecs
  <2>. HIDE DEF sells
  <2>1. s \in Orders /\ eng[c].cand \ {s} \in SUBSET Sells /\ eng[c].filled + amount \in Nat
    BY <1>3, EngFields DEF Orders
  <2>. QED
    BY ZenonT(60), <1>5, <2>1, EngFields DEF EngRecs
<1>9. EngOK(e)
  <2>. HIDE DEF sells
  <2>. QED
    BY SMTT(60), <1>1, <1>5, <1>6, EngFields DEF EngRecs, EngOK
<1>10. eng' = [eng EXCEPT ![c] = e] \/ eng' = [eng EXCEPT ![c] = f]
  BY DEF Match, amount
<1>11. Engs'
  <2>. HIDE DEF e, f
  <2>. QED
    BY SMTT(60), <1>7, <1>8, <1>9, <1>10, EngUpdate
<1>12. Book'
  <2>1. traded' \in [Buys -> [Sells -> Nat]]
    <3>. DEFINE b == eng[c].cur
                t == [traded[b] EXCEPT ![s] = @ + amount]
    <3>1. t \in [Sells -> Nat]
      BY SMTT(60), <1>2, <1>3 DEF Book
    <3>2. traded' = traded \/ traded' = [traded EXCEPT ![b] = t]
      BY <1>2 DEF Match, Book, amount
    <3>. HIDE DEF t
    <3>. QED
      BY SMTT(60), <1>2, <3>1, <3>2 DEF Book
  <2>2. faults' \in Nat
    <3>1. faults' = faults \/ faults' = faults + 1
      BY DEF Match, Fault
    <3>. QED
      BY SMTT(60), <3>1 DEF Book
  <2>. QED
    BY <2>1, <2>2 DEF Match, Book
<1>. QED
  BY ZenonT(60), <1>11, <1>12, LedgerStutter, ReqsStutter DEF Match

(* The engine writes statuses of the order_status enum. *)
LEMMA FillStatusType ==
    ASSUME NEW n \in Nat, NEW m \in Nat, NEW st \in {"active", "partially_filled"}
    PROVE  FillStatus(n, m, st) \in Statuses
BY DEF FillStatus, Statuses, Open

(* An UPDATE of filled_amount and status by the engine. *)
LEMMA WriteFillBook ==
    ASSUME Book, NEW o \in Orders, NEW n \in Nat, NEW st \in Statuses,
           WriteFill(o, n, st), UNCHANGED <<traded, swapped>>
    PROVE  Book'
<1>1. order' \in [Orders -> Rows]
  <2>1. order' = order \/ order' = [order EXCEPT ![o].filled = n, ![o].status = st]
    BY DEF WriteFill
  <2>2. [order EXCEPT ![o].filled = n, ![o].status = st] \in [Orders -> Rows]
    BY ZenonT(60), RowWrite
  <2>3. order \in [Orders -> Rows]
    BY DEF Book
  <2>. QED
    BY ZenonT(60), <2>1, <2>2, <2>3
<1>2. faults' \in Nat
  BY SMTT(60) DEF WriteFill, Fault, Book
<1>. QED
  BY <1>1, <1>2 DEF Book

(* The UPDATE of the matched sell. *)
LEMMA WriteSellStep ==
    ASSUME IInv, NEW c \in Cycles, WriteSell(c)
    PROVE  IInv'
<1>. USE DEF IInv
<1>. DEFINE s == eng[c].sell
            e == [eng[c] EXCEPT !.pc = "match", !.sell = NoOrder]
<1>1. s \in DOMAIN eng[c].sells
  <2>1. eng[c].pc = "sold"
    BY SMTT(60) DEF WriteSell
  <2>. QED
    BY SMTT(60), <2>1, EngFields DEF EngOK
<1>2. s \in Orders /\ eng[c].sells[s].filled \in Nat /\ eng[c].sells[s].energy \in Nat
  BY SMTT(60), <1>1, EngFields, PartialRow, RowFields DEF Orders
<1>3. Book'
  BY SMTT(60), <1>2, FillStatusType, WriteFillBook DEF WriteSell
<1>4. e \in EngRecs /\ EngOK(e)
  BY ZenonT(60), EngFields DEF WriteSell, EngRecs, EngOK
<1>5. eng' = [eng EXCEPT ![c] = e]
  BY EngFields DEF WriteSell, Engs, EngRecs
<1>6. Engs'
  BY <1>4, <1>5, EngUpdate
<1>. QED
  BY SMTT(60), <1>3, <1>6, LedgerStutter, ReqsStutter DEF WriteSell

(* A cycle that has written its buy goes on to the next. *)
LEMMA DoneKeepsEngs ==
    ASSUME Engs, NEW c \in Cycles, DoneWithBuy(c)
    PROVE  Engs'
<1>. DEFINE e == [eng[c] EXCEPT !.pc = "next", !.buys = Drop(@, eng[c].cur), !.cur = NoOrder,
                                !.cand = {}, !.filled = 0]
<1>1. Drop(eng[c].buys, eng[c].cur) \in PartialRows(Buys)
  BY EngFields, DropType
<1>2. e \in EngRecs /\ EngOK(e)
  BY ZenonT(60), <1>1, EngFields DEF EngRecs, EngOK
<1>3. eng' = [eng EXCEPT ![c] = e]
  BY EngFields DEF DoneWithBuy, Engs, EngRecs
<1>. QED
  BY <1>2, <1>3, EngUpdate

(* The buy a cycle works on. *)
LEMMA CurrentBuy ==
    ASSUME Engs, NEW c \in Cycles, eng[c].pc \in {"match", "amm", "swapped"}
    PROVE  /\ eng[c].cur \in DOMAIN eng[c].buys
           /\ eng[c].cur \in Buys /\ eng[c].cur \in Orders
           /\ eng[c].buys[eng[c].cur].energy \in Nat
           /\ Needed(c) \in Int
<1>1. eng[c].cur \in DOMAIN eng[c].buys
  BY SMTT(60), EngFields DEF EngOK
<1>2. eng[c].cur \in Buys /\ eng[c].buys[eng[c].cur].energy \in Nat
  BY SMTT(60), <1>1, EngFields, PartialRow, RowFields
<1>. QED
  BY SMTT(60), <1>1, <1>2, EngFields DEF Orders, Needed

(* The UPDATE of the buy; what goes to the pool is still needed. *)
LEMMA WriteBuyStep ==
    ASSUME IInv, NEW c \in Cycles, WriteBuy(c)
    PROVE  IInv'
<1>. USE DEF IInv
<1>. DEFINE e == [eng[c] EXCEPT !.pc = "amm"]
<1>1. Book'
  BY SMTT(60), CurrentBuy, EngFields, FillStatusType, WriteFillBook DEF WriteBuy
<1>2. CASE DoneWithBuy(c)
  BY SMTT(60), <1>1, <1>2, DoneKeepsEngs, LedgerStutter, ReqsStutter DEF WriteBuy
<1>3. CASE Needed(c) > MIN_TRADE_AMOUNT /\ Goto(c, "amm")
  <2>1. eng[c].buys[eng[c].cur].energy > eng[c].filled
    <3>1. eng[c].pc = "match"
      BY SMTT(60) DEF WriteBuy
    <3>2. eng[c].buys[eng[c].cur].energy \in Nat /\ eng[c].filled \in Nat
      BY SMTT(60), <3>1, CurrentBuy, EngFields
    <3>. QED
      BY SMTT(60), <1>3, <3>2 DEF Needed, MIN_TRADE_AMOUNT
  <2>2. e \in EngRecs /\ EngOK(e)
    BY SMTT(60), <2>1, CurrentBuy, EngFields DEF WriteBuy, EngRecs, EngOK
  <2>3. eng' = [eng EXCEPT ![c] = e]
    BY <1>3, EngFields DEF Goto, Engs, EngRecs
  <2>4. Engs'
    BY <2>2, <2>3, EngUpdate
  <2>. QED
    BY SMTT(60), <1>1, <2>4, LedgerStutter, ReqsStutter DEF WriteBuy
<1>. QED
  BY SMTT(60), <1>2, <1>3 DEF WriteBuy

(* attempt_amm_match supplies what is needed. *)
LEMMA AmmFallbackStep ==
    ASSUME IInv, NEW c \in Cycles, AmmFallback(c)
    PROVE  IInv'
<1>. USE DEF IInv
<1>. DEFINE n == Needed(c)
            e == [eng[c] EXCEPT !.pc = "swapped", !.filled = @ + n]
            f == [eng[c] EXCEPT !.pc = "swapped"]
<1>1. n \in Nat /\ eng[c].cur \in Buys /\ eng[c].cur \in DOMAIN eng[c].buys
  <2>1. eng[c].pc = "amm"
    BY SMTT(60) DEF AmmFallback
  <2>2. /\ eng[c].cur \in Buys /\ eng[c].cur \in DOMAIN eng[c].buys
        /\ eng[c].buys[eng[c].cur].energy \in Nat /\ eng[c].filled \in Nat
    BY SMTT(60), <2>1, CurrentBuy, EngFields
  <2>3. eng[c].buys[eng[c].cur].energy > eng[c].filled
    BY SMTT(60), <2>1, EngFields DEF EngOK
  <2>. QED
    BY <2>2, <2>3 DEF Needed
<1>. HIDE DEF n
<1>2. e \in EngRecs /\ EngOK(e) /\ f \in EngRecs /\ EngOK(f)
  <2>1. eng[c].filled + n \in Nat /\ eng[c].pc = "amm"
    BY <1>1, EngFields DEF AmmFallback
  <2>2. e \in EngRecs /\ f \in EngRecs
    BY <2>1, EngFields DEF EngRecs
  <2>3. EngOK(e)
    BY <1>1, <2>1, EngFields DEF EngRecs, EngOK
  <2>4. EngOK(f)
    BY <1>1, <2>1, EngFields DEF EngRecs, EngOK
  <2>. QED
    BY <2>2, <2>3, <2>4
<1>3. DoneWithBuy(c) \/ eng' = [eng EXCEPT ![c] = e] \/ eng' = [eng EXCEPT ![c] = f]
  <2>1. \/ DoneWithBuy(c)
        \/ eng' = [eng EXCEPT ![c].pc = "swapped", ![c].filled = @ + n]
        \/ eng' = [eng EXCEPT ![c].pc = "swapped"]
    BY DEF AmmFallback, Goto, n
  <2>2. [eng EXCEPT ![c].pc = "swapped", ![c].filled = @ + n] = [eng EXCEPT ![c] = e]
    BY EngFields DEF Engs, EngRecs
  <2>3. [eng EXCEPT ![c].pc = "swapped"] = [eng EXCEPT ![c] = f]
    BY EngFields DEF Engs, EngRecs
  <2>. QED
    BY <2>1, <2>2, <2>3
<1>4. Engs'
  <2>. HIDE DEF e, f
  <2>. QED
    BY <1>2, <1>3, EngUpdate, DoneKeepsEngs
<1>5. swapped' \in [Buys -> Nat]
  BY <1>1 DEF AmmFallback, Book, n
<1>6. Book'
  BY SMTT(60), <1>5 DEF AmmFallback, Book
<1>. QED
  BY <1>4, <1>6, LedgerStutter, ReqsStutter DEF AmmFallback

(* The UPDATE after the swap. *)
LEMMA WriteAmmStep ==
    ASSUME IInv, NEW c \in Cycles, WriteAmm(c)
    PROVE  IInv'
<1>. USE DEF IInv
<1>1. {"filled", "partially_filled"} \subseteq Statuses
  BY SMTT(60) DEF Statuses, Open
<1>2. Book'
  BY SMTT(60), <1>1, CurrentBuy, EngFields, WriteFillBook DEF WriteAmm
<1>. QED
  BY <1>2, DoneKeepsEngs, LedgerStutter, ReqsStutter DEF WriteAmm

(* A restart forgets requests and cycles, and leaves the ledger. *)
LEMMA RestartStep ==
    ASSUME IInv, Restart
    PROVE  IInv'
<1>. USE DEF IInv
<1>1. Reqs'
  BY AnsweredType DEF Restart, Reqs
<1>2. Engs'
  BY SMTT(60), RestingType DEF Restart, Engs
<1>3. Book'
  BY DEF Restart, Fault, Book
<1>. QED
  BY SMTT(60), <1>1, <1>2, <1>3, LedgerStutter DEF Restart

-----------------------------------------------------------------------------

(* An empty book and the initial funds satisfy the invariant. *)
LEMMA InitIInv == Init => IInv
<1>. SUFFICES ASSUME Init PROVE IInv
  OBVIOUS
<1>1. Ledger
  BY FundsAssumption DEF Init, Ledger, WealthConserved, BalanceNonNegative
<1>2. Book
  BY NoRowType DEF Init, Book
<1>3. Reqs
  BY AnsweredType DEF Init, Reqs
<1>4. Engs
  BY SMTT(60), RestingType DEF Init, Engs
<1>. QED
  BY <1>1, <1>2, <1>3, <1>4 DEF IInv

(* Every step of an order handler. *)
LEMMA HandlersStep ==
    ASSUME IInv, Handlers
    PROVE  IInv'
BY SMTT(60), OfferType, CreateStep, CancelReadStep, CancelWriteStep, CancelUnlockStep, UpdateReadStep,
   UpdateAdjustStep, UpdateWriteStep DEF Handlers

(* Every step of the sweep and of a matching cycle. *)
LEMMA EngineStep ==
    ASSUME IInv, NEW c \in Cycles, Sweep(c) \/ Cycle(c)
    PROVE  IInv'
BY SMTT(60), SweepReadStep, SweepExpireStep, SweepRefundStep, ReadBuysStep, ReadSellsStep, ReturnStep,
   NextBuyStep, SkipDustStep, MatchStep, WriteSellStep, WriteBuyStep, AmmFallbackStep, WriteAmmStep
   DEF Sweep, Cycle

(* The invariant is inductive. *)
LEMMA NextIInv == IInv /\ [Next]_vars => IInv'
<1>. SUFFICES ASSUME IInv, [Next]_vars PROVE IInv'
  OBVIOUS
<1>1. CASE UNCHANGED vars
  BY <1>1, LedgerStutter, ReqsStutter, EngsStutter DEF vars, IInv, Book
<1>. QED
  BY <1>1, HandlersStep, EngineStep, RestartStep DEF Next

(* The ledger and what the processes remember fit in every behaviour of    *)
(* handlers, sweep and cycles.                                             *)
THEOREM Inductive == Spec => []IInv
BY InitIInv, NextIInv, PTL DEF Spec

(* Every order, escrow and match record stays well-formed under all the    *)
(* handlers and cycles; in particular no stored fill is ever negative.     *)
THEOREM TypeCorrect == Spec => []TypeOK
<1>1. IInv => TypeOK
  BY DEF IInv, Ledger, Book, TypeOK
<1>. QED
  BY <1>1, Inductive, PTL

(* lock_funds, unlock_funds and every path that calls them conserve each   *)
(* user's currency, double refunds and failed statements included.         *)
THEOREM CurrencyConserved == Spec => []WealthConserved
<1>1. IInv => WealthConserved
  BY DEF IInv, Ledger
<1>. QED
  BY <1>1, Inductive, PTL

(* The balance check of create_order and lock_funds suffices: no           *)
(* interleaving of requests overdraws a balance.                           *)
THEOREM NeverOverdrawn == Spec => []BalanceNonNegative
<1>1. IInv => BalanceNonNegative
  BY DEF IInv, Ledger
<1>. QED
  BY <1>1, Inductive, PTL
=============================================================================
