-------------------------- MODULE SettlementProofs --------------------------
(***************************************************************************)
(* The safety of settlement execution, for any trades, jobs and bounds.    *)
(*                                                                         *)
(* finalize_escrow and execute_settlement check nothing themselves, so the *)
(* argument is about ownership: a row a job has queued is still in the     *)
(* status the job selected it by, a row being executed is in processing,   *)
(* and no two jobs execute the same row.                                   *)
(***************************************************************************)
EXTENDS Settlement, FiniteSetTheorems, TLAPS

Busy == {"send", "confirm", "fail", "finalize"}

StateType ==
    /\ status \in [Settlements -> {"absent", "pending", "processing", "completed", "failed"}]
    /\ retry_count \in [Settlements -> 0..MaxRetries]
    /\ transfers \in [Settlements -> Nat]
    /\ finalized \in [Settlements -> Nat]
    /\ run \in [Jobs -> [Settlements -> Stages]]
    /\ faults \in 0..MaxFaults

(* What the stage of a job says about the row it works on. *)
StageInv ==
    \A j \in Jobs, s \in Settlements :
        /\ run[j][s] = "queued" => s \in Selected(j)
        /\ run[j][s] \in {"send", "confirm", "fail"} => status[s] = "processing"
        /\ run[j][s] = "confirm" => transfers[s] > 0
        /\ run[j][s] = "finalize" => status[s] = "completed" /\ finalized[s] = 0 /\ transfers[s] > 0
        /\ j = "retry" /\ run[j][s] # "idle" => retry_count[s] < MaxRetries

(* No two jobs execute the same row. *)
Exclusive ==
    \A s \in Settlements : \A i, j \in Jobs : run[i][s] \in Busy /\ run[j][s] \in Busy => i = j

(* retry_failed_settlements executes one row at a time. *)
OneRetry ==
    \A j \in Jobs : j = "retry" => \A s, x \in Settlements : s \in Running(j) /\ x \in Running(j) => s = x

Paid ==
    \A s \in Settlements :
        finalized[s] <= 1 /\ (finalized[s] > 0 => status[s] = "completed" /\ transfers[s] > 0)

(* A transfer that is not on its way to completion was paid for by a fault. *)
Charged ==
    \A s \in Settlements :
        transfers[s] <= faults + IF status[s] = "completed" \/ \E j \in Jobs : run[j][s] = "confirm"
                                 THEN 1 ELSE 0

IInv == StateType /\ StageInv /\ Exclusive /\ OneRetry /\ Paid /\ Charged /\ ProcessingIsOwned

(* A job of retry_failed_settlements starts a row only when it runs none. *)
LEMMA StartsAlone ==
    ASSUME NEW j \in Jobs, j = "retry", Cardinality(Running(j)) < 1
    PROVE  Running(j) = {}
<1>1. Running(j) \subseteq Settlements
  BY DEF Running
<1>2. IsFiniteSet(Running(j))
  BY <1>1, FS_Subset, SettlementsAssumption
<1>3. Cardinality(Running(j)) = 0
  BY <1>2, FS_CardinalityType
<1>. QED
  BY <1>2, <1>3, FS_EmptySet

(* Before the first settlement is created nobody owns or owes anything. *)
LEMMA InitIInv == Init => IInv
BY BoundsAssumption
   DEF Init, IInv, StateType, StageInv, Exclusive, OneRetry, Running, Paid, Charged,
       ProcessingIsOwned, Stages, Busy

(* create_settlement adds a row that no job has seen. *)
LEMMA CreateStep ==
    ASSUME IInv, NEW s \in Settlements, create_settlement(s)
    PROVE  IInv'
<1>. USE JobsAssumption, BoundsAssumption DEF IInv
<1>1. StateType'
  BY DEF create_settlement, StateType, Stages
<1>2. StageInv'
  BY <1>1 DEF create_settlement, StageInv, Selected, StateType, Stages
<1>3. Exclusive'
  BY <1>1 DEF create_settlement, Exclusive, Busy, StageInv, Selected, StateType, Stages
<1>4. OneRetry'
  BY <1>1 DEF create_settlement, OneRetry, Running, StateType, Stages
<1>5. Paid'
  BY <1>1 DEF create_settlement, Paid, StageInv, StateType, Stages, Selected
<1>6. Charged'
  BY <1>1 DEF create_settlement, Charged, StageInv, Exclusive, Busy, StateType, Stages, Selected, Paid
<1>7. ProcessingIsOwned'
  BY <1>1 DEF create_settlement, ProcessingIsOwned, StageInv, Exclusive, Busy, StateType, Stages, Selected, OneRetry, Running
<1>. QED
  BY <1>1, <1>2, <1>3, <1>4, <1>5, <1>6, <1>7

(* get_pending_settlements and the SELECT of the retry job queue rows      *)
(* only.                                                                   *)
LEMMA ReadBatchStep ==
    ASSUME IInv, NEW j \in Jobs, ReadBatch(j)
    PROVE  IInv'
<1>. USE JobsAssumption, BoundsAssumption DEF IInv
<1>1. StateType'
  BY DEF ReadBatch, StateType, Stages
<1>2. StageInv'
  BY <1>1 DEF ReadBatch, StageInv, Selected, StateType, Stages
<1>3. Exclusive'
  BY <1>1 DEF ReadBatch, Exclusive, Busy, StageInv, Selected, StateType, Stages
<1>4. OneRetry'
  BY <1>1 DEF ReadBatch, OneRetry, Running, StateType, Stages
<1>5. Paid'
  BY <1>1 DEF ReadBatch, Paid, StageInv, StateType, Stages, Selected
<1>6. Charged'
  BY <1>1 DEF ReadBatch, Charged, StageInv, Exclusive, Busy, StateType, Stages, Selected, Paid
<1>7. ProcessingIsOwned'
  BY <1>1 DEF ReadBatch, ProcessingIsOwned, StageInv, Exclusive, Busy, StateType, Stages, Selected, OneRetry, Running
<1>. QED
  BY <1>1, <1>2, <1>3, <1>4, <1>5, <1>6, <1>7

(* update_settlement_status(Processing): the job takes a row that it       *)
(* selected and that is still as selected.                                 *)
LEMMA StartStep ==
    ASSUME IInv, NEW j \in Jobs, NEW s \in Settlements, Start(j, s)
    PROVE  IInv'
<1>. USE JobsAssumption, BoundsAssumption DEF IInv
<1>1. StateType'
  BY DEF Start, Fault, Goto, StateType, Stages
<1>2. StageInv'
  BY <1>1 DEF Start, Fault, Goto, StageInv, Selected, StateType, Stages
<1>3. Exclusive'
  BY <1>1 DEF Start, Fault, Goto, Exclusive, Busy, StageInv, Selected, StateType, Stages
<1>4. OneRetry'
  BY <1>1, StartsAlone DEF Start, Fault, Goto, OneRetry, Running, StateType, Stages
<1>5. Paid'
  BY <1>1 DEF Start, Fault, Goto, Paid, StageInv, StateType, Stages, Selected
<1>6. Charged'
  BY <1>1 DEF Start, Fault, Goto, Charged, StageInv, Exclusive, Busy, StateType, Stages, Selected, Paid
<1>7. ProcessingIsOwned'
  BY SMTT(60), <1>1 DEF Start, Fault, Goto, ProcessingIsOwned, StageInv, Exclusive, Busy, StateType, Stages, Selected, OneRetry, Running
<1>. QED
  BY <1>1, <1>2, <1>3, <1>4, <1>5, <1>6, <1>7

(* execute_blockchain_transfer: a transfer is on its way or paid by a      *)
(* fault.                                                                  *)
LEMMA SendStep ==
    ASSUME IInv, NEW j \in Jobs, NEW s \in Settlements, Send(j, s)
    PROVE  IInv'
<1>. USE JobsAssumption, BoundsAssumption DEF IInv
<1>1. StateType'
  BY SMTT(60) DEF Send, Fault, Goto, StateType, Stages
<1>2. StageInv'
  BY <1>1 DEF Send, Fault, Goto, StageInv, Selected, StateType, Stages
<1>3. Exclusive'
  BY <1>1 DEF Send, Fault, Goto, Exclusive, Busy, StageInv, Selected, StateType, Stages
<1>4. OneRetry'
  BY <1>1 DEF Send, Fault, Goto, OneRetry, Running, StateType, Stages
<1>5. Paid'
  BY <1>1 DEF Send, Fault, Goto, Paid, StageInv, StateType, Stages, Selected
<1>6. Charged'
  BY <1>1 DEF Send, Fault, Goto, Charged, StageInv, Exclusive, Busy, StateType, Stages, Selected, Paid
<1>7. ProcessingIsOwned'
  BY <1>1 DEF Send, Fault, Goto, ProcessingIsOwned, StageInv, Exclusive, Busy, StateType, Stages, Selected, OneRetry, Running
<1>. QED
  BY <1>1, <1>2, <1>3, <1>4, <1>5, <1>6, <1>7

(* update_settlement_confirmed: only the owner of a row completes it. *)
LEMMA ConfirmStep ==
    ASSUME IInv, NEW j \in Jobs, NEW s \in Settlements, Confirm(j, s)
    PROVE  IInv'
<1>. USE JobsAssumption, BoundsAssumption DEF IInv
<1>1. StateType'
  <2>1. status' \in [Settlements -> {"absent", "pending", "processing", "completed", "failed"}]
    BY DEF Confirm, StateType
  <2>2. run' \in [Jobs -> [Settlements -> Stages]]
    <3>1. \E stage \in Stages : run' = [run EXCEPT ![j][s] = stage]
      BY DEF Confirm, Goto, Stages
    <3>. QED
      BY <3>1 DEF StateType
  <2>3. faults' \in 0..MaxFaults
    BY DEF Confirm, Fault, StateType
  <2>. QED
    BY <2>1, <2>2, <2>3 DEF Confirm, StateType
<1>2. StageInv'
  BY <1>1 DEF Confirm, Fault, Goto, StageInv, Paid, Exclusive, Busy, Selected, StateType, Stages
<1>3. Exclusive'
  BY <1>1 DEF Confirm, Fault, Goto, Exclusive, Busy, StageInv, Selected, StateType, Stages
<1>4. OneRetry'
  BY <1>1 DEF Confirm, Fault, Goto, OneRetry, Running, StateType, Stages
<1>5. Paid'
  BY <1>1 DEF Confirm, Fault, Goto, Paid, StageInv, StateType, Stages, Selected
<1>6. Charged'
  BY <1>1 DEF Confirm, Fault, Goto, Charged, StageInv, Exclusive, Busy, StateType, Stages, Selected, Paid
<1>7. ProcessingIsOwned'
  BY SMTT(60), <1>1 DEF Confirm, Fault, Goto, ProcessingIsOwned, StageInv, Exclusive, Busy, StateType, Stages, Selected, OneRetry, Running
<1>. QED
  BY <1>1, <1>2, <1>3, <1>4, <1>5, <1>6, <1>7

(* finalize_escrow runs for a row not finalized before. *)
LEMMA FinalizeStep ==
    ASSUME IInv, NEW j \in Jobs, NEW s \in Settlements, finalize_escrow(j, s)
    PROVE  IInv'
<1>. USE JobsAssumption, BoundsAssumption DEF IInv
<1>1. StateType'
  BY SMTT(60) DEF finalize_escrow, Fault, Goto, StateType, Stages
<1>2. StageInv'
  BY SMTT(60), <1>1 DEF finalize_escrow, Fault, Goto, StageInv, Exclusive, Busy, Selected, StateType, Stages
<1>3. Exclusive'
  BY SMTT(60), <1>1 DEF finalize_escrow, Fault, Goto, Exclusive, Busy, StageInv, Selected, StateType, Stages
<1>4. OneRetry'
  BY SMTT(60), <1>1 DEF finalize_escrow, Fault, Goto, OneRetry, Running, StateType, Stages
<1>5. Paid'
  BY SMTT(60), <1>1 DEF finalize_escrow, Fault, Goto, Paid, StageInv, StateType, Stages, Selected
<1>6. Charged'
  BY SMTT(60), <1>1 DEF finalize_escrow, Fault, Goto, Charged, StageInv, Exclusive, Busy, StateType, Stages, Selected, Paid
<1>7. ProcessingIsOwned'
  BY <1>1 DEF finalize_escrow, Fault, Goto, ProcessingIsOwned, StageInv, Exclusive, Busy, StateType, Stages, Selected, OneRetry, Running
<1>. QED
  BY <1>1, <1>2, <1>3, <1>4, <1>5, <1>6, <1>7

(* update_settlement_status(Failed): only the owner of a row fails it. *)
LEMMA FailStep ==
    ASSUME IInv, NEW j \in Jobs, NEW s \in Settlements, Fail(j, s)
    PROVE  IInv'
<1>. USE JobsAssumption, BoundsAssumption DEF IInv
<1>1. StateType'
  BY DEF Fail, Fault, Goto, StateType, Stages
<1>2. StageInv'
  BY <1>1 DEF Fail, Fault, Goto, StageInv, Exclusive, Busy, Selected, StateType, Stages
<1>3. Exclusive'
  BY <1>1 DEF Fail, Fault, Goto, Exclusive, Busy, StageInv, Selected, StateType, Stages
<1>4. OneRetry'
  BY <1>1 DEF Fail, Fault, Goto, OneRetry, Running, StateType, Stages
<1>5. Paid'
  BY <1>1 DEF Fail, Fault, Goto, Paid, StageInv, StateType, Stages, Selected
<1>6. Charged'
  BY <1>1 DEF Fail, Fault, Goto, Charged, StageInv, Exclusive, Busy, StateType, Stages, Selected, Paid
<1>7. ProcessingIsOwned'
  BY SMTT(60), <1>1 DEF Fail, Fault, Goto, ProcessingIsOwned, StageInv, Exclusive, Busy, StateType, Stages, Selected, OneRetry, Running
<1>. QED
  BY <1>1, <1>2, <1>3, <1>4, <1>5, <1>6, <1>7

(* What the jobs do with an error touches no row another job owns. *)
LEMMA AfterErrorStep ==
    ASSUME IInv, NEW j \in Jobs, NEW s \in Settlements, AfterError(j, s)
    PROVE  IInv'
<1>. USE JobsAssumption, BoundsAssumption DEF IInv
<1>1. StateType'
  BY DEF AfterError, Fault, Goto, StageInv, StateType, Stages
<1>2. StageInv'
  BY <1>1 DEF AfterError, Fault, Goto, StageInv, Selected, StateType, Stages
<1>3. Exclusive'
  BY <1>1 DEF AfterError, Fault, Goto, Exclusive, Busy, StageInv, Selected, StateType, Stages
<1>4. OneRetry'
  BY <1>1 DEF AfterError, Fault, Goto, OneRetry, Running, StateType, Stages
<1>5. Paid'
  BY <1>1 DEF AfterError, Fault, Goto, Paid, StageInv, StateType, Stages, Selected
<1>6. Charged'
  BY <1>1 DEF AfterError, Fault, Goto, Charged, OneRetry, Running, StateType, Stages
<1>7. ProcessingIsOwned'
  BY <1>1 DEF AfterError, Fault, Goto, ProcessingIsOwned, StageInv, Exclusive, Busy, StateType, Stages, Selected, OneRetry, Running
<1>. QED
  BY <1>1, <1>2, <1>3, <1>4, <1>5, <1>6, <1>7

(* A restart forgets the owners and is itself a fault. *)
LEMMA CrashStep ==
    ASSUME IInv, Crash
    PROVE  IInv'
<1>. USE JobsAssumption, BoundsAssumption DEF IInv
<1>1. StateType'
  BY DEF Crash, Fault, StateType, Stages
<1>2. StageInv'
  BY <1>1 DEF Crash, Fault, StageInv, Selected, StateType, Stages
<1>3. Exclusive'
  BY <1>1 DEF Crash, Fault, Exclusive, Busy, StageInv, Selected, StateType, Stages
<1>4. OneRetry'
  BY <1>1 DEF Crash, Fault, OneRetry, Running, StateType, Stages
<1>5. Paid'
  BY <1>1 DEF Crash, Fault, Paid, StageInv, StateType, Stages, Selected
<1>6. Charged'
  BY <1>1 DEF Crash, Fault, Charged, StageInv, Exclusive, Busy, StateType, Stages, Selected, Paid
<1>7. ProcessingIsOwned'
  BY <1>1 DEF Crash, Fault, ProcessingIsOwned, StageInv, Exclusive, Busy, StateType, Stages, Selected, OneRetry, Running
<1>. QED
  BY <1>1, <1>2, <1>3, <1>4, <1>5, <1>6, <1>7

-----------------------------------------------------------------------------

(* The invariant is inductive: one lemma above for every action. *)
LEMMA NextIInv == IInv /\ [Next]_vars => IInv'
<1>. SUFFICES ASSUME IInv, [Next]_vars PROVE IInv'
  OBVIOUS
<1>1. CASE \E s \in Settlements : create_settlement(s)
  BY <1>1, CreateStep
<1>2. CASE \E j \in Jobs : Job(j)
  BY <1>2, ReadBatchStep, StartStep, SendStep, ConfirmStep, FinalizeStep, FailStep, AfterErrorStep
     DEF Job
<1>3. CASE Crash
  BY SMTT(60), <1>3, CrashStep
<1>4. CASE UNCHANGED vars
  BY <1>4 DEF vars, IInv, StateType, StageInv, Selected, Exclusive, OneRetry, Running, Paid, Charged,
              ProcessingIsOwned
<1>. QED
  BY <1>1, <1>2, <1>3, <1>4 DEF Next

(* The ownership of rows by execute_settlement holds in every behaviour. *)
THEOREM Inductive == Spec => []IInv
BY InitIInv, NextIInv, PTL DEF Spec

(* finalize_escrow pays a seller at most once per settlement, whatever the *)
(* jobs, the stale batches, the failing calls and the restarts.            *)
THEOREM AtMostOnce == Spec => []FinalizedAtMostOnce
<1>1. IInv => FinalizedAtMostOnce
  BY DEF IInv, Paid, FinalizedAtMostOnce
<1>. QED
  BY <1>1, Inductive, PTL

(* No seller is paid by finalize_escrow for a transfer that never landed.  *)
THEOREM PaymentFollowsDelivery == Spec => []PaidMeansDelivered
<1>1. IInv => PaidMeansDelivered
  BY DEF IInv, Paid, PaidMeansDelivered
<1>. QED
  BY <1>1, Inductive, PTL

(* Every transfer of execute_settlement beyond the first is the price of a *)
(* fault.                                                                  *)
THEOREM ExtraTransfersNeedFaults == Spec => []TransfersCharged
<1>1. IInv => TransfersCharged
  BY BoundsAssumption DEF IInv, StateType, Charged, TransfersCharged
<1>. QED
  BY <1>1, Inductive, PTL

(* Without faults, execute_settlement abandons no row in processing.       *)
THEOREM ProcessingOwned == Spec => []ProcessingIsOwned
<1>1. IInv => ProcessingIsOwned
  BY SMTT(60) DEF IInv
<1>. QED
  BY <1>1, Inductive, PTL
-----------------------------------------------------------------------------

(* Where only process_pending_settlements runs, a row that can still be    *)
(* sent has not been sent before.                                          *)
Fresh ==
    "retry" \notin Jobs =>
        \A s \in Settlements :
            /\ transfers[s] <= 1
            /\ status[s] \in {"absent", "pending"} => transfers[s] = 0
            /\ \A j \in Jobs : run[j][s] = "send" => transfers[s] = 0

(* Without the retry job no action sends a row that was sent before. *)
LEMMA FreshStep ==
    ASSUME IInv, Fresh, [Next]_vars
    PROVE  Fresh'
<1>. SUFFICES ASSUME "retry" \notin Jobs
              PROVE  \A s \in Settlements :
                         /\ transfers'[s] <= 1
                         /\ status'[s] \in {"absent", "pending"} => transfers'[s] = 0
                         /\ \A j \in Jobs : run'[j][s] = "send" => transfers'[s] = 0
  BY DEF Fresh
<1>. USE JobsAssumption DEF IInv, StateType, Stages, Fresh
<1>1. CASE \E s \in Settlements : create_settlement(s)
  BY <1>1 DEF create_settlement
<1>2. ASSUME NEW j \in Jobs, ReadBatch(j) PROVE Fresh'
  BY <1>2 DEF ReadBatch
<1>3. ASSUME NEW j \in Jobs, NEW s \in Settlements, Start(j, s) PROVE Fresh'
  BY <1>3 DEF Start, Goto, StageInv, Selected
<1>4. ASSUME NEW j \in Jobs, NEW s \in Settlements, Send(j, s) PROVE Fresh'
  BY <1>4 DEF Send, Goto, StageInv
<1>5. ASSUME NEW j \in Jobs, NEW s \in Settlements, Confirm(j, s) PROVE Fresh'
  BY SMTT(60), <1>5 DEF Confirm, Goto
<1>6. ASSUME NEW j \in Jobs, NEW s \in Settlements, finalize_escrow(j, s) PROVE Fresh'
  BY <1>6 DEF finalize_escrow, Goto
<1>7. ASSUME NEW j \in Jobs, NEW s \in Settlements, Fail(j, s) PROVE Fresh'
  BY <1>7 DEF Fail, Goto
<1>8. ASSUME NEW j \in Jobs, NEW s \in Settlements, AfterError(j, s) PROVE Fresh'
  BY <1>8 DEF AfterError, Goto
<1>9. CASE Crash
  BY <1>9 DEF Crash
<1>10. CASE UNCHANGED vars
  BY <1>10 DEF vars
<1>. QED
  BY SMTT(60), <1>1, <1>2, <1>3, <1>4, <1>5, <1>6, <1>7, <1>8, <1>9, <1>10 DEF Next, Job

(* As startup.rs runs it, the gateway never sends a settlement's tokens    *)
(* twice, whatever fails and however often it restarts.                    *)
THEOREM LoopTransfersOnce == Spec => []TransferredAtMostOnce
<1>1. Init => Fresh
  BY DEF Init, Fresh
<1>2. IInv /\ Fresh /\ [Next]_vars => Fresh'
  BY FreshStep
<1>3. Fresh => TransferredAtMostOnce
  BY DEF Fresh, TransferredAtMostOnce
<1>. QED
  BY <1>1, <1>2, <1>3, Inductive, PTL DEF Spec
=============================================================================
