------------------------ MODULE BlockchainTaskProofs ------------------------
(***************************************************************************)
(* The retry queue for any number of workers, rows and retries.            *)
(*                                                                         *)
(* RetryOvershootBounded is not inductive.  OvershootAccounted is, once it *)
(* is known that a worker records an outcome only for a row it still holds:*)
(* the charge and the worker's letting go of the row are one step.         *)
(***************************************************************************)
EXTENDS BlockchainTask, FiniteSetTheorems, TLAPS

RowType ==
    /\ status \in [Tasks -> Statuses]
    /\ payload \in [Tasks -> Payloads]
    /\ retry_count \in [Tasks -> Nat]
    /\ batch \in [Workers -> SUBSET Tasks]
    /\ doing \in [Workers -> {Idle} \cup [task : Tasks, outcome : {"ok", "error", "irrecoverable"}]]
    /\ refunds \in [Tasks -> Nat]
    /\ attempts \in [Tasks -> Nat]

(* What a worker is about to record: the row is one it holds, and a        *)
(* success is one that has landed.                                         *)
Recording ==
    \A w \in Workers :
        doing[w] # Idle => /\ doing[w].task \in batch[w]
                           /\ doing[w].outcome = "ok" => refunds[doing[w].task] >= 1

IInv == RowType /\ Recording /\ OvershootAccounted /\ CompletedMeansRefunded

-----------------------------------------------------------------------------

(* The workers that do not hold a row are finitely many. *)
LEMMA FreeIsFinite ==
    ASSUME NEW t \in Tasks
    PROVE  IsFiniteSet(Free(t)) /\ Cardinality(Free(t)) \in Nat
<1>1. Free(t) \subseteq Workers
  BY DEF Free
<1>2. IsFiniteSet(Free(t))
  BY <1>1, FS_Subset, WorkersAssumption
<1>. QED
  BY <1>2, FS_CardinalityType

(* The same, after a step. *)
LEMMA FreeIsFiniteNext ==
    ASSUME NEW t \in Tasks
    PROVE  IsFiniteSet(Free(t)') /\ Cardinality(Free(t)') \in Nat
<1>1. Free(t)' \subseteq Workers
  BY DEF Free
<1>2. IsFiniteSet(Free(t)')
  BY <1>1, FS_Subset, WorkersAssumption
<1>. QED
  BY <1>2, FS_CardinalityType

(* Letting go of rows only adds free workers. *)
LEMMA FreeGrows ==
    ASSUME NEW t \in Tasks, Free(t) \subseteq Free(t)'
    PROVE  Cardinality(Free(t)) <= Cardinality(Free(t)')
BY FreeIsFinite, FreeIsFiniteNext, FS_Subset

(* A step that charges no row and takes none keeps the account. *)
LEMMA NoCharge ==
    ASSUME OvershootAccounted, RowType, retry_count' = retry_count,
           \A t \in Tasks : Free(t) \subseteq Free(t)'
    PROVE  OvershootAccounted'
<1>. SUFFICES ASSUME NEW t \in Tasks
              PROVE  retry_count'[t] <= MaxRetries - 1 + Cardinality(Free(t)')
  BY DEF OvershootAccounted
<1>1. Cardinality(Free(t)) <= Cardinality(Free(t)')
  BY FreeGrows
<1>2. retry_count[t] <= MaxRetries - 1 + Cardinality(Free(t))
  BY DEF OvershootAccounted
<1>. QED
  BY <1>1, <1>2, FreeIsFinite, FreeIsFiniteNext, MaxRetriesAssumption DEF RowType

(* An empty queue satisfies the invariant. *)
LEMMA InitIInv == Init => IInv
<1>. SUFFICES ASSUME Init PROVE IInv
  OBVIOUS
<1>1. RowType
  BY DEF Init, RowType, Statuses
<1>2. Recording /\ CompletedMeansRefunded
  BY DEF Init, Recording, CompletedMeansRefunded
<1>3. OvershootAccounted
  BY FreeIsFinite, MaxRetriesAssumption DEF Init, OvershootAccounted
<1>. QED
  BY <1>1, <1>2, <1>3 DEF IInv

(* The SELECT of process_pending_tasks takes only rows within their        *)
(* budget.                                                                 *)
LEMMA FetchStep ==
    ASSUME IInv, NEW w \in Workers, Fetch(w)
    PROVE  IInv'
<1>. USE DEF IInv
<1>. PICK rows \in SUBSET {t \in Tasks : Ready(t)} : batch' = [batch EXCEPT ![w] = rows]
  BY DEF Fetch
<1>1. RowType'
  BY DEF Fetch, row, RowType
<1>2. Recording' /\ CompletedMeansRefunded'
  BY DEF Fetch, row, RowType, Recording, CompletedMeansRefunded
<1>3. OvershootAccounted'
  <2>. SUFFICES ASSUME NEW t \in Tasks
                PROVE  retry_count'[t] <= MaxRetries - 1 + Cardinality(Free(t)')
    BY DEF OvershootAccounted
  <2>1. CASE t \in rows
    <3>1. retry_count'[t] < MaxRetries
      BY <2>1 DEF Ready, Fetch, row
    <3>. QED
      BY <3>1, FreeIsFiniteNext, MaxRetriesAssumption DEF Fetch, row, RowType
  <2>2. CASE t \notin rows
    <3>1. Free(t) \subseteq Free(t)'
      BY <2>2 DEF Free, RowType
    <3>2. Cardinality(Free(t)) <= Cardinality(Free(t)')
      BY <3>1, FreeGrows
    <3>. QED
      BY <3>2, FreeIsFinite, FreeIsFiniteNext, MaxRetriesAssumption DEF Fetch, row, RowType, OvershootAccounted
  <2>. QED
    BY <2>1, <2>2
<1>. QED
  BY <1>1, <1>2, <1>3

(* execute_task reports success only for a refund that landed. *)
LEMMA ExecuteStep ==
    ASSUME IInv, NEW w \in Workers, NEW t \in Tasks, execute_task(w, t)
    PROVE  IInv'
<1>. USE DEF IInv
<1>. PICK o \in Outcomes(t) :
         /\ doing' = [doing EXCEPT ![w] = [task |-> t, outcome |-> o.outcome]]
         /\ refunds' = [refunds EXCEPT ![t] = @ + o.landed]
  BY DEF execute_task
<1>1. /\ o.landed \in {0, 1}
      /\ o.outcome \in {"ok", "error", "irrecoverable"}
      /\ o.outcome = "ok" => o.landed = 1
  BY DEF Outcomes, RowType, Payloads
<1>2. RowType'
  BY <1>1 DEF execute_task, row, RowType
<1>3. Recording' /\ CompletedMeansRefunded'
  BY <1>1 DEF execute_task, row, RowType, Recording, CompletedMeansRefunded, Idle
<1>4. OvershootAccounted'
  BY NoCharge DEF execute_task, row, Free
<1>. QED
  BY <1>2, <1>3, <1>4

(* mark_as_completed charges nothing. *)
LEMMA CompletedStep ==
    ASSUME IInv, NEW w \in Workers, mark_as_completed(w)
    PROVE  IInv'
<1>. USE DEF IInv
<1>1. doing[w].task \in Tasks /\ doing[w].task \in batch[w]
  BY DEF mark_as_completed, RowType, Recording, Idle
<1>2. RowType'
  BY <1>1 DEF mark_as_completed, Finish, RowType, Statuses
<1>3. Recording'
  BY <1>1 DEF mark_as_completed, Finish, RowType, Recording
<1>4. CompletedMeansRefunded'
  BY <1>1 DEF mark_as_completed, Finish, RowType, Recording, CompletedMeansRefunded, Idle
<1>5. OvershootAccounted'
  BY NoCharge DEF mark_as_completed, Finish, Free, RowType
<1>. QED
  BY <1>2, <1>3, <1>4, <1>5

(* mark_as_failed with valid_for_retry = false charges nothing. *)
LEMMA IrrecoverableStep ==
    ASSUME IInv, NEW w \in Workers, mark_as_irrecoverable(w)
    PROVE  IInv'
<1>. USE DEF IInv
<1>1. doing[w].task \in Tasks /\ doing[w].task \in batch[w]
  BY DEF mark_as_irrecoverable, RowType, Recording, Idle
<1>2. RowType'
  BY <1>1 DEF mark_as_irrecoverable, Finish, RowType, Statuses
<1>3. Recording'
  BY <1>1 DEF mark_as_irrecoverable, Finish, RowType, Recording
<1>4. CompletedMeansRefunded'
  BY <1>1 DEF mark_as_irrecoverable, Finish, RowType, Recording, CompletedMeansRefunded, Idle
<1>5. OvershootAccounted'
  BY NoCharge DEF mark_as_irrecoverable, Finish, Free, RowType
<1>. QED
  BY <1>2, <1>3, <1>4, <1>5

(* The charge of mark_as_failed is matched by the worker that becomes free. *)
LEMMA FailedStep ==
    ASSUME IInv, NEW w \in Workers, mark_as_failed(w)
    PROVE  IInv'
<1>. USE DEF IInv
<1>. DEFINE t == doing[w].task
<1>1. t \in Tasks /\ t \in batch[w]
  BY DEF mark_as_failed, RowType, Recording, Idle
<1>2. RowType'
  BY <1>1 DEF mark_as_failed, Finish, RowType, Statuses
<1>3. Recording'
  BY <1>1 DEF mark_as_failed, Finish, RowType, Recording
<1>4. CompletedMeansRefunded'
  BY <1>1 DEF mark_as_failed, Finish, RowType, CompletedMeansRefunded
<1>5. OvershootAccounted'
  <2>. SUFFICES ASSUME NEW x \in Tasks
                PROVE  retry_count'[x] <= MaxRetries - 1 + Cardinality(Free(x)')
    BY DEF OvershootAccounted
  <2>1. CASE x = t
    <3>1. Free(x)' = Free(x) \cup {w} /\ w \notin Free(x)
      BY <1>1, <2>1 DEF mark_as_failed, Finish, Free, RowType
    <3>2. Cardinality(Free(x)') = Cardinality(Free(x)) + 1
      BY <3>1, FreeIsFinite, FS_AddElement
    <3>3. retry_count'[x] = retry_count[x] + 1
      BY <1>1, <2>1 DEF mark_as_failed, RowType
    <3>. QED
      BY <3>2, <3>3, FreeIsFinite, MaxRetriesAssumption DEF RowType, OvershootAccounted
  <2>2. CASE x # t
    <3>1. Free(x) \subseteq Free(x)'
      BY DEF mark_as_failed, Finish, Free, RowType
    <3>2. Cardinality(Free(x)) <= Cardinality(Free(x)')
      BY <3>1, FreeGrows
    <3>3. retry_count'[x] = retry_count[x]
      BY <2>2 DEF mark_as_failed, RowType
    <3>. QED
      BY <3>2, <3>3, FreeIsFinite, FreeIsFiniteNext, MaxRetriesAssumption DEF RowType, OvershootAccounted
  <2>. QED
    BY <2>1, <2>2
<1>. QED
  BY <1>2, <1>3, <1>4, <1>5

(* A batch that is dropped frees its worker and charges nothing. *)
LEMMA AbandonStep ==
    ASSUME IInv, NEW w \in Workers, Abandon(w)
    PROVE  IInv'
<1>. USE DEF IInv
<1>1. RowType' /\ Recording' /\ CompletedMeansRefunded'
  BY DEF Abandon, row, RowType, Recording, CompletedMeansRefunded
<1>2. OvershootAccounted'
  BY NoCharge DEF Abandon, row, Free, RowType
<1>. QED
  BY <1>1, <1>2

(* queue_task and the clock leave the batches and the counts alone. *)
LEMMA TaskStep ==
    ASSUME IInv, NEW t \in Tasks, queue_task(t) \/ Elapse(t)
    PROVE  IInv'
<1>. USE DEF IInv
<1>1. RowType' /\ Recording' /\ CompletedMeansRefunded'
  BY DEF queue_task, Elapse, RowType, Recording, CompletedMeansRefunded, Statuses
<1>2. OvershootAccounted'
  BY NoCharge DEF queue_task, Elapse, Free
<1>. QED
  BY <1>1, <1>2

(* The invariant is inductive: one lemma above for every action. *)
LEMMA NextIInv == IInv /\ [Next]_vars => IInv'
<1>. SUFFICES ASSUME IInv, [Next]_vars PROVE IInv'
  OBVIOUS
<1>1. CASE \E t \in Tasks : queue_task(t) \/ Elapse(t)
  BY <1>1, TaskStep
<1>2. CASE \E w \in Workers : Worker(w) \/ Abandon(w)
  BY <1>2, FetchStep, ExecuteStep, CompletedStep, FailedStep, IrrecoverableStep, AbandonStep DEF Worker
<1>3. CASE UNCHANGED vars
  BY <1>3 DEF vars, IInv, RowType, Recording, OvershootAccounted, Free, CompletedMeansRefunded
<1>. QED
  BY <1>1, <1>2, <1>3 DEF Next

(* The account of charges by mark_as_failed holds in every behaviour. *)
THEOREM Inductive == Spec => []IInv
BY InitIInv, NextIInv, PTL DEF Spec

(* However many gateway processes run process_pending_tasks, mark_as_failed *)
(* charges a row at most max_retries - 1 times plus once per process.       *)
THEOREM OvershootBounded == Spec => [](OvershootAccounted /\ RetryOvershootBounded)
<1>1. IInv => OvershootAccounted /\ RetryOvershootBounded
  <2>. SUFFICES ASSUME IInv, NEW t \in Tasks
                PROVE  retry_count[t] <= MaxRetries - 1 + Cardinality(Workers)
    BY DEF IInv, RetryOvershootBounded
  <2>1. Cardinality(Free(t)) <= Cardinality(Workers) /\ Cardinality(Workers) \in Nat
    BY WorkersAssumption, FS_Subset, FS_CardinalityType DEF Free
  <2>. QED
    BY <2>1, FreeIsFinite, MaxRetriesAssumption DEF IInv, RowType, OvershootAccounted
<1>. QED
  BY <1>1, Inductive, PTL

(* A row that mark_as_completed has closed has its refund on chain.        *)
THEOREM CompletedRefunded == Spec => []CompletedMeansRefunded
<1>1. IInv => CompletedMeansRefunded
  BY DEF IInv
<1>. QED
  BY <1>1, Inductive, PTL
=============================================================================
