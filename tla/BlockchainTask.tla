--------------------------- MODULE BlockchainTask ---------------------------
(***************************************************************************)
(* The blockchain retry queue: table blockchain_tasks, queue_task, and the *)
(* worker that every gateway process runs (process_pending_tasks, once     *)
(* every ten seconds).                                                     *)
(*                                                                         *)
(* The SELECT ... FOR UPDATE SKIP LOCKED runs on the pool, outside a       *)
(* transaction: its row locks are gone when it returns, and no row is      *)
(* marked as taken.  A worker therefore works on a copy of the rows, and   *)
(* two workers may hold the same row.                                      *)
(***************************************************************************)
EXTENDS Integers, FiniteSets

CONSTANTS
    Tasks,          \* the rows that may ever be queued
    Workers,        \* the gateway processes that run the worker loop
    MaxRetries,     \* column max_retries (default 5)
    BatchLimit,     \* LIMIT of the SELECT (10)
    MaxAborts       \* bound: how often a batch is abandoned in one behaviour

ASSUME MaxRetriesAssumption == MaxRetries \in Nat \ {0}
ASSUME BatchLimitAssumption == BatchLimit \in Nat \ {0}
ASSUME MaxAbortsAssumption == MaxAborts \in Nat
ASSUME WorkersAssumption == IsFiniteSet(Workers) /\ Workers # {}

VARIABLES
    status,         \* column status; "absent" before the INSERT
    payload,        \* "refund" | "unsupported" | "malformed"
    retry_count,    \* column retry_count
    wait,           \* seconds from the last write to next_retry_at, 0 once due
    batch,          \* per worker: rows fetched and not yet marked
    doing,          \* per worker: what it must record, or Idle
    refunds,        \* on-chain refunds that landed, per task
    attempts,       \* calls of execute_task, per task
    aborts          \* how many batches were abandoned

row == <<status, payload, retry_count, wait>>
vars == <<status, payload, retry_count, wait, batch, doing, refunds, attempts, aborts>>

Idle == [task |-> "none", outcome |-> "none"]

Payloads == {"refund", "unsupported", "malformed"}

Statuses == {"absent", "pending", "completed", "failed", "max_retries"}

Init ==
    /\ status = [t \in Tasks |-> "absent"]
    /\ payload \in [Tasks -> Payloads]
    /\ retry_count = [t \in Tasks |-> 0]
    /\ wait = [t \in Tasks |-> 0]
    /\ batch = [w \in Workers |-> {}]
    /\ doing = [w \in Workers |-> Idle]
    /\ refunds = [t \in Tasks |-> 0]
    /\ attempts = [t \in Tasks |-> 0]
    /\ aborts = 0

-----------------------------------------------------------------------------

queue_task(t) ==
    /\ status[t] = "absent"
    /\ status' = [status EXCEPT ![t] = "pending"]
    /\ UNCHANGED <<payload, retry_count, wait, batch, doing, refunds, attempts, aborts>>

(* A mutant: the guard on retry_count is forgotten. *)
ReadyIgnoresBudget(t) == status[t] \in {"pending", "failed", "max_retries"} /\ wait[t] = 0

(* A mutant: finished rows are fetched again. *)
ReadyIgnoresStatus(t) == status[t] # "absent" /\ wait[t] = 0 /\ retry_count[t] < MaxRetries

(* A mutant: off by one, the last attempt is never made. *)
ReadyOneShort(t) == status[t] \in {"pending", "failed"} /\ wait[t] = 0 /\ retry_count[t] < MaxRetries - 1

(* The WHERE clause of the worker's SELECT. *)
Ready(t) ==
    /\ status[t] \in {"pending", "failed"}
    /\ wait[t] = 0
    /\ retry_count[t] < MaxRetries

(* One SELECT.  Rows beyond the LIMIT stay behind; which ones depends on   *)
(* next_retry_at, which the model does not order.                          *)
Fetch(w) ==
    /\ batch[w] = {}
    /\ LET ready == {t \in Tasks : Ready(t)} IN
       \E rows \in SUBSET ready :
          /\ rows # {}
          /\ \/ rows = ready /\ Cardinality(ready) <= BatchLimit
             \/ Cardinality(rows) = BatchLimit
          /\ batch' = [batch EXCEPT ![w] = rows]
    /\ UNCHANGED <<row, doing, refunds, attempts, aborts>>

(* A mutant: an answer that never came counts as success. *)
OutcomesOptimistic(t) == {[landed |-> l, outcome |-> "ok"] : l \in {0, 1}}

(* What execute_task and the parse before it can return.  A refund may     *)
(* land on chain and still be reported as an error.                        *)
Outcomes(t) ==
    CASE payload[t] = "malformed"   -> {[landed |-> 0, outcome |-> "irrecoverable"]}
      [] payload[t] = "unsupported" -> {[landed |-> 0, outcome |-> "error"]}
      [] payload[t] = "refund"      -> {[landed |-> 1, outcome |-> "ok"],
                                        [landed |-> 1, outcome |-> "error"],
                                        [landed |-> 0, outcome |-> "error"]}

execute_task(w, t) ==
    /\ doing[w] = Idle
    /\ t \in batch[w]
    /\ \E o \in Outcomes(t) :
          /\ doing' = [doing EXCEPT ![w] = [task |-> t, outcome |-> o.outcome]]
          /\ refunds' = [refunds EXCEPT ![t] = @ + o.landed]
    /\ attempts' = [attempts EXCEPT ![t] = @ + (IF payload[t] = "malformed" THEN 0 ELSE 1)]
    /\ UNCHANGED <<row, batch, aborts>>

Finish(w, t) ==
    /\ batch' = [batch EXCEPT ![w] = @ \ {t}]
    /\ doing' = [doing EXCEPT ![w] = Idle]
    /\ UNCHANGED <<payload, refunds, attempts, aborts>>

mark_as_completed(w) ==
    /\ doing[w].outcome = "ok"
    /\ LET t == doing[w].task IN
          /\ status' = [status EXCEPT ![t] = "completed"]
          /\ Finish(w, t)
    /\ UNCHANGED <<retry_count, wait>>

(* POWER(5, retry_count), with the value the row has before this UPDATE. *)
Backoff(n) == 5 ^ n

(* A mutant: the budget is checked against the old count. *)
mark_as_failed_late(w) ==
    /\ doing[w].outcome = "error"
    /\ LET t == doing[w].task IN
          /\ status' = [status EXCEPT ![t] = IF retry_count[t] >= MaxRetries THEN "max_retries" ELSE "failed"]
          /\ retry_count' = [retry_count EXCEPT ![t] = @ + 1]
          /\ wait' = [wait EXCEPT ![t] = Backoff(retry_count[t])]
          /\ Finish(w, t)

(* A mutant: a failed attempt is not charged to the row. *)
mark_as_failed_uncharged(w) ==
    /\ doing[w].outcome = "error"
    /\ LET t == doing[w].task IN
          /\ status' = [status EXCEPT ![t] = "failed"]
          /\ wait' = [wait EXCEPT ![t] = Backoff(retry_count[t])]
          /\ Finish(w, t)
    /\ UNCHANGED retry_count

mark_as_failed(w) ==
    /\ doing[w].outcome = "error"
    /\ LET t == doing[w].task IN
          /\ status' = [status EXCEPT ![t] = IF retry_count[t] + 1 >= MaxRetries THEN "max_retries" ELSE "failed"]
          /\ retry_count' = [retry_count EXCEPT ![t] = @ + 1]
          /\ wait' = [wait EXCEPT ![t] = Backoff(retry_count[t])]
          /\ Finish(w, t)

(* A mutant: a status no query of the queue knows. *)
mark_as_irrecoverable_renamed(w) ==
    /\ doing[w].outcome = "irrecoverable"
    /\ LET t == doing[w].task IN
          /\ status' = [status EXCEPT ![t] = "irrecoverable"]
          /\ Finish(w, t)
    /\ UNCHANGED <<retry_count, wait>>

(* valid_for_retry = false: the row is closed and not charged. *)
mark_as_irrecoverable(w) ==
    /\ doing[w].outcome = "irrecoverable"
    /\ LET t == doing[w].task IN
          /\ status' = [status EXCEPT ![t] = "max_retries"]
          /\ Finish(w, t)
    /\ UNCHANGED <<retry_count, wait>>

(* The "?" after a mark that the database refuses drops the rest of the    *)
(* batch; so does a restart of the process.  No row is written.            *)
Abandon(w) ==
    /\ batch[w] # {}
    /\ aborts < MaxAborts
    /\ batch' = [batch EXCEPT ![w] = {}]
    /\ doing' = [doing EXCEPT ![w] = Idle]
    /\ aborts' = aborts + 1
    /\ UNCHANGED <<row, refunds, attempts>>

(* The clock reaches next_retry_at. *)
Elapse(t) ==
    /\ wait[t] > 0
    /\ wait' = [wait EXCEPT ![t] = 0]
    /\ UNCHANGED <<status, payload, retry_count, batch, doing, refunds, attempts, aborts>>

Worker(w) ==
    \/ Fetch(w)
    \/ \E t \in Tasks : execute_task(w, t)
    \/ mark_as_completed(w)
    \/ mark_as_failed(w)
    \/ mark_as_irrecoverable(w)

Next ==
    \/ \E t \in Tasks : queue_task(t) \/ Elapse(t)
    \/ \E w \in Workers : Worker(w) \/ Abandon(w)

Spec == Init /\ [][Next]_vars

(* The worker loop never stops and time passes; nothing forces a task to   *)
(* be queued or a batch to be abandoned.                                   *)
Fairness ==
    /\ \A w \in Workers : WF_vars(Worker(w))
    /\ \A t \in Tasks : WF_vars(Elapse(t))

FairSpec == Spec /\ Fairness

-----------------------------------------------------------------------------

TypeOK ==
    /\ status \in [Tasks -> Statuses]
    /\ payload \in [Tasks -> Payloads]
    /\ retry_count \in [Tasks -> Nat]
    /\ wait \in [Tasks -> Nat]
    /\ batch \in [Workers -> SUBSET Tasks]
    /\ doing \in [Workers -> {Idle} \cup [task : Tasks, outcome : {"ok", "error", "irrecoverable"}]]
    /\ refunds \in [Tasks -> Nat]
    /\ attempts \in [Tasks -> Nat]
    /\ aborts \in Nat

(* Workers that do not hold a copy of row t. *)
Free(t) == {w \in Workers : t \notin batch[w]}

(* The overshoot of the retry budget: process_pending_tasks only fetches   *)
(* rows with retry_count < max_retries, but each worker that fetched the   *)
(* row before it was closed still charges it once.  With one worker the    *)
(* budget is exact; with n it is exceeded by at most n - 1.                *)
RetryOvershootBounded ==
    \A t \in Tasks : retry_count[t] <= MaxRetries - 1 + Cardinality(Workers)

(* Why the overshoot is bounded: every charge above max_retries - 1 came   *)
(* from a worker that has let go of the row and cannot fetch it again.     *)
OvershootAccounted ==
    \A t \in Tasks : retry_count[t] <= MaxRetries - 1 + Cardinality(Free(t))

(* mark_as_completed is reached only through an executed refund: whatever  *)
(* the workers, the restarts and the lost answers, a row that says         *)
(* 'completed' has its refund on chain.                                    *)
CompletedMeansRefunded ==
    \A t \in Tasks : status[t] = "completed" => refunds[t] >= 1

(* The on-chain calls one row can cause: execute_task runs at most         *)
(* max_retries times for a row, plus once for every batch that was         *)
(* abandoned before its outcome was recorded.                              *)
AttemptsBounded ==
    \A t \in Tasks : attempts[t] <= MaxRetries + aborts

(* With one worker the queue is the bounded retry life cycle: a row ends   *)
(* once, stays ended, and is charged at most max_retries times.            *)
Phase(s) ==
    CASE s = "absent" -> "absent"
      [] s = "completed" -> "done"
      [] s = "max_retries" -> "dead"
      [] OTHER -> "open"

Lifecycle == INSTANCE TaskLifecycle WITH
    phase <- [t \in Tasks |-> Phase(status[t])],
    fails <- retry_count

ImplementsLifecycle == Lifecycle!Spec

(* Every queued row is eventually completed or given up: failing rows are  *)
(* pushed into the future by next_retry_at and run out of budget, so they  *)
(* cannot starve the others behind the LIMIT.                              *)
QueuedEventuallyEnds ==
    \A t \in Tasks : status[t] = "pending" ~> status[t] \in {"completed", "max_retries"}
=============================================================================
