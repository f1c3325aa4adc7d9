--------------------------- MODULE TaskLifecycle ---------------------------
(***************************************************************************)
(* What the retry queue promises for one table of tasks, with no worker,   *)
(* batch or clock in sight: a task is submitted once, fails a bounded      *)
(* number of times, and ends exactly once, done or given up.               *)
(***************************************************************************)
EXTENDS Naturals

CONSTANTS
    Tasks,          \* the rows of blockchain_tasks
    MaxRetries      \* blockchain_tasks.max_retries

VARIABLES
    phase,          \* "absent" | "open" | "done" | "dead"
    fails           \* how many failures have been charged to the task

vars == <<phase, fails>>

Init ==
    /\ phase = [t \in Tasks |-> "absent"]
    /\ fails = [t \in Tasks |-> 0]

Submit(t) ==
    /\ phase[t] = "absent"
    /\ phase' = [phase EXCEPT ![t] = "open"]
    /\ UNCHANGED fails

Succeed(t) ==
    /\ phase[t] = "open"
    /\ phase' = [phase EXCEPT ![t] = "done"]
    /\ UNCHANGED fails

(* A failure below the budget leaves the task open; the failure that       *)
(* exhausts the budget closes it.                                          *)
Fail(t) ==
    /\ phase[t] = "open"
    /\ fails[t] < MaxRetries
    /\ fails' = [fails EXCEPT ![t] = @ + 1]
    /\ phase' = [phase EXCEPT ![t] = IF fails[t] + 1 >= MaxRetries THEN "dead" ELSE "open"]

(* A task nobody can execute is closed without being charged. *)
Reject(t) ==
    /\ phase[t] = "open"
    /\ phase' = [phase EXCEPT ![t] = "dead"]
    /\ UNCHANGED fails

Next == \E t \in Tasks : Submit(t) \/ Succeed(t) \/ Fail(t) \/ Reject(t)

Spec == Init /\ [][Next]_vars
=============================================================================
