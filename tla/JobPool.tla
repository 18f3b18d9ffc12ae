------------------------------ MODULE JobPool ------------------------------
(***************************************************************************)
(* What the job pool of src/ccode/job.c promises to the Vala code that     *)
(* calls it (package downloads, extraction, quarantine validation, leftover*)
(* calculation, removal): a caller offers jobs, runs the pool, and when    *)
(* the call returns every accepted job has run exactly once.  Nothing is   *)
(* promised about the order in which jobs start or end.                    *)
(***************************************************************************)
EXTENDS Naturals

CONSTANT MaxJob      \* MAX_JOB: how many jobs a pool can hold

Job == 0 .. MaxJob - 1

VARIABLES
  total,             \* jobs accepted so far; they are 0 .. total - 1
  calls,             \* how often the callback of each job was entered
  returns,           \* how often it came back
  running,           \* the caller is inside the pool's run
  returned           \* the run has returned

vars == <<total, calls, returns, running, returned>>

Init ==
  /\ total = 0
  /\ calls = [j \in Job |-> 0]
  /\ returns = [j \in Job |-> 0]
  /\ running = FALSE
  /\ returned = FALSE

(* A job offered to a full pool is dropped: that is a stuttering step.     *)
Accept ==
  /\ ~running /\ ~returned
  /\ total < MaxJob
  /\ total' = total + 1
  /\ UNCHANGED <<calls, returns, running, returned>>

Run ==
  /\ ~running /\ ~returned
  /\ running' = TRUE
  /\ UNCHANGED <<total, calls, returns, returned>>

(* A job is entered only if it was never entered before.                   *)
Begin(j) ==
  /\ running
  /\ j < total
  /\ calls[j] = 0
  /\ calls' = [calls EXCEPT ![j] = 1]
  /\ UNCHANGED <<total, returns, running, returned>>

End(j) ==
  /\ running
  /\ calls[j] = 1 /\ returns[j] = 0
  /\ returns' = [returns EXCEPT ![j] = 1]
  /\ UNCHANGED <<total, calls, running, returned>>

(* The run returns only when every accepted job has come back.             *)
Return ==
  /\ running
  /\ \A j \in Job : j < total => returns[j] = 1
  /\ running' = FALSE
  /\ returned' = TRUE
  /\ UNCHANGED <<total, calls, returns>>

Next == Accept \/ Run \/ Return \/ \E j \in Job : Begin(j) \/ End(j)

Spec == Init /\ [][Next]_vars
=============================================================================
