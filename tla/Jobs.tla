-------------------------------- MODULE Jobs --------------------------------
(***************************************************************************)
(* The thread pool of src/ccode/job.c.  The caller's thread adds jobs and  *)
(* calls jobs_run, which creates `parallel` worker threads and joins them  *)
(* one after the other.  Worker `id` runs the jobs id, id + parallel,      *)
(* id + 2 * parallel, ...: the workers share no queue and take no lock, so *)
(* the stride alone keeps two of them off the same job.  They do share     *)
(* j->finished, which each increments with an unprotected read and write.  *)
(***************************************************************************)
EXTENDS Integers, FiniteSets

CONSTANTS
  MaxJob,      \* MAX_JOB, the capacity of the job table
  Settings,    \* what atoi(get_value("jobs")) may give
  NProcs,      \* get_nprocs_conf()
  MaxOffer     \* bound: how many times the caller calls jobs_add

ASSUME JobsAssumption ==
  /\ MaxJob \in Nat
  /\ Settings \subseteq Int
  /\ NProcs \in Nat \ {0}
  /\ MaxOffer \in Nat

Job == 0 .. MaxJob - 1

VARIABLES
  parallel,    \* j->parallel
  offered,     \* calls of jobs_add made by the caller
  total,       \* j->total
  finished,    \* j->finished
  mpc, mi,     \* caller's thread: where it is, and the loop counter of jobs_run
  wpc,         \* each worker: where it is,
  wi,          \*   its loop counter i,
  wreg,        \*   and the value of j->finished it has loaded
  calls,       \* history: times the callback of each job was entered
  returns      \* history: times it came back

vars == <<parallel, offered, total, finished, mpc, mi, wpc, wi, wreg, calls, returns>>

Worker == 0 .. parallel - 1

----------------------------------------------------------------------------
(* jobs_new: a "jobs" value below 1 means one worker per processor.        *)
Parallel(setting) == IF setting < 1 THEN NProcs ELSE setting

Init ==
  /\ parallel \in { Parallel(s) : s \in Settings }
  /\ offered = 0
  /\ total = 0
  /\ finished = 0
  /\ mpc = "add" /\ mi = 0
  /\ wpc = [w \in Worker |-> "none"]
  /\ wi = [w \in Worker |-> 0]
  /\ wreg = [w \in Worker |-> 0]
  /\ calls = [j \in Job |-> 0]
  /\ returns = [j \in Job |-> 0]

TableHasRoomByOne == total <= MaxJob
TableHasRoom == total < MaxJob

(* jobs_add: a full table drops the job and tells nobody.                  *)
jobs_add ==
  /\ mpc = "add"
  /\ offered < MaxOffer
  /\ offered' = offered + 1
  /\ total' = IF TableHasRoom THEN total + 1 ELSE total
  /\ UNCHANGED <<parallel, finished, mpc, mi, wpc, wi, wreg, calls, returns>>

(* The first loop of jobs_run, `for (i = 0; ...)`.  A created worker runs  *)
(* at once, beside the rest of the loop, and starts at its own id.         *)
CreateLoopStartAtOne == 1
CreateLoopStart == 0

(* The caller has no more jobs and calls jobs_run.                         *)
jobs_run ==
  /\ mpc = "add"
  /\ mpc' = "create" /\ mi' = CreateLoopStart
  /\ UNCHANGED <<parallel, offered, total, finished, wpc, wi, wreg, calls, returns>>

CreateWorker ==
  /\ mpc = "create" /\ mi < parallel
  /\ wpc' = [wpc EXCEPT ![mi] = "loop"]
  /\ wi' = [wi EXCEPT ![mi] = mi]
  /\ mi' = mi + 1
  /\ UNCHANGED <<parallel, offered, total, finished, mpc, wreg, calls, returns>>

Created ==
  /\ mpc = "create" /\ mi = parallel
  /\ mpc' = "join" /\ mi' = 0
  /\ UNCHANGED <<parallel, offered, total, finished, wpc, wi, wreg, calls, returns>>

(* The second loop: pthread_join(threads[i]) comes back once worker i has  *)
(* left worker_thread.                                                     *)
JoinBoundShort == parallel - 1
JoinBound == parallel

JoinWorker ==
  /\ mpc = "join" /\ mi < JoinBound
  /\ wpc[mi] = "exit"
  /\ mi' = mi + 1
  /\ UNCHANGED <<parallel, offered, total, finished, mpc, wpc, wi, wreg, calls, returns>>

Joined ==
  /\ mpc = "join" /\ mi = JoinBound
  /\ mpc' = "done"
  /\ UNCHANGED <<parallel, offered, total, finished, mi, wpc, wi, wreg, calls, returns>>

----------------------------------------------------------------------------
(* worker_thread: test the loop's condition, and enter the callback.       *)
Enter(w) ==
  /\ wpc[w] = "loop" /\ wi[w] < total
  /\ wpc' = [wpc EXCEPT ![w] = "call"]
  /\ calls' = [calls EXCEPT ![wi[w]] = @ + 1]
  /\ UNCHANGED <<parallel, offered, total, finished, mpc, mi, wi, wreg, returns>>

Leave(w) ==
  /\ wpc[w] = "loop" /\ wi[w] >= total
  /\ wpc' = [wpc EXCEPT ![w] = "exit"]
  /\ UNCHANGED <<parallel, offered, total, finished, mpc, mi, wi, wreg, calls, returns>>

CallReturns(w) ==
  /\ wpc[w] = "call"
  /\ returns' = [returns EXCEPT ![wi[w]] = @ + 1]
  /\ wpc' = [wpc EXCEPT ![w] = "load"]
  /\ UNCHANGED <<parallel, offered, total, finished, mpc, mi, wi, wreg, calls>>

(* j->finished++ is a load and a store; another worker may come between.   *)
Load(w) ==
  /\ wpc[w] = "load"
  /\ wreg' = [wreg EXCEPT ![w] = finished]
  /\ wpc' = [wpc EXCEPT ![w] = "store"]
  /\ UNCHANGED <<parallel, offered, total, finished, mpc, mi, wi, calls, returns>>

(* i += j->parallel: the step that keeps worker w on the jobs that are     *)
(* congruent to w.                                                         *)
StrideShort == IF parallel > 1 THEN parallel - 1 ELSE 1
Stride == parallel

Store(w) ==
  /\ wpc[w] = "store"
  /\ finished' = wreg[w] + 1
  /\ wi' = [wi EXCEPT ![w] = @ + Stride]
  /\ wpc' = [wpc EXCEPT ![w] = "loop"]
  /\ UNCHANGED <<parallel, offered, total, mpc, mi, wreg, calls, returns>>

WorkerStep(w) == Enter(w) \/ Leave(w) \/ CallReturns(w) \/ Load(w) \/ Store(w)

CallerStep == jobs_run \/ CreateWorker \/ Created \/ JoinWorker \/ Joined

(* The caller goes on with its own work; the pool is not run again.        *)
Returned == mpc = "done" /\ UNCHANGED vars

Next == jobs_add \/ CallerStep \/ Returned \/ \E w \in Worker : WorkerStep(w)

Spec == Init /\ [][Next]_vars

(* Every id a worker can have, whatever the setting.                       *)
WorkerId == UNION { 0 .. Parallel(s) - 1 : s \in Settings }

(* A thread that can go on is scheduled again, and a callback that is      *)
(* entered comes back.  Nobody has to add a job.                           *)
FairSpec ==
  /\ Spec
  /\ WF_vars(CallerStep)
  /\ \A w \in WorkerId : WF_vars(w \in Worker /\ WorkerStep(w))

----------------------------------------------------------------------------
TypeOK ==
  /\ parallel \in Nat \ {0}
  /\ offered \in 0 .. MaxOffer
  /\ total \in Nat /\ total <= MaxJob
  /\ finished \in Nat
  /\ mpc \in {"add", "create", "join", "done"}
  /\ mi \in 0 .. parallel
  /\ wpc \in [Worker -> {"none", "loop", "call", "load", "store", "exit"}]
  /\ wi \in [Worker -> Nat]
  /\ wreg \in [Worker -> Nat]
  /\ calls \in [Job -> Nat]
  /\ returns \in [Job -> Nat]

(* No job is entered twice, whatever the number of workers and however     *)
(* their steps interleave: the strides of two workers never meet.          *)
AtMostOnce == \A j \in Job : returns[j] <= calls[j] /\ calls[j] <= 1

(* When jobs_run has returned every accepted job has come back and no      *)
(* worker is still inside a callback: the caller may read what the jobs    *)
(* wrote (get_has_error, the leftover list) without a lock.                *)
RunIsBarrier ==
  mpc = "done" =>
    /\ \A j \in Job : j < total => returns[j] = 1
    /\ \A w \in Worker : wpc[w] = "exit"

(* The inductive strengthening of AtMostOnce and RunIsBarrier: calls and   *)
(* returns are functions of where the one worker that owns a job is.       *)
Owner(j) == j % parallel

HasEntered(w, j) ==
  /\ wpc[w] # "none"
  /\ j < wi[w] \/ (j = wi[w] /\ wpc[w] \in {"call", "load", "store"})

HasLeft(w, j) ==
  /\ wpc[w] # "none"
  /\ j < wi[w] \/ (j = wi[w] /\ wpc[w] \in {"load", "store"})

OwnerRuns ==
  \A j \in Job :
    /\ calls[j] = IF j < total /\ HasEntered(Owner(j), j) THEN 1 ELSE 0
    /\ returns[j] = IF j < total /\ HasLeft(Owner(j), j) THEN 1 ELSE 0

OnStride == \A w \in Worker : wpc[w] # "none" => wi[w] % parallel = w

InTable ==
  \A w \in Worker :
    /\ wpc[w] \in {"call", "load", "store"} => wi[w] < total
    /\ wpc[w] = "exit" => wi[w] >= total

CallerKnows ==
  \A w \in Worker :
    /\ mpc = "add" => wpc[w] = "none"
    /\ mpc = "create" /\ w >= mi => wpc[w] = "none"
    /\ mpc = "join" /\ w < mi => wpc[w] = "exit"
    /\ mpc = "done" => wpc[w] = "exit"

IInv == TypeOK /\ OwnerRuns /\ OnStride /\ InTable /\ CallerKnows

(* Every jobs_run comes back.                                              *)
RunReturns == (mpc = "create") ~> (mpc = "done")

(* The pool as its callers see it: every step of the threads is a step of  *)
(* JobPool or changes nothing the caller can see.                          *)
Pool == INSTANCE JobPool WITH
  running <- mpc \in {"create", "join"},
  returned <- mpc = "done"

ImplementsPool == Pool!Spec
=============================================================================
