----------------------------- MODULE JobsProofs -----------------------------
(***************************************************************************)
(* Theorems about Jobs for every table size, setting, number of processors *)
(* and number of offered jobs: the strided workers of job.c run each       *)
(* accepted job exactly once before jobs_run returns, and the threads      *)
(* implement JobPool.                                                      *)
(***************************************************************************)
EXTENDS Jobs, TLAPS

----------------------------------------------------------------------------
(* Arithmetic of the stride.                                               *)

(* A remainder of p is an id below p.                                      *)
LEMMA ModRange ==
  ASSUME NEW p \in Nat \ {0}, NEW a \in Nat
  PROVE  a % p \in 0 .. p - 1
  BY SMT

(* An id below p is its own remainder.                                     *)
LEMMA ModSmall ==
  ASSUME NEW p \in Nat \ {0}, NEW a \in 0 .. p - 1
  PROVE  a % p = a
  BY SMT

(* Quotient and remainder.                                                 *)
LEMMA DivMod ==
  ASSUME NEW p \in Nat \ {0}, NEW a \in Nat
  PROVE  /\ a \div p \in Int
         /\ a = (p * (a \div p)) + (a % p)
  BY SMT

(* Multiples of p are at least p apart.                                    *)
LEMMA Gap ==
  ASSUME NEW p \in Nat \ {0}, NEW x \in Int, NEW y \in Int, x < y
  PROVE  (p * x) + p <= p * y
  BY SMT

(* Remainders are unique.                                                  *)
LEMMA Unique ==
  ASSUME NEW p \in Nat \ {0}, NEW x \in Int, NEW y \in Int,
         NEW r \in 0 .. p - 1, NEW s \in 0 .. p - 1,
         (p * x) + r = (p * y) + s
  PROVE  r = s
<1>1. CASE x < y
  BY <1>1, (p * x) + p <= p * y, Gap, SMT
<1>2. CASE y < x
  BY <1>2, (p * y) + p <= p * x, Gap, SMT
<1>3. CASE y = x
  BY <1>3, SMT
<1> QED
  BY <1>1, <1>2, <1>3

(* A stride of p keeps the remainder.                                      *)
LEMMA ModAdd == ASSUME NEW p \in Nat \ {0}, NEW a \in Nat PROVE (a+p) % p = a % p
<1>1. (p * (a \div p)) + p = p * ((a \div p) + 1) BY DivMod, SMT
<1>2. /\ a+p = (p * ((a+p) \div p)) + ((a+p) % p) /\ (a+p) \div p \in Int BY DivMod, a+p \in Nat
<1>3. /\ a = (p * (a \div p)) + (a % p) /\ a \div p \in Int  BY DivMod
<1>5. /\ a % p \in 0..p-1 /\ (a+p)%p \in 0..p-1 BY ModRange, a+p \in Nat
<1> DEFINE x == p * (a \div p)
           y == p * ((a \div p)+1)
           z == p * ((a+p) \div p)
<1>6. x \in Int /\ y \in Int /\ z \in Int BY <1>2, <1>3
<1>4. y + (a % p) = z + ((a+p) % p)
  <2> HIDE DEF x, y, z
  <2>1. x + p = y BY <1>1 DEF x, y
  <2>2. a = x + (a%p) BY <1>3 DEF x
  <2>3. a+p = z + ((a+p) % p) BY <1>2 DEF z
  <2> DEFINE r == a % p
             s == (a+p) %p
  <2>4. r \in Int /\ s \in Int BY <1>5
  <2> HIDE DEF r, s
  <2>5. a = x + r /\ a + p = z + s BY <2>2, <2>3 DEF r, s
  <2>6. y + r = z + s BY <2>1, <2>5, <2>4, <1>6
  <2> QED BY <2>6 DEF r, s
<1> DEFINE m == (a \div p)+1
           n == (a+p) \div p
           r == a % p
           s == (a+p) % p
<1>7. m \in Int /\ n \in Int /\ r \in 0..p-1 /\ s \in 0..p-1 BY <1>2, <1>3, <1>5
<1>8. (p * m) + r = (p * n) + s BY <1>4
<1> HIDE DEF m, n, r, s
<1>9. r = s BY <1>7, <1>8, Unique
<1> QED BY <1>9 DEF r, s

(* Two indexes of one worker are at least p apart.                         *)
LEMMA ModGap == ASSUME NEW p \in Nat \ {0}, NEW a \in Nat, NEW b \in Nat, a % p = b % p, a < b PROVE a + p <= b
<1> DEFINE x == a \div p
           y == b \div p
           r == a % p
<1>1. /\ a = (p * x) + r /\ x \in Int  /\ b = (p * y) + r /\ y \in Int BY DivMod
<1>2. r \in Nat BY ModRange
<1> HIDE DEF x, y, r
<1>3. x < y BY <1>1, <1>2, a < b, Gap, SMT
<1>4. (p*x) + p <= p*y BY <1>3, <1>1, Gap
<1> QED BY <1>1, <1>2, <1>4

----------------------------------------------------------------------------
(* The owner of a job is a worker.                                         *)
LEMMA OwnerIsWorker ==
  ASSUME TypeOK, NEW j \in Job
  PROVE  Owner(j) \in Worker /\ j \in Nat
  BY ModRange, SMT DEF TypeOK, Owner, Worker, Job

(* The initial states.                                                     *)
LEMMA InitIInv == JobsAssumption /\ Init => IInv
<1> SUFFICES ASSUME JobsAssumption, Init PROVE IInv
  OBVIOUS
<1>1. parallel \in Nat \ {0}
  BY DEF Init, Parallel, JobsAssumption
<1>2. TypeOK
  BY <1>1, SMT DEF Init, TypeOK, JobsAssumption, Worker
<1>3. OwnerRuns
  BY SMT DEF Init, OwnerRuns, JobsAssumption, Job
<1>4. OnStride /\ InTable /\ CallerKnows
  BY <1>1, SMT DEF Init, OnStride, InTable, CallerKnows, Worker
<1> QED
  BY <1>2, <1>3, <1>4 DEF IInv

(* The number of workers is fixed when the pool is made.                   *)
LEMMA WorkersFixed ==
  ASSUME [Next]_vars
  PROVE  parallel' = parallel /\ Worker' = Worker
<1>1. parallel' = parallel
  BY Zenon DEF Next, CallerStep, jobs_add, jobs_run, CreateWorker, Created, JoinWorker,
    Joined, Returned, WorkerStep, Enter, Leave, CallReturns, Load, Store, vars
<1> QED
  BY <1>1 DEF Worker

(* Every step keeps the types, given where the caller and the workers are. *)
LEMMA NextTypeOK ==
  ASSUME JobsAssumption, TypeOK, InTable, [Next]_vars
  PROVE  TypeOK'
<1>0. parallel' = parallel /\ Worker' = Worker
  BY WorkersFixed
<1> USE <1>0 DEF TypeOK
<1>1. CASE jobs_add
  BY <1>1, SMT DEF jobs_add, TableHasRoom, JobsAssumption
<1>2. CASE jobs_run
  BY <1>2, SMT DEF jobs_run, CreateLoopStart
<1>3. CASE CreateWorker
  <2>1. mi \in Worker
    BY <1>3, SMT DEF CreateWorker, Worker
  <2> QED
    BY <1>3, <2>1, SMT DEF CreateWorker
<1>4. CASE Created
  BY <1>4, SMT DEF Created
<1>5. CASE JoinWorker
  BY <1>5, SMT DEF JoinWorker, JoinBound
<1>6. CASE Joined
  BY <1>6, SMT DEF Joined, JoinBound
<1>7. ASSUME NEW w \in Worker, WorkerStep(w) PROVE TypeOK'
  <2>1. CASE Enter(w)
    <3>1. wi[w] \in Job /\ calls[wi[w]] + 1 \in Nat
      BY <2>1, SMTT(30) DEF Enter, Job, Worker
    <3> QED
      BY <2>1, <3>1, SMT DEF Enter
  <2>2. CASE Leave(w)
    BY <2>2, SMT DEF Leave
  <2>3. CASE CallReturns(w)
    <3>1. wi[w] \in Job /\ returns[wi[w]] + 1 \in Nat
      BY <2>3, SMT DEF CallReturns, InTable, Job
    <3> QED
      BY <2>3, <3>1, SMT DEF CallReturns
  <2>4. CASE Load(w)
    BY <2>4, SMT DEF Load
  <2>5. CASE Store(w)
    BY <2>5, SMT DEF Store, Stride
  <2> QED
    BY <1>7, <2>1, <2>2, <2>3, <2>4, <2>5 DEF WorkerStep
<1>8. CASE UNCHANGED vars
  BY <1>8, SMT DEF vars
<1>9. CASE Returned
  BY <1>8, <1>9 DEF Returned
<1> QED
  BY <1>1, <1>2, <1>3, <1>4, <1>5, <1>6, <1>7, <1>8, <1>9 DEF Next, CallerStep

(* The facts about job j that the invariant gives, with its owner named.   *)
LEMMA JobFacts ==
  ASSUME IInv, NEW j \in Job
  PROVE  /\ Owner(j) \in Worker /\ j \in Nat
         /\ calls[j] = IF j < total /\ HasEntered(Owner(j), j) THEN 1 ELSE 0
         /\ returns[j] = IF j < total /\ HasLeft(Owner(j), j) THEN 1 ELSE 0
  BY OwnerIsWorker DEF IInv, OwnerRuns

(* Steps of the caller keep the bookkeeping of who has run what.           *)
LEMMA CallerOwnerRuns ==
  ASSUME JobsAssumption, IInv, jobs_add \/ CallerStep
  PROVE  OwnerRuns'
<1> SUFFICES ASSUME NEW j \in Job
             PROVE  /\ calls'[j] = IF j < total' /\ HasEntered(Owner(j), j)' THEN 1 ELSE 0
                    /\ returns'[j] = IF j < total' /\ HasLeft(Owner(j), j)' THEN 1 ELSE 0
  BY DEF OwnerRuns
<1>1. /\ Owner(j) \in Worker /\ j \in Nat
      /\ calls[j] = IF j < total /\ HasEntered(Owner(j), j) THEN 1 ELSE 0
      /\ returns[j] = IF j < total /\ HasLeft(Owner(j), j) THEN 1 ELSE 0
  BY JobFacts
<1>2. CASE jobs_add
  <2>1. wpc[Owner(j)] = "none" /\ wpc' = wpc /\ Owner(j)' = Owner(j)
    BY <1>1, <1>2 DEF jobs_add, IInv, CallerKnows, Owner
  <2>2. calls' = calls /\ returns' = returns
    BY <1>2 DEF jobs_add
  <2> QED
    BY <1>1, <2>1, <2>2 DEF HasEntered, HasLeft
<1>3. CASE CreateWorker
  <2>1. mi \in Worker /\ wpc[mi] = "none"
    BY <1>3, SMT DEF CreateWorker, IInv, TypeOK, CallerKnows, Worker
  <2>2. /\ calls' = calls /\ returns' = returns /\ total' = total
        /\ Owner(j)' = Owner(j)
    BY <1>3 DEF CreateWorker, Owner
  <2>3. CASE Owner(j) = mi
    <3>1. ~(j < mi)
      <4>1. ASSUME j < mi PROVE FALSE
        <5>1. parallel \in Nat \ {0} /\ j \in 0 .. parallel - 1
          BY <1>1, <2>1, <4>1, SMT DEF IInv, TypeOK, Worker
        <5>2. Owner(j) = j
          BY <5>1, ModSmall DEF Owner
        <5> QED
          BY <2>3, <4>1, <5>2, <1>1, <2>1, SMT DEF Worker
      <4> QED
        BY <4>1
    <3>2. wpc'[mi] = "loop" /\ wi'[mi] = mi
      BY <1>3, <2>1 DEF CreateWorker, IInv, TypeOK
    <3> QED
      BY <1>1, <2>1, <2>2, <2>3, <3>1, <3>2 DEF HasEntered, HasLeft
  <2>4. CASE Owner(j) # mi
    <3>1. wpc'[Owner(j)] = wpc[Owner(j)] /\ wi'[Owner(j)] = wi[Owner(j)]
      BY <1>1, <1>3, <2>4 DEF CreateWorker, IInv, TypeOK
    <3> QED
      BY <1>1, <2>2, <3>1 DEF HasEntered, HasLeft
  <2> QED
    BY <2>3, <2>4
<1>4. CASE jobs_run \/ Created \/ JoinWorker \/ Joined
  <2>1. /\ calls' = calls /\ returns' = returns /\ total' = total
        /\ wpc' = wpc /\ wi' = wi /\ Owner(j)' = Owner(j)
    BY <1>4 DEF jobs_run, Created, JoinWorker, Joined, Owner
  <2> QED
    BY <1>1, <2>1 DEF HasEntered, HasLeft
<1> QED
  BY <1>2, <1>3, <1>4 DEF CallerStep

(* A worker's step touches its own jobs only, and only the one at wi[w].   *)
LEMMA WorkerOwnerRuns ==
  ASSUME JobsAssumption, IInv, NEW w \in Worker, WorkerStep(w)
  PROVE  OwnerRuns'
<1> SUFFICES ASSUME NEW j \in Job
             PROVE  /\ calls'[j] = IF j < total' /\ HasEntered(Owner(j), j)' THEN 1 ELSE 0
                    /\ returns'[j] = IF j < total' /\ HasLeft(Owner(j), j)' THEN 1 ELSE 0
  BY DEF OwnerRuns
<1>1. /\ Owner(j) \in Worker /\ j \in Nat
      /\ calls[j] = IF j < total /\ HasEntered(Owner(j), j) THEN 1 ELSE 0
      /\ returns[j] = IF j < total /\ HasLeft(Owner(j), j) THEN 1 ELSE 0
  BY JobFacts
<1>2. wi[w] \in Nat /\ parallel \in Nat \ {0} /\ total \in Nat
  BY DEF IInv, TypeOK
<1>3. wpc[w] # "none" => Owner(wi[w]) = w
  BY <1>2 DEF IInv, OnStride, Owner
<1>4. total' = total /\ Owner(j)' = Owner(j)
  BY DEF WorkerStep, Enter, Leave, CallReturns, Load, Store, Owner
<1>5. CASE Owner(j) # w
  <2>1. wpc'[Owner(j)] = wpc[Owner(j)] /\ wi'[Owner(j)] = wi[Owner(j)]
    BY <1>1, <1>5 DEF WorkerStep, Enter, Leave, CallReturns, Load, Store, IInv, TypeOK
  <2>2. wpc[w] # "none" => j # wi[w]
    BY <1>3, <1>5
  <2>3. calls'[j] = calls[j] /\ returns'[j] = returns[j]
    BY <2>2 DEF WorkerStep, Enter, Leave, CallReturns, Load, Store, IInv, TypeOK
  <2> QED
    BY <1>1, <1>4, <2>1, <2>3 DEF HasEntered, HasLeft
<1>6. CASE Owner(j) = w
  <2> USE <1>1, <1>2, <1>4, <1>6
  <2>0. /\ calls \in [Job -> Nat] /\ returns \in [Job -> Nat]
        /\ DOMAIN wpc = Worker /\ DOMAIN wi = Worker
    BY DEF IInv, TypeOK
  <2>1. CASE Enter(w)
    BY <2>0, <2>1, SMT DEF Enter, HasEntered, HasLeft
  <2>2. CASE Leave(w)
    BY <2>0, <2>2, SMT DEF Leave, HasEntered, HasLeft
  <2>3. CASE CallReturns(w)
    <3>1. wi[w] < total
      BY <2>3 DEF CallReturns, IInv, InTable
    <3> QED
      BY <2>0, <2>3, <3>1, SMT DEF CallReturns, HasEntered, HasLeft
  <2>4. CASE Load(w)
    BY <2>0, <2>4, SMT DEF Load, HasEntered, HasLeft
  <2>5. CASE Store(w)
    <3>1. wpc[w] = "store" /\ Owner(wi[w]) = w
      BY <2>5, <1>3 DEF Store
    <3>2. wi[w] < j => wi[w] + parallel <= j
      BY <3>1, ModGap DEF Owner
    <3>3. wi'[w] = wi[w] + parallel /\ wpc'[w] = "loop" /\ calls' = calls /\ returns' = returns
      BY <2>0, <2>5 DEF Store, Stride
    <3> QED
      BY <3>1, <3>2, <3>3, SMT DEF HasEntered, HasLeft
  <2> QED
    BY <2>1, <2>2, <2>3, <2>4, <2>5 DEF WorkerStep
<1> QED
  BY <1>5, <1>6

(* The inductive step, one conjunct of the invariant at a time.            *)
LEMMA NextIInv ==
  ASSUME JobsAssumption, IInv, [Next]_vars
  PROVE  IInv'
<1>1. TypeOK'
  BY NextTypeOK DEF IInv
<1>2. parallel' = parallel /\ Worker' = Worker
  BY WorkersFixed
<1>3. OwnerRuns'
  <2>1. CASE UNCHANGED vars \/ Returned
    BY <2>1 DEF vars, Returned, IInv, OwnerRuns, Owner, HasEntered, HasLeft
  <2> QED
    BY <2>1, CallerOwnerRuns, WorkerOwnerRuns DEF Next
<1>4. OnStride'
  <2> SUFFICES ASSUME NEW w \in Worker, wpc'[w] # "none"
               PROVE  wi'[w] % parallel = w
    BY <1>2 DEF OnStride
  <2>1. /\ wi[w] \in Nat /\ parallel \in Nat \ {0} /\ w \in 0 .. parallel - 1
        /\ wpc[w] # "none" => wi[w] % parallel = w
    BY DEF IInv, TypeOK, OnStride, Worker
  <2>2. CASE wi'[w] = wi[w] /\ wpc[w] # "none"
    BY <2>1, <2>2
  <2>3. CASE CreateWorker /\ mi = w
    <3>1. wi'[w] = w
      BY <2>3 DEF CreateWorker, IInv, TypeOK
    <3>2. w % parallel = w
      BY <2>1, ModSmall
    <3> QED
      BY <3>1, <3>2
  <2>4. CASE Store(w)
    <3>1. wi'[w] = wi[w] + parallel /\ wpc[w] = "store"
      BY <2>4 DEF Store, Stride, IInv, TypeOK
    <3>2. (wi[w] + parallel) % parallel = wi[w] % parallel
      BY <2>1, ModAdd
    <3> QED
      BY <2>1, <3>1, <3>2
  <2>5. \/ wi'[w] = wi[w] /\ wpc[w] # "none"
        \/ CreateWorker /\ mi = w
        \/ Store(w)
    BY DEF Next, CallerStep, WorkerStep, jobs_add, jobs_run, CreateWorker, Created,
      JoinWorker, Joined, Returned, Enter, Leave, CallReturns, Load, Store, vars, IInv, TypeOK
  <2> QED
    BY <2>2, <2>3, <2>4, <2>5
<1>5. InTable'
  <2> SUFFICES ASSUME NEW w \in Worker
               PROVE  /\ wpc'[w] \in {"call", "load", "store"} => wi'[w] < total'
                      /\ wpc'[w] = "exit" => wi'[w] >= total'
    BY <1>2 DEF InTable
  <2>1. /\ wpc[w] \in {"call", "load", "store"} => wi[w] < total
        /\ wpc[w] = "exit" => wi[w] >= total
        /\ mpc = "add" => wpc[w] = "none"
    BY DEF IInv, InTable, CallerKnows
  <2>2. CASE jobs_add
    BY <2>1, <2>2 DEF jobs_add
  <2>3. CASE CallerStep \/ Returned \/ UNCHANGED vars
    BY <2>1, <2>3 DEF CallerStep, jobs_run, CreateWorker, Created, JoinWorker, Joined,
      Returned, vars, IInv, TypeOK
  <2>4. ASSUME NEW v \in Worker, WorkerStep(v)
        PROVE  /\ wpc'[w] \in {"call", "load", "store"} => wi'[w] < total'
               /\ wpc'[w] = "exit" => wi'[w] >= total'
    BY <2>1, <2>4 DEF WorkerStep, Enter, Leave, CallReturns, Load, Store, IInv, TypeOK
  <2> QED
    BY <2>2, <2>3, <2>4 DEF Next
<1>6. CallerKnows'
  <2> SUFFICES ASSUME NEW w \in Worker
               PROVE  /\ mpc' = "add" => wpc'[w] = "none"
                      /\ mpc' = "create" /\ w >= mi' => wpc'[w] = "none"
                      /\ mpc' = "join" /\ w < mi' => wpc'[w] = "exit"
                      /\ mpc' = "done" => wpc'[w] = "exit"
    BY <1>2 DEF CallerKnows
  <2>1. /\ mpc = "add" => wpc[w] = "none"
        /\ mpc = "create" /\ w >= mi => wpc[w] = "none"
        /\ mpc = "join" /\ w < mi => wpc[w] = "exit"
        /\ mpc = "done" => wpc[w] = "exit"
        /\ mi \in 0 .. parallel /\ parallel \in Nat /\ w \in 0 .. parallel - 1
    BY DEF IInv, TypeOK, CallerKnows, Worker
  <2>2. CASE jobs_add \/ jobs_run \/ Returned \/ UNCHANGED vars
    BY <2>1, <2>2 DEF jobs_add, jobs_run, Returned, vars
  <2>3. CASE CreateWorker
    BY <2>1, <2>3, SMT DEF CreateWorker, IInv, TypeOK
  <2>4. CASE Created
    BY <2>1, <2>4, SMT DEF Created
  <2>5. CASE JoinWorker
    BY <2>1, <2>5, SMT DEF JoinWorker, JoinBound
  <2>6. CASE Joined
    BY <2>1, <2>6, SMT DEF Joined, JoinBound
  <2>7. ASSUME NEW v \in Worker, WorkerStep(v)
        PROVE  /\ mpc' = "add" => wpc'[w] = "none"
               /\ mpc' = "create" /\ w >= mi' => wpc'[w] = "none"
               /\ mpc' = "join" /\ w < mi' => wpc'[w] = "exit"
               /\ mpc' = "done" => wpc'[w] = "exit"
    BY <2>1, <2>7 DEF WorkerStep, Enter, Leave, CallReturns, Load, Store, IInv, TypeOK
  <2> QED
    BY <2>2, <2>3, <2>4, <2>5, <2>6, <2>7 DEF Next, CallerStep
<1> QED
  BY <1>1, <1>3, <1>4, <1>5, <1>6 DEF IInv

----------------------------------------------------------------------------
(* Every reachable state of the pool satisfies the inductive invariant:    *)
(* who has run which job follows from where the workers are.               *)
THEOREM Invariance == Spec => []IInv
<1>1. Init => IInv
  BY InitIInv, JobsAssumption
<1>2. IInv /\ [Next]_vars => IInv'
  BY NextIInv, JobsAssumption
<1> QED
  BY <1>1, <1>2, PTL DEF Spec

(* job.c never enters a callback twice, for any number of workers, jobs    *)
(* and any interleaving, although its workers share no lock.               *)
THEOREM NoJobTwice == Spec => []AtMostOnce
<1>1. IInv => AtMostOnce
  <2> SUFFICES ASSUME IInv, NEW j \in Job PROVE returns[j] <= calls[j] /\ calls[j] <= 1
    BY DEF AtMostOnce
  <2>1. HasLeft(Owner(j), j) => HasEntered(Owner(j), j)
    BY DEF HasLeft, HasEntered
  <2> QED
    BY <2>1, JobFacts, SMT
<1> QED
  BY <1>1, Invariance, PTL

(* jobs_run is a barrier: after it every accepted job has come back and no *)
(* worker is left.                                                         *)
THEOREM Barrier == Spec => []RunIsBarrier
<1>1. IInv => RunIsBarrier
  <2> SUFFICES ASSUME IInv, mpc = "done"
               PROVE  /\ \A j \in Job : j < total => returns[j] = 1
                      /\ \A w \in Worker : wpc[w] = "exit"
    BY DEF RunIsBarrier
  <2>1. \A w \in Worker : wpc[w] = "exit" /\ wi[w] >= total
    BY DEF IInv, CallerKnows, InTable
  <2>2. ASSUME NEW j \in Job, j < total PROVE returns[j] = 1
    <3>1. Owner(j) \in Worker /\ wi[Owner(j)] \in Nat /\ total \in Nat /\ j \in Nat
      BY JobFacts DEF IInv, TypeOK
    <3>2. j < wi[Owner(j)] /\ wpc[Owner(j)] = "exit"
      BY <2>1, <2>2, <3>1, SMT
    <3>3. HasLeft(Owner(j), j)
      BY <3>2 DEF HasLeft
    <3> QED
      BY <2>2, <3>3, JobFacts
  <2> QED
    BY <2>1, <2>2
<1> QED
  BY <1>1, Invariance, PTL

----------------------------------------------------------------------------
(* Each step of the threads is a step of the abstract pool or changes      *)
(* nothing that its caller sees.                                           *)
LEMMA StepImplementsPool ==
  ASSUME JobsAssumption, IInv, [Next]_vars
  PROVE  [Pool!Next]_(Pool!vars)
<1> USE DEF Pool!vars, Pool!Job, Job
<1>1. CASE jobs_add
  <2>1. CASE TableHasRoom
    BY <1>1, <2>1 DEF jobs_add, TableHasRoom, Pool!Next, Pool!Accept
  <2>2. CASE ~TableHasRoom
    BY <1>1, <2>2 DEF jobs_add
  <2> QED
    BY <2>1, <2>2
<1>2. CASE jobs_run
  BY <1>2 DEF jobs_run, Pool!Next, Pool!Run
<1>3. CASE CreateWorker \/ Created \/ JoinWorker
  BY <1>3 DEF CreateWorker, Created, JoinWorker
<1>4. CASE Joined
  <2>1. mpc = "join" /\ mpc' = "done" /\ UNCHANGED <<total, calls, returns>>
    BY <1>4 DEF Joined
  <2>2. \A w \in Worker : wpc[w] = "exit" /\ wi[w] >= total
    BY <1>4, SMT DEF Joined, JoinBound, IInv, TypeOK, CallerKnows, InTable, Worker
  <2>3. ASSUME NEW j \in Job, j < total PROVE returns[j] = 1
    <3>1. Owner(j) \in Worker /\ wi[Owner(j)] \in Nat /\ total \in Nat /\ j \in Nat
      BY JobFacts DEF IInv, TypeOK
    <3>2. j < wi[Owner(j)] /\ wpc[Owner(j)] = "exit"
      BY <2>2, <2>3, <3>1, SMT
    <3>3. HasLeft(Owner(j), j)
      BY <3>2 DEF HasLeft
    <3> QED
      BY <2>3, <3>3, JobFacts
  <2> QED
    BY <2>1, <2>3 DEF Pool!Next, Pool!Return
<1>5. ASSUME NEW w \in Worker, WorkerStep(w)
      PROVE  [Pool!Next]_(Pool!vars)
  <2>1. CASE Leave(w) \/ Load(w) \/ Store(w)
    BY <2>1 DEF Leave, Load, Store
  <2>2. ASSUME wpc[w] \in {"loop", "call"}, wi[w] < total
        PROVE  /\ wi[w] \in Job /\ Owner(wi[w]) = w
               /\ mpc \in {"create", "join"}
    BY <2>2, SMT DEF IInv, TypeOK, OnStride, Owner, CallerKnows
  <2>3. CASE Enter(w)
    <3>1. /\ wi[w] \in Job /\ wi[w] < total /\ Owner(wi[w]) = w
          /\ mpc \in {"create", "join"} /\ mpc' = mpc
      BY <2>2, <2>3 DEF Enter
    <3>2. ~HasEntered(w, wi[w])
      BY <2>3, <3>1 DEF Enter, HasEntered
    <3>3. calls[wi[w]] = 0
      BY <3>1, <3>2, JobFacts
    <3>4. Pool!Begin(wi[w])
      BY <2>3, <3>1, <3>3 DEF Enter, Pool!Begin
    <3> QED
      BY <3>1, <3>4 DEF Pool!Next
  <2>4. CASE CallReturns(w)
    <3>1. /\ wi[w] \in Job /\ wi[w] < total /\ Owner(wi[w]) = w
          /\ mpc \in {"create", "join"} /\ mpc' = mpc
      BY <2>2, <2>4 DEF CallReturns, IInv, InTable
    <3>2. HasEntered(w, wi[w]) /\ ~HasLeft(w, wi[w])
      BY <2>4, <3>1 DEF CallReturns, HasEntered, HasLeft
    <3>3. calls[wi[w]] = 1 /\ returns[wi[w]] = 0
      BY <3>1, <3>2, JobFacts
    <3>4. Pool!End(wi[w])
      BY <2>4, <3>1, <3>3 DEF CallReturns, Pool!End
    <3> QED
      BY <3>1, <3>4 DEF Pool!Next
  <2> QED
    BY <1>5, <2>1, <2>3, <2>4 DEF WorkerStep
<1>6. CASE UNCHANGED vars \/ Returned
  BY <1>6 DEF vars, Returned
<1> QED
  BY <1>1, <1>2, <1>3, <1>4, <1>5, <1>6 DEF Next, CallerStep

(* The threads of job.c implement the pool its callers are promised.       *)
THEOREM Refinement == Spec => ImplementsPool
<1>1. Init => Pool!Init
  BY DEF Init, Pool!Init, Job, Pool!Job
<1>2. IInv /\ [Next]_vars => [Pool!Next]_(Pool!vars)
  BY StepImplementsPool, JobsAssumption
<1> QED
  BY <1>1, <1>2, Invariance, PTL DEF Spec, ImplementsPool, Pool!Spec
=============================================================================
