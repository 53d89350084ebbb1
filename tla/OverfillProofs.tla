--------------------------- MODULE OverfillProofs ---------------------------
(***************************************************************************)
(* TLAPS proof that in Refills a wallet exceeds its maximum only after two *)
(* refills of it overlapped, for any wallets, thresholds and bounds.       *)
(***************************************************************************)
EXTENDS RefillsProofs

-----------------------------------------------------------------------------
(* The inductive invariant: while no refills of a wallet overlapped there  *)
(* is at most one under way - asked for, queued or paid - and it fits.     *)

AskedFor(w) == {i \in Instance : check[i].wallet = w}
Queued(w) == {j \in Job : job[j].wallet = w /\ job[j].paid = 0}

Fits(w) ==
  /\ balance[w] <= Max
  /\ \A i \in AskedFor(w) : balance[w] + check[i].request <= Max
  /\ \A j \in Queued(w) : balance[w] + job[j].amount <= Max
  /\ \A t \in TxsTo(w) : balance[w] + tx[t].amount <= Max

OneAtATime(w) ==
  /\ \A i, k \in AskedFor(w) : i = k
  /\ \A j, l \in Queued(w) : j = l
  /\ \A t, u \in TxsTo(w) : t = u
  /\ AskedFor(w) = {} \/ Queued(w) = {}
  /\ AskedFor(w) = {} \/ TxsTo(w) = {}
  /\ Queued(w) = {} \/ TxsTo(w) = {}

\* A job that has paid is not run again, and a job that has not has at most one
\* worker that may still pay, and is not run again while it has one.
NotPaidAgain(w) ==
  /\ \A j \in Job : job[j].wallet = w /\ job[j].paid > 0 => job[j].place # "waiting"
  /\ \A i \in Instance : Unpaid(i) /\ JobOf(i).wallet = w =>
       /\ JobOf(i).paid = 0 /\ JobOf(i).place # "waiting"
       /\ \A k \in Instance : Unpaid(k) /\ worker[k].job = worker[i].job => i = k

Calm(w) == Fits(w) /\ OneAtATime(w) /\ NotPaidAgain(w)

NoOverlap == \A w \in Wallet \ overlapped : Calm(w)

-----------------------------------------------------------------------------
(* Steps after which no more is under way than before.                     *)

\* Whatever of w's refills is under way after the step was so before.
NothingNew(w) ==
  /\ balance'[w] <= balance[w]
  /\ \A i \in Instance : check'[i].wallet = w =>
       check[i].wallet = w /\ check'[i].request = check[i].request
  /\ \A j \in Job : job'[j].wallet = w /\ job'[j].paid = 0 =>
       job[j].wallet = w /\ job[j].paid = 0 /\ job'[j].amount = job[j].amount
  /\ \A t \in Tx : tx'[t].wallet = w =>
       tx[t].wallet = w /\ tx'[t].amount = tx[t].amount

\* The amounts that are under way are numbers.
LEMMA Amounts ==
  ASSUME TypeOK, NEW w \in Wallet
  PROVE  /\ balance[w] \in Nat /\ Max \in Nat
         /\ \A i \in Instance : check[i].request \in Nat
         /\ \A j \in Job : job[j].amount \in Nat
         /\ \A t \in Tx : tx[t].amount \in Nat
  BY RefillConstants DEF TypeOK, CheckType, NoCheck, JobType, NoJob, TxType, NoTx

LEMMA NothingNewFits ==
  ASSUME TypeOK, TypeOK', NEW w \in Wallet, Fits(w), OneAtATime(w), NothingNew(w)
  PROVE  Fits(w)' /\ OneAtATime(w)'
<1>1. /\ balance[w] \in Nat /\ balance'[w] \in Nat /\ Max \in Nat
      /\ \A i \in Instance : check[i].request \in Nat
      /\ \A j \in Job : job[j].amount \in Nat
      /\ \A t \in Tx : tx[t].amount \in Nat
  BY Amounts DEF TypeOK
<1>2. Fits(w)'
  <2>1. balance'[w] <= Max
    BY <1>1 DEF Fits, NothingNew
  <2>2. ASSUME NEW i \in Instance, check'[i].wallet = w
        PROVE  balance'[w] + check'[i].request <= Max
    BY <1>1, <2>2 DEF Fits, NothingNew, AskedFor
  <2>3. ASSUME NEW j \in Job, job'[j].wallet = w, job'[j].paid = 0
        PROVE  balance'[w] + job'[j].amount <= Max
    BY <1>1, <2>3 DEF Fits, NothingNew, Queued
  <2>4. ASSUME NEW t \in Tx, tx'[t].wallet = w
        PROVE  balance'[w] + tx'[t].amount <= Max
    BY <1>1, <2>4 DEF Fits, NothingNew, TxsTo
  <2> QED
    BY <2>1, <2>2, <2>3, <2>4 DEF Fits, AskedFor, Queued, TxsTo
<1>3. /\ AskedFor(w)' \subseteq AskedFor(w)
      /\ Queued(w)' \subseteq Queued(w)
      /\ TxsTo(w)' \subseteq TxsTo(w)
  BY DEF NothingNew, AskedFor, Queued, TxsTo
<1>4. OneAtATime(w)'
  BY <1>3 DEF OneAtATime
<1> QED
  BY <1>2, <1>4

\* What a step must keep that pays nothing and makes no job wait.
LEMMA NotPaidAgainStays ==
  ASSUME NEW w, NotPaidAgain(w),
         \A j \in Job : job'[j].wallet = w =>
           /\ job[j].wallet = w /\ job'[j].paid = job[j].paid
           /\ job'[j].place = "waiting" => job[j].place = "waiting",
         \A k \in Instance : Unpaid(k)' =>
           Unpaid(k) /\ worker'[k].job = worker[k].job /\ worker[k].job \in Job
  PROVE  NotPaidAgain(w)'
  BY DEF NotPaidAgain, JobOf

-----------------------------------------------------------------------------
(* The steps of a check.                                                   *)

LEMMA CalmReadBalance ==
  ASSUME TypeOK, TypeOK', NEW i \in Instance, NEW v \in Wallet, ReadBalance(i, v),
         NEW w \in Wallet, w \notin overlapped', Calm(w)
  PROVE  Calm(w)'
<1>1. PICK fetched \in {balance[v], Missing} :
        LET request == ReadingOf(v, fetched).requestAmount IN
        IF request = Missing
        THEN UNCHANGED <<check, overlapped>>
        ELSE /\ check' = [check EXCEPT ![i] =
                  [wallet |-> v, pc |-> IF v \in Turbo THEN "query" ELSE "add",
                   request |-> request, listed |-> {}, misled |-> FALSE]]
             /\ overlapped' = IF Underway(v) THEN overlapped \cup {v} ELSE overlapped
  BY DEF ReadBalance
<1>2. UNCHANGED <<balance, tx, job, worker>>
  BY DEF ReadBalance, money
<1>3. NotPaidAgain(w)'
  BY <1>2 DEF Calm, NotPaidAgain, JobOf, Unpaid
<1>4. balance'[w] <= balance[w]
  BY <1>2, Amounts
<1> DEFINE request == ReadingOf(v, fetched).requestAmount
<1>5. CASE request = Missing
  <2>1. NothingNew(w)
    BY <1>1, <1>2, <1>4, <1>5 DEF NothingNew
  <2> QED
    BY <1>3, <2>1, NothingNewFits DEF Calm
<1>6. CASE request # Missing /\ w # v
  <2>1. check'[i].wallet = v /\ \A k \in Instance \ {i} : check'[k] = check[k]
    BY <1>1, <1>6 DEF TypeOK
  <2>2. NothingNew(w)
    BY <1>2, <1>4, <1>6, <2>1 DEF NothingNew
  <2> QED
    BY <1>3, <2>2, NothingNewFits DEF Calm
<1>7. CASE request # Missing /\ w = v
  <2>1. /\ check'[i].wallet = w /\ check'[i].request = request
        /\ \A k \in Instance \ {i} : check'[k] = check[k]
    BY <1>1, <1>7 DEF TypeOK
  <2>2. ~Underway(w)
    BY <1>1, <1>7
  <2>3. /\ \A k \in Instance : check[k].wallet # w
        /\ Queued(w) = {} /\ TxsTo(w) = {}
    BY <2>2 DEF Underway, Queued
  <2>4. AskedFor(w)' = {i} /\ Queued(w)' = {} /\ TxsTo(w)' = {}
    BY <1>2, <2>1, <2>3 DEF AskedFor, Queued, TxsTo
  <2>5. fetched = balance[w] /\ balance[w] + request = Max
    <3>1. balance[v] \in Nat /\ fetched \in Nat \cup {Missing}
      BY DEF TypeOK
    <3>2. fetched \in Nat /\ fetched + request = Max
      BY <1>7, <3>1, ReadingOfRestores DEF Restores
    <3> QED
      BY <1>7, <3>2, MissingIsNoAmount
  <2>6. balance'[w] + check'[i].request <= Max
    BY <1>2, <2>1, <2>5, Amounts
  <2>7. Fits(w)'
    BY <1>2, <2>4, <2>6 DEF Calm, Fits
  <2>8. OneAtATime(w)'
    BY <2>4 DEF OneAtATime
  <2> QED
    BY <1>3, <2>7, <2>8 DEF Calm
<1> QED
  BY <1>5, <1>6, <1>7

LEMMA CalmQuery ==
  ASSUME TypeOK, TypeOK', NEW i \in Instance, Query(i) \/ AskStatus(i),
         NEW w \in Wallet, Calm(w)
  PROVE  Calm(w)'
<1>1. check[i] \in CheckType
  BY BusyCheck DEF Query, AskStatus
<1>2. UNCHANGED <<balance, tx, job, worker>> /\ \A k \in Instance \ {i} : check'[k] = check[k]
  BY DEF Query, AskStatus, money, TypeOK
<1>3. \/ check'[i] = NoCheck
      \/ check'[i].wallet = check[i].wallet /\ check'[i].request = check[i].request
  <2>1. CASE Query(i)
    BY <2>1, QueryAnswer
  <2>2. CASE AskStatus(i)
    BY <1>1, <2>2 DEF AskStatus, OnError, TypeOK, CheckType
  <2> QED
    BY <2>1, <2>2
<1>4. NoCheck.wallet # w
  BY RefillConstants DEF NoCheck
<1>5. balance'[w] <= balance[w]
  BY <1>2, Amounts
<1>6. NothingNew(w)
  BY <1>2, <1>3, <1>4, <1>5 DEF NothingNew
<1>7. NotPaidAgain(w)'
  BY <1>2 DEF Calm, NotPaidAgain, JobOf, Unpaid
<1> QED
  BY <1>6, <1>7, NothingNewFits DEF Calm

LEMMA CalmRequest ==
  ASSUME TypeOK, TypeOK', WorkersHoldTheirJobs, NEW i \in Instance, Request(i),
         NEW w \in Wallet, Calm(w)
  PROVE  Calm(w)'
<1>1. UNCHANGED <<balance, tx, worker>>
  BY DEF Request, money
<1>2. check'[i] = NoCheck /\ \A k \in Instance \ {i} : check'[k] = check[k]
  BY DEF Request, TypeOK
<1>3. NoCheck.wallet # w
  BY RefillConstants DEF NoCheck
<1>4. balance'[w] <= balance[w]
  BY <1>1, Amounts
<1>5. CASE UNCHANGED job
  <2>1. NothingNew(w)
    BY <1>1, <1>2, <1>3, <1>4, <1>5 DEF NothingNew
  <2>2. NotPaidAgain(w)'
    BY <1>1, <1>5 DEF Calm, NotPaidAgain, JobOf, Unpaid
  <2> QED
    BY <2>1, <2>2, NothingNewFits DEF Calm
<1>6. ASSUME NEW j \in Job,
             job[j] = NoJob,
             job' = [job EXCEPT ![j] =
               [wallet |-> check[i].wallet, place |-> "waiting",
                amount |-> check[i].request, stalls |-> 0, paid |-> 0]]
      PROVE  Calm(w)'
  <2>1. /\ job'[j].wallet = check[i].wallet /\ job'[j].amount = check[i].request
        /\ job'[j].paid = 0
        /\ \A l \in Job \ {j} : job'[l] = job[l]
    BY <1>6 DEF TypeOK
  <2>2. \A k \in Instance : worker[k].pc # "idle" => worker[k].job \in Job \ {j}
    BY <1>6, BusyWorker, Sentinels DEF JobOf
  <2>3. NotPaidAgain(w)'
    BY <1>1, <2>1, <2>2 DEF Calm, NotPaidAgain, JobOf, Unpaid
  <2>4. CASE check[i].wallet # w
    <3>1. NothingNew(w)
      BY <1>1, <1>2, <1>3, <1>4, <2>1, <2>4 DEF NothingNew
    <3> QED
      BY <2>3, <3>1, NothingNewFits DEF Calm
  <2>5. CASE check[i].wallet = w
    <3>1. i \in AskedFor(w)
      BY <2>5 DEF AskedFor
    <3>2. Queued(w) = {} /\ TxsTo(w) = {} /\ \A k \in AskedFor(w) : k = i
      BY <3>1 DEF Calm, OneAtATime
    <3>3. AskedFor(w)' = {}
      BY <1>2, <1>3, <3>2 DEF AskedFor
    <3>4. Queued(w)' = {j}
      BY <2>1, <2>5, <3>2 DEF Queued
    <3>5. TxsTo(w)' = {}
      BY <1>1, <3>2 DEF TxsTo
    <3>6. balance[w] + check[i].request <= Max
      BY <3>1 DEF Calm, Fits
    <3>7. balance'[w] + job'[j].amount <= Max
      BY <1>1, <2>1, <3>6
    <3>8. Fits(w)'
      BY <1>1, <3>3, <3>4, <3>5, <3>7 DEF Calm, Fits
    <3>9. OneAtATime(w)'
      BY <3>3, <3>4, <3>5 DEF OneAtATime
    <3> QED
      BY <2>3, <3>8, <3>9 DEF Calm
  <2> QED
    BY <2>4, <2>5
<1> QED
  BY <1>5, <1>6 DEF Request

-----------------------------------------------------------------------------
(* The steps of a refill.                                                  *)

LEMMA CalmFetch ==
  ASSUME TypeOK, TypeOK', NEW i \in Instance, NEW j \in Job, Fetch(i, j),
         WorkersHoldTheirJobs, NEW w \in Wallet, Calm(w)
  PROVE  Calm(w)'
<1>1. job[j].place = "waiting" /\ job[j] \in JobType
  BY DEF Fetch, TypeOK, NoJob
<1>2. UNCHANGED <<balance, check, tx>>
  BY DEF Fetch, money
<1>3. \A l \in Job : /\ job'[l].wallet = job[l].wallet /\ job'[l].paid = job[l].paid
                     /\ job'[l].amount = job[l].amount
  BY <1>1 DEF Fetch, TypeOK, JobType
<1>4. job'[j].place = "active" /\ \A l \in Job \ {j} : job'[l] = job[l]
  BY <1>1 DEF Fetch, TypeOK, JobType
<1>5. NothingNew(w)
  BY <1>2, <1>3, Amounts DEF NothingNew
<1>6. worker'[i].job = j /\ \A k \in Instance \ {i} : worker'[k] = worker[k]
  BY DEF Fetch, TypeOK
<1>7. job[j].wallet = w => job[j].paid = 0
  BY <1>1 DEF Calm, NotPaidAgain, TypeOK, JobType
<1>8. ASSUME NEW k \in Instance \ {i}, Unpaid(k)'
      PROVE  Unpaid(k) /\ worker[k].job \in Job /\ (worker[k].job = j => job[j].wallet # w)
  BY <1>1, <1>6, <1>8, PayersHold DEF Unpaid, Calm, NotPaidAgain, JobOf
<1>9. NotPaidAgain(w)'
  <2>1. ASSUME NEW l \in Job, job'[l].wallet = w, job'[l].paid > 0
        PROVE  job'[l].place # "waiting"
    BY <1>3, <1>4, <2>1 DEF Calm, NotPaidAgain
  <2>2. ASSUME NEW k \in Instance, Unpaid(k)', job'[worker'[k].job].wallet = w
        PROVE  /\ job'[worker'[k].job].paid = 0 /\ job'[worker'[k].job].place # "waiting"
               /\ \A l \in Instance : Unpaid(l)' /\ worker'[l].job = worker'[k].job => k = l
    <3>1. CASE k = i
      BY <1>3, <1>4, <1>6, <1>7, <1>8, <2>2, <3>1
    <3>2. CASE k # i
      <4>1. /\ worker'[k] = worker[k] /\ Unpaid(k) /\ worker[k].job \in Job
            /\ job[worker[k].job].wallet = w /\ worker[k].job # j
        BY <1>3, <1>6, <1>8, <2>2, <3>2
      <4> QED
        BY <1>4, <1>6, <1>8, <4>1 DEF Calm, NotPaidAgain, JobOf
    <3> QED
      BY <3>1, <3>2
  <2> QED
    BY <2>1, <2>2 DEF NotPaidAgain, JobOf
<1> QED
  BY <1>5, <1>9, NothingNewFits DEF Calm

\* A worker moves on and nothing is sent.
LEMMA CalmMovesOn ==
  ASSUME TypeOK, TypeOK', WorkersHoldTheirJobs, NEW i \in Instance, MovesOn(i),
         UNCHANGED <<balance, check, job, tx>>, NEW w \in Wallet, Calm(w)
  PROVE  Calm(w)'
<1>1. worker[i] \in WorkType
  BY BusyWorker DEF MovesOn, DryRun, CoverAr, Pay, Wait
<1>2. NothingNew(w)
  BY Amounts DEF NothingNew
<1>3. Unpaid(i)' => Unpaid(i)
  <2>1. CASE DryRun(i) \/ CoverAr(i) \/ Pay(i)
    BY <2>1 DEF DryRun, CoverAr, Pay, Unpaid
  <2>2. CASE Wait(i)
    BY <1>1, <2>2 DEF Wait, TypeOK, WorkType, Unpaid
  <2> QED
    BY <2>1, <2>2 DEF MovesOn
<1>4. \A k \in Instance : worker'[k].job = worker[k].job
  BY MovingOn
<1>5. \A k \in Instance \ {i} : worker'[k] = worker[k]
  BY MovingOn
<1>6. \A k \in Instance : Unpaid(k)' => Unpaid(k)
  BY <1>3, <1>5 DEF Unpaid
<1>7. NotPaidAgain(w)'
  BY <1>4, <1>6, PayersHold, NotPaidAgainStays DEF Calm
<1> QED
  BY <1>2, <1>7, NothingNewFits DEF Calm

\* What was queued is on its way.
LEMMA CalmSend ==
  ASSUME TypeOK, TypeOK', WorkersHoldTheirJobs, NEW i \in Instance, Pay(i),
         NEW t \in Tx, Send(i, t), NEW w \in Wallet, Calm(w)
  PROVE  Calm(w)'
<1> DEFINE j == worker[i].job
<1>1. /\ worker[i] \in WorkType /\ j \in Job
      /\ job[j] \in JobType /\ Unpaid(i)
  BY BusyWorker DEF Pay, JobOf, Unpaid
<1>2. UNCHANGED <<balance, check>>
  BY DEF Pay
<1>3. /\ job'[j].paid = job[j].paid + 1 /\ job'[j].place = job[j].place
      /\ \A l \in Job \ {j} : job'[l] = job[l]
      /\ \A l \in Job : job'[l].wallet = job[l].wallet /\ job'[l].amount = job[l].amount
  BY <1>1 DEF Send, TypeOK, JobType
<1>4. /\ tx[t] = NoTx
      /\ tx'[t].wallet = job[j].wallet /\ tx'[t].amount = job[j].amount
      /\ \A u \in Tx \ {t} : tx'[u] = tx[u]
  BY DEF Send, Unused, JobOf, TypeOK
<1>5. job[j].paid \in Nat
  BY <1>1 DEF JobType
<1>6. NotPaidAgain(w)'
  <2>1. ASSUME NEW l \in Job, job'[l].wallet = w, job'[l].paid > 0
        PROVE  job'[l].place # "waiting"
    BY <1>1, <1>3, <2>1 DEF Calm, NotPaidAgain, JobOf
  <2>2. ~Unpaid(i)'
    <3>1. CASE JobOf(i).wallet \in Pool
      BY <1>1, <3>1 DEF Pay, TypeOK, WorkType, Unpaid
    <3>2. CASE JobOf(i).wallet \notin Pool
      BY <1>1, <3>2 DEF Pay, TypeOK, WorkType, Unpaid
    <3> QED
      BY <3>1, <3>2
  <2>3. ASSUME NEW k \in Instance, Unpaid(k)'
        PROVE  k # i /\ worker'[k] = worker[k] /\ Unpaid(k) /\ worker[k].job \in Job
    <3>1. k # i /\ worker'[k] = worker[k]
      BY <2>2, <2>3, MovingOn DEF MovesOn
    <3> QED
      BY <2>3, <3>1, PayersHold DEF Unpaid
  <2>4. ASSUME NEW k \in Instance, Unpaid(k)', job'[worker'[k].job].wallet = w
        PROVE  /\ job'[worker'[k].job].paid = 0 /\ job'[worker'[k].job].place # "waiting"
               /\ \A l \in Instance : Unpaid(l)' /\ worker'[l].job = worker'[k].job => k = l
    <3>1. /\ k # i /\ worker'[k] = worker[k] /\ Unpaid(k) /\ worker[k].job \in Job
          /\ job[worker[k].job].wallet = w
      BY <1>3, <2>3, <2>4
    <3>2. worker[k].job # j
      BY <1>1, <3>1 DEF Calm, NotPaidAgain, JobOf
    <3> QED
      BY <1>3, <2>3, <3>1, <3>2 DEF Calm, NotPaidAgain, JobOf
  <2> QED
    BY <2>1, <2>4 DEF NotPaidAgain, JobOf
<1>7. CASE job[j].wallet # w
  <2>1. NothingNew(w)
    BY <1>2, <1>3, <1>4, <1>7, Amounts DEF NothingNew
  <2> QED
    BY <1>6, <2>1, NothingNewFits DEF Calm
<1>8. CASE job[j].wallet = w
  <2>1. job[j].paid = 0
    BY <1>1, <1>8 DEF Calm, NotPaidAgain, JobOf
  <2>2. j \in Queued(w)
    BY <1>1, <1>8, <2>1 DEF Queued
  <2>3. AskedFor(w) = {} /\ TxsTo(w) = {} /\ \A l \in Queued(w) : l = j
    BY <2>2 DEF Calm, OneAtATime
  <2>4. AskedFor(w)' = {}
    BY <1>2, <2>3 DEF AskedFor
  <2>5. Queued(w)' = {}
    BY <1>3, <2>1, <2>3 DEF Queued
  <2>6. TxsTo(w)' = {t}
    BY <1>4, <1>8, <2>3 DEF TxsTo
  <2>7. balance'[w] + tx'[t].amount <= Max
    BY <1>2, <1>4, <2>2 DEF Calm, Fits
  <2>8. Fits(w)'
    BY <1>2, <2>4, <2>5, <2>6, <2>7 DEF Calm, Fits
  <2>9. OneAtATime(w)'
    BY <2>4, <2>5, <2>6 DEF OneAtATime
  <2> QED
    BY <1>6, <2>8, <2>9 DEF Calm
<1> QED
  BY <1>7, <1>8

LEMMA NothingNewLeaves ==
  ASSUME TypeOK, WorkersHoldTheirJobs, NEW j \in Job, job[j] # NoJob, NEW is,
         job' = Dropped(j, is), NEW w \in Wallet
  PROVE  \A l \in Job : job'[l].wallet = w =>
           /\ job[l].wallet = w /\ job'[l].paid = job[l].paid
           /\ job'[l].amount = job[l].amount
           /\ job'[l].place = "waiting" => job[l].place = "waiting"
<1>1. LET r == [job[j] EXCEPT !.place = "gone"]
      IN  /\ r.paid = job[j].paid /\ r.wallet = job[j].wallet
          /\ r.amount = job[j].amount /\ r.place = "gone"
  BY DEF TypeOK, JobType
<1>2. NoJob.wallet # w
  BY RefillConstants DEF NoJob
<1> QED
  BY <1>1, <1>2, Drops

\* A worker leaves its job, at its end or with its process.
LEMMA CalmLeaves ==
  ASSUME TypeOK, TypeOK', WorkersHoldTheirJobs, NEW i \in Instance,
         Finish(i) \/ Crash(i), NEW w \in Wallet, Calm(w)
  PROVE  Calm(w)'
<1>1. UNCHANGED <<balance, tx>>
  BY DEF Finish, Crash, money
<1>2. \A k \in Instance : check'[k] = check[k] \/ check'[k] = NoCheck
  BY DEF Finish, Crash, TypeOK
<1>3. NoCheck.wallet # w
  BY RefillConstants DEF NoCheck
<1>4. ASSUME NEW l \in Job, job'[l].wallet = w
      PROVE  /\ job[l].wallet = w /\ job'[l].paid = job[l].paid
             /\ job'[l].amount = job[l].amount
             /\ job'[l].place = "waiting" => job[l].place = "waiting"
  <2>1. CASE UNCHANGED job
    BY <1>4, <2>1
  <2>2. CASE worker[i] # NoWork /\ job' = Dropped(worker[i].job, Instance \ {i})
    <3>1. worker[i].job \in Job /\ job[worker[i].job] # NoJob
      BY <2>2, Held DEF JobOf
    <3> QED
      BY <1>4, <2>2, <3>1, NothingNewLeaves
  <2> QED
    BY <2>1, <2>2, BusyWorker DEF Finish, Crash
<1>5. NothingNew(w)
  BY <1>1, <1>2, <1>3, <1>4, Amounts DEF NothingNew
<1>6. ~Unpaid(i)' /\ \A k \in Instance \ {i} : worker'[k] = worker[k]
  BY DEF Finish, Crash, TypeOK, NoWork, Unpaid
<1>7. \A k \in Instance : Unpaid(k)' =>
        Unpaid(k) /\ worker'[k].job = worker[k].job /\ worker[k].job \in Job
  BY <1>6, PayersHold DEF Unpaid
<1>8. NotPaidAgain(w)'
  BY <1>4, <1>7, NotPaidAgainStays DEF Calm
<1> QED
  BY <1>5, <1>8, NothingNewFits DEF Calm

LEMMA CalmLapse ==
  ASSUME TypeOK, TypeOK', WorkersHoldTheirJobs, NEW i \in Instance, Lapse(i),
         NEW w \in Wallet, Calm(w)
  PROVE  Calm(w)'
<1>1. UNCHANGED <<balance, tx, check, job>>
  BY DEF Lapse, money
<1>2. worker[i] \in WorkType
  BY DEF Lapse, TypeOK, NoWork
<1>3. \A k \in Instance : worker'[k].job = worker[k].job /\ worker'[k].pc = worker[k].pc
  BY <1>2 DEF Lapse, TypeOK, WorkType
<1>4. NothingNew(w)
  BY <1>1, Amounts DEF NothingNew
<1>5. NotPaidAgain(w)'
  BY <1>1, <1>3, PayersHold, NotPaidAgainStays DEF Calm, Unpaid
<1> QED
  BY <1>4, <1>5, NothingNewFits DEF Calm

LEMMA CalmStall ==
  ASSUME TypeOK, TypeOK', WorkersHoldTheirJobs, NEW j \in Job, Stall(j),
         NEW w \in Wallet, w \notin overlapped', Calm(w)
  PROVE  Calm(w)'
<1>1. job[j] \in JobType /\ job[j] # NoJob
  BY DEF Stall, TypeOK, NoJob
<1>2. UNCHANGED <<balance, check, tx, worker>>
  BY DEF Stall, money
<1>3. \A k \in Instance : Unpaid(k)' =>
        Unpaid(k) /\ worker'[k].job = worker[k].job /\ worker[k].job \in Job
  BY <1>2, PayersHold DEF Unpaid
<1>4. CASE MayRetry(j)
  <2>1. /\ job'[j].wallet = job[j].wallet /\ job'[j].amount = job[j].amount
        /\ job'[j].paid = job[j].paid
        /\ \A l \in Job \ {j} : job'[l] = job[l]
    BY <1>1, <1>4 DEF Stall, TypeOK, JobType
  <2>2. NothingNew(w)
    BY <1>2, <2>1, Amounts DEF NothingNew
  <2>3. CASE job[j].wallet = w
    <3>1. ~PaysToo(j)
      BY <1>4, <2>3 DEF Stall
    <3>2. job[j].paid = 0 /\ \A k \in Instance : worker[k].job = j => ~Unpaid(k)
      BY <1>1, <3>1 DEF PaysToo, JobType
    <3>3. ASSUME NEW l \in Job, job'[l].wallet = w, job'[l].paid > 0
          PROVE  job'[l].place # "waiting"
      BY <2>1, <3>2, <3>3 DEF Calm, NotPaidAgain
    <3>4. ASSUME NEW k \in Instance, Unpaid(k)', job'[worker'[k].job].wallet = w
          PROVE  /\ job'[worker'[k].job].paid = 0 /\ job'[worker'[k].job].place # "waiting"
                 /\ \A l \in Instance : Unpaid(l)' /\ worker'[l].job = worker'[k].job => k = l
      BY <1>3, <2>1, <3>2, <3>4 DEF Calm, NotPaidAgain, JobOf
    <3> QED
      BY <2>2, <3>3, <3>4, NothingNewFits DEF Calm, NotPaidAgain, JobOf
  <2>4. CASE job[j].wallet # w
    <3>1. NotPaidAgain(w)'
      BY <1>3, <2>1, <2>4, NotPaidAgainStays DEF Calm
    <3> QED
      BY <2>2, <3>1, NothingNewFits DEF Calm
  <2> QED
    BY <2>3, <2>4
<1>5. CASE ~MayRetry(j)
  <2>1. job' = Dropped(j, Instance)
    BY <1>5 DEF Stall
  <2>2. \A l \in Job : job'[l].wallet = w =>
          /\ job[l].wallet = w /\ job'[l].paid = job[l].paid
          /\ job'[l].amount = job[l].amount
          /\ job'[l].place = "waiting" => job[l].place = "waiting"
    BY <1>1, <2>1, NothingNewLeaves
  <2>3. NothingNew(w)
    BY <1>2, <2>2, Amounts DEF NothingNew
  <2>4. NotPaidAgain(w)'
    BY <1>3, <2>2, NotPaidAgainStays DEF Calm
  <2> QED
    BY <2>3, <2>4, NothingNewFits DEF Calm
<1> QED
  BY <1>4, <1>5

-----------------------------------------------------------------------------
(* The steps of the chain and of the owners.                               *)

LEMMA CalmConfirm ==
  ASSUME TypeOK, TypeOK', NEW t \in Tx, Confirm(t), NEW w \in Wallet, Calm(w)
  PROVE  Calm(w)'
<1> DEFINE v == tx[t].wallet
<1>1. tx[t] \in TxType
  BY DEF Confirm, Settle, TypeOK
<1>2. v \in Wallet /\ tx[t].amount \in Nat
  BY <1>1 DEF TxType
<1>3. UNCHANGED <<check, job, worker>>
  BY DEF Confirm
<1>4. tx'[t] = NoTx /\ \A u \in Tx \ {t} : tx'[u] = tx[u]
  BY DEF Confirm, Settle, TypeOK
<1>5. NoTx.wallet # w
  BY RefillConstants DEF NoTx
<1>6. NotPaidAgain(w)'
  BY <1>3 DEF Calm, NotPaidAgain, JobOf, Unpaid
<1>7. PICK received \in Received(v, tx[t].amount) :
        balance' = [balance EXCEPT ![v] = @ + received]
  BY DEF Confirm
<1>8. CASE v # w
  <2>1. balance'[w] <= balance[w]
    BY <1>7, <1>8, Amounts DEF TypeOK
  <2>2. NothingNew(w)
    BY <1>3, <1>4, <1>5, <2>1 DEF NothingNew
  <2> QED
    BY <1>6, <2>2, NothingNewFits DEF Calm
<1>9. CASE v = w
  <2>1. t \in TxsTo(w)
    BY <1>9 DEF TxsTo
  <2>2. AskedFor(w) = {} /\ Queued(w) = {} /\ \A u \in TxsTo(w) : u = t
    BY <2>1 DEF Calm, OneAtATime
  <2>3. AskedFor(w)' = {} /\ Queued(w)' = {}
    BY <1>3, <2>2 DEF AskedFor, Queued
  <2>4. TxsTo(w)' = {}
    BY <1>4, <1>5, <2>2 DEF TxsTo
  <2>5. balance[w] + tx[t].amount <= Max
    BY <2>1 DEF Calm, Fits
  <2>6. balance'[w] <= Max
    <3>1. balance'[w] = balance[w] + received
      BY <1>7, <1>9 DEF TypeOK
    <3>2. received \in Int /\ received <= tx[t].amount
      BY <1>2, <1>7 DEF Received
    <3> QED
      BY <1>2, <2>5, <3>1, <3>2, Amounts
  <2>7. Fits(w)'
    BY <2>3, <2>4, <2>6 DEF Fits
  <2>8. OneAtATime(w)'
    BY <2>3, <2>4 DEF OneAtATime
  <2> QED
    BY <1>6, <2>7, <2>8 DEF Calm
<1> QED
  BY <1>8, <1>9

LEMMA CalmPayment ==
  ASSUME TypeOK, TypeOK', NEW t \in Tx, Reject(t) \/ Index(t) \/ Age(t),
         NEW w \in Wallet, Calm(w)
  PROVE  Calm(w)'
<1>1. UNCHANGED <<balance, check, job, worker>>
  BY DEF Reject, Index, Age
<1>2. \A u \in Tx \ {t} : tx'[u].wallet = tx[u].wallet /\ tx'[u].amount = tx[u].amount
  BY IndexedElse DEF Reject, Age, Settle, TypeOK
<1>3. NoTx.wallet # w
  BY RefillConstants DEF NoTx
<1>4. \/ tx'[t] = NoTx
      \/ tx'[t].wallet = tx[t].wallet /\ tx'[t].amount = tx[t].amount
  <2>1. CASE Reject(t)
    BY <2>1 DEF Reject, Settle, TypeOK
  <2>2. CASE Index(t) \/ Age(t)
    <3>1. tx[t] \in TxType
      BY <2>2 DEF Index, Age, TypeOK, NoTx
    <3> QED
      BY <2>2, <3>1 DEF Index, Age, TypeOK, TxType
  <2> QED
    BY <2>1, <2>2
<1>5. NothingNew(w)
  BY <1>1, <1>2, <1>3, <1>4, Amounts DEF NothingNew
<1>6. NotPaidAgain(w)'
  BY <1>1 DEF Calm, NotPaidAgain, JobOf, Unpaid
<1> QED
  BY <1>5, <1>6, NothingNewFits DEF Calm

LEMMA CalmSpend ==
  ASSUME TypeOK, TypeOK', NEW v \in Wallet, Spend(v), NEW w \in Wallet, Calm(w)
  PROVE  Calm(w)'
<1>1. UNCHANGED <<check, job, worker, tx>>
  BY DEF Spend
<1>2. balance'[w] <= balance[w]
  BY Amounts DEF Spend, TypeOK
<1>3. NothingNew(w)
  BY <1>1, <1>2 DEF NothingNew
<1>4. NotPaidAgain(w)'
  BY <1>1 DEF Calm, NotPaidAgain, JobOf, Unpaid
<1> QED
  BY <1>3, <1>4, NothingNewFits DEF Calm

-----------------------------------------------------------------------------

LEMMA CalmInit ==
  ASSUME Init  PROVE NoOverlap
<1> SUFFICES ASSUME NEW w \in Wallet PROVE Calm(w)
  BY DEF NoOverlap
<1>1. AskedFor(w) = {} /\ Queued(w) = {} /\ TxsTo(w) = {}
  BY RefillConstants DEF Init, AskedFor, Queued, TxsTo, NoCheck, NoJob, NoTx
<1>2. balance[w] = Max /\ Max \in Nat
  BY RefillConstants DEF Init
<1>3. Fits(w) /\ OneAtATime(w)
  BY <1>1, <1>2 DEF Fits, OneAtATime
<1>4. NotPaidAgain(w)
  BY DEF Init, NotPaidAgain, NoJob, NoWork, Unpaid
<1> QED
  BY <1>3, <1>4 DEF Calm

\* What has overlapped is never forgotten.
LEMMA OverlapsStay ==
  ASSUME [Next]_vars  PROVE overlapped \subseteq overlapped'
  BY DEF Next, vars, money, history, ReadBalance, Query, AskStatus, Request, Fetch,
     DryRun, CoverAr, Pay, Wait, Finish, Crash, Lapse, Confirm, Reject, Index, Age, Spend,
     Stall

LEMMA CalmNext ==
  ASSUME IInv, TypeOK', [Next]_vars, NEW w \in Wallet, w \notin overlapped', Calm(w)
  PROVE  Calm(w)'
<1> USE DEF IInv
<1>1. CASE \E i \in Instance, v \in Wallet : ReadBalance(i, v)
  BY <1>1, CalmReadBalance
<1>2. CASE \E i \in Instance : Query(i) \/ AskStatus(i)
  BY <1>2, CalmQuery
<1>3. CASE \E i \in Instance : Request(i)
  BY <1>3, CalmRequest
<1>4. CASE \E i \in Instance, j \in Job : Fetch(i, j)
  BY <1>4, CalmFetch
<1>5. ASSUME NEW i \in Instance, DryRun(i) \/ CoverAr(i) \/ Pay(i) \/ Wait(i)
      PROVE  Calm(w)'
  <2>1. MovesOn(i)
    BY <1>5 DEF MovesOn
  <2>2. CASE UNCHANGED <<job, tx>>
    <3>1. UNCHANGED <<balance, check>>
      BY <1>5 DEF DryRun, CoverAr, Pay, Wait, money
    <3> QED
      BY <2>1, <2>2, <3>1, CalmMovesOn
  <2>3. CASE Pay(i) /\ \E t \in Tx : Send(i, t)
    BY <2>3, CalmSend
  <2> QED
    BY <1>5, <2>2, <2>3 DEF DryRun, CoverAr, Pay, Wait, money
<1>6. CASE \E i \in Instance : Finish(i) \/ Crash(i)
  BY <1>6, CalmLeaves
<1>7. CASE \E i \in Instance : Lapse(i)
  BY <1>7, CalmLapse
<1>8. CASE \E t \in Tx : Confirm(t)
  BY <1>8, CalmConfirm
<1>9. CASE \E t \in Tx : Reject(t) \/ Index(t) \/ Age(t)
  BY <1>9, CalmPayment
<1>10. CASE \E v \in Wallet : Spend(v)
  BY <1>10, CalmSpend
<1>11. CASE \E j \in Job : Stall(j)
  BY <1>11, CalmStall
<1>12. CASE UNCHANGED vars
  BY <1>12 DEF vars, money, Calm, Fits, OneAtATime, NotPaidAgain, AskedFor, Queued,
     TxsTo, JobOf, Unpaid
<1> QED
  BY <1>1, <1>2, <1>3, <1>4, <1>5, <1>6, <1>7, <1>8, <1>9, <1>10, <1>11, <1>12 DEF Next

\* However checks, refills, payments and crashes of any number of instances
\* interleave, a refill lifts a wallet above its maximum only when two refills
\* of that wallet overlapped (balance-checks-queue.ts, refills-queue.ts).
THEOREM OverfillNeedsOverlap == Spec => []OverfillsOnlyByOverlap
<1>1. Init => NoOverlap
  BY CalmInit
<1>2. IInv /\ IInv' /\ NoOverlap /\ [Next]_vars => NoOverlap'
  <2> SUFFICES ASSUME IInv, IInv', NoOverlap, [Next]_vars,
                      NEW w \in Wallet, w \notin overlapped'
               PROVE  Calm(w)'
    BY DEF NoOverlap
  <2>1. w \notin overlapped
    BY OverlapsStay
  <2>2. Calm(w)
    BY <2>1 DEF NoOverlap
  <2>3. TypeOK'
    BY DEF IInv
  <2> QED
    BY <2>2, <2>3, CalmNext
<1>3. IInv /\ NoOverlap => OverfillsOnlyByOverlap
  <2> SUFFICES ASSUME IInv, NoOverlap, NEW w \in Wallet, w \notin overlapped
               PROVE  ~(balance[w] > Max)
    BY DEF OverfillsOnlyByOverlap
  <2>1. balance[w] <= Max
    BY DEF NoOverlap, Calm, Fits
  <2> QED
    BY <2>1, Amounts DEF IInv
<1> QED
  BY <1>1, <1>2, <1>3, Invariance, PTL DEF Spec
=============================================================================
