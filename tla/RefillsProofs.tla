--------------------------- MODULE RefillsProofs ---------------------------
(***************************************************************************)
(* TLAPS proofs about Refills for any wallets, thresholds, jobs, payments  *)
(* and bounds: type correctness, PaysAtMostTwice, SeesPendingTopUps and    *)
(* DryRunSendsNothing.                                                     *)
(***************************************************************************)
EXTENDS Refills, ThresholdsProofs

-----------------------------------------------------------------------------
(* The inductive invariant.                                                *)

\* A worker's job is kept, and no two workers are at the same run of it: they
\* fetch a job that waits, after BullMQ has taken it back from all before them.
WorkersHoldTheirJobs ==
  /\ \A i \in Instance : worker[i] # NoWork =>
       /\ JobOf(i) # NoJob
       /\ worker[i].run <= JobOf(i).stalls
       /\ JobOf(i).place = "waiting" => worker[i].run < JobOf(i).stalls
  /\ \A i, k \in Instance :
       worker[i] # NoWork /\ worker[i].job = worker[k].job
         /\ worker[i].run = worker[k].run => i = k

\* A run of a job pays once at most: what a job has paid, and what its workers
\* and its next run may still pay, is no more than its runs.
OnePaymentPerRun ==
  /\ \A j \in Job : job[j].paid <= job[j].stalls + 1
  /\ \A j \in Job : job[j].place = "waiting" => job[j].paid <= job[j].stalls
  /\ \A i \in Instance : Unpaid(i) => JobOf(i).paid <= JobOf(i).stalls
  /\ \A i \in Instance :
       Unpaid(i) /\ JobOf(i).place = "waiting" => JobOf(i).paid + 1 <= JobOf(i).stalls
  /\ \A i, k \in Instance :
       Unpaid(i) /\ Unpaid(k) /\ worker[i].job = worker[k].job /\ i # k
         => JobOf(i).paid + 1 <= JobOf(i).stalls

\* What a running Turbo check could see from its start is still visible and
\* for its wallet; once the gateway answered it is on the list, or was off the
\* page, and when the list has been worked off no more of the former is left -
\* unless the answer misled the check.
WatchedAreListed ==
  \A i \in Instance : check[i].wallet \in Turbo =>
    /\ watched[i] \subseteq Visible(check[i].wallet)
    /\ check[i].pc = "status" =>
         \A t \in watched[i] : t \in check[i].listed \/ tx[t].newer = First
    /\ check[i].pc = "add" /\ ~check[i].misled =>
         \A t \in watched[i] : tx[t].newer = First

\* Unless live, no worker gets as far as paying.
NobodyPays ==
  ~isLive => \A i \in Instance : worker[i].pc # "covered"

IInv ==
  /\ TypeOK
  /\ WorkersHoldTheirJobs
  /\ OnePaymentPerRun
  /\ WatchedAreListed
  /\ NobodyPays
  /\ DryRunSendsNothing

-----------------------------------------------------------------------------
(* Steps on single records.                                                *)

\* The sentinels are told from the records by their fields.
LEMMA Sentinels ==
  /\ \A c \in CheckType : c # NoCheck /\ c.wallet \in Wallet
  /\ \A r \in JobType : r # NoJob /\ r.place # "absent"
  /\ \A r \in WorkType : r # NoWork /\ r.pc # "idle"
  /\ \A r \in TxType : r # NoTx /\ r.stage # "none"
  BY RefillConstants
     DEF CheckType, NoCheck, JobType, NoJob, WorkType, NoWork, TxType, NoTx

\* A request of any check is the shortfall of the balance it fetched.
LEMMA ReadingOfRestores ==
  ASSUME NEW w \in Wallet, NEW fetched \in Nat \cup {Missing}
  PROVE  Restores(ReadingOf(w, fetched), fetched, Min, Max)
  BY RequestIsShortfall, RefillConstants DEF ReadingOf

\* A worker that is past "idle" has a job, of which there is a record.
LEMMA BusyWorker ==
  ASSUME TypeOK, WorkersHoldTheirJobs, NEW i \in Instance, worker[i].pc # "idle"
  PROVE  /\ worker[i] \in WorkType /\ worker[i] # NoWork
         /\ worker[i].job \in Job
         /\ JobOf(i) \in JobType
<1>1. worker[i] \in WorkType
  BY DEF TypeOK, NoWork
<1>2. worker[i].job \in Job /\ worker[i] # NoWork
  BY <1>1, Sentinels DEF WorkType
<1>3. JobOf(i) # NoJob
  BY <1>2 DEF WorkersHoldTheirJobs
<1>4. JobOf(i) \in JobType
  BY <1>2, <1>3 DEF TypeOK, JobOf
<1> QED
  BY <1>1, <1>2, <1>4

\* A job that is dropped is gone, or its record is free again.
LEMMA Drops ==
  ASSUME TypeOK, NEW j \in Job, NEW is, job' = Dropped(j, is)
  PROVE  /\ \A l \in Job \ {j} : job'[l] = job[l]
         /\ \/ job'[j] = NoJob /\ \A k \in is : worker[k].job # j
            \/ job'[j] = [job[j] EXCEPT !.place = "gone"]
  BY DEF TypeOK, Dropped

\* A check that is past "idle" is of a wallet.
LEMMA BusyCheck ==
  ASSUME TypeOK, NEW i \in Instance, check[i].pc # "idle"
  PROVE  check[i] \in CheckType
  BY DEF TypeOK, NoCheck

\* The payments that have not settled.
LEMMA LiveTx ==
  ASSUME TypeOK, NEW t \in Tx, tx[t] # NoTx
  PROVE  tx[t] \in TxType
  BY DEF TypeOK

\* Moving a worker on leaves the workers typed.
LEMMA WorkerMoves ==
  ASSUME TypeOK, NEW i \in Instance, worker[i] \in WorkType,
         NEW t \in Tx \cup {Missing},
         \/ worker' = [worker EXCEPT ![i].pc = "done"]
         \/ worker' = [worker EXCEPT ![i].pc = "covered"]
         \/ worker' = [worker EXCEPT ![i].pc = "mining", ![i].tx = t]
         \/ worker' = [worker EXCEPT ![i].pc = "done", ![i].tx = Missing]
  PROVE  worker' \in [Instance -> WorkType \cup {NoWork}]
<1>1. /\ [worker[i] EXCEPT !.pc = "done"] \in WorkType
      /\ [worker[i] EXCEPT !.pc = "covered"] \in WorkType
      /\ [[worker[i] EXCEPT !.pc = "mining"] EXCEPT !.tx = t] \in WorkType
      /\ [[worker[i] EXCEPT !.pc = "done"] EXCEPT !.tx = Missing] \in WorkType
  BY DEF WorkType
<1>2. worker \in [Instance -> WorkType \cup {NoWork}]
  BY DEF TypeOK
<1>3. CASE worker' = [worker EXCEPT ![i].pc = "done"]
  BY <1>1, <1>2, <1>3
<1>4. CASE worker' = [worker EXCEPT ![i].pc = "covered"]
  BY <1>1, <1>2, <1>4
<1>5. CASE worker' = [worker EXCEPT ![i].pc = "mining", ![i].tx = t]
  BY <1>1, <1>2, <1>5
<1>6. CASE worker' = [worker EXCEPT ![i].pc = "done", ![i].tx = Missing]
  BY <1>1, <1>2, <1>6
<1> QED
  BY <1>3, <1>4, <1>5, <1>6

\* Sending a payment leaves payments and jobs typed.
LEMMA SendType ==
  ASSUME TypeOK, WorkersHoldTheirJobs, NEW i \in Instance, worker[i].pc # "idle",
         NEW t \in Tx, Send(i, t)
  PROVE  /\ tx' \in [Tx -> TxType \cup {NoTx}]
         /\ job' \in [Job -> JobType \cup {NoJob}]
<1>1. worker[i].job \in Job /\ JobOf(i) \in JobType
  BY BusyWorker
<1>2. [wallet |-> JobOf(i).wallet, amount |-> JobOf(i).amount, stage |-> "posted",
       newer |-> 0] \in TxType
  BY <1>1, RefillConstants DEF JobType, TxType
<1>3. tx' \in [Tx -> TxType \cup {NoTx}]
  BY <1>2 DEF Send, TypeOK
<1>4. [job[worker[i].job] EXCEPT !.paid = @ + 1] \in JobType
  BY <1>1 DEF JobType, JobOf
<1>5. job' \in [Job -> JobType \cup {NoJob}]
  BY <1>1, <1>4 DEF Send, TypeOK
<1> QED
  BY <1>3, <1>5

-----------------------------------------------------------------------------
(* Type correctness.                                                       *)

LEMMA InitType == Init => TypeOK
  BY RefillConstants DEF Init, TypeOK

LEMMA FailsType == TypeOK /\ Fails => errors' \in 0..MaxErrors
  BY RefillConstants DEF Fails, TypeOK

LEMMA ReadBalanceType ==
  ASSUME TypeOK, NEW i \in Instance, NEW w \in Wallet, ReadBalance(i, w)
  PROVE  TypeOK'
<1>1. PICK fetched \in {balance[w], Missing} :
        LET request == ReadingOf(w, fetched).requestAmount IN
        /\ IF fetched = Missing THEN Fails ELSE UNCHANGED errors
        /\ IF request = Missing
           THEN UNCHANGED <<check, watched, overlapped>>
           ELSE /\ check' = [check EXCEPT ![i] =
                     [wallet |-> w, pc |-> IF w \in Turbo THEN "query" ELSE "add",
                      request |-> request, listed |-> {}, misled |-> FALSE]]
                /\ watched' = [watched EXCEPT ![i] = Visible(w)]
                /\ overlapped' = IF Underway(w) THEN overlapped \cup {w} ELSE overlapped
  BY DEF ReadBalance
<1>2. fetched \in Nat \cup {Missing}
  BY DEF TypeOK
<1> DEFINE request == ReadingOf(w, fetched).requestAmount
<1>3. request # Missing => request \in Nat
  BY <1>2, ReadingOfRestores DEF Restores
<1>4. errors' \in 0..MaxErrors
  BY <1>1, FailsType DEF TypeOK
<1>5. Visible(w) \subseteq Tx
  BY DEF Visible, TxsTo
<1>6. CASE request = Missing
  BY <1>1, <1>4, <1>6 DEF ReadBalance, TypeOK, money
<1>7. CASE request # Missing
  <2>1. [wallet |-> w, pc |-> IF w \in Turbo THEN "query" ELSE "add",
         request |-> request, listed |-> {}, misled |-> FALSE] \in CheckType
    BY <1>3, <1>7 DEF CheckType
  <2>2. check' \in [Instance -> CheckType \cup {NoCheck}]
    BY <1>1, <1>7, <2>1 DEF TypeOK
  <2>3. watched' \in [Instance -> SUBSET Tx] /\ overlapped' \subseteq Wallet
    BY <1>1, <1>5, <1>7 DEF TypeOK
  <2> QED
    BY <1>4, <2>2, <2>3 DEF ReadBalance, TypeOK, money
<1> QED
  BY <1>6, <1>7

LEMMA QueryType ==
  ASSUME TypeOK, NEW i \in Instance, Query(i)
  PROVE  TypeOK'
<1>1. check[i] \in CheckType
  BY BusyCheck DEF Query
<1> DEFINE found == {t \in Visible(check[i].wallet) : OnPage(t)}
<1>2. found \subseteq Tx
  BY DEF Visible, TxsTo
<1>3. errors' \in 0..MaxErrors
  BY FailsType DEF Query, TypeOK
<1>4. [[check[i] EXCEPT !.listed = found] EXCEPT
         !.pc = IF found = {} THEN "add" ELSE "status"] \in CheckType
  BY <1>1, <1>2 DEF CheckType
<1>5. OnErrorAnswer(check[i]) \in CheckType
  BY <1>1 DEF OnErrorAnswer, CheckType
<1>6. check' \in [Instance -> CheckType \cup {NoCheck}]
  BY <1>4, <1>5 DEF Query, OnError, TypeOK
<1> QED
  BY <1>3, <1>6 DEF Query, TypeOK, money

LEMMA AskStatusType ==
  ASSUME TypeOK, NEW i \in Instance, AskStatus(i)
  PROVE  TypeOK'
<1>1. check[i] \in CheckType
  BY BusyCheck DEF AskStatus
<1>2. errors' \in 0..MaxErrors
  BY FailsType DEF AskStatus, TypeOK
<1>3. ASSUME NEW t \in Tx
      PROVE  [[check[i] EXCEPT !.listed = @ \ {t}] EXCEPT
                !.pc = IF check[i].listed = {t} THEN "add" ELSE "status"] \in CheckType
  BY <1>1 DEF CheckType
<1>4. check' \in [Instance -> CheckType \cup {NoCheck}]
  <2>1. PICK t \in check[i].listed :
          \/ check' = [check EXCEPT ![i] = NoCheck]
          \/ check' = [check EXCEPT ![i].listed = @ \ {t},
               ![i].pc = IF check[i].listed = {t} THEN "add" ELSE "status"]
    BY DEF AskStatus, OnError
  <2>2. t \in Tx
    BY <1>1 DEF CheckType
  <2> QED
    BY <1>3, <2>1, <2>2 DEF TypeOK
<1> QED
  BY <1>2, <1>4 DEF AskStatus, TypeOK, money

LEMMA RequestType ==
  ASSUME TypeOK, NEW i \in Instance, Request(i)
  PROVE  TypeOK'
<1>1. check[i] \in CheckType
  BY BusyCheck DEF Request
<1>2. errors' \in 0..MaxErrors
  BY FailsType DEF Request, TypeOK
<1>3. [wallet |-> check[i].wallet, place |-> "waiting", amount |-> check[i].request,
       stalls |-> 0, paid |-> 0] \in JobType
  BY <1>1 DEF CheckType, JobType
<1>4. job' \in [Job -> JobType \cup {NoJob}]
  BY <1>3 DEF Request, TypeOK
<1>5. check' \in [Instance -> CheckType \cup {NoCheck}]
  BY DEF Request, TypeOK
<1> QED
  BY <1>2, <1>4, <1>5 DEF Request, TypeOK, money

LEMMA DroppedType ==
  ASSUME TypeOK, NEW j \in Job, job[j] \in JobType, NEW is
  PROVE  Dropped(j, is) \in [Job -> JobType \cup {NoJob}]
<1>1. [job[j] EXCEPT !.place = "gone"] \in JobType
  BY DEF JobType
<1> QED
  BY <1>1 DEF Dropped, TypeOK

LEMMA FetchType ==
  ASSUME TypeOK, NEW i \in Instance, NEW j \in Job, Fetch(i, j)
  PROVE  TypeOK'
<1>1. job[j] \in JobType
  BY DEF Fetch, TypeOK, NoJob
<1>2. [job[j] EXCEPT !.place = "active"] \in JobType
  BY <1>1 DEF JobType
<1>3. [job |-> j, run |-> job[j].stalls, locked |-> TRUE, pc |-> "start", tx |-> Missing]
        \in WorkType
  BY <1>1 DEF WorkType, JobType
<1>4. job' \in [Job -> JobType \cup {NoJob}]
  BY <1>2 DEF Fetch, TypeOK
<1>5. worker' \in [Instance -> WorkType \cup {NoWork}]
  BY <1>3 DEF Fetch, TypeOK
<1> QED
  BY <1>4, <1>5 DEF Fetch, TypeOK, money, history

LEMMA WorkerStepType ==
  ASSUME TypeOK, WorkersHoldTheirJobs, NEW i \in Instance,
         DryRun(i) \/ CoverAr(i) \/ Wait(i) \/ Finish(i)
  PROVE  TypeOK'
<1>1. worker[i] \in WorkType /\ worker[i].job \in Job /\ JobOf(i) \in JobType
  BY BusyWorker DEF DryRun, CoverAr, Wait, Finish
<1>2. worker' \in [Instance -> WorkType \cup {NoWork}]
  <2>1. CASE DryRun(i) \/ CoverAr(i)
    <3>1. \/ worker' = [worker EXCEPT ![i].pc = "done"]
          \/ worker' = [worker EXCEPT ![i].pc = "covered"]
      <4>1. CASE DryRun(i)
        BY <4>1 DEF DryRun
      <4>2. CASE CoverAr(i)
        <5>1. CASE spender["ar"] < JobOf(i).amount
          BY <4>2, <5>1 DEF CoverAr
        <5>2. CASE ~(spender["ar"] < JobOf(i).amount)
          BY <4>2, <5>2 DEF CoverAr
        <5> QED
          BY <5>1, <5>2
      <4> QED
        BY <2>1, <4>1, <4>2
    <3>2. Missing \in Tx \cup {Missing}
      OBVIOUS
    <3> QED
      BY <1>1, <3>1, <3>2, WorkerMoves
  <2>2. CASE Wait(i)
    <3>1. worker' = [worker EXCEPT ![i].pc = "done", ![i].tx = Missing]
      BY <2>2 DEF Wait
    <3>2. Missing \in Tx \cup {Missing}
      OBVIOUS
    <3> QED
      BY <1>1, <3>1, <3>2, WorkerMoves
  <2>3. CASE Finish(i)
    BY <2>3 DEF Finish, TypeOK
  <2> QED
    BY <2>1, <2>2, <2>3
<1>3. job' \in [Job -> JobType \cup {NoJob}]
  BY <1>1, DroppedType DEF DryRun, CoverAr, Wait, Finish, TypeOK, JobOf
<1>4. errors' \in 0..MaxErrors
  BY FailsType DEF DryRun, CoverAr, Wait, Finish, TypeOK, history
<1> QED
  BY <1>2, <1>3, <1>4 DEF DryRun, CoverAr, Wait, Finish, TypeOK, money, history

LEMMA PayType ==
  ASSUME TypeOK, WorkersHoldTheirJobs, NEW i \in Instance, Pay(i)
  PROVE  TypeOK'
<1>1. worker[i].pc # "idle" /\ worker[i] \in WorkType
  BY BusyWorker DEF Pay
<1>2. tx' \in [Tx -> TxType \cup {NoTx}] /\ job' \in [Job -> JobType \cup {NoJob}]
  <2>1. (\E t \in Tx : Send(i, t)) \/ UNCHANGED <<tx, job>>
    BY DEF Pay
  <2>2. CASE \E t \in Tx : Send(i, t)
    BY <1>1, <2>2, SendType
  <2>3. CASE UNCHANGED <<tx, job>>
    BY <2>3 DEF TypeOK
  <2> QED
    BY <2>1, <2>2, <2>3
<1>3. worker' \in [Instance -> WorkType \cup {NoWork}]
  <2>1. \/ worker' = [worker EXCEPT ![i].pc = "done"]
        \/ \E t \in Tx : worker' = [worker EXCEPT ![i].pc = "mining", ![i].tx = t]
    <3>1. CASE JobOf(i).wallet \in Pool
      BY <3>1 DEF Pay
    <3>2. CASE JobOf(i).wallet \notin Pool
      BY <3>2 DEF Pay
    <3> QED
      BY <3>1, <3>2
  <2>2. CASE worker' = [worker EXCEPT ![i].pc = "done"]
    <3>1. Missing \in Tx \cup {Missing}
      OBVIOUS
    <3> QED
      BY <1>1, <2>2, <3>1, WorkerMoves
  <2>3. ASSUME NEW t \in Tx, worker' = [worker EXCEPT ![i].pc = "mining", ![i].tx = t]
        PROVE  worker' \in [Instance -> WorkType \cup {NoWork}]
    <3>1. t \in Tx \cup {Missing}
      OBVIOUS
    <3> QED
      BY <1>1, <2>3, <3>1, WorkerMoves
  <2> QED
    BY <2>1, <2>2, <2>3
<1>4. errors' \in 0..MaxErrors
  BY FailsType DEF Pay, TypeOK
<1> QED
  BY <1>2, <1>3, <1>4 DEF Pay, TypeOK

LEMMA SettleType ==
  ASSUME TypeOK, NEW t \in Tx, Settle(t)
  PROVE  /\ tx' \in [Tx -> TxType \cup {NoTx}]
         /\ watched' \in [Instance -> SUBSET Tx]
         /\ tx[t].wallet \in Wallet /\ tx[t].amount \in Nat
<1>1. tx[t] \in TxType
  BY LiveTx DEF Settle
<1> QED
  BY <1>1 DEF Settle, TypeOK, TxType

LEMMA ConfirmType ==
  ASSUME TypeOK, NEW t \in Tx, Confirm(t)
  PROVE  TypeOK'
<1> DEFINE w == tx[t].wallet
           amount == tx[t].amount
<1>1. /\ tx' \in [Tx -> TxType \cup {NoTx}]
      /\ watched' \in [Instance -> SUBSET Tx]
      /\ w \in Wallet /\ amount \in Nat
  BY SettleType DEF Confirm
<1>2. Asset(w) \in {"ar", "token"}
  BY DEF Asset
<1>3. spender' \in [{"ar", "token"} -> Nat]
  <2>1. /\ spender[Asset(w)] >= amount
        /\ spender' = [spender EXCEPT ![Asset(w)] = @ - amount]
    BY DEF Confirm
  <2>2. spender[Asset(w)] - amount \in Nat
    BY <1>1, <1>2, <2>1 DEF TypeOK
  <2> QED
    BY <1>2, <2>1, <2>2 DEF TypeOK
<1>4. balance' \in [Wallet -> Nat]
  <2>1. PICK received \in Received(w, amount) :
          balance' = [balance EXCEPT ![w] = @ + received]
    BY DEF Confirm
  <2>2. received \in Nat
    BY <1>1 DEF Received
  <2> QED
    BY <1>1, <2>1, <2>2 DEF TypeOK
<1> QED
  BY <1>1, <1>3, <1>4 DEF Confirm, TypeOK

LEMMA RejectType ==
  ASSUME TypeOK, NEW t \in Tx, Reject(t)
  PROVE  TypeOK'
<1>1. /\ tx' \in [Tx -> TxType \cup {NoTx}]
      /\ watched' \in [Instance -> SUBSET Tx]
  BY SettleType DEF Reject
<1>2. errors' \in 0..MaxErrors
  BY FailsType DEF Reject, TypeOK
<1> QED
  BY <1>1, <1>2 DEF Reject, TypeOK

\* Indexing a top-up moves those on the page down by one.
LEMMA Indexed ==
  ASSUME TypeOK, NEW t \in Tx, Index(t)
  PROVE  /\ tx[t] \in TxType /\ tx'[t] = [tx[t] EXCEPT !.stage = "visible"]
         /\ \A u \in Tx \ {t} :
              \/ tx'[u] = tx[u]
              \/ tx[u] \in TxType /\ OnPage(u) /\ tx'[u] = [tx[u] EXCEPT !.newer = @ + 1]
<1>1. \A u \in Tx : tx[u].stage \in {"posted", "visible"} => tx[u] \in TxType
  BY DEF TypeOK, NoTx
<1> QED
  BY <1>1 DEF Index, Visible

\* Those that are moved down keep all else, and those off the page stay there.
LEMMA IndexedElse ==
  ASSUME TypeOK, NEW t \in Tx, Index(t), NEW u \in Tx \ {t}
  PROVE  /\ tx'[u].wallet = tx[u].wallet /\ tx'[u].amount = tx[u].amount
         /\ tx'[u].stage = tx[u].stage
         /\ tx[u].newer = First => tx'[u].newer = First
<1>1. CASE tx'[u] = tx[u]
  BY <1>1
<1>2. CASE tx[u] \in TxType /\ OnPage(u) /\ tx'[u] = [tx[u] EXCEPT !.newer = @ + 1]
  BY <1>2, RefillConstants DEF TxType, OnPage
<1> QED
  BY <1>1, <1>2, Indexed

LEMMA IndexType ==
  ASSUME TypeOK, NEW t \in Tx, Index(t) \/ Age(t)
  PROVE  TypeOK'
<1>1. tx[t] \in TxType
  BY DEF Index, Age, TypeOK, NoTx
<1>2. \A s \in {"visible", "aged"} : [tx[t] EXCEPT !.stage = s] \in TxType
  BY <1>1 DEF TxType
<1>3. tx' \in [Tx -> TxType \cup {NoTx}]
  <2>1. CASE Age(t)
    BY <1>2, <2>1 DEF Age, TypeOK
  <2>2. CASE Index(t)
    <3>1. ASSUME NEW u \in Tx, tx[u] \in TxType, OnPage(u)
          PROVE  [tx[u] EXCEPT !.newer = @ + 1] \in TxType
      BY <3>1, RefillConstants DEF TxType, OnPage
    <3>2. tx'[t] \in TxType
      BY <1>2, <2>2, Indexed
    <3>3. ASSUME NEW u \in Tx \ {t}
          PROVE  tx'[u] \in TxType \cup {NoTx}
      <4>1. CASE tx'[u] = tx[u]
        BY <4>1 DEF TypeOK
      <4>2. CASE tx[u] \in TxType /\ OnPage(u) /\ tx'[u] = [tx[u] EXCEPT !.newer = @ + 1]
        BY <3>1, <4>2
      <4> QED
        BY <2>2, <4>1, <4>2, Indexed
    <3>4. tx' = [u \in Tx |-> tx'[u]]
      BY <2>2 DEF Index
    <3> QED
      BY <3>2, <3>3, <3>4
  <2> QED
    BY <2>1, <2>2
<1>4. watched' \in [Instance -> SUBSET Tx]
  BY DEF Index, Age, TypeOK, history
<1> QED
  BY <1>3, <1>4 DEF Index, Age, TypeOK, history

LEMMA SpendType ==
  ASSUME TypeOK, NEW w \in Wallet, Spend(w)
  PROVE  TypeOK'
<1>1. balance[w] - 1 \in Nat
  BY DEF Spend, TypeOK
<1> QED
  BY <1>1 DEF Spend, TypeOK, history

LEMMA CrashType ==
  ASSUME TypeOK, WorkersHoldTheirJobs, NEW i \in Instance, Crash(i)
  PROVE  TypeOK'
<1>1. downs' \in 0..MaxDowns
  BY RefillConstants DEF Crash, TypeOK
<1>2. job' \in [Job -> JobType \cup {NoJob}]
  <2>1. CASE worker[i] # NoWork
    <3>1. worker[i].job \in Job /\ JobOf(i) \in JobType
      BY <2>1, BusyWorker, Sentinels DEF TypeOK
    <3> QED
      BY <3>1, DroppedType DEF Crash, JobOf, TypeOK
  <2>2. CASE worker[i] = NoWork
    BY <2>2 DEF Crash, TypeOK
  <2> QED
    BY <2>1, <2>2
<1> QED
  BY <1>1, <1>2 DEF Crash, TypeOK, money

LEMMA LapseType ==
  ASSUME TypeOK, NEW i \in Instance, Lapse(i)
  PROVE  TypeOK'
<1>1. downs' \in 0..MaxDowns
  BY RefillConstants DEF Lapse, TypeOK
<1>2. worker[i] \in WorkType
  BY DEF Lapse, TypeOK, NoWork
<1>3. [worker[i] EXCEPT !.locked = FALSE] \in WorkType
  BY <1>2 DEF WorkType
<1>4. worker' \in [Instance -> WorkType \cup {NoWork}]
  BY <1>3 DEF Lapse, TypeOK
<1> QED
  BY <1>1, <1>4 DEF Lapse, TypeOK, money

LEMMA StallType ==
  ASSUME TypeOK, NEW j \in Job, Stall(j)
  PROVE  TypeOK'
<1>1. job[j] \in JobType
  BY DEF Stall, TypeOK, NoJob
<1>2. job[j].wallet \in Wallet /\ overlapped' \subseteq Wallet
  BY <1>1 DEF Stall, TypeOK, JobType
<1>3. MayRetry(j) =>
        [[job[j] EXCEPT !.place = "waiting"] EXCEPT !.stalls = job[j].stalls + 1]
          \in JobType
  <2>1. MayRetry(j) => job[j].stalls + 1 \in 0..1
    BY <1>1 DEF MayRetry, JobType
  <2> QED
    BY <1>1, <2>1 DEF JobType
<1>4. job' \in [Job -> JobType \cup {NoJob}]
  <2>1. CASE MayRetry(j)
    BY <1>3, <2>1 DEF Stall, TypeOK
  <2>2. CASE ~MayRetry(j)
    BY <1>1, <2>2, DroppedType DEF Stall
  <2> QED
    BY <2>1, <2>2
<1> QED
  BY <1>2, <1>4 DEF Stall, TypeOK, money

LEMMA UnchangedType == TypeOK /\ UNCHANGED vars => TypeOK'
  BY DEF TypeOK, vars, history

LEMMA NextType == TypeOK /\ WorkersHoldTheirJobs /\ [Next]_vars => TypeOK'
<1> SUFFICES ASSUME TypeOK, WorkersHoldTheirJobs, [Next]_vars
             PROVE  TypeOK'
  OBVIOUS
<1>1. CASE \E i \in Instance, w \in Wallet : ReadBalance(i, w)
  BY <1>1, ReadBalanceType
<1>2. CASE \E i \in Instance : Query(i) \/ AskStatus(i) \/ Request(i)
  BY <1>2, QueryType, AskStatusType, RequestType
<1>3. CASE \E i \in Instance, j \in Job : Fetch(i, j)
  BY <1>3, FetchType
<1>4. CASE \E i \in Instance : DryRun(i) \/ CoverAr(i) \/ Wait(i) \/ Finish(i)
  BY <1>4, WorkerStepType
<1>5. CASE \E i \in Instance : Pay(i) \/ Crash(i) \/ Lapse(i)
  BY <1>5, PayType, CrashType, LapseType
<1>6. CASE \E t \in Tx : Confirm(t) \/ Reject(t) \/ Index(t) \/ Age(t)
  BY <1>6, ConfirmType, RejectType, IndexType
<1>7. CASE \E w \in Wallet : Spend(w)
  BY <1>7, SpendType
<1>8. CASE \E j \in Job : Stall(j)
  BY <1>8, StallType
<1>9. CASE UNCHANGED vars
  BY <1>9, UnchangedType
<1> QED
  BY <1>1, <1>2, <1>3, <1>4, <1>5, <1>6, <1>7, <1>8, <1>9 DEF Next

-----------------------------------------------------------------------------
(* Workers hold their jobs.                                                *)

\* The steps in which a worker moves on with its job.
MovesOn(i) == DryRun(i) \/ CoverAr(i) \/ Pay(i) \/ Wait(i)

\* They leave every worker its job and every job its place.
LEMMA MovingOn ==
  ASSUME TypeOK, WorkersHoldTheirJobs, NEW i \in Instance, MovesOn(i)
  PROVE  /\ \A k \in Instance : worker'[k].job = worker[k].job /\ worker'[k].run = worker[k].run
         /\ \A k \in Instance : worker'[k] = NoWork => worker[k] = NoWork
         /\ \A k \in Instance \ {i} : worker'[k] = worker[k]
         /\ \A j \in Job : /\ job'[j].place = job[j].place
                           /\ job'[j].stalls = job[j].stalls
<1>1. worker[i] \in WorkType /\ worker[i].job \in Job
  BY BusyWorker DEF MovesOn, DryRun, CoverAr, Pay, Wait
<1>2. \/ worker' = [worker EXCEPT ![i].pc = "done"]
      \/ worker' = [worker EXCEPT ![i].pc = "covered"]
      \/ \E t \in Tx : worker' = [worker EXCEPT ![i].pc = "mining", ![i].tx = t]
      \/ worker' = [worker EXCEPT ![i].pc = "done", ![i].tx = Missing]
  <2>1. CASE DryRun(i)
    BY <2>1 DEF DryRun
  <2>2. CASE CoverAr(i)
    <3>1. CASE spender["ar"] < JobOf(i).amount
      BY <2>2, <3>1 DEF CoverAr
    <3>2. CASE ~(spender["ar"] < JobOf(i).amount)
      BY <2>2, <3>2 DEF CoverAr
    <3> QED
      BY <3>1, <3>2
  <2>3. CASE Pay(i)
    <3>1. CASE JobOf(i).wallet \in Pool
      BY <2>3, <3>1 DEF Pay
    <3>2. CASE JobOf(i).wallet \notin Pool
      BY <2>3, <3>2 DEF Pay
    <3> QED
      BY <3>1, <3>2
  <2>4. CASE Wait(i)
    BY <2>4 DEF Wait
  <2> QED
    BY <2>1, <2>2, <2>3, <2>4 DEF MovesOn
<1>3. /\ worker'[i].job = worker[i].job /\ worker'[i].run = worker[i].run
      /\ worker'[i].pc # "idle"
  BY <1>1, <1>2 DEF TypeOK, WorkType
<1>4. \A k \in Instance \ {i} : worker'[k] = worker[k]
  BY <1>2 DEF TypeOK
<1>5. worker'[i] # NoWork
  BY <1>3 DEF NoWork
<1>6. \/ UNCHANGED job
      \/ job' = [job EXCEPT ![worker[i].job].paid = @ + 1]
  BY DEF MovesOn, DryRun, CoverAr, Pay, Wait, Send
<1>7. \A j \in Job : job'[j].place = job[j].place /\ job'[j].stalls = job[j].stalls
  BY <1>1, <1>6 DEF TypeOK, JobType, NoJob
<1> QED
  BY <1>3, <1>4, <1>5, <1>7

LEMMA HeldInit == Init => WorkersHoldTheirJobs
  BY DEF Init, WorkersHoldTheirJobs, NoWork

\* What a step must keep: the workers' jobs and their place in the runs.
LEMMA HeldStep ==
  ASSUME TypeOK, WorkersHoldTheirJobs,
         \A k \in Instance : worker'[k] # NoWork =>
           /\ worker[k] # NoWork
           /\ worker'[k].job = worker[k].job /\ worker'[k].run = worker[k].run
           /\ JobOf(k)' # NoJob /\ JobOf(k)'.stalls >= JobOf(k).stalls
           /\ JobOf(k)'.place = "waiting" =>
                JobOf(k).place = "waiting" \/ JobOf(k)'.stalls > JobOf(k).stalls,
         \A k \in Instance : worker'[k] # NoWork => JobOf(k)'.stalls \in Nat
  PROVE  WorkersHoldTheirJobs'
<1>1. \A k \in Instance : worker[k] # NoWork =>
        worker[k].run \in Nat /\ JobOf(k).stalls \in Nat /\ worker[k].job # Missing
  BY RefillConstants DEF TypeOK, WorkType, WorkersHoldTheirJobs, JobOf, JobType
<1>2. NoWork.job = Missing
  BY DEF NoWork
<1>3. ASSUME NEW k \in Instance, worker'[k] # NoWork
      PROVE  /\ JobOf(k)' # NoJob
             /\ worker'[k].run <= JobOf(k)'.stalls
             /\ JobOf(k)'.place = "waiting" => worker'[k].run < JobOf(k)'.stalls
  BY <1>1, <1>3 DEF WorkersHoldTheirJobs
<1>4. ASSUME NEW k \in Instance, NEW l \in Instance, worker'[k] # NoWork,
             worker'[k].job = worker'[l].job, worker'[k].run = worker'[l].run
      PROVE  k = l
  <2>1. worker'[l] # NoWork
    BY <1>1, <1>2, <1>4
  <2> QED
    BY <1>4, <2>1 DEF WorkersHoldTheirJobs
<1> QED
  BY <1>3, <1>4 DEF WorkersHoldTheirJobs

\* The jobs that workers are at are kept, with counts.
LEMMA Held ==
  ASSUME TypeOK, WorkersHoldTheirJobs, NEW k \in Instance, worker[k] # NoWork
  PROVE  /\ worker[k].job \in Job /\ worker[k].run \in 0..1
         /\ JobOf(k) \in JobType /\ JobOf(k) # NoJob /\ JobOf(k).stalls \in Nat
  BY Sentinels DEF TypeOK, WorkType, WorkersHoldTheirJobs, JobOf, JobType

LEMMA HeldRequest ==
  ASSUME TypeOK, WorkersHoldTheirJobs, NEW i \in Instance, Request(i)
  PROVE  WorkersHoldTheirJobs'
<1>1. UNCHANGED worker
  BY DEF Request
<1>2. ASSUME NEW k \in Instance, worker[k] # NoWork
      PROVE  JobOf(k)' = JobOf(k)
  BY <1>1, <1>2, Held DEF Request, TypeOK, JobOf
<1> QED
  BY <1>1, <1>2, Held, HeldStep

LEMMA HeldFetch ==
  ASSUME TypeOK, WorkersHoldTheirJobs, NEW i \in Instance, NEW j \in Job, Fetch(i, j)
  PROVE  WorkersHoldTheirJobs'
<1>1. job[j].place = "waiting" /\ job[j] \in JobType
  BY DEF Fetch, TypeOK, NoJob
<1>2. \A k \in Instance : worker[k] # NoWork /\ worker[k].job = j =>
        worker[k].run < job[j].stalls
  BY <1>1 DEF WorkersHoldTheirJobs, JobOf
<1>3. /\ worker'[i].job = j /\ worker'[i].run = job[j].stalls
      /\ \A k \in Instance \ {i} : worker'[k] = worker[k]
  BY DEF Fetch, TypeOK
<1>4. /\ job'[j].place = "active" /\ job'[j].stalls = job[j].stalls
      /\ \A l \in Job \ {j} : job'[l] = job[l]
  BY <1>1 DEF Fetch, TypeOK, JobType
<1>5. job'[j] # NoJob /\ job[j].stalls \in 0..1
  BY <1>1, <1>4 DEF NoJob, JobType
<1>6. NoWork.job \notin Job
  BY RefillConstants DEF NoWork
<1>7. ASSUME NEW k \in Instance, worker'[k] # NoWork
      PROVE  /\ JobOf(k)' # NoJob
             /\ worker'[k].run <= JobOf(k)'.stalls
             /\ JobOf(k)'.place = "waiting" => worker'[k].run < JobOf(k)'.stalls
  <2>1. CASE worker'[k].job = j
    <3>1. worker'[k].run <= job[j].stalls
      <4>1. CASE k = i
        BY <1>3, <1>5, <4>1
      <4>2. CASE k # i
        BY <1>2, <1>3, <1>5, <1>7, <2>1, <4>2, Held
      <4> QED
        BY <4>1, <4>2
    <3> QED
      BY <1>4, <1>5, <2>1, <3>1 DEF JobOf
  <2>2. CASE worker'[k].job # j
    <3>1. k # i /\ worker'[k] = worker[k] /\ worker[k] # NoWork
      BY <1>3, <1>7, <2>2
    <3>2. JobOf(k)' = JobOf(k)
      BY <1>4, <2>2, <3>1, Held DEF JobOf
    <3> QED
      BY <3>1, <3>2 DEF WorkersHoldTheirJobs
  <2> QED
    BY <2>1, <2>2
<1>8. ASSUME NEW k \in Instance, NEW l \in Instance, worker'[k] # NoWork,
             worker'[k].job = worker'[l].job, worker'[k].run = worker'[l].run
      PROVE  k = l
  <2>1. worker'[k].job \in Job
    BY <1>3, <1>8, Held
  <2>2. worker'[l] # NoWork
    BY <1>6, <1>8, <2>1
  <2>3. CASE k # i /\ l # i
    BY <1>3, <1>8, <2>3 DEF WorkersHoldTheirJobs
  <2>4. CASE k = i /\ l # i
    BY <1>2, <1>3, <1>5, <1>8, <2>2, <2>4
  <2>5. CASE k # i /\ l = i
    BY <1>2, <1>3, <1>5, <1>8, <2>5
  <2> QED
    BY <2>3, <2>4, <2>5
<1> QED
  BY <1>7, <1>8 DEF WorkersHoldTheirJobs

LEMMA HeldMovesOn ==
  ASSUME TypeOK, WorkersHoldTheirJobs, NEW i \in Instance, MovesOn(i)
  PROVE  WorkersHoldTheirJobs'
<1>1. worker[i] # NoWork
  BY BusyWorker DEF MovesOn, DryRun, CoverAr, Pay, Wait
<1>2. \A k \in Instance : worker'[k] # NoWork => worker[k] # NoWork
  BY <1>1, MovingOn
<1>3. ASSUME NEW k \in Instance, worker[k] # NoWork
      PROVE  /\ worker'[k].job = worker[k].job /\ worker'[k].run = worker[k].run
             /\ JobOf(k)' # NoJob /\ JobOf(k)'.stalls = JobOf(k).stalls
             /\ JobOf(k)'.place = JobOf(k).place
  <2>1. worker[k].job \in Job /\ JobOf(k).place # "absent"
    BY <1>3, Held, Sentinels
  <2> QED
    BY <2>1, MovingOn DEF JobOf, NoJob
<1> QED
  BY <1>2, <1>3, Held, HeldStep

\* A worker that leaves frees the record of a job only if nobody else is at it.
LEMMA HeldLeaves ==
  ASSUME TypeOK, WorkersHoldTheirJobs, NEW i \in Instance, Finish(i) \/ Crash(i)
  PROVE  WorkersHoldTheirJobs'
<1>1. /\ worker'[i] = NoWork
      /\ \A k \in Instance \ {i} : worker'[k] = worker[k]
  BY DEF Finish, Crash, TypeOK
<1>2. \/ UNCHANGED job
      \/ worker[i] # NoWork /\ job' = Dropped(worker[i].job, Instance \ {i})
  BY BusyWorker DEF Finish, Crash
<1>3. ASSUME NEW k \in Instance \ {i}, worker[k] # NoWork
      PROVE  /\ JobOf(k)' # NoJob /\ JobOf(k)'.stalls = JobOf(k).stalls
             /\ JobOf(k)'.place = "waiting" => JobOf(k).place = "waiting"
  <2>1. worker[k].job \in Job /\ JobOf(k) \in JobType
    BY <1>3, Held
  <2>2. CASE UNCHANGED job
    BY <1>1, <1>3, <2>2, Held DEF JobOf
  <2>3. CASE worker[i] # NoWork /\ job' = Dropped(worker[i].job, Instance \ {i})
    <3>1. worker[i].job \in Job
      BY <2>3, Held
    <3> DEFINE j == worker[i].job
    <3>2. /\ \A l \in Job \ {j} : job'[l] = job[l]
          /\ \/ job'[j] = NoJob /\ \A l \in Instance \ {i} : worker[l].job # j
             \/ job'[j] = [job[j] EXCEPT !.place = "gone"]
      BY <2>3, <3>1, Drops
    <3>3. \/ job'[worker[k].job] = job[worker[k].job]
          \/ job'[worker[k].job] = [job[worker[k].job] EXCEPT !.place = "gone"]
      BY <1>3, <2>1, <3>2
    <3>4. [JobOf(k) EXCEPT !.place = "gone"] # NoJob
      BY <2>1 DEF JobType, NoJob
    <3> QED
      BY <1>1, <1>3, <2>1, <3>3, <3>4, Held DEF JobOf, JobType
  <2> QED
    BY <1>2, <2>2, <2>3
<1> QED
  BY <1>1, <1>3, Held, HeldStep

LEMMA HeldLapse ==
  ASSUME TypeOK, WorkersHoldTheirJobs, NEW i \in Instance, Lapse(i)
  PROVE  WorkersHoldTheirJobs'
<1>1. worker[i] # NoWork
  BY DEF Lapse, NoWork
<1>2. worker[i] \in WorkType
  BY <1>1 DEF TypeOK
<1>3. /\ worker'[i].job = worker[i].job /\ worker'[i].run = worker[i].run
      /\ \A k \in Instance \ {i} : worker'[k] = worker[k]
  BY <1>2 DEF Lapse, TypeOK, WorkType
<1>4. UNCHANGED job
  BY DEF Lapse
<1> QED
  BY <1>1, <1>3, <1>4, Held, HeldStep DEF JobOf

LEMMA HeldStall ==
  ASSUME TypeOK, WorkersHoldTheirJobs, NEW j \in Job, Stall(j)
  PROVE  WorkersHoldTheirJobs'
<1>1. job[j] \in JobType /\ UNCHANGED worker
  BY DEF Stall, TypeOK, NoJob
<1>2. ASSUME NEW k \in Instance, worker[k] # NoWork
      PROVE  /\ JobOf(k)' # NoJob /\ JobOf(k)'.stalls \in Nat
             /\ JobOf(k)'.stalls >= JobOf(k).stalls
             /\ JobOf(k)'.place = "waiting" =>
                  JobOf(k).place = "waiting" \/ JobOf(k)'.stalls > JobOf(k).stalls
  <2>1. worker[k].job \in Job /\ JobOf(k) \in JobType /\ JobOf(k) # NoJob
        /\ JobOf(k).stalls \in Nat
    BY <1>2, Held
  <2>2. CASE worker[k].job # j
    <3>1. JobOf(k)' = JobOf(k)
      <4>1. CASE MayRetry(j)
        BY <1>1, <2>1, <2>2, <4>1 DEF Stall, TypeOK, JobOf
      <4>2. CASE ~MayRetry(j)
        BY <1>1, <2>1, <2>2, <4>2, Drops DEF Stall, JobOf
      <4> QED
        BY <4>1, <4>2
    <3> QED
      BY <2>1, <3>1
  <2>3. CASE worker[k].job = j /\ MayRetry(j)
    <3>1. /\ job'[j].place = "waiting" /\ job'[j].stalls = job[j].stalls + 1
      BY <1>1, <2>3 DEF Stall, TypeOK, JobType
    <3> QED
      BY <1>1, <2>1, <2>3, <3>1 DEF JobOf, NoJob
  <2>4. CASE worker[k].job = j /\ ~MayRetry(j)
    <3>1. job'[j] = [job[j] EXCEPT !.place = "gone"]
      BY <2>4, Drops DEF Stall
    <3> QED
      BY <1>1, <2>1, <2>4, <3>1 DEF JobOf, JobType, NoJob
  <2> QED
    BY <2>2, <2>3, <2>4
<1> QED
  BY <1>1, <1>2, HeldStep

LEMMA HeldNext ==
  TypeOK /\ WorkersHoldTheirJobs /\ [Next]_vars => WorkersHoldTheirJobs'
<1> SUFFICES ASSUME TypeOK, WorkersHoldTheirJobs, [Next]_vars
             PROVE  WorkersHoldTheirJobs'
  OBVIOUS
<1>1. CASE \E i \in Instance : Request(i)
  BY <1>1, HeldRequest
<1>2. CASE \E i \in Instance, j \in Job : Fetch(i, j)
  BY <1>2, HeldFetch
<1>3. CASE \E i \in Instance : MovesOn(i)
  BY <1>3, HeldMovesOn
<1>4. CASE \E i \in Instance : Finish(i) \/ Crash(i) \/ Lapse(i)
  BY <1>4, HeldLeaves, HeldLapse
<1>5. CASE \E j \in Job : Stall(j)
  BY <1>5, HeldStall
<1>6. CASE UNCHANGED <<worker, job>>
  BY <1>6 DEF WorkersHoldTheirJobs, JobOf
<1>7. \/ \E i \in Instance :
           Request(i) \/ MovesOn(i) \/ Finish(i) \/ Crash(i) \/ Lapse(i)
      \/ \E i \in Instance, j \in Job : Fetch(i, j)
      \/ \E j \in Job : Stall(j)
      \/ UNCHANGED <<worker, job>>
  BY DEF Next, MovesOn, vars, ReadBalance, Query, AskStatus, Confirm, Reject,
         Index, Age, Spend
<1> QED
  BY <1>1, <1>2, <1>3, <1>4, <1>5, <1>6, <1>7

-----------------------------------------------------------------------------
(* A run of a job pays once.                                               *)

LEMMA PaidInit == Init => OnePaymentPerRun
  BY DEF Init, OnePaymentPerRun, NoJob, NoWork, Unpaid

\* Every job has counts, also the ones that are absent.
LEMMA Counts ==
  ASSUME TypeOK, NEW j \in Job
  PROVE  job[j].paid \in Nat /\ job[j].stalls \in 0..1
  BY DEF TypeOK, JobType, NoJob

\* What a step must keep that pays nothing.
LEMMA PaidStep ==
  ASSUME TypeOK, OnePaymentPerRun,
         \A l \in Job :
           \/ job'[l].paid = 0 /\ job'[l].stalls = 0
           \/ /\ job'[l].paid = job[l].paid /\ job'[l].stalls \in Nat
              /\ \/ /\ job'[l].stalls = job[l].stalls
                    /\ job'[l].place = "waiting" => job[l].place = "waiting"
                 \/ job'[l].stalls = job[l].stalls + 1,
         \A k \in Instance : Unpaid(k)' =>
           /\ Unpaid(k) /\ worker'[k].job = worker[k].job /\ worker[k].job \in Job
           /\ JobOf(k)'.paid = JobOf(k).paid
           /\ \/ /\ JobOf(k)'.stalls = JobOf(k).stalls
                 /\ JobOf(k)'.place = "waiting" => JobOf(k).place = "waiting"
              \/ JobOf(k)'.stalls = JobOf(k).stalls + 1
  PROVE  OnePaymentPerRun'
<1>1. \A l \in Job : job[l].paid \in Nat /\ job[l].stalls \in Nat
  BY Counts
<1>2. \A l \in Job : /\ job'[l].paid <= job'[l].stalls + 1
                     /\ job'[l].place = "waiting" => job'[l].paid <= job'[l].stalls
  BY <1>1 DEF OnePaymentPerRun
<1>3. ASSUME NEW k \in Instance, Unpaid(k)'
      PROVE  /\ JobOf(k)'.paid <= JobOf(k)'.stalls
             /\ JobOf(k)'.place = "waiting" => JobOf(k)'.paid + 1 <= JobOf(k)'.stalls
  BY <1>1, <1>3 DEF OnePaymentPerRun, JobOf
<1>4. ASSUME NEW k \in Instance, NEW l \in Instance, Unpaid(k)', Unpaid(l)',
             worker'[k].job = worker'[l].job, k # l
      PROVE  JobOf(k)'.paid + 1 <= JobOf(k)'.stalls
  <2>1. JobOf(k).paid + 1 <= JobOf(k).stalls
    BY <1>4 DEF OnePaymentPerRun
  <2> QED
    BY <1>1, <1>4, <2>1 DEF JobOf
<1> QED
  BY <1>2, <1>3, <1>4 DEF OnePaymentPerRun

\* The jobs of the workers that have still to pay.
LEMMA PayersHold ==
  ASSUME TypeOK, WorkersHoldTheirJobs, NEW k \in Instance, Unpaid(k)
  PROVE  worker[k] # NoWork /\ worker[k].job \in Job /\ JobOf(k) \in JobType
  BY BusyWorker DEF Unpaid

LEMMA PaidRequest ==
  ASSUME TypeOK, WorkersHoldTheirJobs, OnePaymentPerRun, NEW i \in Instance, Request(i)
  PROVE  OnePaymentPerRun'
<1>1. ASSUME NEW l \in Job
      PROVE  job'[l] = job[l] \/ (job'[l].paid = 0 /\ job'[l].stalls = 0)
  BY DEF Request, TypeOK
<1>2. UNCHANGED worker
  BY DEF Request
<1>3. ASSUME NEW k \in Instance, Unpaid(k)
      PROVE  JobOf(k)' = JobOf(k) /\ worker[k].job \in Job
  <2>1. worker[k].job \in Job /\ JobOf(k) # NoJob
    BY <1>3, PayersHold, Sentinels
  <2> QED
    BY <1>2, <2>1 DEF Request, TypeOK, JobOf
<1>4. \A k \in Instance : Unpaid(k)' = Unpaid(k)
  BY <1>2 DEF Unpaid
<1> QED
  BY <1>1, <1>2, <1>3, <1>4, Counts, PaidStep

LEMMA PaidFetch ==
  ASSUME TypeOK, WorkersHoldTheirJobs, OnePaymentPerRun,
         NEW i \in Instance, NEW j \in Job, Fetch(i, j)
  PROVE  OnePaymentPerRun'
<1>1. job[j].place = "waiting" /\ job[j] \in JobType
  BY DEF Fetch, TypeOK, NoJob
<1>2. \A l \in Job : job'[l].paid = job[l].paid /\ job'[l].stalls = job[l].stalls
  BY <1>1 DEF Fetch, TypeOK, JobType
<1>3. /\ job'[j].place = "active"
      /\ \A l \in Job : job'[l].place = "waiting" => job[l].place = "waiting"
  BY <1>1 DEF Fetch, TypeOK, JobType
<1>4. /\ worker'[i].job = j
      /\ \A k \in Instance \ {i} : worker'[k] = worker[k] /\ (Unpaid(k)' <=> Unpaid(k))
  BY DEF Fetch, TypeOK, Unpaid
<1>5. \A k \in Instance : Unpaid(k) => worker[k].job \in Job
  BY PayersHold
<1>6. ASSUME NEW k \in Instance, Unpaid(k)'
      PROVE  /\ JobOf(k)'.paid <= JobOf(k)'.stalls
             /\ JobOf(k)'.place = "waiting" => JobOf(k)'.paid + 1 <= JobOf(k)'.stalls
  BY <1>1, <1>2, <1>3, <1>4, <1>5, <1>6 DEF OnePaymentPerRun, JobOf
<1>7. ASSUME NEW k \in Instance, NEW l \in Instance, Unpaid(k)', Unpaid(l)',
             worker'[k].job = worker'[l].job, k # l
      PROVE  JobOf(k)'.paid + 1 <= JobOf(k)'.stalls
  BY <1>1, <1>2, <1>4, <1>5, <1>7 DEF OnePaymentPerRun, JobOf
<1>8. \A l \in Job : /\ job'[l].paid <= job'[l].stalls + 1
                     /\ job'[l].place = "waiting" => job'[l].paid <= job'[l].stalls
  BY <1>2, <1>3 DEF OnePaymentPerRun
<1> QED
  BY <1>6, <1>7, <1>8 DEF OnePaymentPerRun

\* Two workers are the most that are at a job, and they are so only after
\* BullMQ has taken it back.
LEMMA TwoRuns ==
  ASSUME TypeOK, WorkersHoldTheirJobs, NEW i \in Instance, NEW k \in Instance,
         worker[i] # NoWork, worker[k] # NoWork, worker[i].job = worker[k].job, i # k
  PROVE  /\ JobOf(i).place # "waiting"
         /\ \A l \in Instance : worker[l] # NoWork /\ worker[l].job = worker[i].job =>
              l \in {i, k}
<1>1. worker[i].run \in 0..1 /\ worker[k].run \in 0..1 /\ JobOf(i).stalls \in 0..1
  BY Held, Counts DEF JobOf
<1>2. worker[i].run # worker[k].run
  BY DEF WorkersHoldTheirJobs
<1>3. JobOf(i).place # "waiting"
  BY <1>1, <1>2 DEF WorkersHoldTheirJobs, JobOf
<1>4. ASSUME NEW l \in Instance, worker[l] # NoWork, worker[l].job = worker[i].job
      PROVE  l \in {i, k}
  <2>1. worker[l].run \in 0..1
    BY <1>4, Held
  <2>2. worker[l].run = worker[i].run \/ worker[l].run = worker[k].run
    BY <1>1, <1>2, <2>1
  <2> QED
    BY <1>4, <2>2 DEF WorkersHoldTheirJobs
<1> QED
  BY <1>3, <1>4

\* Pay leaves "start" and "covered", whether or not it counts a payment.
LEMMA PaidPay ==
  ASSUME TypeOK, WorkersHoldTheirJobs, OnePaymentPerRun, NEW i \in Instance, Pay(i)
  PROVE  OnePaymentPerRun'
<1>0. Unpaid(i)
  BY DEF Pay, Unpaid
<1>1. /\ worker[i] \in WorkType /\ worker[i].job \in Job
      /\ JobOf(i) \in JobType /\ worker[i] # NoWork
  BY BusyWorker DEF Pay
<1>2. /\ JobOf(i).paid <= JobOf(i).stalls
      /\ JobOf(i).place = "waiting" => JobOf(i).paid + 1 <= JobOf(i).stalls
  BY <1>0 DEF OnePaymentPerRun
<1>3. UNCHANGED job \/ job' = [job EXCEPT ![worker[i].job].paid = @ + 1]
  BY DEF Pay, Send
<1>4. ASSUME NEW l \in Job
      PROVE  /\ job'[l].stalls = job[l].stalls /\ job'[l].place = job[l].place
             /\ l # worker[i].job => job'[l].paid = job[l].paid
             /\ l = worker[i].job => job'[l].paid \in {job[l].paid, job[l].paid + 1}
  BY <1>1, <1>3 DEF TypeOK, JobType, NoJob, JobOf
<1>5. \A l \in Job : /\ job'[l].paid <= job'[l].stalls + 1
                     /\ job'[l].place = "waiting" => job'[l].paid <= job'[l].stalls
  BY <1>2, <1>4, Counts DEF OnePaymentPerRun, JobOf
<1>6. worker'[i].pc \notin {"start", "covered"}
  <2>1. CASE JobOf(i).wallet \in Pool
    BY <1>1, <2>1 DEF Pay, TypeOK, WorkType
  <2>2. CASE JobOf(i).wallet \notin Pool
    BY <1>1, <2>2 DEF Pay, TypeOK, WorkType
  <2> QED
    BY <2>1, <2>2
<1>7. ASSUME NEW k \in Instance, Unpaid(k)'
      PROVE  /\ k # i /\ worker'[k] = worker[k] /\ Unpaid(k)
             /\ worker[k] # NoWork /\ worker[k].job \in Job
  <2>1. k # i /\ worker'[k] = worker[k]
    BY <1>6, <1>7, MovingOn DEF MovesOn, Unpaid
  <2> QED
    BY <1>7, <2>1, PayersHold DEF Unpaid
<1>8. ASSUME NEW k \in Instance, Unpaid(k)'
      PROVE  /\ JobOf(k)'.paid <= JobOf(k)'.stalls
             /\ JobOf(k)'.place = "waiting" => JobOf(k)'.paid + 1 <= JobOf(k)'.stalls
  <2>1. CASE worker[k].job = worker[i].job
    <3>1. JobOf(i).paid + 1 <= JobOf(i).stalls
      BY <1>0, <1>7, <1>8, <2>1 DEF OnePaymentPerRun
    <3>2. JobOf(i).place # "waiting"
      BY <1>1, <1>7, <1>8, <2>1, TwoRuns
    <3> QED
      BY <1>1, <1>4, <1>7, <1>8, <2>1, <3>1, <3>2, Counts DEF JobOf
  <2>2. CASE worker[k].job # worker[i].job
    BY <1>4, <1>7, <1>8, <2>2 DEF OnePaymentPerRun, JobOf
  <2> QED
    BY <2>1, <2>2
<1>9. ASSUME NEW k \in Instance, NEW l \in Instance, Unpaid(k)', Unpaid(l)',
             worker'[k].job = worker'[l].job, k # l
      PROVE  JobOf(k)'.paid + 1 <= JobOf(k)'.stalls
  <2>1. worker[k].job # worker[i].job
    BY <1>1, <1>7, <1>9, TwoRuns
  <2> QED
    BY <1>4, <1>7, <1>9, <2>1 DEF OnePaymentPerRun, JobOf
<1> QED
  BY <1>5, <1>8, <1>9 DEF OnePaymentPerRun

LEMMA PaidMovesOn ==
  ASSUME TypeOK, WorkersHoldTheirJobs, OnePaymentPerRun, NEW i \in Instance,
         DryRun(i) \/ CoverAr(i) \/ Wait(i)
  PROVE  OnePaymentPerRun'
<1>1. UNCHANGED job
  BY DEF DryRun, CoverAr, Wait
<1>2. \A k \in Instance \ {i} : worker'[k] = worker[k]
  BY MovingOn DEF MovesOn
<1>3. worker'[i].job = worker[i].job
  BY MovingOn DEF MovesOn
<1>4. Unpaid(i)' => Unpaid(i)
  <2>1. worker[i] \in WorkType
    BY BusyWorker DEF DryRun, CoverAr, Wait
  <2> QED
    BY <2>1 DEF DryRun, CoverAr, Wait, TypeOK, WorkType, Unpaid
<1>5. \A k \in Instance : Unpaid(k)' => Unpaid(k)
  BY <1>2, <1>4 DEF Unpaid
<1> QED
  BY <1>1, <1>2, <1>3, <1>5, Counts, PayersHold, PaidStep DEF JobOf

\* A job that is dropped keeps its counts as long as it keeps its record.
LEMMA PaidDrops ==
  ASSUME TypeOK, WorkersHoldTheirJobs, NEW j \in Job, job[j] # NoJob, NEW is,
         job' = Dropped(j, is)
  PROVE  /\ \A l \in Job : \/ job'[l].paid = 0 /\ job'[l].stalls = 0
                          \/ /\ job'[l].paid = job[l].paid /\ job'[l].stalls = job[l].stalls
                             /\ job'[l].place = "waiting" => job[l].place = "waiting"
         /\ \A k \in is : worker[k].job \in Job =>
              /\ job'[worker[k].job].paid = job[worker[k].job].paid
              /\ job'[worker[k].job].stalls = job[worker[k].job].stalls
              /\ job'[worker[k].job].place = "waiting" => job[worker[k].job].place = "waiting"
<1>1. job[j] \in JobType
  BY DEF TypeOK
<1>2. LET r == [job[j] EXCEPT !.place = "gone"]
      IN  r.paid = job[j].paid /\ r.stalls = job[j].stalls /\ r.place = "gone"
  BY <1>1 DEF JobType
<1>3. NoJob.paid = 0 /\ NoJob.stalls = 0
  BY DEF NoJob
<1> QED
  BY <1>2, <1>3, Drops

LEMMA PaidLeaves ==
  ASSUME TypeOK, WorkersHoldTheirJobs, OnePaymentPerRun, NEW i \in Instance,
         Finish(i) \/ Crash(i)
  PROVE  OnePaymentPerRun'
<1>1. \A k \in Instance \ {i} : worker'[k] = worker[k]
  BY DEF Finish, Crash, TypeOK
<1>2. ~Unpaid(i)'
  BY DEF Finish, Crash, TypeOK, NoWork, Unpaid
<1>3. ASSUME NEW k \in Instance, Unpaid(k)'
      PROVE  /\ k \in Instance \ {i} /\ Unpaid(k) /\ worker'[k] = worker[k]
             /\ worker[k].job \in Job
  BY <1>1, <1>2, <1>3, PayersHold DEF Unpaid
<1>4. CASE UNCHANGED job
  BY <1>3, <1>4, Counts, PaidStep DEF JobOf
<1>5. CASE worker[i] # NoWork /\ job' = Dropped(worker[i].job, Instance \ {i})
  <2>1. worker[i].job \in Job /\ job[worker[i].job] # NoJob
    BY <1>5, Held DEF JobOf
  <2> DEFINE is == Instance \ {i}
  <2>2. job' = Dropped(worker[i].job, is)
    BY <1>5
  <2> HIDE DEF is
  <2>3. /\ \A l \in Job : \/ job'[l].paid = 0 /\ job'[l].stalls = 0
                         \/ /\ job'[l].paid = job[l].paid /\ job'[l].stalls = job[l].stalls
                            /\ job'[l].place = "waiting" => job[l].place = "waiting"
        /\ \A k \in is : worker[k].job \in Job =>
             /\ job'[worker[k].job].paid = job[worker[k].job].paid
             /\ job'[worker[k].job].stalls = job[worker[k].job].stalls
             /\ job'[worker[k].job].place = "waiting" => job[worker[k].job].place = "waiting"
    BY <2>1, <2>2, PaidDrops
  <2> QED
    BY <1>3, <2>3, Counts, PaidStep DEF JobOf, is
<1> QED
  BY <1>4, <1>5, BusyWorker DEF Finish, Crash

LEMMA PaidLapse ==
  ASSUME TypeOK, WorkersHoldTheirJobs, OnePaymentPerRun, NEW i \in Instance, Lapse(i)
  PROVE  OnePaymentPerRun'
<1>1. worker[i] \in WorkType
  BY DEF Lapse, TypeOK, NoWork
<1>2. \A k \in Instance : worker'[k].job = worker[k].job /\ worker'[k].pc = worker[k].pc
  BY <1>1 DEF Lapse, TypeOK, WorkType
<1>3. UNCHANGED job
  BY DEF Lapse
<1> QED
  BY <1>2, <1>3, Counts, PayersHold, PaidStep DEF Unpaid, JobOf

LEMMA PaidStall ==
  ASSUME TypeOK, WorkersHoldTheirJobs, OnePaymentPerRun, NEW j \in Job, Stall(j)
  PROVE  OnePaymentPerRun'
<1>1. job[j] \in JobType /\ UNCHANGED worker /\ job[j] # NoJob
  BY DEF Stall, TypeOK, NoJob
<1>2. ASSUME NEW k \in Instance, Unpaid(k)'
      PROVE  Unpaid(k) /\ worker'[k].job = worker[k].job /\ worker[k].job \in Job
  BY <1>1, <1>2, PayersHold DEF Unpaid
<1>3. CASE MayRetry(j)
  <2>1. /\ job'[j].paid = job[j].paid /\ job'[j].stalls = job[j].stalls + 1
        /\ \A l \in Job \ {j} : job'[l] = job[l]
    BY <1>1, <1>3 DEF Stall, TypeOK, JobType
  <2> QED
    BY <1>2, <2>1, Counts, PaidStep DEF JobOf
<1>4. CASE ~MayRetry(j)
  <2>1. job' = Dropped(j, Instance)
    BY <1>4 DEF Stall
  <2> QED
    BY <1>1, <1>2, <2>1, Counts, PaidDrops, PaidStep DEF JobOf
<1> QED
  BY <1>3, <1>4

LEMMA PaidNext ==
  TypeOK /\ WorkersHoldTheirJobs /\ OnePaymentPerRun /\ [Next]_vars => OnePaymentPerRun'
<1> SUFFICES ASSUME TypeOK, WorkersHoldTheirJobs, OnePaymentPerRun, [Next]_vars
             PROVE  OnePaymentPerRun'
  OBVIOUS
<1>1. CASE \E i \in Instance : Request(i)
  BY <1>1, PaidRequest
<1>2. CASE \E i \in Instance, j \in Job : Fetch(i, j)
  BY <1>2, PaidFetch
<1>3. CASE \E i \in Instance : MovesOn(i)
  BY <1>3, PaidPay, PaidMovesOn DEF MovesOn
<1>4. CASE \E i \in Instance : Finish(i) \/ Crash(i) \/ Lapse(i)
  BY <1>4, PaidLeaves, PaidLapse
<1>5. CASE \E j \in Job : Stall(j)
  BY <1>5, PaidStall
<1>6. CASE UNCHANGED <<worker, job>>
  BY <1>6 DEF OnePaymentPerRun, JobOf, Unpaid
<1>7. \/ \E i \in Instance :
           Request(i) \/ MovesOn(i) \/ Finish(i) \/ Crash(i) \/ Lapse(i)
      \/ \E i \in Instance, j \in Job : Fetch(i, j)
      \/ \E j \in Job : Stall(j)
      \/ UNCHANGED <<worker, job>>
  BY DEF Next, MovesOn, vars, ReadBalance, Query, AskStatus, Confirm, Reject,
         Index, Age, Spend
<1> QED
  BY <1>1, <1>2, <1>3, <1>4, <1>5, <1>6, <1>7

-----------------------------------------------------------------------------
(* A running Turbo check does not lose sight of a pending top-up.          *)

LEMMA WatchedInit == Init => WatchedAreListed
  BY RefillConstants DEF Init, WatchedAreListed, NoCheck, Wallet

\* What is visible has not settled.
LEMMA VisibleTx ==
  ASSUME NEW w, NEW t \in Visible(w)
  PROVE  t \in Tx /\ tx[t] # NoTx
  BY DEF Visible, TxsTo, NoTx

LEMMA WatchedReadBalance ==
  ASSUME TypeOK, WatchedAreListed, NEW i \in Instance, NEW w \in Wallet, ReadBalance(i, w)
  PROVE  WatchedAreListed'
<1>1. \/ UNCHANGED <<check, watched>>
      \/ \E request :
           /\ check' = [check EXCEPT ![i] =
                [wallet |-> w, pc |-> IF w \in Turbo THEN "query" ELSE "add",
                 request |-> request, listed |-> {}, misled |-> FALSE]]
           /\ watched' = [watched EXCEPT ![i] = Visible(w)]
  BY DEF ReadBalance
<1>2. UNCHANGED tx
  BY DEF ReadBalance, money
<1>3. CASE UNCHANGED <<check, watched>>
  BY <1>2, <1>3 DEF WatchedAreListed, Visible, TxsTo
<1>4. ASSUME NEW request,
             check' = [check EXCEPT ![i] =
               [wallet |-> w, pc |-> IF w \in Turbo THEN "query" ELSE "add",
                request |-> request, listed |-> {}, misled |-> FALSE]],
             watched' = [watched EXCEPT ![i] = Visible(w)]
      PROVE  WatchedAreListed'
  <2>1. /\ check'[i].wallet = w /\ watched'[i] = Visible(w)
        /\ w \in Turbo => check'[i].pc = "query"
    BY <1>4 DEF TypeOK
  <2>2. \A k \in Instance \ {i} : check'[k] = check[k] /\ watched'[k] = watched[k]
    BY <1>4 DEF TypeOK
  <2>3. \A v : Visible(v)' = Visible(v)
    BY <1>2 DEF Visible, TxsTo
  <2> QED
    BY <1>2, <2>1, <2>2, <2>3 DEF WatchedAreListed
<1> QED
  BY <1>1, <1>3, <1>4

\* What a query makes of its check.
LEMMA QueryAnswer ==
  ASSUME TypeOK, NEW i \in Instance, Query(i)
  PROVE  LET found == {t \in Visible(check[i].wallet) : OnPage(t)} IN
         \/ check'[i] = NoCheck
         \/ /\ check'[i].wallet = check[i].wallet /\ check'[i].request = check[i].request
            /\ check'[i].pc = "add" /\ check'[i].misled
         \/ /\ check'[i].wallet = check[i].wallet /\ check'[i].request = check[i].request
            /\ check'[i].listed = found
            /\ check'[i].pc = IF found = {} THEN "add" ELSE "status"
<1>1. check[i] \in CheckType
  BY BusyCheck DEF Query
<1> DEFINE found == {t \in Visible(check[i].wallet) : OnPage(t)}
           here == IF found = {} THEN "add" ELSE "status"
<1>2. \/ check' = [check EXCEPT ![i] = NoCheck]
      \/ check' = [check EXCEPT ![i] = OnErrorAnswer(check[i])]
      \/ check' = [check EXCEPT ![i] = [[@ EXCEPT !.listed = found] EXCEPT !.pc = here]]
  BY DEF Query, OnError, TypeOK
<1>3. /\ OnErrorAnswer(check[i]).wallet = check[i].wallet
      /\ OnErrorAnswer(check[i]).request = check[i].request
      /\ OnErrorAnswer(check[i]).pc = "add" /\ OnErrorAnswer(check[i]).misled
  BY <1>1 DEF OnErrorAnswer, CheckType
<1>4. LET c == [[check[i] EXCEPT !.listed = found] EXCEPT !.pc = here] IN
      c.wallet = check[i].wallet /\ c.request = check[i].request /\ c.listed = found /\ c.pc = here
  <2> HIDE DEF found, here
  <2> QED
    BY <1>1 DEF CheckType
<1> HIDE DEF found, here
<1>5. CASE check' = [check EXCEPT ![i] = NoCheck]
  BY <1>5 DEF TypeOK
<1>6. CASE check' = [check EXCEPT ![i] = OnErrorAnswer(check[i])]
  <2>1. check'[i] = OnErrorAnswer(check[i])
    BY <1>6 DEF TypeOK
  <2> QED
    BY <1>3, <2>1
<1>7. CASE check' = [check EXCEPT ![i] = [[@ EXCEPT !.listed = found] EXCEPT !.pc = here]]
  <2>1. check'[i] = [[check[i] EXCEPT !.listed = found] EXCEPT !.pc = here]
    BY <1>7 DEF TypeOK
  <2> QED
    BY <1>4, <2>1 DEF found, here
<1> QED
  BY <1>2, <1>5, <1>6, <1>7

LEMMA WatchedQuery ==
  ASSUME TypeOK, WatchedAreListed, NEW i \in Instance, Query(i)
  PROVE  WatchedAreListed'
<1>1. check[i] \in CheckType
  BY BusyCheck DEF Query
<1>2. UNCHANGED <<tx, watched>> /\ \A k \in Instance \ {i} : check'[k] = check[k]
  BY DEF Query, money, TypeOK
<1>3. \A v : Visible(v)' = Visible(v)
  BY <1>2 DEF Visible, TxsTo
<1> DEFINE found == {t \in Visible(check[i].wallet) : OnPage(t)}
<1>4. \/ check'[i] = NoCheck
      \/ /\ check'[i].wallet = check[i].wallet
         /\ check'[i].pc = "add" /\ check'[i].misled
      \/ /\ check'[i].wallet = check[i].wallet
         /\ check'[i].listed = found
         /\ check'[i].pc = IF found = {} THEN "add" ELSE "status"
  BY QueryAnswer
<1>5. NoCheck.wallet \notin Turbo
  BY RefillConstants DEF NoCheck, Wallet
<1>6. check[i].wallet \in Turbo =>
        /\ watched[i] \subseteq Visible(check[i].wallet)
        /\ \A t \in watched[i] : t \in found \/ tx[t].newer = First
  <2>1. ASSUME NEW t \in Tx, tx[t].stage = "visible", ~OnPage(t)
        PROVE  tx[t].newer = First
    <3>1. tx[t] \in TxType
      BY <2>1 DEF TypeOK, NoTx
    <3> QED
      BY <2>1, <3>1, RefillConstants DEF TxType, OnPage
  <2> QED
    BY <2>1 DEF WatchedAreListed, Visible, TxsTo
<1>7. CASE check'[i] = NoCheck
  BY <1>2, <1>3, <1>5, <1>7 DEF WatchedAreListed
<1>8. CASE /\ check'[i].wallet = check[i].wallet
           /\ check'[i].listed = found
           /\ check'[i].pc = IF found = {} THEN "add" ELSE "status"
  <2>1. (Visible(check[i].wallet))' = Visible(check[i].wallet)
    BY <1>3, <1>8
  <2> QED
    BY <1>2, <1>3, <1>6, <1>8, <2>1 DEF WatchedAreListed
<1>9. CASE /\ check'[i].wallet = check[i].wallet
           /\ check'[i].pc = "add" /\ check'[i].misled
  <2>1. (Visible(check[i].wallet))' = Visible(check[i].wallet)
    BY <1>3, <1>9
  <2> QED
    BY <1>2, <1>3, <1>6, <1>9, <2>1 DEF WatchedAreListed
<1> QED
  BY <1>4, <1>7, <1>8, <1>9

LEMMA WatchedAskStatus ==
  ASSUME TypeOK, WatchedAreListed, NEW i \in Instance, AskStatus(i)
  PROVE  WatchedAreListed'
<1>1. check[i] \in CheckType /\ check[i].pc = "status"
  BY BusyCheck DEF AskStatus
<1>2. UNCHANGED <<tx, watched>> /\ \A k \in Instance \ {i} : check'[k] = check[k]
  BY DEF AskStatus, money, TypeOK
<1>3. \A v : Visible(v)' = Visible(v)
  BY <1>2 DEF Visible, TxsTo
<1>4. NoCheck.wallet \notin Turbo
  BY RefillConstants DEF NoCheck, Wallet
<1>5. \/ check'[i] = NoCheck
      \/ \E t \in check[i].listed :
           /\ tx[t] = NoTx
           /\ check'[i].wallet = check[i].wallet
           /\ check'[i].listed = check[i].listed \ {t}
           /\ check'[i].pc = IF check[i].listed = {t} THEN "add" ELSE "status"
  BY <1>1 DEF AskStatus, OnError, TypeOK, CheckType
<1>6. CASE check'[i] = NoCheck
  BY <1>2, <1>3, <1>4, <1>6 DEF WatchedAreListed
<1>7. ASSUME NEW t \in check[i].listed, tx[t] = NoTx,
             check'[i].wallet = check[i].wallet,
             check'[i].listed = check[i].listed \ {t},
             check'[i].pc = IF check[i].listed = {t} THEN "add" ELSE "status"
      PROVE  WatchedAreListed'
  <2>1. check[i].wallet \in Turbo =>
          /\ watched[i] \subseteq Visible(check[i].wallet)
          /\ \A u \in watched[i] : u \in check[i].listed \/ tx[u].newer = First
    BY <1>1 DEF WatchedAreListed
  <2>2. check[i].wallet \in Turbo => t \notin watched[i]
    BY <1>7, <2>1, VisibleTx
  <2>3. (Visible(check[i].wallet))' = Visible(check[i].wallet)
    BY <1>3, <1>7
  <2> QED
    BY <1>2, <1>3, <1>7, <2>1, <2>2, <2>3 DEF WatchedAreListed
<1> QED
  BY <1>5, <1>6, <1>7

\* A check that ends, or dies with its process, has nothing to see any more.
LEMMA WatchedEnd ==
  ASSUME TypeOK, WatchedAreListed, NEW i \in Instance, Request(i) \/ Crash(i)
  PROVE  WatchedAreListed'
<1>1. UNCHANGED <<tx, watched>> /\ check'[i] = NoCheck
  BY DEF Request, Crash, money, TypeOK
<1>2. \A k \in Instance \ {i} : check'[k] = check[k]
  BY DEF Request, Crash, TypeOK
<1>3. NoCheck.wallet \notin Turbo
  BY RefillConstants DEF NoCheck, Wallet
<1>4. \A v : Visible(v)' = Visible(v)
  BY <1>1 DEF Visible, TxsTo
<1> QED
  BY <1>1, <1>2, <1>3, <1>4 DEF WatchedAreListed

\* A new payment takes an id that is not watched.
LEMMA WatchedPay ==
  ASSUME TypeOK, WatchedAreListed, NEW i \in Instance, Pay(i)
  PROVE  WatchedAreListed'
<1>1. UNCHANGED <<check, watched>>
  BY DEF Pay
<1>2. \A t \in Tx : tx[t] # NoTx => tx'[t] = tx[t]
  BY DEF Pay, Send, Unused, TypeOK
<1>3. ASSUME NEW w, NEW u \in Visible(w)
      PROVE  u \in Visible(w)' /\ tx'[u] = tx[u]
  BY <1>2 DEF Visible, TxsTo, NoTx
<1> QED
  BY <1>1, <1>3 DEF WatchedAreListed

\* A top-up that settles or ages is not watched any more.
LEMMA WatchedSettle ==
  ASSUME TypeOK, WatchedAreListed, NEW t \in Tx, Settle(t) \/ Age(t), UNCHANGED check
  PROVE  WatchedAreListed'
<1>1. watched' = [k \in Instance |-> watched[k] \ {t}]
  BY DEF Settle, Age
<1>2. \A u \in Tx \ {t} : tx'[u] = tx[u]
  BY DEF Settle, Age, TypeOK
<1>3. ASSUME NEW w, NEW u \in Visible(w) \ {t}
      PROVE  u \in Visible(w)' /\ tx'[u] = tx[u]
  BY <1>2 DEF Visible, TxsTo
<1> QED
  BY <1>1, <1>3 DEF WatchedAreListed

LEMMA WatchedIndex ==
  ASSUME TypeOK, WatchedAreListed, NEW t \in Tx, Index(t)
  PROVE  WatchedAreListed'
<1>1. tx[t] \in TxType /\ tx[t].stage = "posted"
  BY DEF Index, TypeOK, NoTx
<1>2. ASSUME NEW w, NEW u \in Visible(w)
      PROVE  u \in Visible(w)' /\ (tx[u].newer = First => tx'[u].newer = First)
  BY <1>1, IndexedElse DEF Visible, TxsTo
<1> QED
  BY <1>2 DEF Index, history, WatchedAreListed

LEMMA WatchedNext == TypeOK /\ WatchedAreListed /\ [Next]_vars => WatchedAreListed'
<1> SUFFICES ASSUME TypeOK, WatchedAreListed, [Next]_vars
             PROVE  WatchedAreListed'
  OBVIOUS
<1>1. CASE \E i \in Instance, w \in Wallet : ReadBalance(i, w)
  BY <1>1, WatchedReadBalance
<1>2. CASE \E i \in Instance : Query(i) \/ AskStatus(i)
  BY <1>2, WatchedQuery, WatchedAskStatus
<1>3. CASE \E i \in Instance : Request(i) \/ Crash(i)
  BY <1>3, WatchedEnd
<1>4. CASE \E i \in Instance : Pay(i)
  BY <1>4, WatchedPay
<1>5. CASE \E t \in Tx : Confirm(t) \/ Reject(t) \/ Age(t)
  BY <1>5, WatchedSettle DEF Confirm, Reject, Age
<1>6. CASE \E t \in Tx : Index(t)
  BY <1>6, WatchedIndex
<1>7. CASE UNCHANGED <<check, tx, watched>>
  BY <1>7 DEF WatchedAreListed, Visible, TxsTo
<1>8. \/ \E i \in Instance, w \in Wallet : ReadBalance(i, w)
      \/ \E i \in Instance : Query(i) \/ AskStatus(i) \/ Request(i) \/ Crash(i) \/ Pay(i)
      \/ \E t \in Tx : Confirm(t) \/ Reject(t) \/ Age(t) \/ Index(t)
      \/ UNCHANGED <<check, tx, watched>>
  BY DEF Next, vars, money, history, Fetch, DryRun, CoverAr, Wait, Finish, Lapse,
     Spend, Stall
<1> QED
  BY <1>1, <1>2, <1>3, <1>4, <1>5, <1>6, <1>7, <1>8

-----------------------------------------------------------------------------
(* Nothing is sent unless live.                                            *)

LEMMA DryInit == Init => NobodyPays /\ DryRunSendsNothing
  BY DEF Init, NobodyPays, DryRunSendsNothing, NoWork

LEMMA ConfigurationStays == [Next]_vars => UNCHANGED isLive
  BY DEF Next, vars, ReadBalance, Query, AskStatus, Request, Fetch, DryRun, CoverAr, Pay,
     Wait, Finish, Crash, Lapse, Confirm, Reject, Index, Age, Spend, Stall

LEMMA DryNext ==
  TypeOK /\ WorkersHoldTheirJobs /\ NobodyPays /\ DryRunSendsNothing /\ [Next]_vars
    => NobodyPays' /\ DryRunSendsNothing'
<1> SUFFICES ASSUME TypeOK, WorkersHoldTheirJobs, NobodyPays, DryRunSendsNothing,
                    [Next]_vars, ~isLive
             PROVE  /\ \A i \in Instance : worker'[i].pc # "covered"
                    /\ \A t \in Tx : tx'[t] = NoTx
  BY ConfigurationStays DEF NobodyPays, DryRunSendsNothing
<1>1. \A i \in Instance : worker[i].pc # "covered"
  BY DEF NobodyPays
<1>2. \A t \in Tx : tx[t] = NoTx
  BY DEF DryRunSendsNothing
<1>3. \A i \in Instance : ~Pay(i) /\ ~CoverAr(i)
  BY <1>1 DEF Pay, CoverAr, Live
<1>4. \A t \in Tx : ~Settle(t) /\ ~Index(t) /\ ~Age(t)
  BY <1>2 DEF Settle, Index, Age, NoTx
<1>5. UNCHANGED tx
  BY <1>3, <1>4 DEF Next, vars, money, ReadBalance, Query, AskStatus, Request, Fetch,
     DryRun, Wait, Finish, Crash, Lapse, Confirm, Reject, Spend, Stall
<1>6. \A i \in Instance : worker'[i].pc # "covered"
  <2>1. CASE \E i \in Instance : DryRun(i) \/ Wait(i)
    <3>1. PICK i \in Instance : DryRun(i) \/ Wait(i)
      BY <2>1
    <3>2. worker[i] \in WorkType
      BY <3>1, BusyWorker DEF DryRun, Wait
    <3>3. worker'[i].pc = "done"
      BY <3>1, <3>2 DEF DryRun, Wait, TypeOK, WorkType
    <3>4. \A k \in Instance \ {i} : worker'[k] = worker[k]
      BY <3>1, MovingOn DEF MovesOn
    <3> QED
      BY <1>1, <3>3, <3>4
  <2>2. CASE \E i \in Instance : Finish(i) \/ Crash(i) \/ \E j \in Job : Fetch(i, j)
    BY <1>1, <2>2 DEF Finish, Crash, Fetch, NoWork, TypeOK
  <2>3. CASE UNCHANGED worker
    BY <1>1, <2>3
  <2>4. ASSUME NEW i \in Instance, Lapse(i)
        PROVE  \A k \in Instance : worker'[k].pc # "covered"
    <3>1. worker[i] \in WorkType
      BY <2>4 DEF Lapse, TypeOK, NoWork
    <3> QED
      BY <1>1, <2>4, <3>1 DEF Lapse, TypeOK, WorkType
  <2> QED
    BY <1>3, <2>1, <2>2, <2>3, <2>4 DEF Next, vars, ReadBalance, Query, AskStatus, Request,
       Confirm, Reject, Index, Age, Spend, Stall
<1> QED
  BY <1>2, <1>5, <1>6

-----------------------------------------------------------------------------
(* The theorems.                                                           *)

LEMMA Inductive == IInv /\ [Next]_vars => IInv'
  BY NextType, HeldNext, PaidNext, WatchedNext, DryNext DEF IInv

LEMMA Invariance == Spec => []IInv
<1>1. Init => IInv
  BY InitType, HeldInit, PaidInit, WatchedInit, DryInit DEF IInv
<1> QED
  BY <1>1, Inductive, PTL DEF Spec

\* Type correctness: in particular no amount and no balance is ever negative.
THEOREM TypeCorrect == Spec => []TypeOK
<1>1. IInv => TypeOK
  BY DEF IInv
<1> QED
  BY <1>1, Invariance, PTL

\* However often instances crash, BullMQ's single retry bounds what one refill
\* job can send to two payments.
THEOREM JobsPayAtMostTwice == Spec => []PaysAtMostTwice
<1>1. IInv => PaysAtMostTwice
  <2> SUFFICES ASSUME IInv, NEW j \in Job
               PROVE  job[j].paid <= 2
    BY DEF PaysAtMostTwice
  <2>1. TypeOK /\ job[j].paid <= job[j].stalls + 1
    BY DEF IInv, OnePaymentPerRun
  <2> QED
    BY <2>1, Counts
<1> QED
  BY <1>1, Invariance, PTL

\* The de-duplication of Turbo refills misses a top-up that was visible, young
\* and pending from before the check began only behind a whole page of newer
\* ones, or by an error that the gateway answers with status 200.
THEOREM ChecksSeePendingTopUps == Spec => []SeesPendingTopUps
<1>1. IInv => SeesPendingTopUps
  BY DEF IInv, WatchedAreListed, SeesPendingTopUps
<1> QED
  BY <1>1, Invariance, PTL

\* With IS_LIVE other than 'true' no payment is ever under way.
THEOREM DryRunIsDry == Spec => []DryRunSendsNothing
<1>1. IInv => DryRunSendsNothing
  BY DEF IInv
<1> QED
  BY <1>1, Invariance, PTL
=============================================================================
