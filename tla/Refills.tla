------------------------------- MODULE Refills -------------------------------
(***************************************************************************)
(* From a depleted wallet to its refill.                                   *)
(*                                                                         *)
(* A balance check (processors/balance-checks-queue.ts) reads a wallet's   *)
(* balance and requests the shortfall on the refills queue; for Turbo      *)
(* credits it asks first whether a top-up is pending.  The refills worker  *)
(* (processors/refills-queue.ts) pays from a spender wallet.  The payment  *)
(* takes effect on the chain later, in a step of its own.  Both workers    *)
(* run one job at a time on every instance, and every remote call is a     *)
(* step, so checks, refills, chain and crashes interleave.  A worker whose *)
(* lock lapses goes on with its job, which BullMQ takes back meanwhile.    *)
(*                                                                         *)
(* The rounds of CheckLoop are left out: any wallet may be checked again   *)
(* at any time, which the flows of successive rounds amount to.            *)
(***************************************************************************)
EXTENDS Thresholds, FiniteSets

CONSTANTS
  Instance,     \* processes, each with a checks worker and a refills worker
  Bundler,      \* wallets refilled with AR
  Pool,         \* wallets refilled with tokens
  Turbo,        \* wallets topped up with Turbo credits, paid in AR
  Min, Max,     \* the thresholds
  Job,          \* ids of jobs on the refills queue; bounds the jobs in Redis
  Tx,           \* ids of payments; bounds those under way
  First,        \* the top-ups the gateway is asked for (first: 10)
  Funds,        \* what each spender wallet holds at first
  MaxErrors,    \* bound on failing remote calls in a behaviour
  MaxDowns      \* bound on crashes and lost locks in a behaviour

Wallet == Bundler \cup Pool \cup Turbo

ASSUME RefillConstants ==
  /\ Bundler \cap Pool = {} /\ Bundler \cap Turbo = {} /\ Pool \cap Turbo = {}
  /\ Missing \notin Wallet /\ Missing \notin Job /\ Missing \notin Tx
  /\ Min \in Nat /\ Max \in Nat /\ Min <= Max /\ First \in Nat \ {0}
  /\ Funds \in Nat /\ MaxErrors \in Nat /\ MaxDowns \in Nat

VARIABLES
  isLive,     \* IS_LIVE = 'true', the same for all instances
  balance,    \* what the chain, or Turbo, holds for each wallet
  spender,    \* what AR_SPENDER and ETH_SPENDER hold
  check,      \* the check that each instance is running
  job,        \* the refill jobs Redis keeps, or a worker without a lock still runs
  worker,     \* the refill job that each instance is running
  tx,         \* the payments sent and not settled
  \* history, read by no guard except the two bounds
  watched,    \* top-ups that a running check could see from its start
  overlapped, \* wallets refilled while another refill was under way
  errors, downs

money == <<balance, spender, tx>>
history == <<watched, overlapped, errors, downs>>
vars == <<isLive, balance, spender, check, job, worker, tx, history>>

-----------------------------------------------------------------------------
(* Records.                                                                *)

NoCheck ==
  [wallet |-> Missing, pc |-> "idle", request |-> 0, listed |-> {}, misled |-> FALSE]
NoJob == [wallet |-> Missing, place |-> "absent", amount |-> 0, stalls |-> 0, paid |-> 0]
NoWork == [job |-> Missing, run |-> 0, locked |-> FALSE, pc |-> "idle", tx |-> Missing]
NoTx == [wallet |-> Missing, amount |-> 0, stage |-> "none", newer |-> 0]

\* misled (history): the gateway failed, and its answer had status 200.
CheckType ==
  [wallet : Wallet, pc : {"query", "status", "add"}, request : Nat,
   listed : SUBSET Tx, misled : BOOLEAN]
\* "gone": Redis has dropped the job, and a worker without a lock still has it.
JobType ==
  [wallet : Wallet, place : {"waiting", "active", "gone"}, amount : Nat,
   stalls : 0..1, paid : Nat]
\* run: how often BullMQ had taken the job back when the worker fetched it.
WorkType ==
  [job : Job, run : 0..1, locked : BOOLEAN,
   pc : {"start", "covered", "mining", "done"}, tx : Tx \cup {Missing}]

\* "visible": the gateway lists the top-up and its block, if any, is younger
\* than the TTL; "aged": older than the TTL and still not settled.  newer: the
\* top-ups of the wallet, settled ones too, that the gateway lists before it.
TxType ==
  [wallet : Wallet, amount : Nat, stage : {"posted", "visible", "aged"}, newer : 0..First]

Asset(w) == IF w \in Pool THEN "token" ELSE "ar"

TxsTo(w) == {t \in Tx : tx[t].wallet = w}
Visible(w) == {t \in TxsTo(w) : tx[t].stage = "visible"}

\* A refill of w is under way: requested and not paid, or paid and not settled.
Underway(w) ==
  \/ \E i \in Instance : check[i].wallet = w
  \/ \E j \in Job : job[j].wallet = w /\ job[j].paid = 0
  \/ TxsTo(w) # {}

\* A remote call fails.
Fails == errors < MaxErrors /\ errors' = errors + 1

Init ==
  /\ isLive \in BOOLEAN
  /\ balance = [w \in Wallet |-> Max]
  /\ spender = [a \in {"ar", "token"} |-> Funds]
  /\ check = [i \in Instance |-> NoCheck]
  /\ job = [j \in Job |-> NoJob]
  /\ worker = [i \in Instance |-> NoWork]
  /\ tx = [t \in Tx |-> NoTx]
  /\ watched = [i \in Instance |-> {}]
  /\ overlapped = {} /\ errors = 0 /\ downs = 0

-----------------------------------------------------------------------------
(* The checks worker.                                                      *)

ReadingOf(w, fetched) ==
  IF w \in Bundler THEN CheckBundler(fetched, Min, Max, w)
  ELSE IF w \in Pool THEN CheckRewardsPool(fetched, Min, Max, w)
  ELSE CheckCredits(fetched, Min, Max, w)

\* The check reads the balance; without a request there is nothing more to do.
\* Only the Turbo checks look for a pending refill before they request one.
ReadBalance(i, w) ==
  /\ check[i] = NoCheck
  /\ \E fetched \in {balance[w], Missing} :
       LET request == ReadingOf(w, fetched).requestAmount IN
       /\ IF fetched = Missing THEN Fails ELSE UNCHANGED errors
       /\ IF request = Missing
          THEN UNCHANGED <<check, watched, overlapped>>
          ELSE /\ check' = [check EXCEPT ![i] =
                    [wallet |-> w, pc |-> IF w \in Turbo THEN "query" ELSE "add",
                     request |-> request, listed |-> {}, misled |-> FALSE]]
               /\ watched' = [watched EXCEPT ![i] = Visible(w)]
               /\ overlapped' = IF Underway(w) THEN overlapped \cup {w} ELSE overlapped
  /\ UNCHANGED <<isLive, money, job, worker, downs>>

\* Mutant of OnError: an error counts as "nothing is pending".
OnErrorRefill(c) == [c EXCEPT !.pc = "add"]

\* An error that is thrown is taken for a pending top-up: the request is dropped.
OnError(c) == NoCheck

\* GraphQL reports errors with status 200, in place of the data or beside it;
\* `result.data?.transactions?.edges || []` reads them as "nothing is pending".
OnErrorAnswer(c) == [c EXCEPT !.pc = "add", !.misled = TRUE]

\* `first`: the gateway lists the newest top-ups only.
OnPage(t) == tx[t].newer < First

\* queryRecentRefillTransactions: the gateway lists the recent top-ups.
Query(i) ==
  /\ check[i].pc = "query"
  /\ \/ /\ Fails
        /\ \/ check' = [check EXCEPT ![i] = OnError(@)]
           \/ check' = [check EXCEPT ![i] = OnErrorAnswer(@)]
     \/ /\ LET found == {t \in Visible(check[i].wallet) : OnPage(t)} IN
           check' = [check EXCEPT ![i].listed = found,
                                  ![i].pc = IF found = {} THEN "add" ELSE "status"]
        /\ UNCHANGED errors
  /\ UNCHANGED <<isLive, money, job, worker, watched, overlapped, downs>>

\* The rest of hasPendingTurboRefill: the status of one listed top-up.
AskStatus(i) ==
  /\ check[i].pc = "status"
  /\ \E t \in check[i].listed :
       \/ /\ Fails
          /\ check' = [check EXCEPT ![i] = OnError(@)]
       \/ /\ tx[t] # NoTx
          /\ check' = [check EXCEPT ![i] = NoCheck]
          /\ UNCHANGED errors
       \/ /\ tx[t] = NoTx
          /\ check' = [check EXCEPT ![i].listed = @ \ {t},
               ![i].pc = IF check[i].listed = {t} THEN "add" ELSE "status"]
          /\ UNCHANGED errors
  /\ UNCHANGED <<isLive, money, job, worker, watched, overlapped, downs>>

\* requestRefillAr, requestRefillToken, requestRefillTurboCredits.
Request(i) ==
  /\ check[i].pc = "add"
  /\ \/ /\ Fails
        /\ UNCHANGED job
     \/ /\ \E j \in Job :
             /\ job[j] = NoJob
             /\ job' = [job EXCEPT ![j] =
                  [wallet |-> check[i].wallet, place |-> "waiting",
                   amount |-> check[i].request, stalls |-> 0, paid |-> 0]]
        /\ UNCHANGED errors
  /\ check' = [check EXCEPT ![i] = NoCheck]
  /\ UNCHANGED <<isLive, money, worker, watched, overlapped, downs>>

-----------------------------------------------------------------------------
(* The refills worker.                                                     *)

JobOf(i) == job[worker[i].job]

\* The worker has still to pay, if it is going to.
Unpaid(i) == worker[i].pc \in {"start", "covered"}

\* Redis drops j; its record stays while one of the workers in is still has it.
Dropped(j, is) ==
  IF \E k \in is : worker[k].job = j THEN [job EXCEPT ![j].place = "gone"]
                                    ELSE [job EXCEPT ![j] = NoJob]

Fetch(i, j) ==
  /\ worker[i] = NoWork /\ job[j].place = "waiting"
  /\ job' = [job EXCEPT ![j].place = "active"]
  /\ worker' = [worker EXCEPT ![i] =
       [job |-> j, run |-> job[j].stalls, locked |-> TRUE, pc |-> "start", tx |-> Missing]]
  /\ UNCHANGED <<isLive, money, check, history>>

\* Mutant of Live: the token refill does not look at IS_LIVE.
LiveOrToken(w) == isLive \/ w \in Pool

\* sendArTo, sendTokensTo and topUpTurboCredits each test isLive == 'true'.
Live(w) == isLive

\* Not live: the handler only logs what it would have sent.
DryRun(i) ==
  /\ worker[i].pc = "start" /\ ~Live(JobOf(i).wallet)
  /\ worker' = [worker EXCEPT ![i].pc = "done"]
  /\ UNCHANGED <<isLive, money, check, job, history>>

\* sendArTo and topUpTurboCredits read the spender's balance first, and give
\* the refill up when it does not cover the amount or cannot be read.
CoverAr(i) ==
  /\ worker[i].pc = "start" /\ Live(JobOf(i).wallet) /\ JobOf(i).wallet \notin Pool
  /\ \/ /\ Fails
        /\ worker' = [worker EXCEPT ![i].pc = "done"]
     \/ /\ worker' = [worker EXCEPT ![i].pc =
             IF spender["ar"] < JobOf(i).amount THEN "done" ELSE "covered"]
        /\ UNCHANGED errors
  /\ UNCHANGED <<isLive, money, check, job, watched, overlapped, downs>>

\* An id for a new payment, one that nobody still asks about.
Unused(t) ==
  /\ tx[t] = NoTx
  /\ \A i \in Instance : t \notin check[i].listed /\ worker[i].tx # t

Send(i, t) ==
  /\ Unused(t)
  /\ tx' = [tx EXCEPT ![t] =
       [wallet |-> JobOf(i).wallet, amount |-> JobOf(i).amount, stage |-> "posted",
        newer |-> 0]]
  /\ job' = [job EXCEPT ![worker[i].job].paid = @ + 1]

\* transactions.post, topUpWithTokens, or the contract's transfer, after which
\* only the last waits for the payment.  A failing call may have sent it.
Pay(i) ==
  /\ \/ worker[i].pc = "covered"
     \/ worker[i].pc = "start" /\ Live(JobOf(i).wallet) /\ JobOf(i).wallet \in Pool
  /\ \/ /\ \E t \in Tx :
             /\ Send(i, t)
             /\ worker' = IF JobOf(i).wallet \in Pool
                          THEN [worker EXCEPT ![i].pc = "mining", ![i].tx = t]
                          ELSE [worker EXCEPT ![i].pc = "done"]
        /\ UNCHANGED errors
     \/ /\ Fails
        /\ UNCHANGED <<tx, job>> \/ \E t \in Tx : Send(i, t)
        /\ worker' = [worker EXCEPT ![i].pc = "done"]
  /\ UNCHANGED <<isLive, balance, spender, check, watched, overlapped, downs>>

\* tx.wait() returns, or throws, once the token transfer is settled.
Wait(i) ==
  /\ worker[i].pc = "mining" /\ tx[worker[i].tx] = NoTx
  /\ worker' = [worker EXCEPT ![i].pc = "done", ![i].tx = Missing]
  /\ UNCHANGED <<isLive, money, check, job, history>>

\* The handler returned true or false; either way BullMQ completes the job.
\* A worker that lost its lock is told so, and the job stays where it is.
Finish(i) ==
  /\ worker[i].pc = "done"
  /\ job' = IF worker[i].locked \/ JobOf(i).place = "gone"
            THEN Dropped(worker[i].job, Instance \ {i}) ELSE job
  /\ worker' = [worker EXCEPT ![i] = NoWork]
  /\ UNCHANGED <<isLive, money, check, history>>

-----------------------------------------------------------------------------
(* The chain, and the wallets' owners.                                     *)

Settle(t) ==
  /\ tx[t] # NoTx
  /\ tx' = [tx EXCEPT ![t] = NoTx]
  /\ watched' = [i \in Instance |-> watched[i] \ {t}]

\* Turbo may credit less than was asked for: the amount in credits is sent as
\* an amount of AR.
Received(w, amount) == IF w \in Turbo THEN 1..amount ELSE {amount}

Confirm(t) ==
  LET w == tx[t].wallet  amount == tx[t].amount IN
  /\ Settle(t)
  /\ spender[Asset(w)] >= amount
  /\ spender' = [spender EXCEPT ![Asset(w)] = @ - amount]
  /\ \E received \in Received(w, amount) :
       balance' = [balance EXCEPT ![w] = @ + received]
  /\ UNCHANGED <<isLive, check, job, worker, overlapped, errors, downs>>

\* The chain drops a payment, which it must when the spender cannot cover it.
Reject(t) ==
  /\ Settle(t)
  /\ IF spender[Asset(tx[t].wallet)] < tx[t].amount THEN UNCHANGED errors ELSE Fails
  /\ UNCHANGED <<isLive, balance, spender, check, job, worker, overlapped, downs>>

\* The gateway has indexed a top-up, and lists it before those of the wallet
\* that it lists already; how many more than a whole page is all the same.
Index(t) ==
  /\ tx[t].stage = "posted" /\ tx[t].wallet \in Turbo
  /\ tx' = [u \in Tx |->
       IF u = t THEN [tx[u] EXCEPT !.stage = "visible"]
       ELSE IF u \in Visible(tx[t].wallet) /\ OnPage(u) THEN [tx[u] EXCEPT !.newer = @ + 1]
       ELSE tx[u]]
  /\ UNCHANGED <<isLive, balance, spender, check, job, worker, history>>

\* PENDING_TURBO_REFILL_TTL_MS has passed since the top-up's block.
Age(t) ==
  /\ tx[t].stage = "visible"
  /\ tx' = [tx EXCEPT ![t].stage = "aged"]
  /\ watched' = [i \in Instance |-> watched[i] \ {t}]
  /\ UNCHANGED <<isLive, balance, spender, check, job, worker, overlapped, errors, downs>>

\* A protocol job spends from its wallet.
Spend(w) ==
  /\ balance[w] > 0
  /\ balance' = [balance EXCEPT ![w] = @ - 1]
  /\ UNCHANGED <<isLive, spender, check, job, worker, tx, history>>

-----------------------------------------------------------------------------
(* Crashes and lost locks.                                                 *)

\* The process dies and is started again.
Crash(i) ==
  /\ downs < MaxDowns
  /\ check' = [check EXCEPT ![i] = NoCheck]
  /\ job' = IF worker[i] # NoWork /\ JobOf(i).place = "gone"
            THEN Dropped(worker[i].job, Instance \ {i}) ELSE job
  /\ worker' = [worker EXCEPT ![i] = NoWork]
  /\ downs' = downs + 1
  /\ UNCHANGED <<isLive, money, watched, overlapped, errors>>

\* The worker cannot renew its lock in time.  The handler is not told.
Lapse(i) ==
  /\ worker[i].locked /\ downs < MaxDowns
  /\ worker' = [worker EXCEPT ![i].locked = FALSE]
  /\ downs' = downs + 1
  /\ UNCHANGED <<isLive, money, check, job, watched, overlapped, errors>>

\* Mutant of MayRetry: stalled jobs are retried for ever.
AlwaysRetry(j) == TRUE

\* BullMQ: maxStalledCount = 1.
MayRetry(j) == job[j].stalls < 1

\* A job that is run again has paid already, or a worker is about to.
PaysToo(j) ==
  job[j].paid > 0 \/ \E i \in Instance : worker[i].job = j /\ Unpaid(i)

\* BullMQ: an active job whose lock has lapsed is retried from the start, or fails.
Stall(j) ==
  /\ job[j].place = "active"
  /\ \A i \in Instance : worker[i].job = j => ~worker[i].locked
  /\ IF MayRetry(j)
     THEN /\ job' = [job EXCEPT ![j].place = "waiting", ![j].stalls = @ + 1]
          /\ overlapped' = IF PaysToo(j)
                           THEN overlapped \cup {job[j].wallet} ELSE overlapped
     ELSE job' = Dropped(j, Instance) /\ UNCHANGED overlapped
  /\ UNCHANGED <<isLive, money, check, worker, watched, errors, downs>>

-----------------------------------------------------------------------------
Next ==
  \/ \E i \in Instance :
       \/ \E w \in Wallet : ReadBalance(i, w)
       \/ Query(i) \/ AskStatus(i) \/ Request(i)
       \/ \E j \in Job : Fetch(i, j)
       \/ DryRun(i) \/ CoverAr(i) \/ Pay(i) \/ Wait(i) \/ Finish(i)
       \/ Crash(i) \/ Lapse(i)
  \/ \E t \in Tx : Confirm(t) \/ Reject(t) \/ Index(t) \/ Age(t)
  \/ \E w \in Wallet : Spend(w)
  \/ \E j \in Job : Stall(j)

Spec == Init /\ [][Next]_vars

\* The workers keep running, a check of every wallet comes again in every
\* round, the queue is first-in first-out, so that no job waits for ever, and
\* the chain settles what it is sent.
Fairness ==
  /\ \A w \in Wallet : SF_vars(\E i \in Instance : ReadBalance(i, w))
  /\ \A j \in Job : SF_vars(\E i \in Instance : Fetch(i, j)) /\ WF_vars(Stall(j))
  /\ \A t \in Tx : WF_vars(Confirm(t) \/ Reject(t))
  /\ \A i \in Instance :
       /\ WF_vars(Query(i)) /\ WF_vars(AskStatus(i)) /\ SF_vars(Request(i))
       /\ WF_vars(DryRun(i) \/ CoverAr(i) \/ Pay(i) \/ Wait(i) \/ Finish(i))

FairSpec == Spec /\ Fairness

-----------------------------------------------------------------------------
(* Properties.                                                             *)

\* Every variable keeps its type; in particular a job is retried once at most.
TypeOK ==
  /\ isLive \in BOOLEAN
  /\ balance \in [Wallet -> Nat]
  /\ spender \in [{"ar", "token"} -> Nat]
  /\ check \in [Instance -> CheckType \cup {NoCheck}]
  /\ job \in [Job -> JobType \cup {NoJob}]
  /\ worker \in [Instance -> WorkType \cup {NoWork}]
  /\ tx \in [Tx -> TxType \cup {NoTx}]
  /\ watched \in [Instance -> SUBSET Tx]
  /\ overlapped \subseteq Wallet
  /\ errors \in 0..MaxErrors /\ downs \in 0..MaxDowns

\* A refill lifts a wallet above its maximum in one case only: its check read
\* the balance while another refill of the wallet was still under way, or a
\* job was retried that had paid or whose worker went on to.  Money spent meanwhile, payments that fail
\* and answers that are lost never do it.
OverfillsOnlyByOverlap ==
  \A w \in Wallet : balance[w] > Max => w \in overlapped

\* "If a transaction is still pending within the TTL, the new refill is
\* skipped" (README): a top-up that the gateway listed, young and pending, from
\* before a check began is missed by it in two cases only.  A whole page of
\* newer ones has been listed since, or the query failed and was answered with
\* status 200.  Whichever settles in between the query and the status calls,
\* and whichever of them throws, it is not missed.
SeesPendingTopUps ==
  \A i \in Instance :
    check[i].pc = "add" /\ check[i].wallet \in Turbo /\ ~check[i].misled =>
      \A t \in watched[i] : tx[t].newer = First

\* A refill job pays twice at most, whatever crashes and however many workers
\* are at it at the same time: BullMQ retries it once.
PaysAtMostTwice == \A j \in Job : job[j].paid <= 2

\* Unless IS_LIVE is 'true' no refill of any kind sends anything.
DryRunSendsNothing == ~isLive => \A t \in Tx : tx[t] = NoTx

\* "Exists to keep those wallets funded" (README): a depleted wallet reaches
\* its minimum again, if live, unless its spender can no longer pay a full
\* refill.
DepletedIsRefilled ==
  \A w \in Wallet :
    (isLive /\ balance[w] < Min) ~> (balance[w] >= Min \/ spender[Asset(w)] < Max)

\* "Without double-spending" (README): a refill job pays once.
PaysOnce == \A j \in Job : job[j].paid <= 1
=============================================================================
