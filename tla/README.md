# operator-checks: TLA+ models, model checking and proofs

A verification development for the `operator-checks` service (NestJS, BullMQ on
Redis, Consul, MongoDB; Arweave, ArDrive Turbo and an EVM chain outside). It
models the service's control - who seeds the check loop, how the loop carries
itself on, how a round's readings are stored, how a balance becomes a refill -
and leaves formatting, logging and wiring out. Source paths below are relative
to the repository root, so the code is under `src/`.

## 1. The system

| Part | State it keeps | Operations | Talks to |
|---|---|---|---|
| Cluster service (`src/cluster/cluster.service.ts`) | `isLeader`, `sessionId`, a renewal timer, a watch | bootstrap hook: create session, ask for the lock, start the watch; watch report -> ask again; shutdown hook: destroy the session; `isTheOne()` | Consul (session, KV lock) |
| Check loop (`src/tasks/tasks.service.ts`, `processors/tasks-queue.ts`) | the tasks queue in Redis; the un-awaited calls in memory | bootstrap hook: obliterate, `queueCheckBalances`; worker: add a flow, re-queue | cluster service, Redis |
| Balance-checks flow (`CHECK_BALANCES_FLOW`, `processors/balance-checks-queue.ts`, `checks/balances.service.ts`) | ten child jobs and a `review` parent in Redis; MongoDB | run a check, request a refill, return a reading; review: store the readings | checks, refills service, Redis, MongoDB |
| Checks (`src/checks/*.service.ts`) | configuration only | fetch a balance, compare it with MIN and MAX | chains, Turbo |
| Refills (`processors/refills-queue.ts`, `src/refills/refills.service.ts`) | the refills queue in Redis; the spenders' wallets | `sendArTo`, `sendTokensTo`, `topUpTurboCredits`, `hasPendingTurboRefill` | chains, Turbo, Arweave gateway |
| Local forking (`cluster/app-threads.service.ts`) | - | never called | - |
| Health endpoint, modules, `main.ts` | - | `GET /health`; hook order, shutdown hooks | - |

**Where it is hard.**  Two instances run the same workers on the same queues.
The handler of `check-balances` awaits nothing it starts, so a job completes
while its successor exists in one process's memory only.  The re-queue is a
count and an add in four Redis calls, which other instances' jobs move through.
BullMQ takes the job of a dead worker back once and then fails it.  The lock is
tied to a session that may lapse unnoticed, Consul delays the next acquire after
it, and the answers to overlapping requests may be reordered.  The bootstrap
hook reads the election's outcome once.  A refill is decided from a balance read
earlier, queued, and paid by another worker; the payment settles later still,
and a crash between payment and completion runs the job again.  The children of
a round run on all instances, a worker may lose its lock and go on, and a review
that is run again stores again.  Errors of remote calls are swallowed
everywhere, each time with another meaning.  `PROJECT.json` lists these hazards
at their lines, with the properties that cover each or the reason why none does.

**What makes each part correct.**

- Cluster service: a believer whose session lives holds the lock; a stop whose
  `session.destroy` is answered frees it; the hook returns with a leader
  resolved; no freed lock goes unreported to a standby; a standby takes over.
- Check loop: it is not multiplied by itself, and it does not die - or only in
  ways that can be named.
- Deployment: nobody cleans up or seeds together with another lock holder; a
  service that has started runs; the checks go on for ever.
- Checks: a request is exactly the shortfall; a depleted wallet that was read is
  requested.
- Refills: a wallet is not lifted above its maximum, a top-up that is pending is
  seen (but for an error that passes for an answer), a job pays once (or a known
  number of times), nothing is sent when not live, and a depleted wallet is
  refilled in the end.
- Flow: a round's readings are stored only after all of its checks answered, by
  each run of its review once, and all of them as long as no call fails; no
  answer of the outside world makes a check fail and its review wait for good,
  and a review that waits has something to wait for.

## 2. The modules

| Module | What it is |
|---|---|
| `RecheckChain` | what the check loop promises: chains start at bootstraps, fold into one another, and the last ends only when an instance cleans up or goes down |
| `CheckLoop` | the loop on the tasks queue, one Redis call a step |
| `ClusterElection` | the cluster service and Consul |
| `Deployment` | composes `ClusterElection` and `CheckLoop` (`E == INSTANCE`, `L == INSTANCE`): hook order, process as the unit of failure |
| `Thresholds` | what each check makes of a fetched balance: operators, no state |
| `Refills` | checks worker, refills worker, payments and chain; extends `Thresholds` |
| `ReadingsLog` | what a round promises: all checks answer, then the readings are written, in one attempt or two |
| `CheckFlow` | the flow of each round: children, review, queue, MongoDB |
| `MC*` | the symmetry sets for TLC (liveness runs use no symmetry) |
| `*Proofs` | TLAPS proofs; `OverfillProofs` extends `RefillsProofs` extends `ThresholdsProofs`, `RecheckChainProofs` extends `CheckLoopProofs`; `DeploymentProofs` instantiates `ClusterElectionProofs` and `RecheckChainProofs` |

### CheckLoop

`state`, `stalls` are Redis' lists, the delayed set and BullMQ's stall counter.
`worker`, `processed`, `call`, `adding` are the memory of the processes: the job
a worker has locked, whether `process()` returned, the `queueCheckBalances`
calls that run (with the place they have reached and whether a count was
positive) and the `flow.add` calls that run.  `phase` is how far the bootstrap
hook has come.

`BootstrapTasks` and `Obliterate` are `onApplicationBootstrap` up to each await.
`CountWaiting`, `CountDelayed`, `CountActive` and `Add` are the awaits of
`queueCheckBalances`; the handler skips the third.  `Process` is `process()`:
both calls start, none is awaited.  `Fetch`, `Promote`, `Finish` and `Stall` are
BullMQ's.  `Crash` may come at any time (also as the end of the process by an
unhandled rejection of either call); `Shutdown` only once the worker has closed,
which waits for `process()` and not for what it left behind.

`seeded`, `lost`, `origins`, `downs` are history variables: no guard reads them,
except the bound on `downs`.

`RecheckChain` counts what `CheckLoop` is made of. A *chain* is a job that is
still to run or a re-queue that has found no other job; an *orphan* is an active
job whose process is gone; a *cleaner* and a *seeder* are bootstraps before and
after their last obliterate. The refinement mapping reads these off the loop's
variables, with crashes, shutdowns and obliterates included, so that the
abstract module says which step may make a chain (a bootstrap, once; an orphan
that is taken back) and which may end one.

### ClusterElection

`hook`, `isLeader`, `sessionId`, `watching` are the service's fields; `asks` and
`answers` are lock requests and their answers under way; `session`, `holder`,
`lockDelay`, `news` are Consul's. Every `await` of the service is a place where
other actions come in between. Session end deletes the key (behavior `delete`)
and starts a lock-delay; a request with a dead session is an error, which
`acquireLock` catches; a refused one is answered false. A shutdown awaits
`session.destroy` without a catch: `Stop` is the one that is answered,
`StopFails` the one that is not, which ends the process there with the session
left to its TTL, since the renewals were stopped before. The watch reports when
it starts and when the key's index moves; the index of a *missing* key is that
of the whole store, so that other users' writes can wake it (`OtherKeyWritten`).
Consul, and what the client library does with it, is external: it is modelled
from how `cluster.service.ts` uses it. `turnedAway` is a history variable: the
instances whose request for the free key was refused in the lock-delay, or lost,
since the key was last held.

### Deployment

Nest awaits the bootstrap hook of `ClusterService` before that of `TasksService`
(its module imports `ClusterModule`): `HooksInOrder`.  `BootstrapTasks` passes
`E!IsTheOne(i)` to `L!BootstrapTasks`.  A process starts, stops and crashes as a
whole; a shutdown whose `session.destroy` fails ends the process before BullMQ
has closed its workers, and is a crash of the loop.  A stopping one fetches
nothing.

### Thresholds and Refills

`Judge` is the comparison all getters share; `CheckAo`, `CheckBundler`,
`CheckHodlerEth`, `CheckRewardsPool`, `CheckCredits` add what each does without
an answer, without an address, without thresholds and - for the two EVM wallets
- with an answer of exactly 0.  A missing maximum makes a request of `NaN`, as
BigNumber does.  `RelayRegistryConfig` and `DistributionConfig` are what the
constructors keep of a partial configuration, `SendAosDryRun` is which of three
calls to an AO process gives the balance.  Amounts are whole numbers of whatever
unit the check compares in.

In `Refills`, `check` and `worker` are the handler of each worker up to its next
await; `job` is the refills queue; `tx` holds payments that are sent and not
settled; `balance` and `spender` are the wallets; `isLive` is the configuration,
chosen at the start and never changed.  `ReadBalance`, `Query`,
`AskStatus`, `Request` are the checks worker.  `Fetch`, `DryRun`, `CoverAr`,
`Pay`, `Wait`, `Finish` are the refills worker.  `Confirm`, `Reject`, `Index`,
`Age` are the chain, the gateway and the TTL filter; `Spend` is the wallet's
owner.  `Crash` ends a process, `Lapse` takes the lock of a refill worker that
goes on: BullMQ takes the job back, so that two workers may be at it at the same
time, and what the first one finishes later is refused.  A job that Redis has
dropped meanwhile is kept as `gone` for as long as that worker has it.  Every
remote call may fail (`Fails`, bounded by `MaxErrors`); a failing payment may
have been sent.  A failing query ends in either of two ways: it throws, and
`hasPendingTurboRefill` answers true (`OnError`), or GraphQL reports the error
with status 200, which is read as an empty list (`OnErrorAnswer`), and the check
goes on to request.  The history field `misled` marks the second.

Abstractions: AR and credits are counted in one unit, and Turbo may credit less
than was asked for (`topUpTurboCredits` passes the number of credits as an
amount of AR, so fees come off it); rounds are left out - any wallet may be
checked at any time; the stalled retry of a *check* job is such a check; nonces
of the EVM wallet, thresholds that do not parse and the backoff between AO calls
are left out. The query asks for the first ten top-ups (`First`), settled ones
included: a payment's `newer` counts, up to a page, the top-ups of its wallet
that the gateway lists before it, and only those still on the page (`OnPage`)
are looked at. `Min <= Max` is assumed of the configuration.

### CheckFlow

`place`, `stalls`, `lock`, `values` are what Redis keeps of each job: the list
it is on, how often BullMQ took it back, who holds its lock, and the children's
results beside their parent.  `worker` is what each instance's worker is at,
`saving` the saves its process has in flight; `documents` is MongoDB, with the
run of the review that saved each document.  `cut` is a history variable, the
saves that were in flight when their process died.

`AddFlow` is `flow.add(CHECK_BALANCES_FLOW)`, which stores all jobs of the round
at once.  `RunCheck` is a child's case in `process()`: it returns one reading,
or none when the request of a refill throws, which only six of the checks make.
`Collect` and `Save` are the review: `getChildrenValues`, then `create()`, which
(as the installed Mongoose, 7.8, does with an array) starts the saves of all
documents at once, resolves with the last of them and rejects with the first
that fails.  `storeCheckResults` swallows the error and the review completes,
with the other saves still in flight: `SaveEnds` goes on with them while the
worker is at its next job, and `Crash` cuts them off.  `Fetch`,
`Finish` and `Stall` are BullMQ's, whose rules come from the installed version
and its defaults (one attempt, one retry of a stalled job, a failed child does
not fail its parent).  `Crash` is the process's end and restart, `Lapse` a lock
that is lost under a worker that goes on; what such a worker finishes later is
refused.  `ReadingsLog` sees the checks that are done, the readings kept, the
runs of the review that began, and the documents.

Abstractions: a reading is the name of its check, since what it says is the
matter of `Thresholds` and what its check does to a wallet of `Refills`; a crash
of the flow's `add` is `CheckLoop`'s matter.

## 3. The runs

All runs take two instances, as deployed, unless said otherwise.  `flow_store`
(0.7 million states), `refill_funded`, `deploy_restarts` and `deploy_runs` (0.3
to 0.4 million) are the slowest to pass, with a liveness check each: two to
three minutes on two cores.

| Run | Checks | Shows |
|---|---|---|
| `loop_crash` | `TypeOK`, `LoopDiesOnlyInWindow`, `ChainsHaveOrigins`, `LeaderLeavesLoopRunning`, `RefinesRecheckChain` | two crashes or stops, and bootstraps with both obliterates: the loop implements `RecheckChain`, dies in the named window only, is never doubled by a handler, and runs after every leader's bootstrap |
| `election_lock` | `TypeOK`, `LeaderHoldsLock`, `StopFreesLock`, `LeaderResolved`, `StandbyIsTold`, `StandbyTakesOver` | two requests per instance under way, a lost request or answer or a failed destroy, a lapse; only a crash or a failed destroy leaves a lock to its TTL; a freed lock is reported to every standby that did not ask for it in vain, and while somebody keeps writing other keys a standby takes it |
| `deploy_runs` | `RunsContinuously`, `OneSeederWithLock`, `StartedServiceRuns` | election and loop together, `DO_CLEAN` set, a lapse during or after the bootstraps, no crash |
| `deploy_restarts` | `RunsUnlessLost` | one of two instances goes down once, by a crash or a stop, and is started again: whichever workers there are carry the loop on, unless it fell into the window |
| `refill_crash` | `TypeOK`, `OverfillsOnlyByOverlap`, `PaysAtMostTwice`, `DryRunSendsNothing` | two crashes or lost locks around token transfers, one error |
| `refill_funded` | `DepletedIsRefilled`, `SeesPendingTopUps` | one instance, a crash or a lost lock, an error (a failing query that throws, and one that does not), a Turbo wallet, two requests and two top-ups under way and a page of one |
| `flow_store` | `TypeOK`, `ReviewedRoundIsStored`, `CopiesNeedRetries`, `ChecksFailByStallingOnly`, `ReviewsAwaitChecks`, `RefinesReadingsLog`, `RoundsReviewed` | two rounds under way, a crash, a lapsed lock and a failing call, in any order and at any of the jobs and saves |

`Refills` chooses `isLive` in its initial states, so each of its runs covers the
service live and not live.

**Runs that find a violation**, each a disagreement between code and text:

| Run | Violates | Why |
|---|---|---|
| `election_standby_stuck` | `StandbyTakesOver` | the standby's one request falls into the lock-delay and nothing asks again |
| `deploy_crash_stops` | `RunsContinuously` | a crash between the completion of a job and its un-awaited re-queue ends the loop; the other instance bootstrapped long ago and never seeds |
| `refill_pays_twice` | `PaysOnce` | a job whose worker died after the payment is run again |
| `refill_empty_pool` | `DepletedIsRefilled` | a pool of exactly 0 counts as a failed fetch |
| `flow_lost` | `ReadingsAreStored` | a check whose worker dies twice fails, never completes, and its review waits for it |

`flow_lost` is told of what the queue does while it keeps the failed job;
`removeOnFail: 8` drops it after eight later failures.

**Divergences seen while modelling that have no run of their own.**

- Two instances may both believe to be leader: `isLeader`
  (`src/src/cluster/cluster.service.ts:142`) is written by answers only, so it
  outlives a lapsed session, while the other instance acquires the lock.  What
  remains true is `LeaderHoldsLock`: at most one of them has a live session.
- In single-node mode (`IS_LIVE` unset) `isTheOne()` also needs
  `IS_LOCAL_LEADER` (`src/src/cluster/cluster.service.ts:73`), which the local
  setup (`src/README.md:190-206`) does not set, so that nothing seeds the loop
  although the README says the service then "executes all checks".
  `NoLocalLeaderNoLoop` is this behaviour as a theorem.
- `storeCheckResults` catches what `create()` throws, so a round of which a
  document was not saved completes as if it had been.  The first failing save
  also ends the wait for the others: the review completes with them in flight,
  and a process that dies then loses them all, as a completed review is not run
  again.  In the model one failing save and one crash leave a completed round
  with no document at all.  What remains true is `ReviewedRoundIsStored`.
- `session.destroy` is awaited without a catch
  (`src/src/cluster/cluster.service.ts:101`).  When it fails the process ends
  with the lock kept until the session's TTL, so that "Cleaning up leader locks"
  has cleaned up nothing.  What remains true is `StopFreesLock`.
- `hasPendingTurboRefill` "returns true on any error"
  (`src/src/refills/refills.service.ts:355`, also line 394 and
  `src/README.md:165`: "On any error it errs on the side of skipping").  An error
  that the gateway reports with status 200, as GraphQL does, is none of these:
  `result.data?.transactions?.edges || []` (line 332) makes an empty list of it,
  the answer is false and the refill is requested beside a pending one.  What
  remains true is `SeesPendingTopUps`.
- A minimum without a maximum makes a request of NaN in every round, and
  a missing relay address turns the staking check off as well, under a message
  that names the relay check only (`MissingThresholds`, `AoChecksNeedAll`).
- Duplicate top-ups may stack: `hasPendingTurboRefill` is asked when the request
  is enqueued, and sees indexed top-ups only. A request that is still queued and
  a top-up that is not indexed yet are missed, so is one behind ten newer ones,
  and so are all of them after an error with status 200. What remains true is
  `SeesPendingTopUps`.

**Bounds, and why they are enough.** Two instances give every pairwise race;
more would add only more of the same pairs, and the proofs cover any number. In
`loop_crash`, two jobs are the most that two workers hold, and two calls a
re-queue beside a bootstrap's or another re-queue; `MaxDowns = 2` is the fewest
that lose a job for good (BullMQ retries once). `MaxFlows = 1` holds a worker
back until Redis has stored the flow before: flows only count as progress. In
the election runs two sessions are one for each instance, or one instance's and
its successor's after a restart or a lapse; `MaxAsks = 2` lets two answers
overtake each other; one error and one lapse are each enough for a wrong belief,
and their combination is in the run. In `deploy_runs` one job is all a loop
without crashes needs, and two calls let both bootstraps, or a bootstrap and a
re-queue, count at once. `deploy_restarts` takes the other side: one local
leader and one session, so that after a crash or a stop nobody is the leader
again and nobody re-seeds. The workers alone, the other instance's and the
restarted one's, have to carry the loop, in their two jobs and calls; a
bootstrap that seeds beside a loop that runs is in `loop_crash` and in
`ImplementsRecheckChain`. In `Refills`, two jobs and two payments are what one
double payment needs; `Min`, `Max` of 1..3 give a wallet that is full, depleted
and empty, and a shortfall that differs from the maximum; `Funds` cover two
refills and no more, so that the spender runs dry as well. `First` is 1: a page
that a second top-up fills, as an eleventh does the code's; with `watched = {}`
in its place `SeesPendingTopUps` fails in `refill_funded`, so the full page is
reached. `refill_funded` has `Min = Max = 1`, where a wallet is full or empty,
because it needs two top-ups, a crash and an error at once; its wallet is a
Turbo wallet, since the path of the others is part of a Turbo wallet's. A top-up
that is credited in part is therefore not in this run, and `refill_crash` has a
rewards pool only: what its properties say of Turbo wallets, with partial
credits, rests on the theorems. In the flow runs, two rounds and two checks, one
of them able to fail at its request, give children of one round that complete in
either order, beside those of another; a job needs two losses to fail, which a
crash and a lapse are in `flow_store` and two crashes in `flow_lost`; one error
is a lost reading, a document not saved, with another save left in flight that
the crash may cut off, or a review that throws.

Deadlock is not checked: bounds on sessions, crashes and ids stop the models
where the system would go on.

**Fairness.** Weak fairness on what the event loop, Redis, Consul or a timer
schedules: continuations of awaited calls, answers, timers (promotion of delayed
jobs, stall detection, expiry of an orphaned session, the lock-delay), worker
fetches and completions. `Deployment` adds that Nomad starts an instance that is
down. Nothing is assumed of crashes, lapses, errors, or other users of the KV
store - except in `BusyStoreSpec`, which says so. `CheckFlow` has weak fairness
on each worker's fetching and handler, on the saves each process has in flight,
and on the detection of stalled jobs; nothing of the rounds that are added.
`Refills` has strong fairness in three places: on the reading of each wallet,
since every round queues one check for each and both workers are busy now and
then; on the fetch of each job, since the queue is first-in first-out; and on
`Request`, since ids of jobs run out for a while in the model only. Payments
settle: the chain confirms or drops them.

Every property of a passing run has a mutant in `PROJECT.json`: a plausible bug,
written beside the definition it replaces, under which TLC finds the property
violated.

## 4. The proofs

For every value of the constants (any number of instances, jobs, sessions,
wallets, rounds, checks, errors, crashes, lost locks), checked by TLAPS:

| Theorem | States |
|---|---|
| `CheckLoopProofs!TypeCorrect`, `LoopSurvives`, `LeadersLeaveLoops` | `TypeOK`, `LoopDiesOnlyInWindow`, `LeaderLeavesLoopRunning` |
| `RecheckChainProofs!ImplementsRecheckChain`, `OriginsOfChains` | `RefinesRecheckChain`, `ChainsHaveOrigins` |
| `ClusterElectionProofs!TypeCorrect`, `LeaderLocks`, `StopFrees`, `LeaderIsResolved`, `StandbysAreTold` | `TypeOK`, `LeaderHoldsLock`, `StopFreesLock`, `LeaderResolved`, `StandbyIsTold` |
| `DeploymentProofs!ImplementsElection`, `ImplementsLoop`, `ImplementsRecheckChain` | the deployment implements `ClusterElection`, `CheckLoop` and, through it, `RecheckChain` |
| `DeploymentProofs!OneSeeder`, `ServiceRuns` | `OneSeederWithLock`, `StartedServiceRuns` |
| `DeploymentProofs!LoopSurvives`, `NoLocalLeaderNoLoop` | `LoopDiesOnlyInWindow` of the deployment; nothing seeds the loop where no instance is a local leader |
| `ThresholdsProofs!RequestIsShortfall`, `DepletionIsRequested`, `MissingThresholds` | what each check requests, with and without its thresholds |
| `ThresholdsProofs!AoChecksNeedAll`, `RetriesReachTheBalance` | what the AO checks need of their configuration, and which call they read |
| `CheckFlowProofs!TypeCorrect`, `FailuresAreStalls`, `CopiesAreRuns`, `ReviewsStore`, `NoWakeUpIsLost` | `TypeOK`, `ChecksFailByStallingOnly`, `CopiesNeedRetries`, `ReviewedRoundIsStored`, `ReviewsAwaitChecks` |
| `CheckFlowProofs!BooksAreKept`, `ImplementsReadingsLog` | the inductive invariant, and `RefinesReadingsLog` |
| `RefillsProofs!TypeCorrect`, `JobsPayAtMostTwice`, `ChecksSeePendingTopUps`, `DryRunIsDry` | `TypeOK`, `PaysAtMostTwice`, `SeesPendingTopUps`, `DryRunSendsNothing` |
| `OverfillProofs!OverfillNeedsOverlap` | `OverfillsOnlyByOverlap` |

The assumptions are those the modules name (`LoopConstants`,
`ElectionConstants`, `DeploymentConstants`, `MissingIsNoAmount`,
`RefillConstants`, `FlowConstants`): sentinels are not members of the sets they
stand outside of, flags are Boolean, bounds are natural numbers, the instances,
jobs and calls of the loop and the checks of a round are finitely many, a round
has a check and a page an entry, a clustered deployment is a live one,
`Min <= Max`.  `NoLocalLeaderNoLoop` assumes `LocalLeader = {}`, which it is
about.

*LoopSurvives.*  `LoopDiesOnlyInWindow` is not inductive: a re-queue that stands
down is safe only because the job it saw is still there, or because whoever
moved that job carries the loop.  `LoopInv` says what a call knows at each of
its counts, and that a job that is active in Redis has a worker or is an orphan.

*LeadersLeaveLoops* adds what becomes of a bootstrap's call.  `SeededIfJobs`:
where there is anything of a loop, some hook has seeded it.  `NothingLost`:
before the first crash or stop nothing is lost.  `LeadersSeed`: an instance that
leads is cleaning up, or has a call under way, or a loop has been seeded;
with `LoopDiesOnlyInWindow` that loop still lives.

*ImplementsRecheckChain.*  One lemma for each action says how the jobs and
re-queues a chain is counted from, the orphans, the cleaners and the seeders
change: a handler that fetches, completes or re-queues passes one element from
one of these sets to another, and the cardinalities follow.  `LoopInv` gives the
knowledge the steps need, and `UnseenAdds` that a call that adds has found no
job.  `OriginsOfChains` is the same count against the bootstraps and the jobs
taken back.

*DeploymentProofs.*  Each step of the deployment is a step or a stutter of each
component, so their theorems hold of it: `ElectionInvariant` is
`LeaderHoldsLock` with its strengthening, carried over.  A cleaning or seeding
instance has held the lock since its hook read `isTheOne()`, as long as its
session lives (`SeedersHoldLock`), and a lock has one holder.  `LoopInvariant`
carries the loop's invariant over in the same way, and with it `LoopSurvives`
and `LeaderLeavesLoopRunning`; `ImplementsRecheckChain` is the same for the
refinement.

*ServiceRuns* is what the two components promise together, and the safety side
of `RunsContinuously`.  As long as no request failed and nobody went down, the
election is in one of two states: somebody has won (`Won`: the grant is on its
way to a hook that waits for it, or the hook returned with it), or nobody has
(`NobodyWon`: the key is free, nothing was answered, the local leaders that
asked still wait or have lost their sessions, and the dead sessions are no more
than the lapses).  No undisturbed step undoes the first (`WonStays`), and each
keeps the second or leads to the first (`NobodyStep`).  With fewer lapses than
local leaders and all of their hooks over, nobody having won is impossible
(`SomebodyWins`); the winner's tasks service cannot have read `isTheOne()`
before (`Served`), so it is not a standby; and `LeaderLeavesLoopRunning` says
that its loop lives.  The bound on the lapses is needed: when every asker loses
its session before its request arrives, Consul refuses them all.

*NoLocalLeaderNoLoop.*  Without a local leader no bootstrap starts a call, so
there is no job to fetch and no handler to re-queue one (`NothingQueued`).

*LeaderLocks, LeaderIsResolved.* A belief is backed by the lock only together
with the answers still on their way: `IInv` has that a granted answer to a live
session means the lock is held (`BeliefBacked`), that Consul's holder is a live
session (`ConsulOK`), and that an instance before its election has no session,
request or belief (`FreshHook`).

*StopFrees.*  A stopping instance's session is dead and Consul's holder is a live
one (`ConsulOK`), so no request of it that is still to be answered can lock the
key again.  A lock that nobody holds in memory must have lost its owner in the
step that made it so; since a session is made and destroyed by its owner, that
step took the owner down, without a shutdown (`OrphanStep`).

*StandbysAreTold* is the safety side of `StandbyTakesOver`: every step that frees
the key leaves a report to each watch, every report of a free key starts a
request, and every request that ends without the lock while the key is free
makes its instance one of `turnedAway`.  What liveness adds is that reports and
requests go on, and that somebody wakes those that were turned away.

*Refills.*  `WorkersHoldTheirJobs`: no two workers are at the same run of a job.
`OnePaymentPerRun`: what a job has paid, and what its workers and its next run
may still pay, is no more than its runs; with BullMQ's single retry this gives
two.  `WatchedAreListed`: what a check could see when it began
stays visible until it settles, and is on the check's list once it queried or
was behind a whole page by then, where it stays, as top-ups are only listed
before it; with an empty list there is only the latter, unless the check was
`misled`.  `NobodyPays`: unless live no worker gets to
`covered`.

*OverfillNeedsOverlap.* For a wallet that did not overlap, at most one of "a
check with a shortfall", "a job not paid", "a payment not settled" exists
(`OneAtATime`), its amount fits under the maximum (`Fits`), and no job runs
again that has paid or whose worker may still pay (`NotPaidAgain`). A check
makes the first from nothing, every other step hands it on or drops it, and
spending only makes room. The shortfall itself comes from `RequestIsShortfall`'s
lemma.

*CheckFlow.* `Hygiene` is the inductive invariant behind all of it.
`LocksAreHeld`: a job whose lock is held is active, and the holder is at it.
`RunsAreOwn`: each worker is at a run that has begun, and no two at the same.
`ChecksReturn`: a check returns its own reading or none, and never throws.
`ReviewsStartClean`: before a run of a review collects, nothing is saved or in
flight for it. `SavesAreOwn`: a save in flight is one process's only, and of a
reading that its run has not written. `LocksAreFresh`: the holder of a lock is
at the last run of its job, so that the run that completes a review is the one
`stalls` names. `ReviewAfterChecks`: a review that is let go, or was taken back,
has all its checks done, so its readings are final. `DocumentsAreBegun`: a run
that saved has begun, and saved each reading once. The refinement then has one
lemma for each action; only `Finish` of a check, `Fetch` of a review and `Save`
are steps of `ReadingsLog`. `ReviewedRoundIsStored` needs a count as well:
`LossesAreErrors` bounds by `errors` both `Lost`, the checks of a round that
returned no reading, and `Missed`, what a run of a review has neither saved nor
in flight nor had cut off by a crash. A failing call adds one to either at most;
a crash moves what was in flight to what was cut off. That as long as no call
fails nothing is in flight or cut off behind a completed review is
`ReviewsAwaitSaves`: the review leaves `create()` with its last save only, and a
crash before that leaves the review to another run.

*NoWakeUpIsLost* is the safety side of `RoundsReviewed`.  BullMQ counts down the
children of a review; the invariant `HeldBack` says that a review that is held
back has a child that has not completed, and that all of its children are on the
queue.  The step that matters is the completion of a child, which holds the
review back only if another child is left (`LastCheckReleases`); `LocksAreHeld`
then says who has that child.

**Only model-checked**: liveness (`StandbyTakesOver`, `RunsContinuously`,
`RunsUnlessLost`, `DepletedIsRefilled`, `RoundsReviewed`), which rests on
fairness and `ENABLED`.  Of three of them the safety side is proved, that there
always is a step to wait for (`StandbysAreTold`, `ServiceRuns`,
`NoWakeUpIsLost`).  All safety properties of the passing runs and both
refinements are proved.  No recursive function over data occurs, so no induction
over data was needed.

## 5. Not modelled

- `refill-eth` (never enqueued), `refill-ao` (logs only), `sendAosMessage` and
  `AppThreadsService` (never called), the types of Raft messages (unused).
- On the tasks queue, a lock that lapses under a live worker (`Refills` and
  `CheckFlow` have it): the handler of `check-balances` awaits nothing, so it
  holds its lock for the time of one completion.
- Redis losing acknowledged writes at a sentinel failover, EVM nonces,
  thresholds that parse to NaN.
- Health endpoint, configuration, connections, logging, formatting of units.

## 6. Plan

Done, in this order: `CheckLoop` and its abstraction, `ClusterElection`, their
composition `Deployment`, `Thresholds`, `Refills`, `CheckFlow` and its
abstraction, and proofs of each.

Next: `Refills` composed with `CheckFlow`, a round's checks in the place of
"any wallet at any time".
