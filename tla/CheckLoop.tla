----------------------------- MODULE CheckLoop -----------------------------
(***************************************************************************)
(* The self-rescheduling loop on the tasks queue.                          *)
(*                                                                         *)
(* Every instance of the service runs a BullMQ worker on the tasks queue   *)
(* (processors/tasks-queue.ts) and, when it bootstraps as "the one", seeds *)
(* the first check-balances job (tasks.service.ts).  The handler of a      *)
(* check-balances job adds the balance-checks flow and queues the next     *)
(* job, and awaits neither: the worker completes the job while the Redis   *)
(* calls of queueCheckBalances are still under way.  Each of those calls   *)
(* is a step of its own here, so that the counts of one caller interleave  *)
(* with the adds, fetches and promotions of everyone else.                 *)
(*                                                                         *)
(* Whether a bootstrapping instance is the one is left open in this        *)
(* module; Deployment decides it with the election of ClusterElection.     *)
(***************************************************************************)
EXTENDS Naturals, FiniteSets

CONSTANTS
  Instance,     \* the service's processes (Nomad: count = 2)
  Job,          \* ids of jobs on the tasks queue; bounds the jobs in Redis
  Call,         \* slots for running queueCheckBalances calls; bounds them
  NoInstance, NoJob,
  IsLive,       \* IS_LIVE = 'true'
  DoClean,      \* DO_CLEAN = 'true'
  MaxFlows,     \* bound on unfinished flow.add calls of one instance
  MaxDowns      \* bound on crashes and shutdowns in a behaviour

ASSUME LoopConstants ==
  /\ IsFiniteSet(Instance) /\ IsFiniteSet(Job) /\ IsFiniteSet(Call)
  /\ NoInstance \notin Instance /\ NoJob \notin Job
  /\ IsLive \in BOOLEAN /\ DoClean \in BOOLEAN
  /\ MaxFlows \in Nat /\ MaxDowns \in Nat

VARIABLES
  phase,      \* how far each instance's bootstrap has come
  state,      \* where Redis keeps each job: a list, the delayed set, or nowhere
  stalls,     \* how often BullMQ took each job back from a dead worker
  worker,     \* the job each instance's worker has fetched
  processed,  \* whether that worker's process() has run
  call,       \* the queueCheckBalances calls under way
  adding,     \* flow.add calls under way, per instance
  \* history, read by no guard except the bound on downs
  seeded,     \* a job was added since the queue was last obliterated
  lost,       \* an instance went down holding the loop, or a job failed
  origins,    \* bootstrap adds and stalled retries so far
  downs       \* crashes and shutdowns so far

queueVars == <<state, stalls>>
workerVars == <<worker, processed>>
history == <<seeded, lost, origins, downs>>
vars == <<phase, queueVars, workerVars, call, adding, history>>

-----------------------------------------------------------------------------
(* Calls of queueCheckBalances, and the Redis state they count.            *)

NoCall == [owner |-> NoInstance, kind |-> "none", pc |-> "done", seen |-> FALSE]

\* A call before its first count; `seen` is numJobsInQueue > 0.
NewCall(i, kind) == [owner |-> i, kind |-> kind, pc |-> "waiting", seen |-> FALSE]

CallType ==
  [owner : Instance, kind : {"bootstrap", "handler"},
   pc : {"waiting", "delayed", "active", "add"}, seen : BOOLEAN]

JobsIn(places) == {j \in Job : state[j] \in places}

\* Active jobs whose worker is gone, so that nothing renews their lock.
Orphans == {j \in JobsIn({"active"}) : \A i \in Instance : worker[i] # j}

Up == {i \in Instance : phase[i] # "down"}

-----------------------------------------------------------------------------
(* Bootstrap of an instance.                                               *)

Init ==
  /\ phase = [i \in Instance |-> "down"]
  /\ state = [j \in Job |-> "absent"]
  /\ stalls = [j \in Job |-> 0]
  /\ worker = [i \in Instance |-> NoJob]
  /\ processed = [i \in Instance |-> FALSE]
  /\ call = [c \in Call |-> NoCall]
  /\ adding = [i \in Instance |-> 0]
  /\ seeded = FALSE /\ lost = FALSE /\ origins = 0 /\ downs = 0

\* The process starts: its workers register before any bootstrap hook runs.
Boot(i) ==
  /\ phase[i] = "down"
  /\ phase' = [phase EXCEPT ![i] = "starting"]
  /\ UNCHANGED <<queueVars, workerVars, call, adding, history>>

StartCall(i, kind) ==
  \E c \in Call :
    /\ call[c] = NoCall
    /\ call' = [call EXCEPT ![c] = NewCall(i, kind)]

\* What the hook does once the obliterate calls still `due` are counted:
\* the next obliterate, or queueCheckBalances({ delayJob: 0 }).
GoOn(i, due) ==
  \/ /\ due # {}
     /\ phase' = [phase EXCEPT ![i] = IF "notLive" \in due THEN "notLive" ELSE "doClean"]
     /\ UNCHANGED call
  \/ /\ due = {}
     /\ phase' = [phase EXCEPT ![i] = "leading"]
     /\ StartCall(i, "bootstrap")

AskedCleanups ==
  (IF IsLive THEN {} ELSE {"notLive"}) \cup (IF DoClean THEN {"doClean"} ELSE {})

\* onApplicationBootstrap up to its first await; `one` is isTheOne().
BootstrapTasks(i, one) ==
  /\ phase[i] = "starting"
  /\ \/ one /\ GoOn(i, AskedCleanups)
     \/ /\ ~one
        /\ phase' = [phase EXCEPT ![i] = "standby"]
        /\ UNCHANGED call
  /\ UNCHANGED <<queueVars, workerVars, adding, history>>

\* Mutant of Obliterated: without force, active jobs are left in Redis.
ObliteratedIdleOnly(j) == IF state[j] = "active" THEN "active" ELSE "absent"

\* obliterate({ force: true }) removes every job, the active ones too.
Obliterated(j) == "absent"

Obliterate(i) ==
  /\ phase[i] \in {"notLive", "doClean"}
  /\ state' = [j \in Job |-> Obliterated(j)]
  /\ seeded' = FALSE
  /\ GoOn(i, IF phase[i] = "notLive" THEN AskedCleanups \ {"notLive"} ELSE {})
  /\ UNCHANGED <<stalls, workerVars, adding, lost, origins, downs>>

-----------------------------------------------------------------------------
(* queueCheckBalances, one Redis call a step.                              *)

\* Mutant of SkipActiveCheck: the handler counts its own active job.
NeverSkipActiveCheck(kind) == FALSE

\* Only the handler passes skipActiveCheck: true.
SkipActiveCheck(kind) == kind = "handler"

\* A bootstrap adds with delay 0, the handler with recheckDelay.
AddedTo(kind) == IF kind = "bootstrap" THEN "waiting" ELSE "delayed"

\* After the last count: give up if any job was found, else go on to add.
Decide(r, seen) == IF seen THEN NoCall ELSE [r EXCEPT !.pc = "add"]

CountWaiting(c) ==
  /\ call[c].pc = "waiting"
  /\ call' = [call EXCEPT ![c].pc = "delayed",
                          ![c].seen = JobsIn({"waiting"}) # {}]
  /\ UNCHANGED <<phase, queueVars, workerVars, adding, history>>

CountDelayed(c) ==
  /\ call[c].pc = "delayed"
  /\ LET seen == call[c].seen \/ JobsIn({"delayed"}) # {}
     IN call' = [call EXCEPT ![c] =
          IF SkipActiveCheck(@.kind)
          THEN Decide(@, seen)
          ELSE [@ EXCEPT !.pc = "active", !.seen = seen]]
  /\ UNCHANGED <<phase, queueVars, workerVars, adding, history>>

CountActive(c) ==
  /\ call[c].pc = "active"
  /\ call' = [call EXCEPT ![c] =
       Decide(@, @.seen \/ JobsIn({"active"}) # {})]
  /\ UNCHANGED <<phase, queueVars, workerVars, adding, history>>

Add(c) ==
  /\ call[c].pc = "add"
  /\ \E j \in Job :
       /\ state[j] = "absent" /\ \A i \in Instance : worker[i] # j   \* a new id
       /\ state' = [state EXCEPT ![j] = AddedTo(call[c].kind)]
       /\ stalls' = [stalls EXCEPT ![j] = 0]
  /\ call' = [call EXCEPT ![c] = NoCall]
  /\ seeded' = TRUE
  /\ origins' = IF call[c].kind = "bootstrap" THEN origins + 1 ELSE origins
  /\ UNCHANGED <<phase, workerVars, adding, lost, downs>>

-----------------------------------------------------------------------------
(* The worker: BullMQ's side and the handler of check-balances.            *)

\* BullMQ: a delayed job has become due.
Promote(j) ==
  /\ Up # {} /\ state[j] = "delayed"
  /\ state' = [state EXCEPT ![j] = "waiting"]
  /\ UNCHANGED <<phase, stalls, workerVars, call, adding, history>>

\* BullMQ: an idle worker (concurrency 1) takes a waiting job and locks it.
Fetch(i) ==
  /\ phase[i] # "down" /\ worker[i] = NoJob
  /\ \E j \in JobsIn({"waiting"}) :
       /\ state' = [state EXCEPT ![j] = "active"]
       /\ worker' = [worker EXCEPT ![i] = j]
  /\ processed' = [processed EXCEPT ![i] = FALSE]
  /\ UNCHANGED <<phase, stalls, call, adding, history>>

\* Mutant of Process: the re-queue is left in process() when it is moved to the
\* worker's "completed" event as well, so two re-queues race with each other.
ProcessTwice(i) ==
  /\ worker[i] # NoJob /\ ~processed[i] /\ adding[i] < MaxFlows
  /\ processed' = [processed EXCEPT ![i] = TRUE]
  /\ adding' = [adding EXCEPT ![i] = @ + 1]
  /\ \E c, d \in Call :
       /\ c # d /\ call[c] = NoCall /\ call[d] = NoCall
       /\ call' = [call EXCEPT ![c] = NewCall(i, "handler"), ![d] = NewCall(i, "handler")]
  /\ UNCHANGED <<phase, queueVars, worker, history>>

\* process(): both calls are made, neither is awaited.
Process(i) ==
  /\ worker[i] # NoJob /\ ~processed[i] /\ adding[i] < MaxFlows
  /\ processed' = [processed EXCEPT ![i] = TRUE]
  /\ adding' = [adding EXCEPT ![i] = @ + 1]
  /\ StartCall(i, "handler")
  /\ UNCHANGED <<phase, queueVars, worker, history>>

\* Redis has stored the flow of CHECK_BALANCES_FLOW.
AddFlow(i) ==
  /\ adding[i] > 0
  /\ adding' = [adding EXCEPT ![i] = @ - 1]
  /\ UNCHANGED <<phase, queueVars, workerVars, call, history>>

\* BullMQ: the job completes, is removed, and the worker is idle again.  A
\* job that was obliterated meanwhile is only reported as an error.
Finish(i) ==
  /\ worker[i] # NoJob /\ processed[i]
  /\ state' = IF state[worker[i]] = "active"
              THEN [state EXCEPT ![worker[i]] = "absent"] ELSE state
  /\ worker' = [worker EXCEPT ![i] = NoJob]
  /\ UNCHANGED <<phase, stalls, processed, call, adding, history>>

\* Mutant of MayRetry: stalled jobs are retried for ever.
AlwaysRetry(j) == TRUE

\* BullMQ: maxStalledCount = 1, a job that stalls once more fails.
MayRetry(j) == stalls[j] < 1

\* BullMQ: the lock of an orphan expires and a live worker notices.
Stall(j) ==
  /\ Up # {} /\ j \in Orphans
  /\ \/ /\ MayRetry(j)
        /\ state' = [state EXCEPT ![j] = "waiting"]
        /\ stalls' = [stalls EXCEPT ![j] = @ + 1]
        /\ origins' = origins + 1
        /\ UNCHANGED lost
     \/ /\ ~MayRetry(j)
        /\ state' = [state EXCEPT ![j] = "failed"]
        /\ lost' = TRUE
        /\ UNCHANGED <<stalls, origins>>
  /\ UNCHANGED <<phase, workerVars, call, adding, seeded, downs>>

-----------------------------------------------------------------------------
(* An instance goes down, and its memory with it.                          *)

\* Redis still has the job of this instance's worker, and would retry it.
JobKept(i) == worker[i] # NoJob /\ state[worker[i]] = "active"

\* Only this instance carries the loop on: the job is gone from Redis, and
\* its next one not added yet.
HoldsTheLoop(i) ==
  /\ ~JobKept(i)
  /\ \/ \E c \in Call :
          call[c].owner = i /\ call[c].kind = "handler" /\ ~call[c].seen
     \/ worker[i] # NoJob /\ ~processed[i]

GoDown(i) ==
  /\ downs < MaxDowns
  /\ phase' = [phase EXCEPT ![i] = "down"]
  /\ call' = [c \in Call |-> IF call[c].owner = i THEN NoCall ELSE call[c]]
  /\ adding' = [adding EXCEPT ![i] = 0]
  /\ worker' = [worker EXCEPT ![i] = NoJob]
  /\ lost' = (lost \/ HoldsTheLoop(i))
  /\ downs' = downs + 1
  /\ UNCHANGED <<queueVars, processed, seeded, origins>>

\* Killed, or ended by a rejection that nobody handles.
Crash(i) ==
  /\ phase[i] # "down"
  /\ GoDown(i)

\* SIGTERM with shutdown hooks: the worker is closed, so process() has
\* returned, but the calls it left behind are not waited for.
Shutdown(i) ==
  /\ phase[i] \in {"leading", "standby"}
  /\ worker[i] = NoJob
  /\ GoDown(i)

-----------------------------------------------------------------------------
CallStep(c) == CountWaiting(c) \/ CountDelayed(c) \/ CountActive(c) \/ Add(c)

WorkerStep(i) == Fetch(i) \/ Process(i) \/ AddFlow(i) \/ Finish(i)

Next ==
  \/ \E i \in Instance :
       \/ Boot(i)
       \/ \E one \in BOOLEAN : BootstrapTasks(i, one)
       \/ Obliterate(i)
       \/ Fetch(i) \/ Process(i) \/ AddFlow(i) \/ Finish(i)
       \/ Crash(i) \/ Shutdown(i)
  \/ \E c \in Call :
       CountWaiting(c) \/ CountDelayed(c) \/ CountActive(c) \/ Add(c)
  \/ \E j \in Job : Promote(j) \/ Stall(j)

Spec == Init /\ [][Next]_vars

\* Everything but starting and stopping instances is scheduled by the event
\* loop, by Redis or by a timer that keeps running.
Fairness ==
  /\ \A c \in Call : WF_vars(CallStep(c))
  /\ \A i \in Instance :
       /\ WF_vars(Fetch(i)) /\ WF_vars(Process(i))
       /\ WF_vars(AddFlow(i)) /\ WF_vars(Finish(i))
       /\ WF_vars(\E one \in BOOLEAN : BootstrapTasks(i, one))
       /\ WF_vars(Obliterate(i))
  /\ \A j \in Job : WF_vars(Promote(j)) /\ WF_vars(Stall(j))

FairSpec == Spec /\ Fairness

-----------------------------------------------------------------------------
(* Properties.                                                             *)

\* Every variable keeps its type; in particular BullMQ takes a job back at
\* most once before it fails it.
TypeOK ==
  /\ phase \in [Instance -> {"down", "starting", "notLive", "doClean",
                            "leading", "standby"}]
  /\ state \in [Job -> {"absent", "waiting", "delayed", "active", "failed"}]
  /\ stalls \in [Job -> 0..1]
  /\ worker \in [Instance -> Job \cup {NoJob}]
  /\ processed \in [Instance -> BOOLEAN]
  /\ call \in [Call -> CallType \cup {NoCall}]
  /\ adding \in [Instance -> 0..MaxFlows]
  /\ seeded \in BOOLEAN /\ lost \in BOOLEAN
  /\ origins \in Nat /\ downs \in 0..MaxDowns

\* A chain of the loop is carried by a job still to run or by a handler's
\* re-queue that has found no job.
FetchedUnrun == {i \in Instance : worker[i] # NoJob /\ ~processed[i]}
OpenRequeues == {c \in Call : call[c].kind = "handler" /\ ~call[c].seen}

Chains ==
  Cardinality(JobsIn({"waiting", "delayed"})) + Cardinality(FetchedUnrun)
    + Cardinality(OpenRequeues)

Alive ==
  \/ JobsIn({"waiting", "delayed"}) # {}
  \/ Orphans # {}
  \/ FetchedUnrun # {}
  \/ OpenRequeues # {}

\* Once seeded, the loop can only die in one way: an instance goes down
\* after its worker completed a check-balances job and before the re-queue
\* that the handler did not await has added the next (tasks-queue.ts), or
\* the same job loses its worker twice.  No interleaving of counts and adds
\* kills it: two re-queues never both stand down for each other.
LoopDiesOnlyInWindow == seeded /\ ~Alive => lost

\* Every chain goes back to a bootstrap add or to a job BullMQ retried: the
\* handler's count-then-add, racy as it is, never makes two chains of one.
ChainsHaveOrigins == Chains <= origins

\* An instance that bootstrapped as the one, cleanups included, leaves a
\* running loop behind, whatever jobs and re-queues of other instances its
\* obliterate and its counts fell between.
BootstrapDone ==
  /\ \E i \in Instance : phase[i] = "leading"
  /\ \A i \in Instance : phase[i] \notin {"notLive", "doClean"}
  /\ \A c \in Call : call[c].kind # "bootstrap"

LeaderLeavesLoopRunning == BootstrapDone /\ downs = 0 => Alive

\* Through cleanups, crashes and retries the loop is an implementation of
\* RecheckChain: only a bootstrap or a job that BullMQ takes back makes a
\* chain, once each, chains fold, and the last one ends only when an instance
\* cleans the queue or goes down.
Chain == INSTANCE RecheckChain WITH
  chains <- Chains,
  orphans <- Cardinality(Orphans),
  cleaners <- Cardinality({i \in Instance : phase[i] \in {"notLive", "doClean"}}),
  seeders <- Cardinality({c \in Call : call[c].kind = "bootstrap"})

RefinesRecheckChain == Chain!Spec
=============================================================================
