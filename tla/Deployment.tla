----------------------------- MODULE Deployment -----------------------------
(***************************************************************************)
(* The deployed service: instances that elect a leader (ClusterElection)   *)
(* and run the check loop (CheckLoop).  The two meet in two places.  Nest  *)
(* awaits the bootstrap hook of the cluster service before it calls that   *)
(* of the tasks service (app.module.ts, and TasksModule imports            *)
(* ClusterModule), and the latter reads isTheOne() once; and a process     *)
(* starts, stops and crashes as a whole.  In particular nothing tells the  *)
(* tasks service of an election that is won later.                         *)
(***************************************************************************)
EXTENDS Naturals, FiniteSets

CONSTANTS
  Instance, Session, NoSession, Undefined, Clustered, LocalLeader,
  MaxAsks, MaxErrors, MaxLapses,                    \* see ClusterElection
  Job, Call, NoInstance, NoJob, IsLive, DoClean, MaxFlows, MaxDowns
                                                    \* see CheckLoop

\* What the components ask of their constants; and only a live instance looks
\* for Consul (ClusterService, constructor).
ASSUME DeploymentConstants ==
  /\ NoSession \notin Session /\ Undefined \notin BOOLEAN
  /\ IsFiniteSet(Instance) /\ IsFiniteSet(Job) /\ IsFiniteSet(Call)
  /\ NoInstance \notin Instance /\ NoJob \notin Job
  /\ LocalLeader \subseteq Instance
  /\ {Clustered, IsLive, DoClean} \subseteq BOOLEAN /\ (Clustered => IsLive)
  /\ {MaxAsks, MaxErrors, MaxLapses, MaxFlows, MaxDowns} \subseteq Nat

VARIABLES
  hook, isLeader, sessionId, watching, asks, answers,
  session, holder, lockDelay, news, errors, lapses, turnedAway,
  phase, state, stalls, worker, processed, call, adding,
  seeded, lost, origins, downs

E == INSTANCE ClusterElection
L == INSTANCE CheckLoop

electionVars ==
  <<hook, isLeader, sessionId, watching, asks, answers,
    session, holder, lockDelay, news, errors, lapses, turnedAway>>
loopVars ==
  <<phase, state, stalls, worker, processed, call, adding,
    seeded, lost, origins, downs>>
vars == <<electionVars, loopVars>>

Init == E!Init /\ L!Init

-----------------------------------------------------------------------------
Boot(i) == E!Boot(i) /\ L!Boot(i)

\* The cluster service alone: its hook, its requests, its watch; and Consul.
ElectionStep ==
  /\ \/ \E i \in Instance :
          \/ E!StartHook(i) \/ E!CreateSession(i) \/ E!CreateSessionFails(i)
          \/ E!ConsulAcquire(i) \/ E!RefuseDeadSession(i) \/ E!LoseRequest(i)
          \/ \E a \in E!Answer : E!Deliver(i, a)
          \/ E!WatchChange(i) \/ E!OtherKeyWritten(i)
     \/ \E s \in Session : E!Expire(s)
     \/ E!LockDelayOver
  /\ UNCHANGED loopVars

\* Mutant of HooksInOrder: the hooks of the two services are not ordered.
HooksAtOnce(i) == hook[i] # "down"

\* The cluster service's hook has returned.
HooksInOrder(i) == hook[i] = "done"

BootstrapTasks(i) ==
  /\ HooksInOrder(i)
  /\ L!BootstrapTasks(i, E!IsTheOne(i))
  /\ UNCHANGED electionVars

\* A worker that is being closed takes no job.
Fetch(i) == hook[i] # "stopping" /\ L!Fetch(i)

\* The tasks service and the workers alone, and Redis.
LoopStep ==
  /\ \/ \E i \in Instance :
          \/ L!Obliterate(i)
          \/ Fetch(i) \/ L!Process(i) \/ L!AddFlow(i) \/ L!Finish(i)
     \/ \E c \in Call :
          L!CountWaiting(c) \/ L!CountDelayed(c) \/ L!CountActive(c) \/ L!Add(c)
     \/ \E j \in Job : L!Promote(j) \/ L!Stall(j)
  /\ UNCHANGED electionVars

\* The bound leaves room for i to go down after those that are stopping.
MayGoDown(i) ==
  downs + Cardinality({k \in Instance \ {i} : hook[k] = "stopping"}) < MaxDowns

\* SIGTERM: beforeApplicationShutdown destroys the session, then BullMQ's
\* onApplicationShutdown closes the worker, then the process exits.
Stop(i) ==
  /\ phase[i] \in {"leading", "standby"} /\ MayGoDown(i)
  /\ E!Stop(i)
  /\ UNCHANGED loopVars

Exit(i) == E!Exit(i) /\ L!Shutdown(i)

\* The process ends before BullMQ closes the worker: it crashes, or the
\* session.destroy of its shutdown fails.
Crash(i) == MayGoDown(i) /\ (E!Crash(i) \/ E!StopFails(i)) /\ L!Crash(i)

Next ==
  \/ \E i \in Instance :
       Boot(i) \/ BootstrapTasks(i) \/ Stop(i) \/ Exit(i) \/ Crash(i)
  \/ ElectionStep
  \/ LoopStep

Spec == Init /\ [][Next]_vars

\* The fairness of the components, and Nomad, which keeps the instances of
\* the job running (count = 2).
Fairness ==
  /\ \A i \in Instance :
       /\ WF_vars(Boot(i)) /\ WF_vars(BootstrapTasks(i)) /\ WF_vars(Exit(i))
       /\ WF_vars(E!StartHook(i) /\ UNCHANGED loopVars)
       /\ WF_vars(E!CreateSession(i) /\ UNCHANGED loopVars)
       /\ WF_vars(E!ConsulAcquire(i) /\ UNCHANGED loopVars)
       /\ WF_vars(E!RefuseDeadSession(i) /\ UNCHANGED loopVars)
       /\ WF_vars((\E a \in E!Answer : E!Deliver(i, a)) /\ UNCHANGED loopVars)
       /\ WF_vars(E!WatchChange(i) /\ UNCHANGED loopVars)
       /\ WF_vars(L!Obliterate(i) /\ UNCHANGED electionVars)
       /\ WF_vars(Fetch(i) /\ UNCHANGED electionVars)
       /\ WF_vars(L!Process(i) /\ UNCHANGED electionVars)
       /\ WF_vars(L!AddFlow(i) /\ UNCHANGED electionVars)
       /\ WF_vars(L!Finish(i) /\ UNCHANGED electionVars)
  /\ \A s \in Session : WF_vars(~E!Owned(s) /\ E!Expire(s) /\ UNCHANGED loopVars)
  /\ WF_vars(E!LockDelayOver /\ UNCHANGED loopVars)
  /\ \A c \in Call : WF_vars(L!CallStep(c) /\ UNCHANGED electionVars)
  /\ \A j \in Job : /\ WF_vars(L!Promote(j) /\ UNCHANGED electionVars)
                    /\ WF_vars(L!Stall(j) /\ UNCHANGED electionVars)

FairSpec == Spec /\ Fairness

-----------------------------------------------------------------------------
(* Properties.                                                             *)

\* At any time at most one instance with a live session is cleaning up or
\* seeding the tasks queue: however slow its hooks were, only an instance
\* that lost its session since can be at it together with another.
Seeding(i) ==
  \/ phase[i] \in {"notLive", "doClean"}
  \/ \E c \in Call : call[c].owner = i /\ call[c].kind = "bootstrap"

OneSeederWithLock ==
  Clustered => \A i, j \in Instance :
    Seeding(i) /\ E!Live(i) /\ Seeding(j) /\ E!Live(j) => i = j

\* A service that has started runs: once the tasks service of every local
\* leader has bootstrapped, somebody was the one and its loop is there, in
\* whatever order hooks, requests, answers, cleanups and counts crossed,
\* unless a request failed, an instance went down, or as many sessions lapsed
\* as there are local leaders.
Started ==
  /\ \A i \in LocalLeader : phase[i] \in {"leading", "standby"}
  /\ \A c \in Call : call[c].kind # "bootstrap"

Undisturbed ==
  /\ errors = 0 /\ downs = 0 /\ \A i \in Instance : hook[i] # "stopping"
  /\ lapses < Cardinality(LocalLeader)

StartedServiceRuns == Started /\ Undisturbed => L!Alive

\* "So the service runs continuously" (README, How it works): balance-checks
\* flows are added again and again.
RunsContinuously == []<><<\E i \in Instance : L!AddFlow(i)>>_vars

\* What the code does keep of it: when an instance crashes or shuts down, a
\* seeded loop runs on, on the worker of the other instance and on that of the
\* process that starts again, whether or not anybody leads then, unless the
\* instance went down in the one window of LoopDiesOnlyInWindow.
RunsUnlessLost == <>seeded => RunsContinuously \/ <>lost
=============================================================================
