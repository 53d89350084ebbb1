-------------------------- MODULE DeploymentProofs --------------------------
(***************************************************************************)
(* TLAPS proofs about Deployment: every step of the deployed service is a  *)
(* step or a stutter of each of its components, so that what is proved of  *)
(* ClusterElection and of CheckLoop holds of the deployment, the           *)
(* refinement of RecheckChain included.  Of the two together:              *)
(* OneSeederWithLock, StartedServiceRuns, and that nothing seeds the loop  *)
(* where no instance is a local leader.                                    *)
(***************************************************************************)
EXTENDS Deployment, TLAPS

\* The election together with what is proved of it.
EP == INSTANCE ClusterElectionProofs

\* And the check loop with what is proved of it.
LP == INSTANCE RecheckChainProofs

-----------------------------------------------------------------------------
(* Each component is implemented.                                          *)

LEMMA ElectionSteps ==
  ASSUME [Next]_vars PROVE [E!Next]_(E!vars)
<1>1. CASE UNCHANGED electionVars
  BY <1>1 DEF electionVars, E!vars, E!instanceVars, E!consulVars
<1>2. ASSUME NEW i \in Instance, Boot(i) \/ Stop(i) \/ Exit(i) \/ Crash(i)
      PROVE  E!Next
  BY <1>2 DEF Boot, Stop, Exit, Crash, E!Next
<1>3. ASSUME NEW i \in Instance, BootstrapTasks(i) PROVE UNCHANGED electionVars
  BY <1>3 DEF BootstrapTasks
<1>4. CASE ElectionStep
  BY <1>4 DEF ElectionStep, E!Next
<1>5. LoopStep \/ UNCHANGED vars => UNCHANGED electionVars
  BY DEF LoopStep, vars
<1> QED
  BY <1>1, <1>2, <1>3, <1>4, <1>5 DEF Next

LEMMA LoopSteps ==
  ASSUME [Next]_vars PROVE [L!Next]_(L!vars)
<1>1. CASE UNCHANGED loopVars
  BY <1>1 DEF loopVars, L!vars, L!queueVars, L!workerVars, L!history
<1>2. ASSUME NEW i \in Instance, Boot(i) \/ Exit(i) \/ Crash(i) PROVE L!Next
  BY <1>2 DEF Boot, Exit, Crash, L!Next
<1>3. ASSUME NEW i \in Instance, BootstrapTasks(i) PROVE L!Next
  <2>1. E!IsTheOne(i) \in BOOLEAN
    BY DEF E!IsTheOne
  <2> QED
    BY <1>3, <2>1 DEF BootstrapTasks, L!Next
<1>4. ASSUME NEW i \in Instance, Stop(i) PROVE UNCHANGED loopVars
  BY <1>4 DEF Stop
<1>5. CASE LoopStep
  BY <1>5 DEF LoopStep, Fetch, L!Next
<1>6. ElectionStep \/ UNCHANGED vars => UNCHANGED loopVars
  BY DEF ElectionStep, vars
<1> QED
  BY <1>1, <1>2, <1>3, <1>4, <1>5, <1>6 DEF Next

\* Seen from the cluster service and Consul alone, the deployed service is the
\* election: no step of the check loop adds a behaviour to it.
THEOREM ImplementsElection == Spec => E!Spec
<1>1. Init => E!Init
  BY DEF Init
<1> QED
  BY <1>1, ElectionSteps, PTL DEF Spec, E!Spec

\* Seen from the tasks queue alone it is the check loop: the election only
\* decides which instance is the one.
THEOREM ImplementsLoop == Spec => L!Spec
<1>1. Init => L!Init
  BY DEF Init
<1> QED
  BY <1>1, LoopSteps, PTL DEF Spec, L!Spec

-----------------------------------------------------------------------------
(* What is proved of the election holds here.  EP repeats the definitions  *)
(* of E, and its theorems are about its own.                               *)

LEMMA SameElectionInit == E!Init => EP!Init
  BY DEF E!Init, EP!Init, E!InitialBelief, EP!InitialBelief, E!NoAnswers,
     EP!NoAnswers, E!Answer, EP!Answer

LEMMA SameHook ==
  ASSUME NEW i \in Instance
  PROVE  /\ E!Boot(i) => EP!Boot(i)
         /\ E!StartHook(i) => EP!StartHook(i)
         /\ E!CreateSession(i) => EP!CreateSession(i)
         /\ E!CreateSessionFails(i) => EP!CreateSessionFails(i)
<1> USE DEF E!consulVars, EP!consulVars
<1>1. E!Boot(i) => EP!Boot(i)
  BY DEF E!Boot, EP!Boot
<1>2. E!StartHook(i) => EP!StartHook(i)
  BY DEF E!StartHook, EP!StartHook
<1>3. E!CreateSession(i) => EP!CreateSession(i)
  BY DEF E!CreateSession, EP!CreateSession, E!NewSession, EP!NewSession
<1>4. E!CreateSessionFails(i) => EP!CreateSessionFails(i)
  BY DEF E!CreateSessionFails, EP!CreateSessionFails
<1> QED
  BY <1>1, <1>2, <1>3, <1>4

LEMMA SameRequests ==
  ASSUME NEW i \in Instance
  PROVE  /\ E!ConsulAcquire(i) => EP!ConsulAcquire(i)
         /\ E!RefuseDeadSession(i) => EP!RefuseDeadSession(i)
         /\ E!LoseRequest(i) => EP!LoseRequest(i)
         /\ \A a \in E!Answer : E!Deliver(i, a) => a \in EP!Answer /\ EP!Deliver(i, a)
         /\ E!WatchChange(i) => EP!WatchChange(i)
         /\ E!OtherKeyWritten(i) => EP!OtherKeyWritten(i)
<1>1. E!ConsulAcquire(i) => EP!ConsulAcquire(i)
  BY DEF E!ConsulAcquire, EP!ConsulAcquire, E!Live, EP!Live, E!Free, EP!Free,
     E!TellWatches, EP!TellWatches, E!InVain, EP!InVain
<1>2. E!AfterAcquireLock(i) => EP!AfterAcquireLock(i)
  BY DEF E!AfterAcquireLock, EP!AfterAcquireLock
<1>3. E!RefuseDeadSession(i) => EP!RefuseDeadSession(i)
  BY <1>2 DEF E!RefuseDeadSession, EP!RefuseDeadSession, E!Live, EP!Live
<1>4. E!LoseRequest(i) => EP!LoseRequest(i)
  BY <1>2 DEF E!LoseRequest, EP!LoseRequest, E!Answer, EP!Answer, E!InVain,
     EP!InVain, E!Free, EP!Free
<1>5. \A a \in E!Answer : E!Deliver(i, a) => a \in EP!Answer /\ EP!Deliver(i, a)
  BY <1>2 DEF E!Deliver, EP!Deliver, E!Belief, EP!Belief, E!Answer, EP!Answer
<1>6. E!WatchChange(i) => EP!WatchChange(i)
  BY DEF E!WatchChange, EP!WatchChange, E!UnderWay, EP!UnderWay, E!AsksAgain,
     EP!AsksAgain, E!Free, EP!Free
<1>7. E!OtherKeyWritten(i) => EP!OtherKeyWritten(i)
  BY DEF E!OtherKeyWritten, EP!OtherKeyWritten, E!Free, EP!Free,
     E!instanceVars, EP!instanceVars
<1> QED
  BY <1>1, <1>3, <1>4, <1>5, <1>6, <1>7

LEMMA SameEnds ==
  /\ \A i \in Instance : /\ E!Stop(i) => EP!Stop(i)
                         /\ E!StopFails(i) => EP!StopFails(i)
                         /\ E!Exit(i) => EP!Exit(i)
                         /\ E!Crash(i) => EP!Crash(i)
  /\ \A s \in Session : E!Expire(s) => EP!Expire(s)
  /\ E!LockDelayOver => EP!LockDelayOver
<1> USE DEF E!instanceVars, EP!instanceVars
<1>1. \A s : E!EndSession(s) => EP!EndSession(s)
  BY DEF E!EndSession, EP!EndSession, E!TellWatches, EP!TellWatches
<1>2. ASSUME NEW i \in Instance, E!Stop(i) PROVE EP!Stop(i)
  BY <1>1, <1>2 DEF E!Stop, EP!Stop, E!DestroysSession, EP!DestroysSession
<1>3. ASSUME NEW i \in Instance, E!GoDown(i) PROVE EP!GoDown(i)
  BY <1>3 DEF E!GoDown, EP!GoDown, E!InitialBelief, EP!InitialBelief, E!NoAnswers,
     EP!NoAnswers, E!Answer, EP!Answer
<1>4. ASSUME NEW s \in Session, E!Expire(s) PROVE EP!Expire(s)
  BY <1>1, <1>4 DEF E!Expire, EP!Expire, E!Owned, EP!Owned
<1>5. E!LockDelayOver => EP!LockDelayOver
  BY DEF E!LockDelayOver, EP!LockDelayOver
<1> QED
  BY <1>2, <1>3, <1>4, <1>5
     DEF E!StopFails, EP!StopFails, E!DestroysSession, EP!DestroysSession,
         E!Exit, EP!Exit, E!Crash, EP!Crash

LEMMA SameElection == [E!Next]_(E!vars) => [EP!Next]_(EP!vars)
<1>1. E!Next => EP!Next
  BY SameHook, SameRequests, SameEnds DEF E!Next, EP!Next
<1>2. UNCHANGED E!vars => UNCHANGED EP!vars
  BY DEF E!vars, EP!vars, E!instanceVars, EP!instanceVars, E!consulVars, EP!consulVars
<1> QED
  BY <1>1, <1>2

\* The election's inductive invariant is one of the deployment.
LEMMA ElectionInvariant == Spec => []EP!IInv
<1>1. EP!ElectionConstants
  BY DeploymentConstants DEF EP!ElectionConstants
<1>2. Init => EP!IInv
  BY <1>1, SameElectionInit, EP!IInvInit DEF Init, EP!IInvInit
<1>3. EP!IInv /\ [Next]_vars => EP!IInv'
  BY <1>1, ElectionSteps, SameElection, EP!IInvInductive DEF EP!IInvInductive
<1> QED
  BY <1>2, <1>3, PTL DEF Spec
-----------------------------------------------------------------------------
(* One seeder.  Whoever seeds was the leader when its bootstrap hook read  *)
(* isTheOne(), so it held the lock then, and no step takes the lock from   *)
(* an instance and leaves its session alive.  That it still believes to    *)
(* lead is not needed, and not true: a later answer may tell it otherwise. *)

LoopType ==
  /\ phase \in [Instance -> {"down", "starting", "notLive", "doClean",
                            "leading", "standby"}]
  /\ call \in [Call -> L!CallType \cup {L!NoCall}]

LockKept(i) == E!Live(i) => holder = sessionId[i]

SeedersAreUp == \A i \in Instance : Seeding(i) => hook[i] \in {"done", "stopping"}

SeedersHoldLock ==
  Clustered => \A i \in Instance : Seeding(i) => LockKept(i)

SeedInv == LoopType /\ SeedersAreUp /\ SeedersHoldLock

\* No step of the election takes the lock from an instance whose hook has
\* returned, unless its session ends or the process goes down.
LEMMA LockStays ==
  ASSUME EP!TypeOK, [E!Next]_(E!vars), NEW i \in Instance,
         hook[i] \in {"done", "stopping"}, hook'[i] # "down"
  PROVE  /\ hook'[i] \in {"done", "stopping"}
         /\ LockKept(i) => LockKept(i)'
<1> DEFINE Goal == /\ hook'[i] \in {"done", "stopping"}
                   /\ LockKept(i) => LockKept(i)'
<1> USE DeploymentConstants DEF LockKept, E!Live, EP!TypeOK
<1>0. ASSUME UNCHANGED <<sessionId, session, holder>>
      PROVE  LockKept(i) => LockKept(i)'
  BY <1>0
<1>1. ASSUME NEW k \in Instance, E!Boot(k) \/ E!StartHook(k) \/ E!CreateSessionFails(k)
      PROVE  Goal
  BY <1>0, <1>1 DEF E!Boot, E!StartHook, E!CreateSessionFails, E!consulVars
<1>2. ASSUME NEW k \in Instance, E!CreateSession(k) PROVE Goal
  <2>1. k # i /\ hook'[i] = hook[i] /\ sessionId'[i] = sessionId[i] /\ holder' = holder
    BY <1>2 DEF E!CreateSession
  <2>2. E!Live(i)' => E!Live(i)
    BY <1>2, <2>1 DEF E!CreateSession, E!NewSession
  <2> QED
    BY <2>1, <2>2
<1>3. ASSUME NEW k \in Instance, E!ConsulAcquire(k) PROVE Goal
  <2>1. LockKept(i) /\ E!Live(i) => holder' = sessionId[i]
    BY <1>3 DEF E!ConsulAcquire, E!Free
  <2> QED
    BY <1>3, <2>1 DEF E!ConsulAcquire
<1>4. ASSUME NEW k \in Instance, E!AfterAcquireLock(k) PROVE hook'[i] = hook[i]
  BY <1>4 DEF E!AfterAcquireLock
<1>5. ASSUME NEW k \in Instance, E!RefuseDeadSession(k) \/ E!LoseRequest(k) PROVE Goal
  BY <1>0, <1>4, <1>5 DEF E!RefuseDeadSession, E!LoseRequest
<1>6. ASSUME NEW k \in Instance, NEW a \in E!Answer, E!Deliver(k, a) PROVE Goal
  BY <1>0, <1>4, <1>6 DEF E!Deliver
<1>7. ASSUME NEW k \in Instance, E!WatchChange(k) \/ E!OtherKeyWritten(k) PROVE Goal
  BY <1>0, <1>7 DEF E!WatchChange, E!OtherKeyWritten, E!instanceVars
<1>8. ASSUME NEW s \in Session, E!EndSession(s), UNCHANGED sessionId
      PROVE  LockKept(i) => LockKept(i)'
  BY <1>8 DEF E!EndSession
<1>9. ASSUME NEW k \in Instance, E!Stop(k) PROVE Goal
  <2>1. CASE E!DestroysSession(k)
    <3>1. sessionId[k] \in Session
      BY <2>1 DEF E!DestroysSession
    <3> QED
      BY <1>8, <1>9, <2>1, <3>1 DEF E!Stop
  <2>2. CASE ~E!DestroysSession(k)
    BY <1>0, <1>9, <2>2 DEF E!Stop
  <2> QED
    BY <2>1, <2>2
<1>10. ASSUME NEW k \in Instance, E!GoDown(k) PROVE Goal
  BY <1>10 DEF E!GoDown
<1>11. ASSUME NEW s \in Session, E!Expire(s) PROVE Goal
  BY <1>8, <1>11 DEF E!Expire, E!instanceVars
<1>12. CASE E!LockDelayOver
  BY <1>0, <1>12 DEF E!LockDelayOver, E!instanceVars
<1>13. CASE UNCHANGED E!vars
  BY <1>0, <1>13 DEF E!vars, E!instanceVars, E!consulVars
<1> QED
  BY <1>1, <1>2, <1>3, <1>5, <1>6, <1>7, <1>9, <1>10, <1>11, <1>12, <1>13
     DEF E!Next, E!StopFails, E!Exit, E!Crash

\* A call that is started belongs to the instance that starts it.
LEMMA CallStarted ==
  ASSUME LoopType, NEW i \in Instance, NEW kind \in {"bootstrap", "handler"},
         L!StartCall(i, kind)
  PROVE  /\ call' \in [Call -> L!CallType \cup {L!NoCall}]
         /\ \A c \in Call : call'[c] = call[c] \/ call'[c] = L!NewCall(i, kind)
  BY DEF L!StartCall, LoopType, L!NewCall, L!CallType

\* Going on with the bootstrap makes nobody but the instance itself a seeder.
LEMMA GoesOn ==
  ASSUME LoopType, NEW i \in Instance, NEW due, L!GoOn(i, due)
  PROVE  LoopType' /\ \A k \in Instance \ {i} : Seeding(k)' => Seeding(k)
<1>1. CASE due # {} /\ UNCHANGED call
           /\ phase' = [phase EXCEPT ![i] = IF "notLive" \in due THEN "notLive" ELSE "doClean"]
  BY <1>1 DEF LoopType, Seeding
<1>2. CASE phase' = [phase EXCEPT ![i] = "leading"] /\ L!StartCall(i, "bootstrap")
  <2>1. /\ call' \in [Call -> L!CallType \cup {L!NoCall}]
        /\ \A c \in Call : call'[c] = call[c] \/ call'[c] = L!NewCall(i, "bootstrap")
    BY <1>2, CallStarted
  <2> QED
    BY <1>2, <2>1 DEF LoopType, Seeding, L!NewCall
<1> QED
  BY <1>1, <1>2 DEF L!GoOn

\* The steps of the loop but for the bootstrap of the one.
OtherLoopStep ==
  \/ \E i \in Instance :
       \/ L!Boot(i) \/ L!BootstrapTasks(i, FALSE) \/ L!Obliterate(i)
       \/ L!Fetch(i) \/ L!Process(i) \/ L!AddFlow(i) \/ L!Finish(i)
       \/ L!GoDown(i)
  \/ \E c \in Call :
       L!CountWaiting(c) \/ L!CountDelayed(c) \/ L!CountActive(c) \/ L!Add(c)
  \/ \E j \in Job : L!Promote(j) \/ L!Stall(j)
  \/ UNCHANGED loopVars

LEMMA StepIsOther ==
  ASSUME [Next]_vars
  PROVE  OtherLoopStep \/ \E i \in Instance : BootstrapTasks(i) /\ E!IsTheOne(i)
<1>1. ASSUME NEW i \in Instance, Boot(i) \/ Exit(i) \/ Crash(i) PROVE OtherLoopStep
  BY <1>1 DEF Boot, Exit, Crash, L!Shutdown, L!Crash, OtherLoopStep
<1>2. ASSUME NEW i \in Instance, BootstrapTasks(i), ~E!IsTheOne(i) PROVE OtherLoopStep
  <2>1. L!BootstrapTasks(i, FALSE)
    BY <1>2 DEF BootstrapTasks, L!BootstrapTasks
  <2> QED
    BY <2>1 DEF OtherLoopStep
<1>3. CASE LoopStep
  BY <1>3 DEF LoopStep, Fetch, OtherLoopStep
<1>4. (\E i \in Instance : Stop(i)) \/ ElectionStep \/ UNCHANGED vars => OtherLoopStep
  BY DEF Stop, ElectionStep, vars, OtherLoopStep
<1> QED
  BY <1>1, <1>2, <1>3, <1>4 DEF Next

\* Only the bootstrap hook makes an instance a seeder.
LEMMA SeedersStay ==
  ASSUME LoopType, OtherLoopStep
  PROVE  LoopType' /\ \A k \in Instance : Seeding(k)' => Seeding(k)
<1> DEFINE Goal == LoopType' /\ \A k \in Instance : Seeding(k)' => Seeding(k)
<1>1. ASSUME NEW i \in Instance, L!Boot(i) PROVE Goal
  BY <1>1 DEF L!Boot, LoopType, Seeding
<1>2. ASSUME NEW i \in Instance, L!BootstrapTasks(i, FALSE) PROVE Goal
  BY <1>2 DEF L!BootstrapTasks, LoopType, Seeding
<1>3. ASSUME NEW i \in Instance, L!Obliterate(i) PROVE Goal
  BY <1>3, GoesOn DEF L!Obliterate, Seeding
<1>4. ASSUME NEW i \in Instance, L!Fetch(i) \/ L!AddFlow(i) \/ L!Finish(i) PROVE Goal
  BY <1>4 DEF L!Fetch, L!AddFlow, L!Finish, LoopType, Seeding
<1>5. ASSUME NEW i \in Instance, L!Process(i) PROVE Goal
  <2>1. /\ call' \in [Call -> L!CallType \cup {L!NoCall}] /\ phase' = phase
        /\ \A c \in Call : call'[c] = call[c] \/ call'[c] = L!NewCall(i, "handler")
    BY <1>5, CallStarted DEF L!Process
  <2>2. L!NewCall(i, "handler").kind # "bootstrap"
    BY DEF L!NewCall
  <2> QED
    BY <2>1, <2>2 DEF LoopType, Seeding
<1>6. ASSUME NEW i \in Instance, L!GoDown(i) PROVE Goal
  BY <1>6, DeploymentConstants DEF L!GoDown, LoopType, Seeding, L!NoCall
<1>7. ASSUME NEW c \in Call,
             L!CountWaiting(c) \/ L!CountDelayed(c) \/ L!CountActive(c) \/ L!Add(c)
      PROVE  Goal
  <2>1. call[c] \in L!CallType
    BY <1>7 DEF L!CountWaiting, L!CountDelayed, L!CountActive, L!Add, LoopType, L!NoCall
  <2>2. PICK new \in {r \in L!CallType : r.owner = call[c].owner /\ r.kind = call[c].kind}
                     \cup {L!NoCall} :
          call' = [call EXCEPT ![c] = new]
    BY <1>7, <2>1 DEF L!CountWaiting, L!CountDelayed, L!CountActive, L!Add, LoopType,
       L!CallType, L!Decide, L!SkipActiveCheck, L!NoCall
  <2>3. phase' = phase
    BY <1>7 DEF L!CountWaiting, L!CountDelayed, L!CountActive, L!Add
  <2> QED
    BY <2>1, <2>2, <2>3 DEF LoopType, Seeding, L!CallType, L!NoCall
<1>8. ASSUME NEW j \in Job, L!Promote(j) \/ L!Stall(j) PROVE Goal
  BY <1>8 DEF L!Promote, L!Stall, LoopType, Seeding
<1>9. CASE UNCHANGED loopVars
  BY <1>9 DEF loopVars, LoopType, Seeding
<1> QED
  BY <1>1, <1>2, <1>3, <1>4, <1>5, <1>6, <1>7, <1>8, <1>9
     DEF OtherLoopStep

\* A process that goes down seeds no more.
LEMMA DownSeedsNot ==
  ASSUME LoopType, NEW i \in Instance, L!GoDown(i)
  PROVE  ~Seeding(i)'
  BY DeploymentConstants DEF L!GoDown, LoopType, Seeding, L!NoCall

\* A process that is up stays so unless it exits or crashes.
LEMMA StillUp ==
  ASSUME EP!TypeOK, [Next]_vars, NEW k \in Instance, hook[k] # "down",
         ~(Exit(k) \/ Crash(k))
  PROVE  hook'[k] # "down"
<1> USE DEF EP!TypeOK
<1>1. ASSUME NEW i \in Instance, Boot(i) \/ Stop(i) PROVE hook'[k] # "down"
  BY <1>1 DEF Boot, Stop, E!Boot, E!Stop
<1>2. ASSUME NEW i \in Instance, Exit(i) \/ Crash(i) PROVE hook'[k] # "down"
  BY <1>2 DEF Exit, Crash, E!StopFails, E!Exit, E!Crash, E!GoDown
<1>3. ASSUME NEW i \in Instance,
             \/ E!StartHook(i) \/ E!CreateSession(i) \/ E!CreateSessionFails(i)
             \/ E!ConsulAcquire(i) \/ E!RefuseDeadSession(i) \/ E!LoseRequest(i)
             \/ \E a \in E!Answer : E!Deliver(i, a)
             \/ E!WatchChange(i) \/ E!OtherKeyWritten(i)
      PROVE  hook'[k] # "down"
  BY <1>3 DEF E!StartHook, E!CreateSession, E!CreateSessionFails, E!ConsulAcquire,
     E!RefuseDeadSession, E!LoseRequest, E!Deliver, E!AfterAcquireLock, E!WatchChange,
     E!OtherKeyWritten, E!instanceVars
<1>4. (\E s \in Session : E!Expire(s)) \/ E!LockDelayOver => hook' = hook
  BY DEF E!Expire, E!LockDelayOver, E!instanceVars
<1>5. CASE ElectionStep
  BY <1>3, <1>4, <1>5 DEF ElectionStep
<1>6. (\E i \in Instance : BootstrapTasks(i)) \/ LoopStep \/ UNCHANGED vars => hook' = hook
  BY DEF BootstrapTasks, LoopStep, vars, electionVars
<1> QED
  BY <1>1, <1>2, <1>5, <1>6 DEF Next

LEMMA SeedStep ==
  ASSUME EP!IInv, SeedInv, [Next]_vars
  PROVE  SeedInv'
<1>1. LoopType /\ SeedersAreUp /\ SeedersHoldLock /\ EP!TypeOK
  BY DEF SeedInv, EP!IInv
<1>2. [E!Next]_(E!vars)
  BY ElectionSteps
<1>3. ASSUME NEW i \in Instance, BootstrapTasks(i), E!IsTheOne(i) PROVE SeedInv'
  <2>1. LoopType' /\ \A k \in Instance \ {i} : Seeding(k)' => Seeding(k)
    BY <1>1, <1>3, GoesOn DEF BootstrapTasks, L!BootstrapTasks
  <2>2. UNCHANGED electionVars /\ hook[i] = "done"
    BY <1>3 DEF BootstrapTasks, HooksInOrder
  <2>4. Clustered => LockKept(i)
    BY <1>3 DEF LockKept, E!IsTheOne, E!Live, EP!IInv, EP!BeliefBacked, EP!ToldLeader,
       EP!Live
  <2>5. \A k \in Instance : LockKept(k) => LockKept(k)'
    BY <2>2 DEF LockKept, electionVars, E!Live
  <2>6. hook' = hook
    BY <2>2 DEF electionVars
  <2> QED
    BY <1>1, <2>1, <2>2, <2>4, <2>5, <2>6 DEF SeedInv, SeedersAreUp, SeedersHoldLock
<1>4. CASE OtherLoopStep
  <2>1. LoopType' /\ \A k \in Instance : Seeding(k)' => Seeding(k)
    BY <1>1, <1>4, SeedersStay
  <2>2. ASSUME NEW k \in Instance, Seeding(k)' PROVE hook'[k] # "down"
    <3>1. hook[k] \in {"done", "stopping"}
      BY <1>1, <2>1, <2>2 DEF SeedersAreUp
    <3>2. CASE Exit(k) \/ Crash(k)
      BY <1>1, <2>2, <3>2, DownSeedsNot DEF Exit, Crash, L!Shutdown, L!Crash
    <3>3. CASE ~(Exit(k) \/ Crash(k))
      BY <1>1, <3>1, <3>3, StillUp
    <3> QED
      BY <3>2, <3>3
  <2>3. ASSUME NEW k \in Instance, Seeding(k)'
        PROVE  hook'[k] \in {"done", "stopping"} /\ (LockKept(k) => LockKept(k)')
    BY <1>1, <1>2, <2>1, <2>2, <2>3, LockStays DEF SeedersAreUp
  <2> QED
    BY <1>1, <2>1, <2>3 DEF SeedInv, SeedersAreUp, SeedersHoldLock
<1> QED
  BY <1>3, <1>4, StepIsOther

LEMMA SeedInit == Init => SeedInv
  BY DeploymentConstants DEF Init, L!Init, SeedInv, LoopType, SeedersAreUp,
     SeedersHoldLock, Seeding, L!NoCall

\* However slow the hooks and whatever the answers, at most one instance with
\* a live session cleans up or seeds, for any number of instances.
THEOREM OneSeeder == Spec => []OneSeederWithLock
<1>1. EP!IInv /\ SeedInv => OneSeederWithLock
  BY DEF SeedInv, SeedersHoldLock, LockKept, OneSeederWithLock, EP!IInv, EP!TypeOK, E!Live
<1> QED
  BY <1>1, ElectionInvariant, SeedInit, SeedStep, PTL DEF Spec

-----------------------------------------------------------------------------
(* What is proved of the check loop holds here as well.  LP repeats the    *)
(* definitions of L.                                                       *)

LEMMA SameFinite ==
  /\ \A S : IsFiniteSet(S) => EP!IsFiniteSet(S) /\ LP!IsFiniteSet(S)
  /\ \A S : Cardinality(S) = EP!Cardinality(S) /\ L!Cardinality(S) = LP!Cardinality(S)
<1>1. \A S : IsFiniteSet(S) => EP!IsFiniteSet(S) /\ LP!IsFiniteSet(S)
  BY DEF IsFiniteSet, EP!IsFiniteSet, LP!IsFiniteSet
<1>2. \A S : Cardinality(S) = EP!Cardinality(S)
  BY DEF Cardinality, EP!Cardinality, IsFiniteSet, EP!IsFiniteSet
<1>3. \A S : L!Cardinality(S) = LP!Cardinality(S)
  BY DEF L!Cardinality, LP!Cardinality, L!IsFiniteSet, LP!IsFiniteSet
<1> QED
  BY <1>1, <1>2, <1>3

LEMMA SameLoopInit == L!Init => LP!Init
  BY DEF L!Init, LP!Init, L!NoCall, LP!NoCall

LEMMA SameBootstrap ==
  ASSUME NEW i \in Instance
  PROVE  /\ L!Boot(i) => LP!Boot(i)
         /\ \A one \in BOOLEAN : L!BootstrapTasks(i, one) => LP!BootstrapTasks(i, one)
         /\ L!Obliterate(i) => LP!Obliterate(i)
         /\ L!Process(i) => LP!Process(i)
<1> USE DEF L!queueVars, LP!queueVars, L!workerVars, LP!workerVars, L!history, LP!history
<1>1. \A kind : L!StartCall(i, kind) => LP!StartCall(i, kind)
  BY DEF L!StartCall, LP!StartCall, L!NewCall, LP!NewCall, L!NoCall, LP!NoCall
<1>2. \A due : L!GoOn(i, due) => LP!GoOn(i, due)
  BY <1>1 DEF L!GoOn, LP!GoOn
<1>3. L!AskedCleanups = LP!AskedCleanups
  BY DEF L!AskedCleanups, LP!AskedCleanups
<1>4. L!Boot(i) => LP!Boot(i)
  BY DEF L!Boot, LP!Boot
<1>5. \A one \in BOOLEAN : L!BootstrapTasks(i, one) => LP!BootstrapTasks(i, one)
  BY <1>2, <1>3 DEF L!BootstrapTasks, LP!BootstrapTasks
<1>6. L!Obliterate(i) => LP!Obliterate(i)
  BY <1>2, <1>3 DEF L!Obliterate, LP!Obliterate, L!Obliterated, LP!Obliterated
<1>7. L!Process(i) => LP!Process(i)
  BY <1>1 DEF L!Process, LP!Process
<1> QED
  BY <1>4, <1>5, <1>6, <1>7

LEMMA SameWorker ==
  /\ \A i \in Instance : /\ L!Fetch(i) => LP!Fetch(i)
                         /\ L!AddFlow(i) => LP!AddFlow(i)
                         /\ L!Finish(i) => LP!Finish(i)
                         /\ L!Crash(i) => LP!Crash(i)
                         /\ L!Shutdown(i) => LP!Shutdown(i)
  /\ \A j \in Job : (L!Promote(j) => LP!Promote(j)) /\ (L!Stall(j) => LP!Stall(j))
<1> USE DEF L!queueVars, LP!queueVars, L!workerVars, LP!workerVars, L!history, LP!history,
        L!JobsIn, LP!JobsIn
<1>1. \A i \in Instance : /\ L!Fetch(i) => LP!Fetch(i)
                          /\ L!AddFlow(i) => LP!AddFlow(i)
                          /\ L!Finish(i) => LP!Finish(i)
  BY DEF L!Fetch, LP!Fetch, L!AddFlow, LP!AddFlow, L!Finish, LP!Finish
<1>2. \A j \in Job : (L!Promote(j) => LP!Promote(j)) /\ (L!Stall(j) => LP!Stall(j))
  BY DEF L!Promote, LP!Promote, L!Up, LP!Up, L!Stall, LP!Stall, L!Orphans, LP!Orphans,
     L!MayRetry, LP!MayRetry
<1>3. ASSUME NEW i \in Instance PROVE L!GoDown(i) => LP!GoDown(i)
  <2>1. L!HoldsTheLoop(i) = LP!HoldsTheLoop(i)
    BY DEF L!HoldsTheLoop, LP!HoldsTheLoop, L!JobKept, LP!JobKept
  <2> QED
    BY <2>1 DEF L!GoDown, LP!GoDown, L!NoCall, LP!NoCall
<1> QED
  BY <1>1, <1>2, <1>3 DEF L!Crash, LP!Crash, L!Shutdown, LP!Shutdown

LEMMA SameCounts ==
  ASSUME NEW c \in Call
  PROVE  /\ L!CountWaiting(c) => LP!CountWaiting(c)
         /\ L!CountDelayed(c) => LP!CountDelayed(c)
         /\ L!CountActive(c) => LP!CountActive(c)
         /\ L!Add(c) => LP!Add(c)
<1> USE DEF L!queueVars, LP!queueVars, L!workerVars, LP!workerVars, L!history, LP!history,
        L!JobsIn, LP!JobsIn, L!NoCall, LP!NoCall
<1>1. L!CountWaiting(c) => LP!CountWaiting(c)
  BY DEF L!CountWaiting, LP!CountWaiting
<1>2. L!CountDelayed(c) => LP!CountDelayed(c)
  BY DEF L!CountDelayed, LP!CountDelayed, L!SkipActiveCheck, LP!SkipActiveCheck,
     L!Decide, LP!Decide
<1>3. L!CountActive(c) => LP!CountActive(c)
  BY DEF L!CountActive, LP!CountActive, L!Decide, LP!Decide
<1>4. L!Add(c) => LP!Add(c)
  BY DEF L!Add, LP!Add, L!AddedTo, LP!AddedTo
<1> QED
  BY <1>1, <1>2, <1>3, <1>4

LEMMA SameLoop == [L!Next]_(L!vars) => [LP!Next]_(LP!vars)
<1>1. L!Next => LP!Next
  BY SameBootstrap, SameWorker, SameCounts DEF L!Next, LP!Next
<1>2. UNCHANGED L!vars => UNCHANGED LP!vars
  BY DEF L!vars, LP!vars, L!queueVars, LP!queueVars, L!workerVars, LP!workerVars,
     L!history, LP!history
<1> QED
  BY <1>1, <1>2

LEMMA SameAlive == L!Alive = LP!Alive
  BY DEF L!Alive, LP!Alive, L!JobsIn, LP!JobsIn, L!Orphans, LP!Orphans, L!FetchedUnrun,
     LP!FetchedUnrun, L!OpenRequeues, LP!OpenRequeues

\* The loop's inductive invariant is one of the deployment.
LEMMA LoopInvariant == Spec => []LP!SeedInv
<1>1. LP!LoopConstants
  BY DeploymentConstants, SameFinite DEF LP!LoopConstants
<1>2. Init => LP!SeedInv
  BY <1>1, SameLoopInit, LP!SeedInvInit DEF Init
<1>3. LP!SeedInv /\ [Next]_vars => LP!SeedInv'
  BY <1>1, LoopSteps, SameLoop, LP!LoopInvInductive, LP!BooksStep, LP!LeadersStep
     DEF LP!SeedInv
<1> QED
  BY <1>2, <1>3, PTL DEF Spec

\* What is proved of the loop, of the whole service: whoever leads and however
\* the election goes, a seeded loop dies only in the one window.
THEOREM LoopSurvives == Spec => []L!LoopDiesOnlyInWindow
<1>1. LP!SeedInv => L!LoopDiesOnlyInWindow
  BY SameAlive DEF LP!SeedInv, LP!LoopInv, LP!LoopDiesOnlyInWindow, L!LoopDiesOnlyInWindow
<1> QED
  BY <1>1, LoopInvariant, PTL

-----------------------------------------------------------------------------
(* A service that has started runs.  While no request fails and nobody     *)
(* goes down the election is calm, and what NobodyWon and Won say of it    *)
(* goes on until the tasks services read it: the winner's hook returns     *)
(* with the belief it won, so it bootstraps as the one, cleans up and      *)
(* seeds - and only local leaders ever do.                                 *)

Calm == errors = 0 /\ downs = 0 /\ \A i \in Instance : hook[i] # "stopping"

AfterHook == \A i \in Instance : phase[i] \notin {"down", "starting"} => hook[i] = "done"

LocalLeadersSeed ==
  \A i \in Instance : phase[i] \in {"notLive", "doClean", "leading"} => i \in LocalLeader

\* Somebody has won, and its tasks service does not take it for a standby.
Served == \E i \in LocalLeader : EP!Won(i) /\ phase[i] # "standby"

Outcome == IF Clustered THEN Served \/ EP!NobodyWon
                        ELSE EP!LeadersAlone /\ \A i \in LocalLeader : phase[i] # "standby"

CalmInv == Calm => AfterHook /\ LocalLeadersSeed /\ Outcome

Base == EP!IInv /\ EP!WatchersStarted /\ LP!SeedInv

\* Calm never comes back: a calm state is reached by calm steps alone.
LEMMA CalmSteps ==
  ASSUME Base, [Next]_vars, Calm'
  PROVE  Calm /\ [EP!CalmNext]_(EP!vars) /\ ~\E i \in Instance : L!GoDown(i)
<1> USE DeploymentConstants
<1>0. EP!TypeOK /\ LP!TypeOK /\ errors \in Nat /\ downs \in Nat
  BY DEF Base, EP!IInv, EP!TypeOK, LP!SeedInv, LP!LoopInv, LP!TypeOK
<1>1. ASSUME NEW i \in Instance, L!GoDown(i) PROVE FALSE
  BY <1>0, <1>1 DEF L!GoDown, Calm
<1>2. ASSUME NEW i \in Instance, Boot(i) PROVE Calm /\ EP!CalmNext
  BY <1>0, <1>2, SameHook DEF Boot, E!Boot, L!Boot, Calm, EP!CalmNext, EP!TypeOK, L!history
<1>3. ASSUME NEW i \in Instance, Stop(i) \/ Exit(i) \/ Crash(i) PROVE FALSE
  BY <1>0, <1>1, <1>3 DEF Stop, E!Stop, Exit, Crash, L!Shutdown, L!Crash, Calm, EP!TypeOK
<1>4. ASSUME NEW i \in Instance, E!CreateSessionFails(i) \/ E!LoseRequest(i) PROVE FALSE
  BY <1>0, <1>4 DEF E!CreateSessionFails, E!LoseRequest, Calm
<1>5. ASSUME ElectionStep PROVE Calm /\ EP!CalmNext
  <2>1. downs' = downs
    BY <1>5 DEF ElectionStep, loopVars
  <2>2. EP!CalmNext
    BY <1>4, <1>5, SameHook, SameRequests, SameEnds DEF ElectionStep, EP!CalmNext
  <2>3. errors' = errors /\ \A i \in Instance : hook[i] = "stopping" => hook'[i] = "stopping"
    <3> DEFINE Kept == errors' = errors
                       /\ \A i \in Instance : hook[i] = "stopping" => hook'[i] = "stopping"
    <3>1. ASSUME NEW k \in Instance,
                 EP!Boot(k) \/ EP!StartHook(k) \/ EP!CreateSession(k) \/ EP!ConsulAcquire(k)
                 \/ EP!WatchChange(k) \/ EP!OtherKeyWritten(k)
          PROVE  Kept
      BY <1>0, <3>1 DEF EP!Boot, EP!StartHook, EP!CreateSession, EP!ConsulAcquire,
         EP!WatchChange, EP!OtherKeyWritten, EP!instanceVars, EP!TypeOK
    <3>2. ASSUME NEW k \in Instance,
                 EP!RefuseDeadSession(k) \/ \E a \in EP!Answer : EP!Deliver(k, a)
          PROVE  Kept
      BY <1>0, <3>2 DEF EP!RefuseDeadSession, EP!Deliver, EP!AfterAcquireLock, EP!TypeOK
    <3>3. (\E s \in Session : EP!Expire(s)) \/ EP!LockDelayOver => Kept
      BY DEF EP!Expire, EP!LockDelayOver, EP!instanceVars
    <3> QED
      BY <2>2, <3>1, <3>2, <3>3 DEF EP!CalmNext
  <2> QED
    BY <2>1, <2>2, <2>3 DEF Calm
<1>6. ASSUME UNCHANGED electionVars PROVE UNCHANGED EP!vars
  BY <1>6 DEF electionVars, EP!vars, EP!instanceVars, EP!consulVars
<1>7. ASSUME NEW i \in Instance, BootstrapTasks(i) PROVE Calm /\ UNCHANGED EP!vars
  BY <1>6, <1>7 DEF BootstrapTasks, L!BootstrapTasks, L!history, electionVars, Calm
<1>8. ASSUME LoopStep PROVE Calm /\ UNCHANGED EP!vars
  <2>1. downs' = downs
    BY <1>8 DEF LoopStep, Fetch, L!Obliterate, L!Fetch, L!Process, L!AddFlow, L!Finish,
       L!CountWaiting, L!CountDelayed, L!CountActive, L!Add, L!Promote, L!Stall, L!history
  <2> QED
    BY <1>6, <1>8, <2>1 DEF LoopStep, electionVars, Calm
<1>9. ASSUME UNCHANGED vars PROVE Calm /\ UNCHANGED EP!vars
  BY <1>6, <1>9 DEF vars, electionVars, loopVars, Calm
<1> QED
  BY <1>1, <1>2, <1>3, <1>5, <1>7, <1>8, <1>9 DEF Next

\* A hook that returned has returned for good, as long as it is calm.
LEMMA DoneStays ==
  ASSUME EP!TypeOK, [EP!CalmNext]_(EP!vars), NEW i \in Instance, hook[i] = "done"
  PROVE  hook'[i] = "done"
<1> USE DEF EP!TypeOK
<1>1. ASSUME NEW k \in Instance,
             \/ EP!Boot(k) \/ EP!StartHook(k) \/ EP!CreateSession(k) \/ EP!ConsulAcquire(k)
             \/ EP!WatchChange(k) \/ EP!OtherKeyWritten(k)
      PROVE  hook'[i] = "done"
  BY <1>1 DEF EP!Boot, EP!StartHook, EP!CreateSession, EP!ConsulAcquire, EP!WatchChange,
     EP!OtherKeyWritten, EP!instanceVars
<1>2. ASSUME NEW k \in Instance,
             EP!RefuseDeadSession(k) \/ \E a \in EP!Answer : EP!Deliver(k, a)
      PROVE  hook'[i] = "done"
  BY <1>2 DEF EP!RefuseDeadSession, EP!Deliver, EP!AfterAcquireLock
<1>3. (\E s \in Session : EP!Expire(s)) \/ EP!LockDelayOver \/ UNCHANGED EP!vars
        => hook' = hook
  BY DEF EP!Expire, EP!LockDelayOver, EP!instanceVars, EP!vars
<1> QED
  BY <1>1, <1>2, <1>3 DEF EP!CalmNext

\* How a tasks service's bootstrap goes on: isTheOne() decides it once.
LEMMA PhaseStep ==
  ASSUME LP!TypeOK, [Next]_vars, ~\E k \in Instance : L!GoDown(k), NEW i \in Instance
  PROVE  \/ phase'[i] = phase[i]
         \/ phase'[i] = "starting"
         \/ phase[i] \in {"notLive", "doClean"} /\ phase'[i] \in {"notLive", "doClean", "leading"}
         \/ /\ phase[i] = "starting" /\ hook[i] = "done" /\ UNCHANGED electionVars
            /\ IF E!IsTheOne(i) THEN phase'[i] \in {"notLive", "doClean", "leading"}
                                ELSE phase'[i] = "standby"
<1> DEFINE Goal ==
      \/ phase'[i] = phase[i]
      \/ phase'[i] = "starting"
      \/ phase[i] \in {"notLive", "doClean"} /\ phase'[i] \in {"notLive", "doClean", "leading"}
      \/ /\ phase[i] = "starting" /\ hook[i] = "done" /\ UNCHANGED electionVars
         /\ IF E!IsTheOne(i) THEN phase'[i] \in {"notLive", "doClean", "leading"}
                             ELSE phase'[i] = "standby"
<1>0. phase \in [Instance -> {"down", "starting", "notLive", "doClean", "leading", "standby"}]
  BY DEF LP!TypeOK
<1>1. ASSUME NEW k \in Instance, Boot(k) PROVE Goal
  BY <1>0, <1>1 DEF Boot, L!Boot
<1>2. ASSUME NEW k \in Instance, NEW due, L!GoOn(k, due)
      PROVE  \/ i = k /\ phase'[i] \in {"notLive", "doClean", "leading"}
             \/ i # k /\ phase'[i] = phase[i]
  BY <1>0, <1>2 DEF L!GoOn
<1>3. ASSUME NEW k \in Instance, BootstrapTasks(k) PROVE Goal
  BY <1>0, <1>2, <1>3 DEF BootstrapTasks, HooksInOrder, L!BootstrapTasks
<1>4. ASSUME NEW k \in Instance, Stop(k) \/ Exit(k) \/ Crash(k) PROVE Goal
  BY <1>4 DEF Stop, loopVars, Exit, Crash, L!Shutdown, L!Crash
<1>5. CASE LoopStep
  <2>1. ASSUME NEW k \in Instance, L!Obliterate(k) PROVE Goal
    BY <1>0, <1>2, <2>1 DEF L!Obliterate
  <2>2. CASE ~\E k \in Instance : L!Obliterate(k)
    <3>1. phase' = phase
      BY <1>5, <2>2 DEF LoopStep, Fetch, L!Fetch, L!Process, L!AddFlow, L!Finish,
         L!CountWaiting, L!CountDelayed, L!CountActive, L!Add, L!Promote, L!Stall
    <3> QED
      BY <3>1
  <2> QED
    BY <2>1, <2>2
<1>6. ElectionStep \/ UNCHANGED vars => Goal
  BY DEF ElectionStep, loopVars, vars
<1> QED
  BY <1>1, <1>3, <1>4, <1>5, <1>6 DEF Next

LEMMA OutcomeStep ==
  ASSUME Base, Calm, AfterHook, Outcome, [Next]_vars, [EP!CalmNext]_(EP!vars),
         ~\E i \in Instance : L!GoDown(i)
  PROVE  Outcome'
<1> USE DeploymentConstants
<1>0. LP!TypeOK /\ EP!TypeOK /\ EP!IInv /\ EP!WatchersStarted /\ EP!ElectionConstants
  BY DEF Base, LP!SeedInv, LP!LoopInv, EP!IInv, EP!ElectionConstants
<1>1. ASSUME NEW i \in LocalLeader, phase[i] # "standby",
             hook[i] = "done" => isLeader[i] = TRUE
      PROVE  phase'[i] # "standby"
  BY <1>0, <1>1, PhaseStep DEF E!IsTheOne
<1>2. CASE Clustered
  <2>1. ASSUME Served PROVE Served'
    <3>1. PICK i \in LocalLeader : EP!Won(i) /\ phase[i] # "standby"
      BY <2>1 DEF Served
    <3>2. EP!Won(i)'
      BY <1>0, <1>2, <3>1, EP!WonStays
    <3>3. phase'[i] # "standby"
      BY <1>1, <3>1 DEF EP!Won
    <3> QED
      BY <3>2, <3>3 DEF Served
  <2>2. ASSUME EP!NobodyWon PROVE Served' \/ EP!NobodyWon'
    <3>1. CASE EP!NobodyWon'
      BY <3>1
    <3>2. ASSUME NEW k \in LocalLeader, EP!Won(k)', hook[k] = "electing" PROVE Served'
      <4>1. phase[k] # "standby"
        BY <3>2 DEF AfterHook
      <4> QED
        BY <1>1, <3>2, <4>1 DEF Served
    <3> QED
      BY <1>0, <1>2, <2>2, <3>1, <3>2, SameFinite, EP!NobodyStep
  <2> QED
    BY <1>2, <2>1, <2>2 DEF Outcome
<1>3. CASE ~Clustered
  <2>1. EP!LeadersAlone /\ \A i \in LocalLeader : phase[i] # "standby"
    BY <1>3 DEF Outcome
  <2>2. EP!LeadersAlone'
    BY <1>0, <1>3, <2>1, EP!AloneStep
  <2>3. \A i \in LocalLeader : phase'[i] # "standby"
    BY <1>1, <2>1 DEF EP!LeadersAlone
  <2> QED
    BY <1>3, <2>2, <2>3 DEF Outcome
<1> QED
  BY <1>2, <1>3

LEMMA CalmInvStep ==
  ASSUME Base, CalmInv, [Next]_vars
  PROVE  CalmInv'
<1> SUFFICES ASSUME Calm' PROVE AfterHook' /\ LocalLeadersSeed' /\ Outcome'
  BY DEF CalmInv
<1>1. Calm /\ [EP!CalmNext]_(EP!vars) /\ ~\E i \in Instance : L!GoDown(i)
  BY CalmSteps
<1>2. AfterHook /\ LocalLeadersSeed /\ Outcome /\ LP!TypeOK /\ EP!TypeOK
  BY <1>1 DEF CalmInv, Base, LP!SeedInv, LP!LoopInv, EP!IInv
<1>3. Outcome'
  BY <1>1, <1>2, OutcomeStep
<1>4. ASSUME NEW i \in Instance, phase'[i] \notin {"down", "starting"} PROVE hook'[i] = "done"
  <2>1. hook[i] = "done"
    BY <1>1, <1>2, <1>4, PhaseStep DEF AfterHook
  <2> QED
    BY <1>1, <1>2, <2>1, DoneStays
<1>5. ASSUME NEW i \in Instance, phase'[i] \in {"notLive", "doClean", "leading"}
      PROVE  i \in LocalLeader
  BY <1>1, <1>2, <1>5, PhaseStep DEF LocalLeadersSeed, E!IsTheOne
<1> QED
  BY <1>3, <1>4, <1>5 DEF AfterHook, LocalLeadersSeed

LEMMA CalmInvariant == Spec => [](Base /\ CalmInv)
<1> USE DeploymentConstants
<1>0. EP!ElectionConstants
  BY DEF EP!ElectionConstants
<1>1. Init => EP!WatchersStarted
  BY SameElectionInit DEF Init, EP!Init, EP!WatchersStarted
<1>2. EP!IInv /\ EP!WatchersStarted /\ [Next]_vars => EP!WatchersStarted'
  BY <1>0, ElectionSteps, SameElection, EP!WatchersStep DEF EP!IInv
<1>3. Init => CalmInv
  <2> SUFFICES ASSUME Init PROVE CalmInv
    OBVIOUS
  <2>1. EP!NobodyWon
    BY <1>0, SameElectionInit, SameFinite, EP!NobodyInit DEF Init
  <2>2. ~Clustered => EP!LeadersAlone
    BY <1>0, SameElectionInit, EP!AloneInit DEF Init
  <2>3. \A i \in Instance : phase[i] = "down"
    BY DEF Init, L!Init
  <2> QED
    BY <2>1, <2>2, <2>3 DEF CalmInv, AfterHook, LocalLeadersSeed, Outcome
<1>4. Base /\ CalmInv /\ [Next]_vars => CalmInv'
  BY CalmInvStep
<1> QED
  BY <1>1, <1>2, <1>3, <1>4, ElectionInvariant, LoopInvariant, PTL DEF Spec, Base

\* Once every local leader's tasks service has bootstrapped, the loop runs, in
\* single-node mode and with any number of instances and of lapses but the
\* last: no order of hooks, requests, answers, cleanups and counts makes
\* everybody a standby, or leaves the one without a job.
THEOREM ServiceRuns == Spec => []StartedServiceRuns
<1>1. ASSUME Base, CalmInv, Started, Undisturbed PROVE L!Alive
  <2> USE DeploymentConstants
  <2>0. Calm /\ AfterHook /\ LocalLeadersSeed /\ Outcome /\ EP!TypeOK /\ EP!ElectionConstants
    BY <1>1 DEF Undisturbed, Calm, CalmInv, Base, EP!IInv, EP!ElectionConstants
  <2>1. \A i \in LocalLeader : hook[i] = "done"
    BY <1>1, <2>0 DEF Started, AfterHook
  <2>2. ~EP!NobodyWon
    BY <1>1, <2>0, <2>1, SameFinite, EP!SomebodyWins DEF Undisturbed
  <2>3. LocalLeader # {}
    <3>1. lapses \in Nat /\ Cardinality({}) = 0
      BY <2>0, EP!FS_EmptySet, SameFinite DEF EP!TypeOK
    <3> QED
      BY <1>1, <3>1 DEF Undisturbed
  <2>4. PICK i \in LocalLeader : phase[i] = "leading"
    BY <1>1, <2>0, <2>2, <2>3 DEF Started, Outcome, Served
  <2>5. \A k \in Instance : phase[k] \notin {"notLive", "doClean"}
    BY <1>1, <2>0 DEF Started, LocalLeadersSeed
  <2>6. LP!Alive
    BY <1>1, <2>0, <2>4, <2>5 DEF Base, LP!SeedInv, LP!LeadersSeed, LP!Cleaning, Started, Calm
  <2> QED
    BY <2>6, SameAlive
<1> QED
  BY <1>1, CalmInvariant, PTL DEF StartedServiceRuns

LEMMA SameChains ==
  /\ L!Chains = LP!Chains /\ L!Chains' = LP!Chains'
  /\ L!Orphans = LP!Orphans /\ L!Orphans' = LP!Orphans'
<1> USE SameFinite DEF L!Chains, LP!Chains, L!JobsIn, LP!JobsIn, L!FetchedUnrun,
      LP!FetchedUnrun, L!OpenRequeues, LP!OpenRequeues, L!Orphans, LP!Orphans
<1>1. L!Chains = LP!Chains /\ L!Orphans = LP!Orphans
  OBVIOUS
<1>2. L!Chains' = LP!Chains' /\ L!Orphans' = LP!Orphans'
  OBVIOUS
<1> QED
  BY <1>1, <1>2

\* Seen from the queue, the deployed service is a RecheckChain: no order of
\* elections, hooks, stops and crashes makes a second chain of one, or ends the
\* last one but for a cleanup or an instance that goes down.
THEOREM ImplementsRecheckChain == Spec => L!RefinesRecheckChain
<1>1. LP!LoopConstants
  BY DeploymentConstants, SameFinite DEF LP!LoopConstants
<1>2. Init => LP!Init
  BY SameLoopInit DEF Init
<1>3. [Next]_vars => [LP!Next]_(LP!vars)
  BY LoopSteps, SameLoop
<1>4. LP!Spec => LP!RefinesRecheckChain
  BY <1>1, LP!ImplementsRecheckChain
<1>5. LP!Chain!Init => L!Chain!Init
  BY SameFinite, SameChains DEF LP!Chain!Init, L!Chain!Init
<1>6. [LP!Chain!Next]_(LP!Chain!vars) => [L!Chain!Next]_(L!Chain!vars)
  <2> USE SameFinite, SameChains
  <2>1. LP!Chain!Start => L!Chain!Start
    BY DEF LP!Chain!Start, L!Chain!Start
  <2>2. LP!Chain!Clean => L!Chain!Clean
    BY DEF LP!Chain!Clean, L!Chain!Clean
  <2>3. LP!Chain!Seed => L!Chain!Seed
    BY DEF LP!Chain!Seed, L!Chain!Seed
  <2>4. LP!Chain!Fold => L!Chain!Fold
    BY DEF LP!Chain!Fold, L!Chain!Fold
  <2>5. LP!Chain!TakeBack => L!Chain!TakeBack
    BY DEF LP!Chain!TakeBack, L!Chain!TakeBack
  <2>6. LP!Chain!GoDown => L!Chain!GoDown
    BY DEF LP!Chain!GoDown, L!Chain!GoDown
  <2>7. UNCHANGED LP!Chain!vars => UNCHANGED L!Chain!vars
    BY DEF LP!Chain!vars, L!Chain!vars
  <2> QED
    BY <2>1, <2>2, <2>3, <2>4, <2>5, <2>6, <2>7 DEF LP!Chain!Next, L!Chain!Next
<1> QED
  BY <1>2, <1>3, <1>4, <1>5, <1>6, PTL DEF Spec, LP!Spec, LP!RefinesRecheckChain,
     L!RefinesRecheckChain, LP!Chain!Spec, L!Chain!Spec

-----------------------------------------------------------------------------
(* Without a local leader there is no loop.  A belief to be the leader is  *)
(* not enough, and the constructor sets it in single-node mode whether or  *)
(* not IS_LOCAL_LEADER is set.                                             *)

NothingQueued ==
  /\ \A i \in Instance : phase[i] \notin {"notLive", "doClean"} /\ worker[i] = NoJob
  /\ \A c \in Call : call[c] = L!NoCall
  /\ \A j \in Job : state[j] = "absent"
  /\ ~seeded

LEMMA NothingQueuedStep ==
  ASSUME LocalLeader = {}, LP!TypeOK, NothingQueued, [Next]_vars
  PROVE  NothingQueued'
<1> USE DEF NothingQueued
<1>1. ASSUME NEW i \in Instance, L!Boot(i) \/ L!BootstrapTasks(i, FALSE) \/ L!GoDown(i)
      PROVE  NothingQueued'
  BY <1>1 DEF L!Boot, L!BootstrapTasks, L!GoDown, LP!TypeOK, L!queueVars, L!workerVars, L!history
<1>2. ASSUME NEW i \in Instance, L!AddFlow(i) PROVE NothingQueued'
  BY <1>2 DEF L!AddFlow, L!queueVars, L!workerVars, L!history
<1>3. ASSUME NEW i \in Instance,
             L!Obliterate(i) \/ L!Fetch(i) \/ L!Process(i) \/ L!Finish(i)
      PROVE  FALSE
  BY <1>3 DEF L!Obliterate, L!Fetch, L!Process, L!Finish, L!JobsIn
<1>4. ASSUME NEW c \in Call,
             L!CountWaiting(c) \/ L!CountDelayed(c) \/ L!CountActive(c) \/ L!Add(c)
      PROVE  FALSE
  BY <1>4 DEF L!CountWaiting, L!CountDelayed, L!CountActive, L!Add, L!NoCall
<1>5. ASSUME NEW j \in Job, L!Promote(j) \/ L!Stall(j) PROVE FALSE
  BY <1>5 DEF L!Promote, L!Stall, L!Orphans, L!JobsIn
<1>6. CASE UNCHANGED loopVars
  BY <1>6 DEF loopVars
<1> QED
  BY <1>1, <1>2, <1>3, <1>4, <1>5, <1>6, StepIsOther DEF OtherLoopStep, E!IsTheOne

\* With IS_LOCAL_LEADER set nowhere no check-balances job is ever added, even
\* though every instance of a single-node deployment believes it leads.
THEOREM NoLocalLeaderNoLoop ==
  ASSUME LocalLeader = {}
  PROVE  Spec => []~seeded
<1>1. Init => NothingQueued
  BY DEF Init, L!Init, NothingQueued
<1>2. LP!SeedInv /\ NothingQueued /\ [Next]_vars => NothingQueued'
  BY NothingQueuedStep DEF LP!SeedInv, LP!LoopInv
<1>3. NothingQueued => ~seeded
  BY DEF NothingQueued
<1> QED
  BY <1>1, <1>2, <1>3, LoopInvariant, PTL DEF Spec
=============================================================================
