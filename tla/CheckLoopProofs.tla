-------------------------- MODULE CheckLoopProofs --------------------------
(***************************************************************************)
(* TLAPS proofs about CheckLoop: type correctness, LoopDiesOnlyInWindow    *)
(* and LeaderLeavesLoopRunning for any number of instances, jobs, calls,   *)
(* crashes and shutdowns.                                                  *)
(***************************************************************************)
EXTENDS CheckLoop, TLAPS

-----------------------------------------------------------------------------
(* Types.                                                                  *)

\* Moving a call on, or ending it, keeps the calls typed.
LEMMA CallUpdate ==
  ASSUME TypeOK, NEW c \in Call, NEW r \in CallType \cup {NoCall}
  PROVE  [call EXCEPT ![c] = r] \in [Call -> CallType \cup {NoCall}]
  BY DEF TypeOK

\* A call that is under way has the fields of one.
LEMMA CallUnderWay ==
  ASSUME TypeOK, NEW c \in Call, call[c].pc # "done"
  PROVE  /\ call[c] \in CallType
         /\ call[c] = [owner |-> call[c].owner, kind |-> call[c].kind,
                       pc |-> call[c].pc, seen |-> call[c].seen]
<1>1. call[c] \in CallType
  BY DEF TypeOK, NoCall
<1> QED
  BY <1>1 DEF CallType

\* Moving a call on changes what it says and nothing else.
LEMMA MovedOn ==
  ASSUME TypeOK, NEW c \in Call, call[c].pc # "done", NEW p, NEW s
  PROVE  /\ [call[c] EXCEPT !.pc = p].pc = p
         /\ [call[c] EXCEPT !.pc = p].kind = call[c].kind
         /\ [call[c] EXCEPT !.pc = p].seen = call[c].seen
         /\ [call[c] EXCEPT !.pc = p, !.seen = s].pc = p
         /\ [call[c] EXCEPT !.pc = p, !.seen = s].kind = call[c].kind
<1>1. call[c] \in CallType
  BY CallUnderWay
<1> QED
  BY <1>1 DEF CallType

\* Starting a call uses a free slot.
LEMMA StartCallType ==
  ASSUME TypeOK, NEW i \in Instance, NEW kind \in {"bootstrap", "handler"},
         StartCall(i, kind)
  PROVE  call' \in [Call -> CallType \cup {NoCall}]
<1>1. NewCall(i, kind) \in CallType
  BY DEF NewCall, CallType
<1> QED
  BY <1>1, CallUpdate DEF StartCall

LEMMA GoOnType ==
  ASSUME TypeOK, NEW i \in Instance, NEW due, GoOn(i, due)
  PROVE  /\ phase' \in [Instance -> {"down", "starting", "notLive", "doClean",
                                     "leading", "standby"}]
         /\ call' \in [Call -> CallType \cup {NoCall}]
  BY StartCallType DEF GoOn, TypeOK

\* Each step of a call leaves it a call, or done.
LEMMA DecideType ==
  ASSUME TypeOK, NEW c \in Call, call[c].pc # "done", NEW seen \in BOOLEAN
  PROVE  Decide(call[c], seen) \in CallType \cup {NoCall}
<1>1. [call[c] EXCEPT !.pc = "add"] \in CallType
  BY CallUnderWay DEF CallType
<1> QED
  BY <1>1 DEF Decide

LEMMA TypeInductive == TypeOK /\ [Next]_vars => TypeOK'
<1> SUFFICES ASSUME TypeOK, [Next]_vars PROVE TypeOK'
  OBVIOUS
<1> USE LoopConstants
<1> USE DEF queueVars, workerVars, history
<1>1. ASSUME NEW i \in Instance, Boot(i) PROVE TypeOK'
  BY <1>1 DEF Boot, TypeOK
<1>2. ASSUME NEW i \in Instance, NEW one \in BOOLEAN, BootstrapTasks(i, one)
      PROVE  TypeOK'
  <2>1. /\ phase' \in [Instance -> {"down", "starting", "notLive", "doClean",
                                    "leading", "standby"}]
        /\ call' \in [Call -> CallType \cup {NoCall}]
    <3>1. CASE GoOn(i, AskedCleanups)
      BY <3>1, GoOnType
    <3>2. CASE phase' = [phase EXCEPT ![i] = "standby"] /\ UNCHANGED call
      BY <3>2 DEF TypeOK
    <3> QED
      BY <1>2, <3>1, <3>2 DEF BootstrapTasks
  <2> QED
    BY <1>2, <2>1 DEF BootstrapTasks, TypeOK
<1>3. ASSUME NEW i \in Instance, Obliterate(i) PROVE TypeOK'
  <2>1. state' \in [Job -> {"absent", "waiting", "delayed", "active", "failed"}]
    BY <1>3 DEF Obliterate, Obliterated
  <2>2. /\ phase' \in [Instance -> {"down", "starting", "notLive", "doClean",
                                    "leading", "standby"}]
        /\ call' \in [Call -> CallType \cup {NoCall}]
    BY <1>3, GoOnType DEF Obliterate
  <2> QED
    BY <1>3, <2>1, <2>2 DEF Obliterate, TypeOK
<1>4. ASSUME NEW c \in Call, CountWaiting(c) PROVE TypeOK'
  <2> DEFINE r == [call[c] EXCEPT !.pc = "delayed",
                                  !.seen = JobsIn({"waiting"}) # {}]
  <2>1. r \in CallType
    BY <1>4, CallUnderWay DEF CountWaiting, CallType
  <2>2. call' = [call EXCEPT ![c] = r]
    BY <1>4 DEF CountWaiting, TypeOK
  <2>3. call' \in [Call -> CallType \cup {NoCall}]
    BY <2>1, <2>2, CallUpdate
  <2> QED
    BY <1>4, <2>3 DEF CountWaiting, TypeOK
<1>5. ASSUME NEW c \in Call, CountDelayed(c) PROVE TypeOK'
  <2> DEFINE seen == call[c].seen \/ JobsIn({"delayed"}) # {}
             r == IF SkipActiveCheck(call[c].kind)
                  THEN Decide(call[c], seen)
                  ELSE [call[c] EXCEPT !.pc = "active", !.seen = seen]
  <2>1. call[c].pc # "done" /\ seen \in BOOLEAN
    BY <1>5 DEF CountDelayed
  <2>2. [call[c] EXCEPT !.pc = "active", !.seen = seen] \in CallType
    BY <2>1, CallUnderWay DEF CallType
  <2>3. r \in CallType \cup {NoCall}
    BY <2>1, <2>2, DecideType
  <2>4. call' = [call EXCEPT ![c] = r]
    BY <1>5 DEF CountDelayed, TypeOK
  <2>5. call' \in [Call -> CallType \cup {NoCall}]
    BY <2>3, <2>4, CallUpdate
  <2> QED
    BY <1>5, <2>5 DEF CountDelayed, TypeOK
<1>6. ASSUME NEW c \in Call, CountActive(c) PROVE TypeOK'
  <2> DEFINE seen == call[c].seen \/ JobsIn({"active"}) # {}
  <2>1. call[c].pc # "done" /\ seen \in BOOLEAN
    BY <1>6 DEF CountActive
  <2>2. Decide(call[c], seen) \in CallType \cup {NoCall}
    BY <2>1, DecideType
  <2>3. call' = [call EXCEPT ![c] = Decide(call[c], seen)]
    BY <1>6 DEF CountActive, TypeOK
  <2>4. call' \in [Call -> CallType \cup {NoCall}]
    BY <2>2, <2>3, CallUpdate
  <2> QED
    BY <1>6, <2>4 DEF CountActive, TypeOK
<1>7. ASSUME NEW c \in Call, Add(c) PROVE TypeOK'
  <2>1. state' \in [Job -> {"absent", "waiting", "delayed", "active", "failed"}]
    BY <1>7 DEF Add, AddedTo, TypeOK
  <2>2. stalls' \in [Job -> 0..1]
    BY <1>7 DEF Add, TypeOK
  <2>3. call' \in [Call -> CallType \cup {NoCall}]
    BY <1>7, CallUpdate DEF Add
  <2>4. seeded' \in BOOLEAN /\ origins' \in Nat
    BY <1>7 DEF Add, TypeOK
  <2> QED
    BY <1>7, <2>1, <2>2, <2>3, <2>4 DEF Add, TypeOK
<1>8. ASSUME NEW j \in Job, Promote(j) PROVE TypeOK'
  BY <1>8 DEF Promote, TypeOK
<1>9. ASSUME NEW i \in Instance, Fetch(i) PROVE TypeOK'
  BY <1>9 DEF Fetch, JobsIn, TypeOK
<1>10. ASSUME NEW i \in Instance, Process(i) PROVE TypeOK'
  <2>1. call' \in [Call -> CallType \cup {NoCall}]
    BY <1>10, StartCallType DEF Process
  <2>2. adding' \in [Instance -> 0..MaxFlows]
    BY <1>10 DEF Process, TypeOK
  <2> QED
    BY <1>10, <2>1, <2>2 DEF Process, TypeOK
<1>11. ASSUME NEW i \in Instance, AddFlow(i) PROVE TypeOK'
  BY <1>11 DEF AddFlow, TypeOK
<1>12. ASSUME NEW i \in Instance, Finish(i) PROVE TypeOK'
  BY <1>12 DEF Finish, TypeOK
<1>13. ASSUME NEW j \in Job, Stall(j) PROVE TypeOK'
  <2>1. stalls' \in [Job -> 0..1]
    BY <1>13 DEF Stall, MayRetry, TypeOK
  <2>2. state' \in [Job -> {"absent", "waiting", "delayed", "active", "failed"}]
    BY <1>13 DEF Stall, TypeOK
  <2>3. lost' \in BOOLEAN
    <3>1. lost' = lost \/ lost' = TRUE
      BY <1>13 DEF Stall
    <3> QED
      BY <3>1 DEF TypeOK
  <2>4. origins' \in Nat
    BY <1>13 DEF Stall, TypeOK
  <2> QED
    BY <1>13, <2>1, <2>2, <2>3, <2>4 DEF Stall, TypeOK
<1>14. ASSUME NEW i \in Instance, GoDown(i) PROVE TypeOK'
  <2>1. call' \in [Call -> CallType \cup {NoCall}]
    BY <1>14 DEF GoDown, TypeOK
  <2>2. lost' \in BOOLEAN /\ downs' \in 0..MaxDowns
    BY <1>14 DEF GoDown, TypeOK
  <2>3. /\ phase' \in [Instance -> {"down", "starting", "notLive", "doClean",
                                    "leading", "standby"}]
        /\ worker' \in [Instance -> Job \cup {NoJob}]
        /\ adding' \in [Instance -> 0..MaxFlows]
    BY <1>14 DEF GoDown, TypeOK
  <2> QED
    BY <1>14, <2>1, <2>2, <2>3 DEF GoDown, TypeOK
<1>15. CASE UNCHANGED vars
  BY <1>15 DEF vars, TypeOK
<1> QED
  BY <1>1, <1>2, <1>3, <1>4, <1>5, <1>6, <1>7, <1>8, <1>9, <1>10, <1>11,
     <1>12, <1>13, <1>14, <1>15 DEF Next, Crash, Shutdown

LEMMA TypeInit == Init => TypeOK
<1> SUFFICES ASSUME Init PROVE TypeOK
  OBVIOUS
<1> USE LoopConstants DEF Init
<1>1. /\ phase \in [Instance -> {"down", "starting", "notLive", "doClean",
                                 "leading", "standby"}]
      /\ state \in [Job -> {"absent", "waiting", "delayed", "active", "failed"}]
      /\ stalls \in [Job -> 0..1]
  OBVIOUS
<1>2. /\ worker \in [Instance -> Job \cup {NoJob}]
      /\ processed \in [Instance -> BOOLEAN]
      /\ call \in [Call -> CallType \cup {NoCall}]
      /\ adding \in [Instance -> 0..MaxFlows]
  OBVIOUS
<1>3. seeded \in BOOLEAN /\ lost \in BOOLEAN
  OBVIOUS
<1>4. origins \in Nat /\ downs \in 0..MaxDowns
  OBVIOUS
<1> QED
  BY <1>1, <1>2, <1>3, <1>4 DEF TypeOK

\* Every reachable state of the loop is well typed; in particular no job is
\* taken back from a dead worker twice.
THEOREM TypeCorrect == Spec => []TypeOK
  BY TypeInit, TypeInductive, PTL DEF Spec

-----------------------------------------------------------------------------
(* The inductive invariant.  To see that a crash leaves the job of the     *)
(* worker behind as an orphan, no two workers may hold the same job and no *)
(* job that is held may be queued; and a count of the active jobs may send *)
(* away bootstraps only, since an active job does not keep a loop alive.   *)

HeldOnce ==
  /\ \A i, k \in Instance : worker[i] = worker[k] /\ worker[i] # NoJob => i = k
  /\ \A i \in Instance :
       worker[i] # NoJob => state[worker[i]] \notin {"waiting", "delayed"}

HandlersSkipActive ==
  \A c \in Call : call[c].pc = "active" => call[c].kind = "bootstrap"

LoopInv == TypeOK /\ HeldOnce /\ HandlersSkipActive /\ LoopDiesOnlyInWindow

\* The four ways to be alive, as witnesses.
LEMMA AliveIf ==
  /\ (\E j \in Job : state[j] \in {"waiting", "delayed"}) => Alive
  /\ (\E j \in Job : state[j] = "active" /\ \A i \in Instance : worker[i] # j)
       => Alive
  /\ (\E i \in Instance : worker[i] # NoJob /\ ~processed[i]) => Alive
  /\ (\E c \in Call : call[c].kind = "handler" /\ ~call[c].seen) => Alive
  BY DEF Alive, JobsIn, Orphans, FetchedUnrun, OpenRequeues

LEMMA AliveIfPrime ==
  /\ (\E j \in Job : state'[j] \in {"waiting", "delayed"}) => Alive'
  /\ (\E j \in Job : state'[j] = "active" /\ \A i \in Instance : worker'[i] # j)
       => Alive'
  /\ (\E i \in Instance : worker'[i] # NoJob /\ ~processed'[i]) => Alive'
  /\ (\E c \in Call : call'[c].kind = "handler" /\ ~call'[c].seen) => Alive'
  BY DEF Alive, JobsIn, Orphans, FetchedUnrun, OpenRequeues

LEMMA AliveCases ==
  Alive => \/ \E j \in Job : state[j] \in {"waiting", "delayed"}
           \/ \E j \in Job : state[j] = "active" /\ \A i \in Instance : worker[i] # j
           \/ \E i \in Instance : worker[i] # NoJob /\ ~processed[i]
           \/ \E c \in Call : call[c].kind = "handler" /\ ~call[c].seen
  BY DEF Alive, JobsIn, Orphans, FetchedUnrun, OpenRequeues

\* A step that keeps the jobs and the workers, and every open re-queue, keeps
\* the loop alive.
LEMMA CallStepKeepsAlive ==
  ASSUME Alive, UNCHANGED <<state, worker, processed>>,
         \A c \in Call : call[c].kind = "handler" /\ ~call[c].seen
           => (call'[c].kind = "handler" /\ ~call'[c].seen) \/ Alive'
  PROVE  Alive'
  BY AliveCases, AliveIfPrime

\* A new call takes no place of an open re-queue.
LEMMA StartCallFacts ==
  ASSUME TypeOK, NEW i \in Instance, NEW kind \in {"bootstrap", "handler"},
         StartCall(i, kind)
  PROVE  /\ \E c \in Call : call'[c].kind = kind /\ ~call'[c].seen
         /\ \A c \in Call : call'[c] = call[c] \/ call'[c].pc = "waiting"
         /\ \A c \in Call : call[c].kind = "handler" => call'[c] = call[c]
<1>1. PICK d \in Call : /\ call[d] = NoCall
                        /\ call' = [call EXCEPT ![d] = NewCall(i, kind)]
  BY DEF StartCall
<1>2. /\ call'[d] = NewCall(i, kind)
      /\ \A c \in Call : c # d => call'[c] = call[c]
  BY <1>1 DEF TypeOK
<1>3. call'[d].kind = kind /\ ~call'[d].seen /\ call'[d].pc = "waiting"
  BY <1>2 DEF NewCall
<1>4. call[d].kind # "handler"
  BY <1>1 DEF NoCall
<1> QED
  BY <1>2, <1>3, <1>4

\* The hook's next step is an obliterate or a bootstrap call; neither
\* touches an open re-queue.
LEMMA GoOnFacts ==
  ASSUME TypeOK, HandlersSkipActive, NEW i \in Instance, NEW due, GoOn(i, due)
  PROVE  /\ HandlersSkipActive'
         /\ \A c \in Call : call[c].kind = "handler" => call'[c] = call[c]
<1>1. CASE UNCHANGED call
  BY <1>1 DEF HandlersSkipActive
<1>2. CASE StartCall(i, "bootstrap")
  BY <1>2, StartCallFacts DEF HandlersSkipActive
<1> QED
  BY <1>1, <1>2 DEF GoOn

\* An obliterate is what ends a loop on purpose.
Cleaning == \E i \in Instance : phase[i] \in {"notLive", "doClean"}

\* Besides keeping the invariant, a step keeps a loop alive that was not seeded
\* since an obliterate: a re-queue that survived it.
LEMMA LoopStep ==
  ASSUME LoopInv, [Next]_vars
  PROVE  LoopInv' /\ (Alive => Alive' \/ lost' \/ Cleaning)
<1> USE LoopConstants
<1> USE DEF queueVars, workerVars, history
<1>0. /\ TypeOK /\ HeldOnce /\ HandlersSkipActive
      /\ (seeded => Alive \/ lost)
      /\ TypeOK'
  BY TypeInductive DEF LoopInv, LoopDiesOnlyInWindow
<1> DEFINE Goal == /\ HeldOnce' /\ HandlersSkipActive'
                   /\ seeded' => Alive' \/ lost'
                   /\ Alive => Alive' \/ lost' \/ Cleaning
<1> SUFFICES Goal
  BY <1>0 DEF LoopInv, LoopDiesOnlyInWindow
<1>1. ASSUME NEW i \in Instance, Boot(i) PROVE Goal
  <2>1. Alive => Alive'
    BY <1>1, CallStepKeepsAlive DEF Boot
  <2> QED
    BY <1>0, <1>1, <2>1 DEF Boot, HeldOnce, HandlersSkipActive
<1>2. ASSUME NEW i \in Instance, NEW one \in BOOLEAN, BootstrapTasks(i, one)
      PROVE  Goal
  <2>1. /\ HandlersSkipActive'
        /\ \A c \in Call : call[c].kind = "handler" => call'[c] = call[c]
    <3>1. CASE GoOn(i, AskedCleanups)
      BY <1>0, <3>1, GoOnFacts
    <3>2. CASE UNCHANGED call
      BY <1>0, <3>2 DEF HandlersSkipActive
    <3> QED
      BY <1>2, <3>1, <3>2 DEF BootstrapTasks
  <2>2. Alive => Alive'
    BY <1>2, <2>1, CallStepKeepsAlive DEF BootstrapTasks
  <2> QED
    BY <1>0, <1>2, <2>1, <2>2 DEF BootstrapTasks, HeldOnce
<1>3. ASSUME NEW i \in Instance, Obliterate(i) PROVE Goal
  <2>1. HandlersSkipActive'
    BY <1>0, <1>3, GoOnFacts DEF Obliterate
  <2>2. HeldOnce'
    BY <1>0, <1>3 DEF Obliterate, Obliterated, HeldOnce, TypeOK
  <2> QED
    BY <1>3, <2>1, <2>2 DEF Obliterate, Cleaning
<1>4. ASSUME NEW c \in Call, CountWaiting(c) PROVE Goal
  <2>1. /\ call'[c].pc = "delayed" /\ call'[c].kind = call[c].kind
        /\ call'[c].seen = (JobsIn({"waiting"}) # {})
        /\ \A d \in Call : d # c => call'[d] = call[d]
    BY <1>0, <1>4, CallUnderWay DEF CountWaiting, TypeOK, CallType
  <2>2. JobsIn({"waiting"}) # {} => Alive'
    BY <1>4, AliveIfPrime DEF CountWaiting, JobsIn
  <2>3. Alive => Alive'
    BY <1>4, <2>1, <2>2, CallStepKeepsAlive DEF CountWaiting
  <2> QED
    BY <1>0, <1>4, <2>1, <2>3 DEF CountWaiting, HeldOnce, HandlersSkipActive
<1>5. ASSUME NEW c \in Call, CountDelayed(c) PROVE Goal
  <2> DEFINE seen == call[c].seen \/ JobsIn({"delayed"}) # {}
  <2>1. /\ \/ call'[c] = NoCall /\ seen
           \/ call'[c] = [call[c] EXCEPT !.pc = "add"] /\ ~seen
           \/ /\ call[c].kind # "handler"
              /\ call'[c] = [call[c] EXCEPT !.pc = "active", !.seen = seen]
        /\ \A d \in Call : d # c => call'[d] = call[d]
    BY <1>0, <1>5 DEF CountDelayed, SkipActiveCheck, Decide, TypeOK
  <2>2. JobsIn({"delayed"}) # {} => Alive'
    BY <1>5, AliveIfPrime DEF CountDelayed, JobsIn
  <2>3. \/ call'[c] = NoCall /\ seen
        \/ call'[c].pc = "add" /\ call'[c].kind = call[c].kind
             /\ call'[c].seen = call[c].seen /\ ~seen
        \/ call[c].kind = "bootstrap" /\ call'[c].kind = "bootstrap"
    <3>1. call[c].pc # "done" /\ call[c].kind \in {"bootstrap", "handler"}
      BY <1>0, <1>5, CallUnderWay DEF CountDelayed, CallType
    <3> HIDE DEF seen
    <3>2. CASE call'[c] = [call[c] EXCEPT !.pc = "add"] /\ ~seen
      <4>1. /\ [call[c] EXCEPT !.pc = "add"].pc = "add"
            /\ [call[c] EXCEPT !.pc = "add"].kind = call[c].kind
            /\ [call[c] EXCEPT !.pc = "add"].seen = call[c].seen
        BY <1>0, <3>1, MovedOn
      <4> QED
        BY <3>2, <4>1
    <3>3. CASE /\ call[c].kind # "handler"
               /\ call'[c] = [call[c] EXCEPT !.pc = "active", !.seen = seen]
      <4>1. [call[c] EXCEPT !.pc = "active", !.seen = seen].kind = call[c].kind
        BY <1>0, <3>1, MovedOn
      <4> QED
        BY <3>1, <3>3, <4>1
    <3> QED
      BY <2>1, <3>2, <3>3
  <2>4. Alive => Alive'
    BY <1>5, <2>1, <2>2, <2>3, CallStepKeepsAlive DEF CountDelayed
  <2>5. HandlersSkipActive'
    BY <1>0, <2>1, <2>3 DEF HandlersSkipActive, NoCall
  <2> QED
    BY <1>0, <1>5, <2>4, <2>5 DEF CountDelayed, HeldOnce
<1>6. ASSUME NEW c \in Call, CountActive(c) PROVE Goal
  <2>1. call[c].kind = "bootstrap"
    BY <1>0, <1>6 DEF CountActive, HandlersSkipActive
  <2>2. /\ call'[c] = NoCall \/ call'[c] = [call[c] EXCEPT !.pc = "add"]
        /\ \A d \in Call : d # c => call'[d] = call[d]
    BY <1>0, <1>6 DEF CountActive, Decide, TypeOK
  <2>3. call'[c].pc # "active"
    <3>1. [call[c] EXCEPT !.pc = "add"].pc = "add"
      BY <1>0, <1>6, MovedOn DEF CountActive
    <3>2. NoCall.pc # "active"
      BY DEF NoCall
    <3>3. CASE call'[c] = NoCall
      BY <3>2, <3>3
    <3>4. CASE call'[c] = [call[c] EXCEPT !.pc = "add"]
      BY <3>1, <3>4
    <3> QED
      BY <2>2, <3>3, <3>4
  <2>4. Alive => Alive'
    BY <1>6, <2>1, <2>2, CallStepKeepsAlive DEF CountActive
  <2> QED
    BY <1>0, <1>6, <2>2, <2>3, <2>4 DEF CountActive, HeldOnce, HandlersSkipActive
<1>7. ASSUME NEW c \in Call, Add(c) PROVE Goal
  <2>1. PICK j \in Job :
          /\ state[j] = "absent" /\ \A i \in Instance : worker[i] # j
          /\ state' = [state EXCEPT ![j] = AddedTo(call[c].kind)]
    BY <1>7 DEF Add
  <2>2. Alive'
    <3>1. state'[j] \in {"waiting", "delayed"}
      BY <1>0, <2>1 DEF AddedTo, TypeOK
    <3> QED
      BY <3>1, AliveIfPrime
  <2>3. HeldOnce'
    BY <1>0, <1>7, <2>1 DEF Add, HeldOnce, TypeOK
  <2>4. HandlersSkipActive'
    BY <1>0, <1>7 DEF Add, HandlersSkipActive, NoCall, TypeOK
  <2> QED
    BY <2>2, <2>3, <2>4
<1>8. ASSUME NEW j \in Job, Promote(j) PROVE Goal
  <2>1. Alive'
    BY <1>0, <1>8, AliveIfPrime DEF Promote, TypeOK
  <2>2. HeldOnce'
    BY <1>0, <1>8 DEF Promote, HeldOnce, TypeOK
  <2> QED
    BY <1>0, <1>8, <2>1, <2>2 DEF Promote, HandlersSkipActive
<1>9. ASSUME NEW i \in Instance, Fetch(i) PROVE Goal
  <2>1. PICK j \in Job : /\ state[j] = "waiting"
                         /\ state' = [state EXCEPT ![j] = "active"]
                         /\ worker' = [worker EXCEPT ![i] = j]
    BY <1>9 DEF Fetch, JobsIn
  <2>2. Alive'
    <3>1. worker'[i] # NoJob /\ ~processed'[i]
      BY <1>0, <1>9, <2>1 DEF Fetch, TypeOK
    <3> QED
      BY <3>1, AliveIfPrime
  <2>3. HeldOnce'
    BY <1>0, <2>1 DEF HeldOnce, TypeOK
  <2> QED
    BY <1>0, <1>9, <2>2, <2>3 DEF Fetch, HandlersSkipActive
<1>10. ASSUME NEW i \in Instance, Process(i) PROVE Goal
  <2>1. /\ \E c \in Call : call'[c].kind = "handler" /\ ~call'[c].seen
        /\ \A c \in Call : call'[c] = call[c] \/ call'[c].pc = "waiting"
    BY <1>0, <1>10, StartCallFacts DEF Process
  <2>2. Alive'
    BY <2>1, AliveIfPrime
  <2> QED
    BY <1>0, <1>10, <2>1, <2>2 DEF Process, HeldOnce, HandlersSkipActive
<1>11. ASSUME NEW i \in Instance, AddFlow(i) PROVE Goal
  <2>1. Alive => Alive'
    BY <1>11, CallStepKeepsAlive DEF AddFlow
  <2> QED
    BY <1>0, <1>11, <2>1 DEF AddFlow, HeldOnce, HandlersSkipActive
<1>12. ASSUME NEW i \in Instance, Finish(i) PROVE Goal
  <2>1. /\ worker[i] \in Job /\ processed[i]
        /\ \A k \in Instance : worker'[k] = IF k = i THEN NoJob ELSE worker[k]
        /\ \A j \in Job : j # worker[i] => state'[j] = state[j]
        /\ state'[worker[i]] \notin {"waiting", "delayed"}
        /\ UNCHANGED <<processed, call>>
    BY <1>0, <1>12 DEF Finish, HeldOnce, TypeOK
  <2>2. HeldOnce'
    BY <1>0, <2>1 DEF HeldOnce, TypeOK
  <2>3. Alive => Alive'
    <3>1. ASSUME NEW j \in Job, state[j] \in {"waiting", "delayed"} PROVE Alive'
      BY <1>0, <2>1, <3>1, AliveIfPrime DEF HeldOnce
    <3>2. ASSUME NEW j \in Job, state[j] = "active",
                 \A k \in Instance : worker[k] # j
          PROVE  Alive'
      BY <2>1, <3>2, AliveIfPrime
    <3>3. ASSUME NEW k \in Instance, worker[k] # NoJob, ~processed[k] PROVE Alive'
      BY <2>1, <3>3, AliveIfPrime
    <3>4. ASSUME NEW c \in Call, call[c].kind = "handler", ~call[c].seen PROVE Alive'
      BY <2>1, <3>4, AliveIfPrime
    <3> QED
      BY <3>1, <3>2, <3>3, <3>4, AliveCases
  <2> QED
    BY <1>0, <1>12, <2>2, <2>3 DEF Finish, HandlersSkipActive
<1>13. ASSUME NEW j \in Job, Stall(j) PROVE Goal
  <2>1. \A i \in Instance : worker[i] # j
    BY <1>13 DEF Stall, Orphans
  <2>2. HeldOnce'
    BY <1>0, <1>13, <2>1 DEF Stall, HeldOnce, TypeOK
  <2>3. Alive' \/ lost'
    BY <1>0, <1>13, AliveIfPrime DEF Stall, TypeOK
  <2> QED
    BY <1>0, <1>13, <2>2, <2>3 DEF Stall, HandlersSkipActive
<1>14. ASSUME NEW i \in Instance, GoDown(i) PROVE Goal
  <2>1. /\ \A k \in Instance : worker'[k] = IF k = i THEN NoJob ELSE worker[k]
        /\ \A c \in Call : call'[c] = IF call[c].owner = i THEN NoCall ELSE call[c]
        /\ UNCHANGED <<state, processed, seeded>>
        /\ lost' = (lost \/ HoldsTheLoop(i))
    BY <1>0, <1>14 DEF GoDown, TypeOK
  <2>2. HeldOnce'
    BY <1>0, <2>1 DEF HeldOnce, TypeOK
  <2>3. HandlersSkipActive'
    BY <1>0, <2>1 DEF HandlersSkipActive, NoCall
  <2>4. JobKept(i) => Alive'
    <3> SUFFICES ASSUME JobKept(i) PROVE Alive'
      OBVIOUS
    <3>1. worker[i] \in Job /\ state'[worker[i]] = "active"
      BY <1>0, <2>1 DEF JobKept, TypeOK
    <3>2. \A k \in Instance : worker'[k] # worker[i]
      BY <1>0, <2>1, <3>1 DEF HeldOnce, TypeOK
    <3> QED
      BY <3>1, <3>2, AliveIfPrime
  <2>5. Alive => Alive' \/ lost'
    <3>1. ASSUME NEW j \in Job, state[j] \in {"waiting", "delayed"} PROVE Alive'
      BY <2>1, <3>1, AliveIfPrime
    <3>2. ASSUME NEW j \in Job, state[j] = "active",
                 \A k \in Instance : worker[k] # j
          PROVE  Alive'
      BY <2>1, <3>2, AliveIfPrime
    <3>3. ASSUME NEW k \in Instance, worker[k] # NoJob, ~processed[k]
          PROVE  Alive' \/ lost'
      BY <2>1, <2>4, <3>3, AliveIfPrime DEF HoldsTheLoop
    <3>4. ASSUME NEW c \in Call, call[c].kind = "handler", ~call[c].seen
          PROVE  Alive' \/ lost'
      BY <2>1, <2>4, <3>4, AliveIfPrime DEF HoldsTheLoop
    <3> QED
      BY <3>1, <3>2, <3>3, <3>4, AliveCases
  <2> QED
    BY <1>0, <2>1, <2>2, <2>3, <2>5
<1>15. CASE UNCHANGED vars
  <2>1. Alive => Alive'
    BY <1>15, CallStepKeepsAlive DEF vars
  <2> QED
    BY <1>0, <1>15, <2>1 DEF vars, HeldOnce, HandlersSkipActive
<1> QED
  BY <1>1, <1>2, <1>3, <1>4, <1>5, <1>6, <1>7, <1>8, <1>9, <1>10, <1>11,
     <1>12, <1>13, <1>14, <1>15 DEF Next, Crash, Shutdown

LEMMA LoopInvInductive == LoopInv /\ [Next]_vars => LoopInv'
  BY LoopStep

LEMMA LoopInvInit == Init => LoopInv
<1> SUFFICES ASSUME Init PROVE LoopInv
  OBVIOUS
<1>1. HeldOnce
  BY DEF Init, HeldOnce
<1>2. HandlersSkipActive
  BY DEF Init, HandlersSkipActive, NoCall
<1>3. LoopDiesOnlyInWindow
  BY DEF Init, LoopDiesOnlyInWindow
<1> QED
  BY <1>1, <1>2, <1>3, TypeInit DEF LoopInv

\* A seeded loop ends only by an instance going down between the completion
\* of a job and the add of the next, or by a job losing its worker twice: for
\* any number of instances, jobs, re-queues under way, crashes and shutdowns.
THEOREM LoopSurvives == Spec => []LoopDiesOnlyInWindow
<1>1. LoopInv => LoopDiesOnlyInWindow
  BY DEF LoopInv
<1> QED
  BY <1>1, LoopInvInit, LoopInvInductive, PTL DEF Spec

-----------------------------------------------------------------------------
(* A leader's bootstrap leaves the loop running.  Until the hook's own     *)
(* call has found a job, it will add one; and once it has found one, the   *)
(* loop was alive.                                                         *)

\* Redis has no job that was not added since the last obliterate.
SeededIfJobs == (\E j \in Job : state[j] # "absent") => seeded

\* While no instance went down, no job is left behind and nothing is lost.
NothingLost == downs = 0 => ~lost /\ Orphans = {}

LeadersSeed ==
  downs = 0 /\ (\E i \in Instance : phase[i] = "leading") =>
    \/ Alive \/ Cleaning
    \/ \E c \in Call : call[c].kind = "bootstrap" /\ ~call[c].seen

SeedInv == LoopInv /\ SeededIfJobs /\ NothingLost /\ LeadersSeed

\* A job that somebody sees is a loop that runs.
LEMMA JobsAreAlive ==
  ASSUME SeedInv, downs = 0, NEW places, "absent" \notin places, JobsIn(places) # {}
  PROVE  Alive
  BY DEF SeedInv, SeededIfJobs, NothingLost, JobsIn, LoopInv, LoopDiesOnlyInWindow

LEMMA BooksStep ==
  ASSUME SeedInv, [Next]_vars
  PROVE  SeededIfJobs' /\ NothingLost'
<1> DEFINE Goal == SeededIfJobs' /\ NothingLost'
<1> USE LoopConstants DEF queueVars, workerVars, history
<1>0. TypeOK /\ HeldOnce /\ SeededIfJobs /\ NothingLost /\ downs \in Nat
  BY DEF SeedInv, LoopInv, TypeOK
<1>1. ASSUME UNCHANGED <<state, worker, seeded, lost, downs>> PROVE Goal
  BY <1>0, <1>1 DEF SeededIfJobs, NothingLost, Orphans, JobsIn
<1>2. ASSUME NEW i \in Instance, Obliterate(i) PROVE Goal
  BY <1>0, <1>2 DEF Obliterate, Obliterated, SeededIfJobs, NothingLost, Orphans, JobsIn
<1>3. ASSUME NEW c \in Call, Add(c) PROVE Goal
  BY <1>0, <1>3 DEF Add, AddedTo, SeededIfJobs, NothingLost, Orphans, JobsIn, TypeOK
<1>4. ASSUME NEW j \in Job, Promote(j) PROVE Goal
  BY <1>0, <1>4 DEF Promote, SeededIfJobs, NothingLost, Orphans, JobsIn, TypeOK
<1>5. ASSUME NEW i \in Instance, Fetch(i) PROVE Goal
  <2>1. PICK j \in Job : /\ state[j] = "waiting"
                         /\ state' = [state EXCEPT ![j] = "active"]
                         /\ worker' = [worker EXCEPT ![i] = j]
    BY <1>5 DEF Fetch, JobsIn
  <2> QED
    BY <1>0, <1>5, <2>1 DEF Fetch, SeededIfJobs, NothingLost, Orphans, JobsIn, TypeOK
<1>6. ASSUME NEW i \in Instance, Finish(i) PROVE Goal
  BY <1>0, <1>6 DEF Finish, SeededIfJobs, NothingLost, Orphans, JobsIn, TypeOK
<1>7. ASSUME NEW j \in Job, Stall(j) PROVE Goal
  BY <1>0, <1>7 DEF Stall, SeededIfJobs, NothingLost, Orphans, JobsIn, TypeOK
<1>8. ASSUME NEW i \in Instance, GoDown(i) PROVE Goal
  BY <1>0, <1>8 DEF GoDown, SeededIfJobs, NothingLost
<1>9. ASSUME NEW i \in Instance,
             Boot(i) \/ Process(i) \/ AddFlow(i) \/ \E one \in BOOLEAN : BootstrapTasks(i, one)
      PROVE  Goal
  BY <1>1, <1>9 DEF Boot, BootstrapTasks, Process, AddFlow
<1>10. ASSUME NEW c \in Call, CountWaiting(c) \/ CountDelayed(c) \/ CountActive(c)
       PROVE  Goal
  BY <1>1, <1>10 DEF CountWaiting, CountDelayed, CountActive
<1>11. CASE UNCHANGED vars
  BY <1>1, <1>11 DEF vars
<1> QED
  BY <1>2, <1>3, <1>4, <1>5, <1>6, <1>7, <1>8, <1>9, <1>10, <1>11
     DEF Next, Crash, Shutdown

\* Going on with the bootstrap leads to a clean-up or to a call that has seen
\* no job yet.
LEMMA GoOnSeeds ==
  ASSUME TypeOK, NEW i \in Instance, NEW due, GoOn(i, due)
  PROVE  \/ Cleaning'
         \/ \E c \in Call : call'[c].kind = "bootstrap" /\ ~call'[c].seen
<1>1. CASE phase' = [phase EXCEPT ![i] = IF "notLive" \in due THEN "notLive" ELSE "doClean"]
  BY <1>1 DEF Cleaning, TypeOK
<1>2. CASE StartCall(i, "bootstrap")
  BY <1>2, StartCallFacts
<1> QED
  BY <1>1, <1>2 DEF GoOn

LEMMA LeadersStep ==
  ASSUME SeedInv, [Next]_vars
  PROVE  LeadersSeed'
<1> SUFFICES ASSUME downs' = 0, NEW l \in Instance, phase'[l] = "leading",
                    ~Alive', ~Cleaning'
             PROVE  \E c \in Call : call'[c].kind = "bootstrap" /\ ~call'[c].seen
  BY DEF LeadersSeed
<1> DEFINE Unseen(c) == call[c].kind = "bootstrap" /\ ~call[c].seen
           Goal == \E c \in Call : call'[c].kind = "bootstrap" /\ ~call'[c].seen
<1> USE LoopConstants DEF queueVars, workerVars, history
<1>0. TypeOK /\ LoopInv /\ LoopInv' /\ NothingLost' /\ LeadersSeed /\ ~lost'
  BY LoopStep, BooksStep DEF SeedInv, LoopInv, NothingLost
<1>1. Alive => Cleaning
  BY <1>0, LoopStep
<1>2. ASSUME NEW i \in Instance, GoDown(i) PROVE FALSE
  BY <1>0, <1>2 DEF GoDown, TypeOK
<1>3. ASSUME NEW i \in Instance, Obliterate(i) PROVE Goal
  BY <1>0, <1>3, GoOnSeeds DEF Obliterate
<1>4. ASSUME NEW i \in Instance, NEW one \in BOOLEAN, BootstrapTasks(i, one), one
      PROVE  Goal
  BY <1>0, <1>4, GoOnSeeds DEF BootstrapTasks
<1>5. ASSUME downs = 0, phase[l] = "leading", ~Cleaning
      PROVE  \E c \in Call : Unseen(c)
  BY <1>0, <1>1, <1>5 DEF LeadersSeed
<1>6. ASSUME UNCHANGED downs, phase[l] = "leading", Cleaning => Cleaning',
             \A c \in Call : Unseen(c) => call'[c] = call[c]
      PROVE  Goal
  BY <1>5, <1>6
<1>7. ASSUME NEW i \in Instance, NEW one \in BOOLEAN, BootstrapTasks(i, one), ~one
      PROVE  Goal
  BY <1>0, <1>6, <1>7 DEF BootstrapTasks, TypeOK, Cleaning
<1>8. ASSUME NEW i \in Instance, Boot(i) PROVE Goal
  BY <1>0, <1>6, <1>8 DEF Boot, TypeOK, Cleaning
<1>9. ASSUME NEW i \in Instance, Process(i) PROVE Goal
  <2>1. \A c \in Call : Unseen(c) => call'[c] = call[c]
    BY <1>0, <1>9 DEF Process, StartCall, NoCall, TypeOK
  <2> QED
    BY <1>6, <1>9, <2>1 DEF Process, Cleaning
<1>10. ASSUME NEW i \in Instance, Fetch(i) \/ AddFlow(i) \/ Finish(i) PROVE Goal
  BY <1>6, <1>10 DEF Fetch, AddFlow, Finish, Cleaning
<1>11. ASSUME NEW j \in Job, Promote(j) \/ Stall(j) PROVE Goal
  BY <1>6, <1>11 DEF Promote, Stall, Cleaning
<1>12. ASSUME NEW c \in Call, Add(c) PROVE FALSE
  <2>1. PICK j \in Job : state' = [state EXCEPT ![j] = AddedTo(call[c].kind)]
    BY <1>12 DEF Add
  <2>2. state'[j] \in {"waiting", "delayed"}
    BY <1>0, <2>1 DEF AddedTo, TypeOK
  <2> QED
    BY <2>2, AliveIfPrime
<1>13. ASSUME NEW c \in Call,
              CountWaiting(c) \/ CountDelayed(c) \/ CountActive(c)
       PROVE  Goal
  <2>1. phase' = phase /\ downs' = downs /\ ~Cleaning
    BY <1>13 DEF CountWaiting, CountDelayed, CountActive, Cleaning
  <2>2. PICK d \in Call : Unseen(d)
    BY <1>5, <2>1
  <2>3. ~Alive /\ JobsIn({"waiting"}) = {} /\ JobsIn({"delayed"}) = {}
               /\ JobsIn({"active"}) = {}
    BY <1>1, <2>1, JobsAreAlive
  <2>4. call[c].pc # "done" /\ (c # d => call'[d] = call[d])
    BY <1>0, <1>13 DEF CountWaiting, CountDelayed, CountActive, TypeOK
  <2>5. CASE c = d
    <3> DEFINE r == call[c]
    <3>1. /\ [r EXCEPT !.pc = "delayed", !.seen = FALSE].kind = "bootstrap"
          /\ ~[r EXCEPT !.pc = "delayed", !.seen = FALSE].seen
          /\ [r EXCEPT !.pc = "active", !.seen = FALSE].kind = "bootstrap"
          /\ ~[r EXCEPT !.pc = "active", !.seen = FALSE].seen
          /\ [r EXCEPT !.pc = "add"].kind = "bootstrap"
          /\ ~[r EXCEPT !.pc = "add"].seen
      BY <1>0, <2>2, <2>4, <2>5, CallUnderWay DEF CallType
    <3>2. CASE CountWaiting(c)
      <4>1. call'[c] = [r EXCEPT !.pc = "delayed", !.seen = FALSE]
        BY <1>0, <2>3, <3>2 DEF CountWaiting, TypeOK
      <4> QED
        BY <3>1, <4>1
    <3>3. CASE CountDelayed(c)
      <4>1. call'[c] = [r EXCEPT !.pc = "active", !.seen = FALSE]
        BY <1>0, <2>2, <2>3, <2>5, <3>3 DEF CountDelayed, SkipActiveCheck, TypeOK
      <4> QED
        BY <3>1, <4>1
    <3>4. CASE CountActive(c)
      <4>1. call'[c] = [r EXCEPT !.pc = "add"]
        BY <1>0, <2>2, <2>3, <2>5, <3>4 DEF CountActive, Decide, TypeOK
      <4> QED
        BY <3>1, <4>1
    <3> QED
      BY <1>13, <3>2, <3>3, <3>4
  <2>6. CASE c # d
    BY <2>2, <2>4, <2>6
  <2> QED
    BY <2>5, <2>6
<1>14. CASE UNCHANGED vars
  BY <1>6, <1>14 DEF vars, Cleaning
<1> QED
  BY <1>2, <1>3, <1>4, <1>7, <1>8, <1>9, <1>10, <1>11, <1>12, <1>13, <1>14
     DEF Next, Crash, Shutdown

LEMMA SeedInvInit == Init => SeedInv
<1>1. Init => SeededIfJobs /\ NothingLost /\ LeadersSeed
  BY DEF Init, SeededIfJobs, NothingLost, LeadersSeed, Orphans, JobsIn
<1> QED
  BY <1>1, LoopInvInit DEF SeedInv

\* An instance that bootstrapped as the one leaves a running loop behind, with
\* any number of other bootstraps, cleanups and re-queues around it.
THEOREM LeadersLeaveLoops == Spec => []LeaderLeavesLoopRunning
<1>1. SeedInv /\ [Next]_vars => SeedInv'
  BY LoopInvInductive, BooksStep, LeadersStep DEF SeedInv
<1>2. SeedInv => LeaderLeavesLoopRunning
  BY DEF SeedInv, LeadersSeed, Cleaning, LeaderLeavesLoopRunning, BootstrapDone
<1> QED
  BY <1>1, <1>2, SeedInvInit, PTL DEF Spec
=============================================================================
