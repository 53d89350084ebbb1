----------------------- MODULE ClusterElectionProofs -----------------------
(***************************************************************************)
(* TLAPS proofs about ClusterElection: type correctness, LeaderHoldsLock,  *)
(* StopFreesLock, LeaderResolved and StandbyIsTold for any number of       *)
(* instances, sessions and errors; and how an election that no crash, stop *)
(* or lost request disturbs comes out, which DeploymentProofs builds on.   *)
(***************************************************************************)
EXTENDS ClusterElection, FiniteSets, FiniteSetTheorems, TLAPS

NoStep ==
  UNCHANGED vars

LEMMA UnchangedType == TypeOK /\ NoStep => TypeOK'
  BY DEF TypeOK, NoStep, vars, instanceVars, consulVars

\* Counting an answer in or out keeps the answers typed.
LEMMA AnswersType ==
  ASSUME TypeOK, NEW i \in Instance, NEW b \in Answer, NEW n \in Nat
  PROVE  [answers EXCEPT ![i][b] = n] \in [Instance -> [Answer -> Nat]]
<1>1. answers \in [Instance -> [Answer -> Nat]]
  BY DEF TypeOK
<1>2. [answers[i] EXCEPT ![b] = n] \in [Answer -> Nat]
  BY <1>1
<1> QED
  BY <1>1, <1>2

LEMMA AnswersStep ==
  ASSUME TypeOK, NEW i \in Instance, NEW b \in Answer, NEW n \in Nat,
         answers' = [answers EXCEPT ![i][b] = n]
  PROVE  \A k \in Instance, c \in Answer :
           answers'[k][c] = IF k = i /\ c = b THEN n ELSE answers[k][c]
<1> SUFFICES ASSUME NEW k \in Instance, NEW c \in Answer
             PROVE  answers'[k][c] = IF k = i /\ c = b THEN n ELSE answers[k][c]
  OBVIOUS
<1>1. answers \in [Instance -> [Answer -> Nat]]
  BY DEF TypeOK
<1>2. answers'[k] = IF k = i THEN [answers[i] EXCEPT ![b] = n] ELSE answers[k]
  BY <1>1
<1>3. answers[i] \in [Answer -> Nat]
  BY <1>1
<1>4. [answers[i] EXCEPT ![b] = n][c] = IF c = b THEN n ELSE answers[i][c]
  BY <1>3
<1> QED
  BY <1>2, <1>4

\* Taking an answer out leaves no more of the positive ones than there were.
LEMMA AnswerTakenOut ==
  ASSUME TypeOK, NEW i \in Instance, NEW b \in Answer, answers[i][b] > 0,
         answers' = [answers EXCEPT ![i][b] = @ - 1]
  PROVE  /\ \A k \in Instance : answers'[k]["granted"] > 0 => answers[k]["granted"] > 0
         /\ answers' \in [Instance -> [Answer -> Nat]]
<1>1. answers[i][b] \in Nat /\ answers[i][b] - 1 \in Nat
  BY DEF TypeOK
<1>2. answers' \in [Instance -> [Answer -> Nat]]
  BY <1>1, AnswersType
<1>3. ASSUME NEW k \in Instance, answers'[k]["granted"] > 0
      PROVE  answers[k]["granted"] > 0
  <2>1. CASE k # i
    BY <1>3, <2>1 DEF TypeOK
  <2>2. CASE k = i
    <3>1. answers[i] \in [Answer -> Nat]
      BY DEF TypeOK
    <3>2. answers'[i] = [answers[i] EXCEPT ![b] = answers[i][b] - 1]
      BY DEF TypeOK
    <3>3. CASE b = "granted"
      BY <2>2, <3>3
    <3>4. CASE b # "granted"
      <4>1. answers'[i]["granted"] = answers[i]["granted"]
        BY <3>1, <3>2, <3>4 DEF Answer
      <4> QED
        BY <1>3, <2>2, <4>1
    <3> QED
      BY <3>3, <3>4
  <2> QED
    BY <2>1, <2>2
<1> QED
  BY <1>2, <1>3

\* So does what follows the await of acquireLock.
LEMMA AfterAcquireLockType ==
  ASSUME TypeOK, NEW i \in Instance, AfterAcquireLock(i)
  PROVE  /\ hook' \in [Instance -> {"down", "starting", "creating", "electing",
                                     "done", "stopping"}]
         /\ watching' \in [Instance -> BOOLEAN]
         /\ news' \in [Instance -> BOOLEAN]
  BY DEF AfterAcquireLock, TypeOK

LEMMA TellWatchesType ==
  ASSUME TypeOK, TellWatches
  PROVE  news' \in [Instance -> BOOLEAN]
<1>1. \A i \in Instance : (news[i] \/ watching[i]) \in BOOLEAN
  OBVIOUS
<1> QED
  BY <1>1 DEF TellWatches

\* And the end of a session that Consul created.
LEMMA EndSessionType ==
  ASSUME TypeOK, NEW s \in Session, EndSession(s)
  PROVE  /\ session' \in [Session -> {"unused", "live", "dead"}]
         /\ holder' \in Session \cup {NoSession}
         /\ lockDelay' \in BOOLEAN
         /\ news' \in [Instance -> BOOLEAN]
         /\ \A z \in Session : session'[z] = IF z = s THEN "dead" ELSE session[z]
<1>1. news' \in [Instance -> BOOLEAN]
  BY TellWatchesType DEF EndSession, TypeOK
<1> QED
  BY <1>1 DEF EndSession, TypeOK

\* Every step keeps the types and the sessions apart.
LEMMA TypeInductive == TypeOK /\ [Next]_vars => TypeOK'
<1> SUFFICES ASSUME TypeOK, [Next]_vars PROVE TypeOK'
  OBVIOUS
<1> USE ElectionConstants
<1>1. ASSUME NEW i \in Instance, Boot(i) PROVE TypeOK'
  BY <1>1 DEF Boot, TypeOK, consulVars
<1>2. ASSUME NEW i \in Instance, StartHook(i) PROVE TypeOK'
  BY <1>2 DEF StartHook, TypeOK, consulVars
<1>3. ASSUME NEW i \in Instance, CreateSession(i) PROVE TypeOK'
  BY <1>3 DEF CreateSession, NewSession, TypeOK
<1>4. ASSUME NEW i \in Instance, CreateSessionFails(i) PROVE TypeOK'
  BY <1>4 DEF CreateSessionFails, TypeOK, consulVars
<1>5. ASSUME NEW i \in Instance, ConsulAcquire(i) PROVE TypeOK'
  <2>1. answers' \in [Instance -> [Answer -> Nat]]
    <3>1. \A a \in Answer : answers[i][a] + 1 \in Nat
      BY DEF TypeOK
    <3>2. PICK a \in Answer : answers' = [answers EXCEPT ![i][a] = answers[i][a] + 1]
      BY <1>5 DEF ConsulAcquire, Answer
    <3> QED
      BY <3>1, <3>2, AnswersType
  <2>3. asks' \in [Instance -> Nat]
    BY <1>5 DEF ConsulAcquire, TypeOK
  <2>4. holder' \in Session \cup {NoSession}
    BY <1>5 DEF ConsulAcquire, TypeOK
  <2>5. news' \in [Instance -> BOOLEAN]
    BY <1>5, TellWatchesType DEF ConsulAcquire, TypeOK
  <2>6. turnedAway' \subseteq Instance
    BY <1>5 DEF ConsulAcquire, InVain, TypeOK
  <2> QED
    BY <1>5, <2>1, <2>3, <2>4, <2>5, <2>6 DEF ConsulAcquire, TypeOK
<1>6. ASSUME NEW i \in Instance, RefuseDeadSession(i) PROVE TypeOK'
  <2>1. asks' \in [Instance -> Nat]
    BY <1>6 DEF RefuseDeadSession, TypeOK
  <2> QED
    BY <1>6, <2>1, AfterAcquireLockType DEF RefuseDeadSession, TypeOK
<1>7. ASSUME NEW i \in Instance, LoseRequest(i) PROVE TypeOK'
  <2>1. asks' \in [Instance -> Nat]
    BY <1>7 DEF LoseRequest, TypeOK
  <2>2. answers' \in [Instance -> [Answer -> Nat]]
    <3>1. CASE UNCHANGED answers
      BY <3>1 DEF TypeOK
    <3> QED
      BY <1>7, <3>1, AnswerTakenOut DEF LoseRequest
  <2>3. errors' \in 0..MaxErrors
    BY <1>7 DEF LoseRequest, TypeOK
  <2>4. turnedAway' \subseteq Instance
    BY <1>7 DEF LoseRequest, InVain, TypeOK
  <2> QED
    BY <1>7, <2>1, <2>2, <2>3, <2>4, AfterAcquireLockType DEF LoseRequest, TypeOK
<1>8. ASSUME NEW i \in Instance, NEW b \in Answer, Deliver(i, b) PROVE TypeOK'
  <2>2. answers' \in [Instance -> [Answer -> Nat]]
    BY <1>8, AnswerTakenOut DEF Deliver
  <2>3. isLeader' \in [Instance -> BOOLEAN \cup {Undefined}]
    BY <1>8 DEF Deliver, Belief, TypeOK
  <2> QED
    BY <1>8, <2>2, <2>3, AfterAcquireLockType DEF Deliver, TypeOK
<1>9. ASSUME NEW i \in Instance, WatchChange(i) PROVE TypeOK'
  BY <1>9 DEF WatchChange, AsksAgain, TypeOK
<1>10. ASSUME NEW i \in Instance, OtherKeyWritten(i) PROVE TypeOK'
  BY <1>10 DEF OtherKeyWritten, TypeOK, instanceVars
<1>11. ASSUME NEW i \in Instance, Stop(i) PROVE TypeOK'
  <2>1. hook' \in [Instance -> {"down", "starting", "creating", "electing",
                                "done", "stopping"}]
    BY <1>11 DEF Stop, TypeOK
  <2>2. CASE DestroysSession(i)
    <3>1. sessionId[i] \in Session /\ EndSession(sessionId[i])
      BY <1>11, <2>2 DEF Stop, DestroysSession, TypeOK
    <3> QED
      BY <1>11, <2>1, <3>1, EndSessionType DEF Stop, TypeOK
  <2>3. CASE ~DestroysSession(i)
    BY <1>11, <2>1, <2>3 DEF Stop, TypeOK
  <2> QED
    BY <2>2, <2>3
<1>12. ASSUME NEW i \in Instance, StopFails(i) \/ Exit(i) \/ Crash(i) PROVE TypeOK'
  <2>1. GoDown(i)
    BY <1>12 DEF StopFails, Exit, Crash
  <2>2. errors' \in 0..MaxErrors
    BY <1>12 DEF StopFails, Exit, Crash, TypeOK
  <2> QED
    BY <2>1, <2>2 DEF GoDown, InitialBelief, NoAnswers, TypeOK
<1>13. ASSUME NEW s \in Session, Expire(s) PROVE TypeOK'
  <2>1. EndSession(s)
    BY <1>13 DEF Expire
  <2>2. lapses' \in 0..MaxLapses
    BY <1>13 DEF Expire, TypeOK
  <2> QED
    BY <1>13, <2>1, <2>2, EndSessionType DEF Expire, instanceVars, TypeOK
<1>14. CASE LockDelayOver
  BY <1>14 DEF LockDelayOver, TypeOK, instanceVars
<1>15. CASE UNCHANGED vars
  BY <1>15, UnchangedType DEF NoStep
<1> QED
  BY <1>1, <1>2, <1>3, <1>4, <1>5, <1>6, <1>7, <1>8, <1>9, <1>10, <1>11,
     <1>12, <1>13, <1>14, <1>15 DEF Next

LEMMA TypeInit == Init => TypeOK
<1> SUFFICES ASSUME Init PROVE TypeOK
  OBVIOUS
<1>1. isLeader \in [Instance -> BOOLEAN \cup {Undefined}]
  BY DEF Init, InitialBelief
<1>2. answers \in [Instance -> [Answer -> Nat]]
  BY DEF Init, NoAnswers
<1>3. errors \in 0..MaxErrors /\ lapses \in 0..MaxLapses
  BY ElectionConstants DEF Init
<1> QED
  BY <1>1, <1>2, <1>3 DEF Init, TypeOK

\* Every reachable state of the election is well typed, and no two instances
\* ever share a session.
THEOREM TypeCorrect == Spec => []TypeOK
  BY TypeInit, TypeInductive, PTL DEF Spec

-----------------------------------------------------------------------------
(* The inductive invariant.  LeaderHoldsLock alone is not inductive: a     *)
(* positive answer under way is a belief to come, so it must be backed by  *)
(* the lock as well, and both need the session that asked to be the one    *)
(* the instance still has, which holds since a hook that has not created   *)
(* its session yet finds the memory of a fresh process.                    *)

ConsulOK ==
  /\ holder # NoSession => session[holder] = "live"
  /\ \A i \in Instance :
       hook[i] = "stopping" /\ sessionId[i] # NoSession
         => session[sessionId[i]] = "dead"

FreshHook ==
  \A i \in Instance :
    hook[i] \in {"down", "starting", "creating"} => sessionId[i] = NoSession

ToldLeader(i) == isLeader[i] = TRUE \/ answers[i]["granted"] > 0

BeliefBacked ==
  Clustered => \A i \in Instance :
    ToldLeader(i) => sessionId[i] # NoSession /\ (Live(i) => holder = sessionId[i])

IInv == TypeOK /\ ConsulOK /\ FreshHook /\ BeliefBacked
\* A step that leaves the sessions and the lock alone, and tells nobody that
\* it leads who was not told before, keeps the beliefs backed.
LEMMA QuietKeepsBelief ==
  ASSUME BeliefBacked, UNCHANGED <<sessionId, session, holder>>,
         \A i \in Instance : ToldLeader(i)' => ToldLeader(i)
  PROVE  BeliefBacked'
  BY DEF BeliefBacked, Live

\* The end of a session takes the lock only from the instance that loses
\* the session with it.
LEMMA EndSessionKeepsBelief ==
  ASSUME TypeOK, BeliefBacked, NEW s \in Session, EndSession(s),
         UNCHANGED <<sessionId, isLeader, answers>>
  PROVE  BeliefBacked'
<1> SUFFICES ASSUME Clustered, NEW i \in Instance, ToldLeader(i)'
             PROVE  /\ sessionId[i] # NoSession
                    /\ Live(i)' => holder' = sessionId[i]
  BY DEF BeliefBacked
<1>1. ToldLeader(i) /\ sessionId[i] # NoSession /\ sessionId[i] \in Session
  BY DEF ToldLeader, BeliefBacked, TypeOK
<1>2. ASSUME Live(i)' PROVE holder' = sessionId[i]
  <2>1. sessionId[i] # s /\ Live(i)
    BY <1>1, <1>2, EndSessionType DEF Live
  <2>2. holder = sessionId[i]
    BY <1>1, <2>1 DEF BeliefBacked
  <2> QED
    BY <2>1, <2>2 DEF EndSession
<1> QED
  BY <1>1, <1>2

\* And it leaves no lock with a dead session.
LEMMA EndSessionKeepsConsul ==
  ASSUME TypeOK, ConsulOK, NEW s \in Session, EndSession(s)
  PROVE  holder' # NoSession => session'[holder'] = "live"
  BY EndSessionType, ElectionConstants DEF EndSession, ConsulOK, TypeOK

\* What follows the await of acquireLock ends "electing" only.
LEMMA AfterAcquireLockHook ==
  ASSUME TypeOK, NEW i \in Instance, AfterAcquireLock(i), NEW k \in Instance
  PROVE  hook'[k] = hook[k] \/ (hook[k] = "electing" /\ hook'[k] = "done")
  BY DEF AfterAcquireLock, TypeOK

LEMMA IInvInductive == IInv /\ [Next]_vars => IInv'
<1> SUFFICES ASSUME IInv, [Next]_vars PROVE IInv'
  OBVIOUS
<1> USE ElectionConstants
<1>0. TypeOK /\ TypeOK' /\ ConsulOK /\ FreshHook /\ BeliefBacked
  BY TypeInductive DEF IInv
<1> SUFFICES ConsulOK' /\ FreshHook' /\ BeliefBacked'
  BY <1>0 DEF IInv
<1> DEFINE Goal == ConsulOK' /\ FreshHook' /\ BeliefBacked'
<1>1. ASSUME NEW i \in Instance, Boot(i) PROVE Goal
  <2>1. BeliefBacked'
    BY <1>0, <1>1, QuietKeepsBelief DEF Boot, consulVars, ToldLeader
  <2> QED
    BY <1>0, <1>1, <2>1 DEF Boot, consulVars, TypeOK, ConsulOK, FreshHook
<1>2. ASSUME NEW i \in Instance, StartHook(i) PROVE Goal
  <2>1. BeliefBacked'
    BY <1>0, <1>2, QuietKeepsBelief DEF StartHook, consulVars, ToldLeader
  <2> QED
    BY <1>0, <1>2, <2>1 DEF StartHook, consulVars, TypeOK, ConsulOK, FreshHook
<1>3. ASSUME NEW i \in Instance, CreateSession(i) PROVE Goal
  <2>1. ConsulOK'
    BY <1>0, <1>3 DEF CreateSession, NewSession, TypeOK, ConsulOK
  <2>2. FreshHook'
    BY <1>0, <1>3 DEF CreateSession, TypeOK, FreshHook
  <2>3. BeliefBacked'
    <3> SUFFICES ASSUME Clustered, NEW k \in Instance, ToldLeader(k)'
                 PROVE  /\ sessionId'[k] # NoSession
                        /\ Live(k)' => holder' = sessionId'[k]
      BY DEF BeliefBacked
    <3>1. ToldLeader(k) /\ sessionId[k] # NoSession /\ k # i
      BY <1>0, <1>3 DEF CreateSession, ToldLeader, BeliefBacked, FreshHook
    <3>2. sessionId'[k] = sessionId[k] /\ holder' = holder
      BY <1>0, <1>3, <3>1 DEF CreateSession, TypeOK
    <3>3. Live(k)' => Live(k)
      BY <1>0, <1>3, <3>1, <3>2 DEF CreateSession, NewSession, Live, TypeOK
    <3> QED
      BY <1>0, <3>1, <3>2, <3>3 DEF BeliefBacked
  <2> QED
    BY <2>1, <2>2, <2>3
<1>4. ASSUME NEW i \in Instance, CreateSessionFails(i) PROVE Goal
  <2>1. BeliefBacked'
    BY <1>0, <1>4, QuietKeepsBelief DEF CreateSessionFails, consulVars, ToldLeader
  <2> QED
    BY <1>0, <1>4, <2>1
       DEF CreateSessionFails, consulVars, TypeOK, ConsulOK, FreshHook
<1>5. ASSUME NEW i \in Instance, ConsulAcquire(i) PROVE Goal
  <2> DEFINE granted == holder = sessionId[i] \/ (Free /\ ~lockDelay)
  <2>1. FreshHook' /\ ConsulOK'
    BY <1>0, <1>5 DEF ConsulAcquire, Live, TypeOK, ConsulOK, FreshHook
  <2>2. CASE ~granted
    <3>1. ASSUME NEW k \in Instance PROVE answers'[k]["granted"] = answers[k]["granted"]
      <4>1. answers' = [answers EXCEPT ![i]["refused"] = answers[i]["refused"] + 1]
        BY <1>5, <2>2 DEF ConsulAcquire
      <4>2. answers[i]["refused"] + 1 \in Nat
        BY <1>0 DEF TypeOK, Answer
      <4> QED
        BY <1>0, <4>1, <4>2, AnswersStep DEF Answer
    <3> QED
      BY <1>0, <1>5, <2>1, <2>2, <3>1, QuietKeepsBelief DEF ConsulAcquire, ToldLeader
  <2>3. CASE granted
    <3>1. \A k \in Instance : k # i => answers'[k] = answers[k]
      BY <1>0, <1>5 DEF ConsulAcquire, TypeOK
    <3>2. holder' = sessionId[i] /\ UNCHANGED <<sessionId, session, isLeader>>
      BY <1>5, <2>3 DEF ConsulAcquire
    <3>3. ASSUME Clustered, NEW k \in Instance, k # i, ToldLeader(k), Live(k)
          PROVE  FALSE
      <4>1. holder = sessionId[k] /\ sessionId[k] # NoSession
        BY <1>0, <3>3 DEF BeliefBacked
      <4>2. sessionId[i] # NoSession
        BY <1>5 DEF ConsulAcquire, Live
      <4> QED
        BY <1>0, <2>3, <3>3, <4>1, <4>2 DEF Free, TypeOK
    <3>4. BeliefBacked'
      <4> SUFFICES ASSUME Clustered, NEW k \in Instance, ToldLeader(k)'
                   PROVE  /\ sessionId'[k] # NoSession
                          /\ Live(k)' => holder' = sessionId'[k]
        BY DEF BeliefBacked
      <4>1. CASE k = i
        BY <1>5, <3>2, <4>1 DEF ConsulAcquire, Live
      <4>2. CASE k # i
        <5>1. ToldLeader(k)
          BY <3>1, <3>2, <4>2 DEF ToldLeader
        <5> QED
          BY <1>0, <3>2, <3>3, <4>2, <5>1 DEF BeliefBacked, Live
      <4> QED
        BY <4>1, <4>2
    <3> QED
      BY <2>1, <3>4
  <2> QED
    BY <2>2, <2>3
<1>6. ASSUME NEW i \in Instance, RefuseDeadSession(i) PROVE Goal
  <2>1. BeliefBacked'
    BY <1>0, <1>6, QuietKeepsBelief DEF RefuseDeadSession, ToldLeader
  <2> QED
    BY <1>0, <1>6, <2>1, AfterAcquireLockHook
       DEF RefuseDeadSession, ConsulOK, FreshHook
<1>7. ASSUME NEW i \in Instance, LoseRequest(i) PROVE Goal
  <2>1. \A k \in Instance : answers'[k]["granted"] > 0 => answers[k]["granted"] > 0
    BY <1>0, <1>7, AnswerTakenOut DEF LoseRequest
  <2>2. BeliefBacked'
    BY <1>0, <1>7, <2>1, QuietKeepsBelief DEF LoseRequest, ToldLeader
  <2> QED
    BY <1>0, <1>7, <2>2, AfterAcquireLockHook DEF LoseRequest, ConsulOK, FreshHook
<1>8. ASSUME NEW i \in Instance, NEW b \in Answer, Deliver(i, b) PROVE Goal
  <2>1. \A k \in Instance : answers'[k]["granted"] > 0 => answers[k]["granted"] > 0
    BY <1>0, <1>8, AnswerTakenOut DEF Deliver
  <2>2. \A k \in Instance : isLeader'[k] = TRUE => ToldLeader(k)
    BY <1>0, <1>8 DEF Deliver, Belief, ToldLeader, TypeOK
  <2>3. BeliefBacked'
    BY <1>0, <1>8, <2>1, <2>2, QuietKeepsBelief DEF Deliver, ToldLeader
  <2> QED
    BY <1>0, <1>8, <2>3, AfterAcquireLockHook DEF Deliver, ConsulOK, FreshHook
<1>9. ASSUME NEW i \in Instance, WatchChange(i) PROVE Goal
  <2>1. BeliefBacked'
    BY <1>0, <1>9, QuietKeepsBelief DEF WatchChange, ToldLeader
  <2> QED
    BY <1>0, <1>9, <2>1 DEF WatchChange, ConsulOK, FreshHook
<1>10. ASSUME NEW i \in Instance, OtherKeyWritten(i) PROVE Goal
  <2>1. BeliefBacked'
    BY <1>0, <1>10, QuietKeepsBelief DEF OtherKeyWritten, instanceVars, ToldLeader
  <2> QED
    BY <1>0, <1>10, <2>1 DEF OtherKeyWritten, instanceVars, ConsulOK, FreshHook
<1>11. ASSUME NEW i \in Instance, Stop(i) PROVE Goal
  <2>1. FreshHook'
    BY <1>0, <1>11 DEF Stop, FreshHook, TypeOK
  <2>2. CASE DestroysSession(i)
    <3>1. sessionId[i] \in Session /\ EndSession(sessionId[i])
      BY <1>0, <1>11, <2>2 DEF Stop, DestroysSession, TypeOK
    <3>2. ConsulOK'
      BY <1>0, <1>11, <3>1, EndSessionKeepsConsul, EndSessionType
         DEF Stop, ConsulOK, TypeOK
    <3>3. BeliefBacked'
      BY <1>0, <1>11, <3>1, EndSessionKeepsBelief DEF Stop
    <3> QED
      BY <2>1, <3>2, <3>3
  <2>3. CASE ~DestroysSession(i)
    <3>1. ConsulOK'
      BY <1>0, <1>11, <2>3 DEF Stop, DestroysSession, ConsulOK, TypeOK
    <3>2. BeliefBacked'
      BY <1>0, <1>11, <2>3, QuietKeepsBelief DEF Stop, ToldLeader
    <3> QED
      BY <2>1, <3>1, <3>2
  <2> QED
    BY <2>2, <2>3
<1>12. ASSUME NEW i \in Instance, GoDown(i) PROVE Goal
  <2>1. ConsulOK' /\ FreshHook'
    BY <1>0, <1>12 DEF GoDown, ConsulOK, FreshHook, TypeOK
  <2>2. BeliefBacked'
    <3> SUFFICES ASSUME Clustered, NEW k \in Instance, ToldLeader(k)'
                 PROVE  /\ sessionId'[k] # NoSession
                        /\ Live(k)' => holder' = sessionId'[k]
      BY DEF BeliefBacked
    <3>1. k # i
      <4>1. isLeader'[i] = Undefined /\ answers'[i] = NoAnswers
        BY <1>0, <1>12 DEF GoDown, InitialBelief, NoAnswers, TypeOK
      <4>2. isLeader'[i] # TRUE
        BY <4>1
      <4>3. ~(answers'[i]["granted"] > 0)
        BY <4>1 DEF NoAnswers, Answer
      <4> QED
        BY <4>2, <4>3 DEF ToldLeader
    <3>2. ToldLeader(k) /\ sessionId'[k] = sessionId[k]
      BY <1>0, <1>12, <3>1 DEF GoDown, ToldLeader, TypeOK
    <3> QED
      BY <1>0, <1>12, <3>2 DEF GoDown, BeliefBacked, Live
  <2> QED
    BY <2>1, <2>2
<1>13. ASSUME NEW s \in Session, Expire(s) PROVE Goal
  <2>1. EndSession(s)
    BY <1>13 DEF Expire
  <2>2. BeliefBacked'
    BY <1>0, <1>13, <2>1, EndSessionKeepsBelief DEF Expire, instanceVars
  <2>3. FreshHook'
    BY <1>0, <1>13 DEF Expire, instanceVars, FreshHook
  <2>4. ConsulOK'
    BY <1>0, <1>13, <2>1, EndSessionKeepsConsul, EndSessionType
       DEF Expire, instanceVars, ConsulOK, TypeOK
  <2> QED
    BY <2>2, <2>3, <2>4
<1>14. CASE LockDelayOver
  <2>1. BeliefBacked'
    BY <1>0, <1>14, QuietKeepsBelief DEF LockDelayOver, instanceVars, ToldLeader
  <2> QED
    BY <1>0, <1>14, <2>1 DEF LockDelayOver, instanceVars, ConsulOK, FreshHook
<1>15. CASE UNCHANGED vars
  <2>1. BeliefBacked'
    BY <1>0, <1>15, QuietKeepsBelief DEF vars, instanceVars, consulVars, ToldLeader
  <2> QED
    BY <1>0, <1>15, <2>1 DEF vars, instanceVars, consulVars, ConsulOK, FreshHook
<1> QED
  BY <1>1, <1>2, <1>3, <1>4, <1>5, <1>6, <1>7, <1>8, <1>9, <1>10, <1>11,
     <1>12, <1>13, <1>14, <1>15 DEF Next, StopFails, Exit, Crash

LEMMA IInvInit == Init => IInv
<1> SUFFICES ASSUME Init PROVE IInv
  OBVIOUS
<1>1. TypeOK
  BY TypeInit
<1>2. ConsulOK /\ FreshHook
  BY ElectionConstants DEF Init, ConsulOK, FreshHook
<1>3. BeliefBacked
  BY ElectionConstants DEF Init, InitialBelief, BeliefBacked, ToldLeader, NoAnswers, Answer
<1> QED
  BY <1>1, <1>2, <1>3 DEF IInv

LEMMA Invariant == Spec => []IInv
  BY IInvInit, IInvInductive, PTL DEF Spec

\* Whoever believes it leads and has a live session holds the lock, for any
\* number of instances, sessions, requests under way, errors and lapses.
THEOREM LeaderLocks == Spec => []LeaderHoldsLock
<1>1. IInv => LeaderHoldsLock
  BY DEF IInv, BeliefBacked, ToldLeader, LeaderHoldsLock
<1> QED
  BY <1>1, Invariant, PTL

\* A step leaves a lock without an owner only by ending its instance, and not
\* an instance whose destroy was answered: that one's session was dead.
LEMMA OrphanStep ==
  ASSUME IInv, [Next]_vars, NEW s \in Session, Orphaned(s)', ~Orphaned(s)
  PROVE  \E i \in Instance :
           sessionId[i] = s /\ hook[i] # "stopping" /\ hook'[i] = "down"
<1> USE ElectionConstants
<1>0. TypeOK /\ ConsulOK /\ FreshHook /\ s # NoSession
      /\ holder' = s /\ \A i \in Instance : sessionId'[i] # s
  BY DEF IInv, Orphaned, Owned
<1>1. holder' # holder \/ sessionId' # sessionId
  BY <1>0 DEF Orphaned, Owned
<1>2. ASSUME holder = s
      PROVE  \E i \in Instance : sessionId[i] = s
  BY <1>2 DEF Orphaned, Owned
<1>3. ASSUME NEW k \in Instance, CreateSession(k) PROVE FALSE
  <2>1. PICK i \in Instance : sessionId[i] = s
    BY <1>0, <1>2, <1>3 DEF CreateSession
  <2>2. i # k
    BY <1>0, <1>3, <2>1 DEF CreateSession, FreshHook
  <2> QED
    BY <1>0, <1>3, <2>1, <2>2 DEF CreateSession, TypeOK
<1>4. ASSUME NEW k \in Instance, ConsulAcquire(k) PROVE FALSE
  BY <1>0, <1>1, <1>4 DEF ConsulAcquire
<1>5. ASSUME NEW z \in Session, EndSession(z), sessionId' = sessionId PROVE FALSE
  BY <1>0, <1>1, <1>5 DEF EndSession
<1>6. ASSUME NEW k \in Instance, Stop(k) PROVE FALSE
  BY <1>0, <1>1, <1>5, <1>6 DEF Stop, DestroysSession, TypeOK
<1>7. ASSUME NEW k \in Instance, GoDown(k)
      PROVE  sessionId[k] = s /\ hook[k] # "stopping" /\ hook'[k] = "down"
  <2>1. holder = s /\ session[s] = "live"
    BY <1>0, <1>7 DEF GoDown, ConsulOK
  <2>2. PICK i \in Instance : sessionId[i] = s
    BY <1>2, <2>1
  <2>3. i = k
    BY <1>0, <1>7, <2>2 DEF GoDown, TypeOK
  <2> QED
    BY <1>0, <1>7, <2>1, <2>2, <2>3 DEF GoDown, ConsulOK, TypeOK
<1>8. ASSUME NEW k \in Instance,
             \/ Boot(k) \/ StartHook(k) \/ CreateSessionFails(k)
             \/ RefuseDeadSession(k) \/ LoseRequest(k)
             \/ \E a \in Answer : Deliver(k, a)
             \/ WatchChange(k) \/ OtherKeyWritten(k)
      PROVE  FALSE
  BY <1>1, <1>8 DEF Boot, StartHook, CreateSessionFails, RefuseDeadSession, LoseRequest,
     Deliver, WatchChange, OtherKeyWritten, consulVars, instanceVars
<1>9. ASSUME NEW z \in Session, Expire(z) PROVE FALSE
  BY <1>5, <1>9 DEF Expire, instanceVars
<1>10. ~LockDelayOver /\ ~UNCHANGED vars
  BY <1>1 DEF LockDelayOver, vars, instanceVars, consulVars
<1> QED
  BY <1>3, <1>4, <1>6, <1>7, <1>8, <1>9, <1>10 DEF Next, StopFails, Exit, Crash

\* A stopping instance whose destroy was answered leaves the lock free or with
\* another instance, whatever was under way; and only a crash or a destroy that
\* fails leaves a lock to its TTL, for any number of instances and errors.
THEOREM StopFrees == Spec => StopFreesLock
<1> DEFINE Freed ==
      \A i \in Instance :
        hook[i] = "stopping" /\ sessionId[i] # NoSession => holder # sessionId[i]
<1> DEFINE LeftBehind ==
      \A s \in Session : Orphaned(s)' /\ ~Orphaned(s) =>
        \E i \in Instance :
          sessionId[i] = s /\ hook[i] # "stopping" /\ hook'[i] = "down"
<1>1. IInv => Freed
  BY DEF IInv, ConsulOK
<1>2. IInv /\ [Next]_vars => [LeftBehind]_vars
  BY OrphanStep
<1> QED
  BY <1>1, <1>2, Invariant, PTL DEF Spec, StopFreesLock
-----------------------------------------------------------------------------
(* The leader is resolved when the hook returns.                           *)

\* A step that lets no session come to life and changes no belief: whoever
\* was resolved stays resolved, unless its hook returns by this step.
LEMMA StaysResolved ==
  ASSUME TypeOK, LeaderResolved, NEW i \in LocalLeader,
         hook[i] = "done", errors = 0, isLeader'[i] = isLeader[i],
         sessionId'[i] = sessionId[i], Live(i)',
         \A s \in Session : session'[s] = "live" => session[s] = "live"
  PROVE  isLeader'[i] # Undefined
<1>1. sessionId[i] \in Session /\ session[sessionId[i]] = "live"
  BY ElectionConstants DEF TypeOK, Live
<1> QED
  BY <1>1 DEF LeaderResolved, Live

LEMMA ResolvedStep ==
  ASSUME IInv, LeaderResolved, [Next]_vars
  PROVE  LeaderResolved'
<1> SUFFICES ASSUME NEW i \in LocalLeader, hook'[i] = "done", errors' = 0, Live(i)'
             PROVE  isLeader'[i] # Undefined
  BY DEF LeaderResolved
<1> USE ElectionConstants
<1>0. TypeOK /\ TypeOK' /\ FreshHook /\ i \in Instance /\ sessionId'[i] \in Session
  BY TypeInductive DEF IInv, TypeOK, Live
<1>1. ASSUME NEW k \in Instance, Boot(k) PROVE isLeader'[i] # Undefined
  BY <1>0, <1>1, StaysResolved DEF Boot, TypeOK, consulVars
<1>2. ASSUME NEW k \in Instance, StartHook(k) PROVE isLeader'[i] # Undefined
  <2>1. i # k
    BY <1>0, <1>2 DEF StartHook, FreshHook, Live, consulVars
  <2> QED
    BY <1>0, <1>2, <2>1, StaysResolved DEF StartHook, TypeOK, consulVars
<1>3. ASSUME NEW k \in Instance, CreateSession(k) PROVE isLeader'[i] # Undefined
  <2>1. i # k /\ hook[i] = "done" /\ sessionId'[i] = sessionId[i]
    BY <1>0, <1>3 DEF CreateSession, TypeOK
  <2>2. session[sessionId[i]] = "live"
    BY <1>0, <1>3, <2>1 DEF CreateSession, NewSession, TypeOK, Live
  <2> QED
    BY <1>3, <2>1, <2>2 DEF CreateSession, LeaderResolved, Live
<1>4. ASSUME NEW k \in Instance, CreateSessionFails(k) PROVE isLeader'[i] # Undefined
  BY <1>0, <1>4 DEF CreateSessionFails, TypeOK
<1>5. ASSUME NEW k \in Instance, ConsulAcquire(k) PROVE isLeader'[i] # Undefined
  BY <1>0, <1>5, StaysResolved DEF ConsulAcquire
<1>6. ASSUME NEW k \in Instance, RefuseDeadSession(k) PROVE isLeader'[i] # Undefined
  <2>1. i # k
    BY <1>0, <1>6 DEF RefuseDeadSession, Live
  <2> QED
    BY <1>0, <1>6, <2>1, StaysResolved
       DEF RefuseDeadSession, AfterAcquireLock, TypeOK
<1>7. ASSUME NEW k \in Instance, LoseRequest(k) PROVE isLeader'[i] # Undefined
  BY <1>0, <1>7 DEF LoseRequest, TypeOK
<1>8. ASSUME NEW k \in Instance, NEW a \in Answer, Deliver(k, a)
      PROVE  isLeader'[i] # Undefined
  <2>1. CASE i = k
    BY <1>0, <1>8, <2>1 DEF Deliver, Belief, TypeOK
  <2>2. CASE i # k
    BY <1>0, <1>8, <2>2, StaysResolved DEF Deliver, AfterAcquireLock, TypeOK
  <2> QED
    BY <2>1, <2>2
<1>9. ASSUME NEW k \in Instance, WatchChange(k) \/ OtherKeyWritten(k)
      PROVE  isLeader'[i] # Undefined
  BY <1>0, <1>9, StaysResolved DEF WatchChange, OtherKeyWritten, instanceVars
<1>10. ASSUME NEW s \in Session, EndSession(s)
       PROVE  \A t \in Session : session'[t] = "live" => session[t] = "live"
  BY <1>0, <1>10 DEF EndSession, TypeOK
<1>11. ASSUME NEW k \in Instance, Stop(k) PROVE isLeader'[i] # Undefined
  <2>1. \A t \in Session : session'[t] = "live" => session[t] = "live"
    BY <1>0, <1>10, <1>11 DEF Stop, DestroysSession, TypeOK
  <2> QED
    BY <1>0, <1>11, <2>1, StaysResolved DEF Stop, TypeOK
<1>12. ASSUME NEW k \in Instance, StopFails(k) \/ Exit(k) \/ Crash(k)
       PROVE  isLeader'[i] # Undefined
  <2>1. GoDown(k) /\ errors = 0
    BY <1>0, <1>12 DEF StopFails, Exit, Crash, TypeOK
  <2> QED
    BY <1>0, <2>1, StaysResolved DEF GoDown, TypeOK
<1>13. ASSUME NEW s \in Session, Expire(s) PROVE isLeader'[i] # Undefined
  BY <1>0, <1>10, <1>13, StaysResolved DEF Expire, instanceVars
<1>14. CASE LockDelayOver
  BY <1>0, <1>14, StaysResolved DEF LockDelayOver, instanceVars
<1>15. CASE UNCHANGED vars
  BY <1>0, <1>15, StaysResolved DEF vars, instanceVars, consulVars
<1> QED
  BY <1>1, <1>2, <1>3, <1>4, <1>5, <1>6, <1>7, <1>8, <1>9, <1>11, <1>12,
     <1>13, <1>14, <1>15 DEF Next

\* The hook of a local leader returns with the leader resolved, however many
\* instances ask for the lock, unless a request failed or the session lapsed.
THEOREM LeaderIsResolved == Spec => []LeaderResolved
<1>1. Init => LeaderResolved
  BY ElectionConstants DEF Init, LeaderResolved
<1> QED
  BY <1>1, Invariant, ResolvedStep, PTL DEF Spec

-----------------------------------------------------------------------------
(* A freed lock is noticed.  A standby that watches hears of every end of  *)
(* the holder's session, and a watch that starts reports at once; what it  *)
(* hears becomes a request, and a request is granted or was in vain.  It   *)
(* rests on one fact about the hook: nobody watches before its first       *)
(* answer, when it has its session.                                        *)

WatchersStarted == \A i \in Instance : watching[i] => hook[i] \in {"done", "stopping"}

Told(i) == watching[i] /\ Live(i) /\ Free /\ i \notin turnedAway => news[i] \/ asks[i] > 0

\* A step that takes neither a report nor a request from i, frees no key and
\* starts no watch of i, leaves it told.
LEMMA StaysTold ==
  ASSUME TypeOK, NEW i \in Instance, Told(i),
         watching'[i] => watching[i], Live(i)' => Live(i), holder' = holder,
         turnedAway \ {i} \subseteq turnedAway', i \in turnedAway => i \in turnedAway',
         news[i] => news'[i], asks'[i] = asks[i]
  PROVE  Told(i)'
  BY DEF Told, Free

\* A watch that starts has a report to come.
LEMMA NewWatchIsTold ==
  ASSUME TypeOK, NEW k \in Instance, AfterAcquireLock(k), NEW i \in Instance, i = k
  PROVE  \/ news'[i]
         \/ UNCHANGED <<hook, watching, news>>
  BY DEF AfterAcquireLock, TypeOK

\* The end of a session is reported to all who watch, if the key goes with it.
LEMMA EndIsTold ==
  ASSUME TypeOK, NEW s \in Session, EndSession(s), NEW i \in Instance, Told(i),
         UNCHANGED <<watching, sessionId, asks, turnedAway>>
  PROVE  Told(i)'
<1>1. CASE holder = s
  BY <1>1 DEF EndSession, TellWatches, Told
<1>2. CASE holder # s
  <2>1. Live(i)' => Live(i)
    BY EndSessionType DEF Live, TypeOK
  <2> QED
    BY <1>2, <2>1, StaysTold DEF EndSession
<1> QED
  BY <1>1, <1>2

LEMMA ToldStep ==
  ASSUME TypeOK, WatchersStarted, [Next]_vars, NEW i \in Instance, Told(i)
  PROVE  Told(i)'
<1> USE ElectionConstants
<1>1. ASSUME NEW k \in Instance, Boot(k) \/ StartHook(k) \/ CreateSessionFails(k)
      PROVE  Told(i)'
  BY <1>1, StaysTold DEF Boot, StartHook, CreateSessionFails, consulVars, Live
<1>2. ASSUME NEW k \in Instance, CreateSession(k) PROVE Told(i)'
  <2>1. CASE i = k
    BY <1>2, <2>1 DEF CreateSession, WatchersStarted, Told
  <2>2. CASE i # k
    <3>1. Live(i)' => Live(i)
      BY <1>2, <2>2 DEF CreateSession, NewSession, Live, TypeOK
    <3> QED
      BY <1>2, <2>2, <3>1, StaysTold DEF CreateSession, TypeOK
  <2> QED
    BY <2>1, <2>2
<1>3. ASSUME NEW k \in Instance, ConsulAcquire(k) PROVE Told(i)'
  <2>1. CASE holder = sessionId[k] \/ (Free /\ ~lockDelay)
    BY <1>3, <2>1 DEF ConsulAcquire, Live, Free, Told
  <2>2. CASE ~(holder = sessionId[k] \/ (Free /\ ~lockDelay))
    <3>1. CASE i = k
      BY <1>3, <2>2, <3>1 DEF ConsulAcquire, InVain, Free, Told
    <3>2. CASE i # k
      BY <1>3, <2>2, <3>2, StaysTold DEF ConsulAcquire, InVain, Live, TypeOK
    <3> QED
      BY <3>1, <3>2
  <2> QED
    BY <2>1, <2>2
<1>4. ASSUME NEW k \in Instance, AfterAcquireLock(k),
             UNCHANGED <<sessionId, session, holder>>,
             turnedAway \subseteq turnedAway',
             asks'[i] = asks[i] \/ i = k
      PROVE  \/ Told(i)'
             \/ i = k /\ UNCHANGED <<watching, news>>
  <2>1. CASE i = k
    BY <1>4, <2>1, NewWatchIsTold DEF Told
  <2>2. CASE i # k
    BY <1>4, <2>2, StaysTold DEF AfterAcquireLock, Live, TypeOK
  <2> QED
    BY <2>1, <2>2
<1>5. ASSUME NEW k \in Instance, RefuseDeadSession(k) PROVE Told(i)'
  <2>1. CASE i = k
    BY <1>5, <2>1 DEF RefuseDeadSession, Live, Told
  <2>2. CASE i # k
    BY <1>4, <1>5, <2>2 DEF RefuseDeadSession, TypeOK
  <2> QED
    BY <2>1, <2>2
<1>6. ASSUME NEW k \in Instance, LoseRequest(k) PROVE Told(i)'
  <2>1. turnedAway \subseteq turnedAway' /\ (asks'[i] = asks[i] \/ i = k)
    BY <1>6 DEF LoseRequest, InVain, TypeOK
  <2>2. CASE i = k /\ UNCHANGED <<watching, news>>
    BY <1>6, <2>2 DEF LoseRequest, InVain, Told, Live, Free, TypeOK
  <2> QED
    BY <1>4, <1>6, <2>1, <2>2 DEF LoseRequest
<1>7. ASSUME NEW k \in Instance, NEW a \in Answer, Deliver(k, a) PROVE Told(i)'
  <2>1. CASE i = k /\ UNCHANGED <<watching, news>>
    BY <1>7, <2>1 DEF Deliver, Told, Live, Free
  <2> QED
    BY <1>4, <1>7, <2>1 DEF Deliver
<1>8. ASSUME NEW k \in Instance, WatchChange(k) PROVE Told(i)'
  <2>1. CASE i = k
    BY <1>8, <2>1 DEF WatchChange, AsksAgain, Told, Live, Free, TypeOK
  <2>2. CASE i # k
    BY <1>8, <2>2, StaysTold DEF WatchChange, Live, TypeOK
  <2> QED
    BY <2>1, <2>2
<1>9. ASSUME NEW k \in Instance, OtherKeyWritten(k) PROVE Told(i)'
  BY <1>9, StaysTold DEF OtherKeyWritten, instanceVars, Live, TypeOK
<1>10. ASSUME NEW k \in Instance, Stop(k) PROVE Told(i)'
  <2>1. CASE DestroysSession(k)
    BY <1>10, <2>1, EndIsTold DEF Stop, DestroysSession, TypeOK
  <2>2. CASE ~DestroysSession(k)
    BY <1>10, <2>2, StaysTold DEF Stop, Live
  <2> QED
    BY <2>1, <2>2
<1>11. ASSUME NEW k \in Instance, GoDown(k) PROVE Told(i)'
  <2>1. CASE i = k
    BY <1>11, <2>1 DEF GoDown, Told, TypeOK
  <2>2. CASE i # k
    BY <1>11, <2>2 DEF GoDown, Told, Live, Free, TypeOK
  <2> QED
    BY <2>1, <2>2
<1>12. ASSUME NEW s \in Session, Expire(s) PROVE Told(i)'
  BY <1>12, EndIsTold DEF Expire, instanceVars
<1>13. CASE LockDelayOver
  BY <1>13, StaysTold DEF LockDelayOver, instanceVars, Live
<1>14. CASE UNCHANGED vars
  BY <1>14, StaysTold DEF vars, instanceVars, consulVars, Live
<1> QED
  BY <1>1, <1>2, <1>3, <1>5, <1>6, <1>7, <1>8, <1>9, <1>10, <1>11, <1>12,
     <1>13, <1>14 DEF Next, StopFails, Exit, Crash

\* A watch is started when the hook returns, and ends with the process.
LEMMA WatchersStep ==
  ASSUME TypeOK, WatchersStarted, [Next]_vars
  PROVE  WatchersStarted'
<1>1. ASSUME NEW i \in Instance,
             Boot(i) \/ StartHook(i) \/ CreateSession(i) \/ CreateSessionFails(i)
      PROVE  WatchersStarted'
  BY <1>1 DEF Boot, StartHook, CreateSession, CreateSessionFails, WatchersStarted, TypeOK
<1>2. ASSUME NEW i \in Instance, AfterAcquireLock(i) PROVE WatchersStarted'
  BY <1>2 DEF AfterAcquireLock, WatchersStarted, TypeOK
<1>3. ASSUME NEW i \in Instance,
             \/ RefuseDeadSession(i) \/ LoseRequest(i)
             \/ \E a \in Answer : Deliver(i, a)
      PROVE  WatchersStarted'
  BY <1>2, <1>3 DEF RefuseDeadSession, LoseRequest, Deliver
<1>4. ASSUME NEW i \in Instance,
             ConsulAcquire(i) \/ WatchChange(i) \/ OtherKeyWritten(i)
      PROVE  WatchersStarted'
  BY <1>4 DEF ConsulAcquire, WatchChange, OtherKeyWritten, instanceVars, WatchersStarted
<1>5. ASSUME NEW i \in Instance, Stop(i) \/ GoDown(i) PROVE WatchersStarted'
  BY <1>5 DEF Stop, GoDown, WatchersStarted, TypeOK
<1>6. (\E s \in Session : Expire(s)) \/ LockDelayOver \/ UNCHANGED vars => WatchersStarted'
  BY DEF Expire, LockDelayOver, vars, instanceVars, WatchersStarted
<1> QED
  BY <1>1, <1>3, <1>4, <1>5, <1>6 DEF Next, StopFails, Exit, Crash

\* While the key is free, every standby with a live session is about to ask
\* for it or has asked in vain, for any number of instances, lapses and errors.
THEOREM StandbysAreTold == Spec => []StandbyIsTold
<1> DEFINE Inv == TypeOK /\ WatchersStarted /\ StandbyIsTold
<1>1. Init => Inv
  <2>1. Init => WatchersStarted /\ StandbyIsTold
    BY DEF Init, WatchersStarted, StandbyIsTold
  <2> QED
    BY <2>1, TypeInit
<1>2. Inv /\ [Next]_vars => Inv'
  <2> SUFFICES ASSUME Inv, [Next]_vars PROVE Inv'
    OBVIOUS
  <2>1. TypeOK' /\ WatchersStarted'
    BY TypeInductive, WatchersStep
  <2>2. StandbyIsTold'
    BY ToldStep DEF StandbyIsTold, Told
  <2> QED
    BY <2>1, <2>2
<1> QED
  BY <1>1, <1>2, PTL DEF Spec

-----------------------------------------------------------------------------
(* Somebody wins.  While no request fails and no instance stops, the lock  *)
(* stays free and without a delay until the first acquire with a live      *)
(* session, and that one is granted before its instance's hook returns.    *)
(* Its answer cannot be taken back: until the session lapses every later   *)
(* request of the winner is granted too, and after that it is an error.    *)

CalmNext ==
  \/ \E i \in Instance :
       \/ Boot(i) \/ StartHook(i) \/ CreateSession(i)
       \/ ConsulAcquire(i) \/ RefuseDeadSession(i)
       \/ \E a \in Answer : Deliver(i, a)
       \/ WatchChange(i) \/ OtherKeyWritten(i)
  \/ \E s \in Session : Expire(s)
  \/ LockDelayOver

\* The grant is on its way to the hook, or the hook returned with it.
Won(i) ==
  \/ /\ hook[i] = "electing" /\ asks[i] = 0
     /\ answers[i]["granted"] = 1 /\ answers[i]["refused"] = 0
  \/ hook[i] = "done" /\ isLeader[i] = TRUE /\ answers[i]["refused"] = 0

DeadOwners ==
  {i \in Instance : sessionId[i] # NoSession /\ session[sessionId[i]] = "dead"}

NothingAnswered ==
  Free /\ ~lockDelay /\ \A i \in Instance, a \in Answer : answers[i][a] = 0

\* Local leaders that asked and had no answer: those whose hook has returned
\* lost their sessions first.
AskersJoined ==
  \A i \in Instance :
    /\ hook[i] \in {"creating", "electing"} => i \in LocalLeader
    /\ hook[i] = "electing" => asks[i] = 1 /\ sessionId[i] # NoSession
    /\ hook[i] = "done" => ~Live(i) /\ (i \in LocalLeader => sessionId[i] # NoSession)

NobodyWon == NothingAnswered /\ AskersJoined /\ Cardinality(DeadOwners) <= lapses

\* A step that leaves i's hook, belief, requests and answers alone leaves it
\* the winner.
LEMMA WonUndisturbed ==
  ASSUME NEW i \in Instance, Won(i), hook'[i] = hook[i], isLeader'[i] = isLeader[i],
         hook[i] = "electing" => asks'[i] = asks[i],
         answers'[i] = answers[i]
  PROVE  Won(i)'
  BY DEF Won

LEMMA WonStays ==
  ASSUME IInv, WatchersStarted, Clustered, [CalmNext]_vars, NEW i \in Instance, Won(i)
  PROVE  Won(i)'
<1> USE ElectionConstants
<1>0. TypeOK /\ BeliefBacked
  BY DEF IInv
<1>1. ASSUME NEW k \in Instance, Boot(k) \/ StartHook(k) \/ CreateSession(k)
      PROVE  Won(i)'
  <2>1. k # i
    BY <1>1 DEF Boot, StartHook, CreateSession, Won
  <2> QED
    BY <1>0, <1>1, <2>1, WonUndisturbed DEF Boot, StartHook, CreateSession, TypeOK
<1>2. ASSUME NEW k \in Instance, ConsulAcquire(k) PROVE Won(i)'
  <2>1. CASE k # i
    BY <1>0, <1>2, <2>1, WonUndisturbed DEF ConsulAcquire, TypeOK
  <2>2. CASE k = i
    <3>1. hook[i] = "done" /\ isLeader[i] = TRUE /\ answers[i]["refused"] = 0
      BY <1>2, <2>2 DEF ConsulAcquire, Won
    <3>2. holder = sessionId[i]
      BY <1>0, <1>2, <2>2, <3>1 DEF ConsulAcquire, BeliefBacked, ToldLeader
    <3>3. answers' = [answers EXCEPT ![i]["granted"] = answers[i]["granted"] + 1]
      BY <1>2, <2>2, <3>2 DEF ConsulAcquire
    <3>4. answers'[i]["refused"] = 0
      BY <1>0, <3>1, <3>3, AnswersStep DEF TypeOK, Answer
    <3> QED
      BY <1>2, <3>1, <3>4 DEF ConsulAcquire, Won
  <2> QED
    BY <2>1, <2>2
<1>3. ASSUME NEW k \in Instance, RefuseDeadSession(k) PROVE Won(i)'
  <2>1. hook[i] = "electing" => k # i
    BY <1>3 DEF RefuseDeadSession, Won
  <2> QED
    BY <1>0, <1>3, <2>1, WonUndisturbed DEF RefuseDeadSession, AfterAcquireLock, TypeOK
<1>4. ASSUME NEW k \in Instance, NEW a \in Answer, Deliver(k, a) PROVE Won(i)'
  <2>1. CASE k # i
    BY <1>0, <1>4, <2>1, WonUndisturbed DEF Deliver, AfterAcquireLock, TypeOK
  <2>2. CASE k = i
    <3>1. a = "granted" /\ answers[i]["refused"] = 0
      BY <1>4, <2>2 DEF Deliver, Won, Answer
    <3>2. answers'[i]["refused"] = 0
      BY <1>0, <1>4, <2>2, <3>1, AnswersStep DEF Deliver, TypeOK, Answer
    <3>3. isLeader'[i] = TRUE
      BY <1>0, <1>4, <2>2, <3>1 DEF Deliver, Belief, TypeOK
    <3>4. hook'[i] = "done"
      BY <1>0, <1>4, <2>2 DEF Deliver, AfterAcquireLock, Won, TypeOK
    <3> QED
      BY <3>2, <3>3, <3>4 DEF Won
  <2> QED
    BY <2>1, <2>2
<1>5. ASSUME NEW k \in Instance, WatchChange(k) PROVE Won(i)'
  <2>1. hook[i] = "electing" => k # i
    BY <1>5 DEF WatchChange, WatchersStarted
  <2> QED
    BY <1>0, <1>5, <2>1, WonUndisturbed DEF WatchChange, AsksAgain, TypeOK
<1>6. ASSUME NEW k \in Instance, OtherKeyWritten(k) PROVE Won(i)'
  BY <1>6, WonUndisturbed DEF OtherKeyWritten, instanceVars
<1>7. (\E s \in Session : Expire(s)) \/ LockDelayOver \/ UNCHANGED vars => Won(i)'
  BY WonUndisturbed DEF Expire, LockDelayOver, vars, instanceVars
<1> QED
  BY <1>1, <1>2, <1>3, <1>4, <1>5, <1>6, <1>7 DEF CalmNext

\* Each owner of a dead session is a lapse.
LEMMA LapsesCounted ==
  ASSUME IsFiniteSet(Instance), TypeOK, Cardinality(DeadOwners) <= lapses,
         NEW s \in Session, Expire(s)
  PROVE  (Cardinality(DeadOwners) <= lapses)'
<1> USE ElectionConstants
<1>1. IsFiniteSet(DeadOwners) /\ Cardinality(DeadOwners) \in Nat /\ lapses \in Nat
  BY FS_Subset, FS_CardinalityType DEF DeadOwners, TypeOK
<1>2. sessionId' = sessionId /\ \A t \in Session : t # s => session'[t] = session[t]
  BY EndSessionType DEF Expire, instanceVars
<1>3. CASE ~Owned(s)
  <2>1. DeadOwners' = DeadOwners
    BY <1>2, <1>3 DEF DeadOwners, Owned, TypeOK
  <2> QED
    BY <1>3, <2>1 DEF Expire
<1>4. CASE Owned(s)
  <2>1. PICK i \in Instance : sessionId[i] = s
    BY <1>4 DEF Owned
  <2>2. DeadOwners' \subseteq DeadOwners \cup {i}
    BY <1>2, <2>1 DEF DeadOwners, TypeOK
  <2>3. /\ IsFiniteSet(DeadOwners \cup {i})
        /\ Cardinality(DeadOwners \cup {i}) <= Cardinality(DeadOwners) + 1
    <3>1. /\ IsFiniteSet(DeadOwners \cup {i})
          /\ Cardinality(DeadOwners \cup {i})
               = IF i \in DeadOwners THEN Cardinality(DeadOwners)
                                     ELSE Cardinality(DeadOwners) + 1
      BY <1>1, FS_AddElement, Zenon
    <3> QED
      BY <1>1, <3>1
  <2>4. /\ Cardinality(DeadOwners') <= Cardinality(DeadOwners \cup {i})
        /\ Cardinality(DeadOwners') \in Nat /\ Cardinality(DeadOwners \cup {i}) \in Nat
    BY <2>2, <2>3, FS_Subset, FS_CardinalityType
  <2>5. lapses' = lapses + 1
    BY <1>4 DEF Expire
  <2> QED
    BY <1>1, <2>3, <2>4, <2>5
<1> QED
  BY <1>3, <1>4

\* Until somebody wins, nothing changes but who has joined; and who wins has
\* its hook still to return.
LEMMA NobodyStep ==
  ASSUME IsFiniteSet(Instance), IInv, WatchersStarted, Clustered, NobodyWon,
         [CalmNext]_vars
  PROVE  NobodyWon' \/ \E k \in LocalLeader : Won(k)' /\ hook[k] = "electing" /\ hook' = hook
<1> USE ElectionConstants
<1>0. TypeOK /\ FreshHook /\ NothingAnswered /\ AskersJoined
      /\ Cardinality(DeadOwners) <= lapses
  BY DEF IInv, NobodyWon
<1>1. ASSUME UNCHANGED <<sessionId, session, lapses>>
      PROVE  (Cardinality(DeadOwners) <= lapses)'
  BY <1>0, <1>1 DEF DeadOwners
<1>2. ASSUME NEW k \in Instance, Boot(k) PROVE NobodyWon'
  <2>1. AskersJoined'
    BY <1>0, <1>2 DEF Boot, consulVars, AskersJoined, Live, TypeOK
  <2> QED
    BY <1>0, <1>1, <1>2, <2>1 DEF Boot, consulVars, NobodyWon, NothingAnswered, Free
<1>3. ASSUME NEW k \in Instance, StartHook(k) PROVE NobodyWon'
  <2>1. AskersJoined'
    BY <1>0, <1>3 DEF StartHook, consulVars, AskersJoined, FreshHook, Live, TypeOK
  <2> QED
    BY <1>0, <1>1, <1>3, <2>1 DEF StartHook, consulVars, NobodyWon, NothingAnswered, Free
<1>4. ASSUME NEW k \in Instance, CreateSession(k) PROVE NobodyWon'
  <2>1. PICK s \in Session : /\ session[s] = "unused"
                             /\ session' = [session EXCEPT ![s] = "live"]
                             /\ sessionId' = [sessionId EXCEPT ![k] = s]
    BY <1>4 DEF CreateSession, NewSession
  <2>2. \A i \in Instance : i # k /\ sessionId[i] # NoSession
          => /\ sessionId'[i] = sessionId[i]
             /\ session'[sessionId[i]] = session[sessionId[i]]
    BY <1>0, <2>1 DEF TypeOK
  <2>3. sessionId[k] = NoSession /\ sessionId'[k] = s /\ session'[s] = "live"
        /\ s # NoSession /\ \A i \in Instance : i # k => sessionId'[i] = sessionId[i]
    BY <1>0, <1>4, <2>1 DEF CreateSession, FreshHook, TypeOK
  <2>4. DeadOwners' = DeadOwners
    BY <1>0, <2>2, <2>3 DEF DeadOwners
  <2>5. AskersJoined'
    <3> SUFFICES ASSUME NEW i \in Instance
                 PROVE
      /\ hook'[i] \in {"creating", "electing"} => i \in LocalLeader
      /\ hook'[i] = "electing" => asks'[i] = 1 /\ sessionId'[i] # NoSession
      /\ hook'[i] = "done" => ~Live(i)' /\ (i \in LocalLeader => sessionId'[i] # NoSession)
      BY DEF AskersJoined
    <3>1. CASE i = k
      BY <1>0, <1>4, <2>3, <3>1 DEF CreateSession, AskersJoined, TypeOK
    <3>2. CASE i # k
      BY <1>0, <1>4, <2>2, <2>3, <3>2 DEF CreateSession, AskersJoined, Live, TypeOK
    <3> QED
      BY <3>1, <3>2
  <2> QED
    BY <1>0, <1>4, <2>4, <2>5 DEF CreateSession, NobodyWon, NothingAnswered, Free
<1>5. ASSUME NEW k \in Instance, ConsulAcquire(k)
      PROVE  k \in LocalLeader /\ Won(k)' /\ hook[k] = "electing" /\ hook' = hook
  <2>1. hook[k] # "done" /\ hook[k] \notin {"down", "starting", "creating"}
    BY <1>0, <1>5 DEF ConsulAcquire, AskersJoined, FreshHook, Live
  <2>2. hook[k] # "stopping"
    BY <1>0, <1>5 DEF ConsulAcquire, IInv, ConsulOK, Live
  <2>3. hook[k] = "electing" /\ asks[k] = 1 /\ k \in LocalLeader
    BY <1>0, <2>1, <2>2 DEF TypeOK, AskersJoined
  <2>4. answers' = [answers EXCEPT ![k]["granted"] = answers[k]["granted"] + 1]
    BY <1>0, <1>5 DEF ConsulAcquire, NothingAnswered
  <2>5. answers[k]["granted"] = 0 /\ answers[k]["refused"] = 0
    BY <1>0 DEF NothingAnswered, Answer
  <2>6. answers'[k]["granted"] = 1 /\ answers'[k]["refused"] = 0
    <3>1. answers' = [answers EXCEPT ![k]["granted"] = 1]
      BY <2>4, <2>5
    <3>2. answers[k] \in [Answer -> Nat] /\ answers'[k] = [answers[k] EXCEPT !["granted"] = 1]
      BY <1>0, <3>1 DEF TypeOK
    <3> QED
      BY <2>5, <3>2 DEF Answer
  <2> QED
    BY <1>0, <1>5, <2>3, <2>6 DEF ConsulAcquire, Won, TypeOK
<1>6. ASSUME NEW k \in Instance, RefuseDeadSession(k) PROVE NobodyWon'
  <2>1. AskersJoined'
    BY <1>0, <1>6 DEF RefuseDeadSession, AfterAcquireLock, AskersJoined, Live, TypeOK
  <2> QED
    BY <1>0, <1>1, <1>6, <2>1 DEF RefuseDeadSession, NobodyWon, NothingAnswered, Free
<1>7. ASSUME NEW k \in Instance, NEW a \in Answer, Deliver(k, a) PROVE FALSE
  BY <1>0, <1>7 DEF Deliver, NothingAnswered
<1>8. ASSUME NEW k \in Instance, WatchChange(k) PROVE NobodyWon'
  <2>1. hook[k] # "electing"
    BY <1>8 DEF WatchChange, WatchersStarted
  <2>2. AskersJoined'
    BY <1>0, <1>8, <2>1 DEF WatchChange, AsksAgain, AskersJoined, Live, TypeOK
  <2> QED
    BY <1>0, <1>1, <1>8, <2>2 DEF WatchChange, NobodyWon, NothingAnswered, Free
<1>9. ASSUME NEW k \in Instance, OtherKeyWritten(k) PROVE NobodyWon'
  <2>1. AskersJoined'
    BY <1>0, <1>9 DEF OtherKeyWritten, instanceVars, AskersJoined, Live
  <2> QED
    BY <1>0, <1>1, <1>9, <2>1 DEF OtherKeyWritten, instanceVars, NobodyWon, NothingAnswered, Free
<1>10. ASSUME NEW s \in Session, Expire(s) PROVE NobodyWon'
  <2>1. UNCHANGED instanceVars /\ holder' = holder /\ lockDelay' = lockDelay
    BY <1>0, <1>10 DEF Expire, EndSession, NothingAnswered, Free
  <2>2. \A i \in Instance : Live(i)' => Live(i)
    BY <1>0, <1>10, <2>1, EndSessionType DEF Expire, instanceVars, Live, TypeOK
  <2>3. AskersJoined'
    BY <1>0, <2>1, <2>2 DEF instanceVars, AskersJoined
  <2> QED
    BY <1>0, <1>10, <2>1, <2>3, LapsesCounted DEF instanceVars, NobodyWon, NothingAnswered, Free
<1>11. CASE LockDelayOver
  BY <1>0, <1>11 DEF LockDelayOver, NothingAnswered
<1>12. CASE UNCHANGED vars
  <2>1. AskersJoined'
    BY <1>0, <1>12 DEF vars, instanceVars, consulVars, AskersJoined, Live
  <2> QED
    BY <1>0, <1>1, <1>12, <2>1
       DEF vars, instanceVars, consulVars, NobodyWon, NothingAnswered, Free
<1> QED
  BY <1>2, <1>3, <1>4, <1>5, <1>6, <1>7, <1>8, <1>9, <1>10, <1>11, <1>12 DEF CalmNext

LEMMA NobodyInit == IsFiniteSet(Instance) /\ Init => NobodyWon
<1> SUFFICES ASSUME IsFiniteSet(Instance), Init PROVE NobodyWon
  OBVIOUS
<1>1. DeadOwners = {}
  BY DEF Init, DeadOwners
<1>2. Cardinality(DeadOwners) <= lapses
  BY <1>1, FS_EmptySet DEF Init
<1>3. NothingAnswered /\ AskersJoined
  BY DEF Init, NoAnswers, Answer, Free, NothingAnswered, AskersJoined
<1> QED
  BY <1>2, <1>3 DEF NobodyWon

\* Unless as many sessions lapsed as there are local leaders, the hooks of all
\* of them do not return before somebody has won.
LEMMA SomebodyWins ==
  ASSUME IsFiniteSet(Instance), TypeOK, NobodyWon, lapses < Cardinality(LocalLeader),
         \A i \in LocalLeader : hook[i] = "done"
  PROVE  FALSE
<1>1. LocalLeader \subseteq DeadOwners
  BY ElectionConstants DEF NobodyWon, AskersJoined, Live, DeadOwners, TypeOK
<1>2. IsFiniteSet(DeadOwners)
  BY FS_Subset DEF DeadOwners
<1>3. /\ Cardinality(LocalLeader) <= Cardinality(DeadOwners)
      /\ Cardinality(LocalLeader) \in Nat /\ Cardinality(DeadOwners) \in Nat
  BY <1>1, <1>2, FS_Subset, FS_CardinalityType
<1> QED
  BY <1>3, ElectionConstants DEF NobodyWon, TypeOK

(* In single-node mode the constructor made every instance the leader.     *)

LeadersAlone ==
  \A i \in Instance :
    /\ hook[i] \notin {"creating", "electing"} /\ isLeader[i] = TRUE
    /\ asks[i] = 0 /\ ~watching[i] /\ \A a \in Answer : answers[i][a] = 0

LEMMA AloneStep ==
  ASSUME TypeOK, ~Clustered, LeadersAlone, [CalmNext]_vars
  PROVE  LeadersAlone'
<1>1. ASSUME NEW k \in Instance, Boot(k) \/ StartHook(k) PROVE LeadersAlone'
  BY <1>1 DEF Boot, StartHook, LeadersAlone, TypeOK
<1>2. ASSUME NEW k \in Instance,
             \/ CreateSession(k) \/ ConsulAcquire(k) \/ RefuseDeadSession(k)
             \/ WatchChange(k) \/ OtherKeyWritten(k)
             \/ \E a \in Answer : Deliver(k, a)
      PROVE  FALSE
  BY <1>2 DEF CreateSession, ConsulAcquire, RefuseDeadSession, WatchChange,
     OtherKeyWritten, Deliver, LeadersAlone
<1>3. (\E s \in Session : Expire(s)) \/ LockDelayOver \/ UNCHANGED vars => LeadersAlone'
  BY DEF Expire, LockDelayOver, vars, instanceVars, LeadersAlone
<1> QED
  BY <1>1, <1>2, <1>3 DEF CalmNext

LEMMA AloneInit == Init /\ ~Clustered => LeadersAlone
<1> SUFFICES ASSUME Init, ~Clustered PROVE LeadersAlone
  OBVIOUS
<1>1. isLeader = [i \in Instance |-> TRUE]
  BY DEF Init, InitialBelief
<1> QED
  BY <1>1 DEF Init, NoAnswers, Answer, LeadersAlone
=============================================================================
