-------------------------- MODULE CheckFlowProofs --------------------------
(***************************************************************************)
(* TLAPS proofs about CheckFlow, for any number of instances, rounds,      *)
(* checks, crashes, lapses and errors.                                     *)
(***************************************************************************)
EXTENDS CheckFlow, FiniteSetTheorems, TLAPS

-----------------------------------------------------------------------------
(* Types.                                                                  *)

\* A worker that is not idle has a job.
LEMMA WorkUnderWay ==
  ASSUME TypeOK, NEW i \in Instance, worker[i].pc # "idle"
  PROVE  /\ worker[i] \in WorkType /\ worker[i] # NoWork
         /\ worker[i].job = <<RoundOf(i), KindOf(i)>>
         /\ RoundOf(i) \in Round /\ KindOf(i) \in Check \cup {Review}
<1>1. worker[i] \in WorkType
  BY DEF TypeOK, NoWork
<1> QED
  BY <1>1 DEF WorkType, NoWork, Job, RoundOf, KindOf

\* Moving a worker on leaves it the same run of the same job.
LEMMA ReturningWork ==
  ASSUME NEW w \in WorkType, NEW d \in SUBSET Check
  PROVE  /\ Returning(w, d) \in WorkType
         /\ Returning(w, d).job = w.job /\ Returning(w, d).run = w.run
         /\ Returning(w, d).docs = d /\ Returning(w, d).pc = "returned"
  BY DEF Returning, WorkType

LEMMA ThrownWork ==
  ASSUME NEW w \in WorkType
  PROVE  LET t == [w EXCEPT !.pc = "thrown"] IN
         t \in WorkType /\ t.job = w.job /\ t.run = w.run /\ t.pc = "thrown"
  BY DEF WorkType

LEMMA StoringWork ==
  ASSUME NEW w \in WorkType
  PROVE  LET t == [w EXCEPT !.pc = "storing"] IN
         t \in WorkType /\ t.job = w.job /\ t.run = w.run /\ t.pc = "storing"
  BY DEF WorkType

LEMMA InitType == Init => TypeOK
<1> SUFFICES ASSUME Init PROVE TypeOK
  OBVIOUS
<1>1. worker \in [Instance -> WorkType \cup {NoWork}]
  BY DEF Init
<1>2. /\ place \in [Job -> {"absent", "blocked", "waiting", "active", "done", "failed"}]
      /\ stalls \in [Job -> 0..1] /\ lock \in [Job -> Instance \cup {None}]
      /\ values \in [Round -> SUBSET Check]
      /\ documents \in [Round \X Check \X Run -> Nat]
  BY DEF Init
<1>3. /\ saving \in [Instance -> SUBSET (Round \X Check \X Run)]
      /\ cut \subseteq Round \X Check \X Run
      /\ errors \in 0..MaxErrors /\ downs \in 0..MaxDowns /\ lapses \in 0..MaxLapses
  BY FlowConstants DEF Init
<1> QED
  BY <1>1, <1>2, <1>3 DEF TypeOK

LEMMA TypeStep ==
  ASSUME TypeOK, [Next]_vars
  PROVE  TypeOK'
<1> USE FlowConstants
<1>1. ASSUME NEW r \in Round, AddFlow(r) PROVE TypeOK'
  BY <1>1 DEF AddFlow, TypeOK, bounds
<1>2. ASSUME NEW i \in Instance, NEW j \in Job, Fetch(i, j) PROVE TypeOK'
  <2>1. [job |-> j, pc |-> "start", run |-> stalls[j], docs |-> {}] \in WorkType
    BY DEF TypeOK, WorkType, Run
  <2> QED
    BY <1>2, <2>1 DEF Fetch, TypeOK, bounds
<1>3. ASSUME NEW i \in Instance, RunCheck(i) PROVE TypeOK'
  <2>1. worker[i] \in WorkType /\ KindOf(i) \in Check
    BY <1>3, WorkUnderWay DEF RunCheck
  <2>2. worker' \in [Instance -> WorkType \cup {NoWork}]
    <3>1. \A d \in SUBSET Check : Returning(worker[i], d) \in WorkType
      BY <2>1, ReturningWork
    <3>2. worker' = [worker EXCEPT ![i] = Returning(worker[i], {KindOf(i)})] \/
          worker' = [worker EXCEPT ![i] = Returning(worker[i], {})]
      BY <1>3 DEF RunCheck, OnCheckError
    <3> QED
      BY <2>1, <3>1, <3>2 DEF TypeOK
  <2>3. errors' \in 0..MaxErrors
    BY <1>3 DEF RunCheck, Fails, TypeOK
  <2> QED
    BY <1>3, <2>2, <2>3 DEF RunCheck, TypeOK
<1>4. ASSUME NEW i \in Instance, Collect(i) PROVE TypeOK'
  <2>1. worker[i] \in WorkType /\ RoundOf(i) \in Round /\ worker[i].run \in Run
    BY <1>4, WorkUnderWay DEF Collect, WorkType
  <2>2. Collected(RoundOf(i)) \in SUBSET Check
    BY <2>1 DEF Collected, TypeOK
  <2>3. worker' \in [Instance -> WorkType \cup {NoWork}]
    <3>1. /\ Returning(worker[i], {}) \in WorkType
          /\ [worker[i] EXCEPT !.pc = "storing"] \in WorkType
          /\ [worker[i] EXCEPT !.pc = "thrown"] \in WorkType
      BY <2>1, ReturningWork, StoringWork, ThrownWork
    <3> QED
      BY <1>4, <3>1 DEF Collect, TypeOK
  <2>4. errors' \in 0..MaxErrors
    BY <1>4 DEF Collect, Fails, TypeOK
  <2>5. saving' \in [Instance -> SUBSET (Round \X Check \X Run)]
    BY <1>4, <2>1, <2>2 DEF Collect, TypeOK
  <2> QED
    BY <1>4, <2>3, <2>4, <2>5 DEF Collect, TypeOK
<1>5. ASSUME NEW i \in Instance, NEW d \in saving[i], Save(i, d) PROVE TypeOK'
  <2>1. worker' \in [Instance -> WorkType \cup {NoWork}]
    <3>1. ASSUME NEW failed \in BOOLEAN
          PROVE  AfterSave(i, d, failed) \in WorkType \cup {NoWork}
      <4>1. CASE Awaits(i, d)
        <5>1. worker[i] \in WorkType
          BY <4>1, WorkUnderWay DEF Awaits
        <5> QED
          BY <5>1, ReturningWork DEF AfterSave
      <4>2. CASE ~Awaits(i, d)
        BY <4>2 DEF AfterSave, TypeOK
      <4> QED
        BY <4>1, <4>2
    <3> QED
      BY <1>5, <3>1 DEF Save, TypeOK
  <2>2. saving' \in [Instance -> SUBSET (Round \X Check \X Run)]
    BY <1>5 DEF Save, StillSaving, TypeOK
  <2>3. errors' \in 0..MaxErrors
    BY <1>5 DEF Save, Fails, TypeOK
  <2>4. documents' \in [Round \X Check \X Run -> Nat]
    BY <1>5 DEF Save, TypeOK
  <2> QED
    BY <1>5, <2>1, <2>2, <2>3, <2>4 DEF Save, TypeOK
<1>6. ASSUME NEW i \in Instance, Finish(i) PROVE TypeOK'
  <2>1. worker[i] \in WorkType
    BY <1>6, WorkUnderWay DEF Finish
  <2>2. place' \in [Job -> {"absent", "blocked", "waiting", "active", "done", "failed"}]
    BY <1>6, <2>1 DEF Finish, Complete, TypeOK
  <2>3. values' \in [Round -> SUBSET Check]
    BY <1>6, <2>1 DEF Finish, Complete, TypeOK, WorkType
  <2> QED
    BY <1>6, <2>2, <2>3 DEF Finish, TypeOK, bounds
<1>7. ASSUME NEW i \in Instance, Crash(i) PROVE TypeOK'
  BY <1>7 DEF Crash, TypeOK
<1>8. ASSUME NEW i \in Instance, Lapse(i) PROVE TypeOK'
  BY <1>8 DEF Lapse, TypeOK
<1>9. ASSUME NEW j \in Job, Stall(j) PROVE TypeOK'
  BY <1>9 DEF Stall, MayRetry, TypeOK, bounds
<1>10. CASE UNCHANGED vars
  BY <1>10 DEF vars, bounds, TypeOK
<1> QED
  BY <1>1, <1>2, <1>3, <1>4, <1>5, <1>6, <1>7, <1>8, <1>9, <1>10 DEF Next, SaveEnds

\* Every variable keeps its type, and BullMQ takes no job back more than once.
THEOREM TypeCorrect == Spec => []TypeOK
  BY InitType, TypeStep, PTL DEF Spec

-----------------------------------------------------------------------------
(* Locks, runs and documents.                                              *)

Busy(i) == worker[i].pc # "idle"

\* A job whose lock is held is active, and the holder is at it.
LocksAreHeld ==
  \A j \in Job : lock[j] # None => place[j] = "active" /\ worker[lock[j]].job = j

\* Each worker is at a run that has begun, and no two at the same.
RunsAreOwn ==
  \A i \in Instance : Busy(i) =>
    /\ worker[i].run < Begun(worker[i].job)
    /\ \A k \in Instance \ {i} :
         worker[k].job = worker[i].job => worker[k].run # worker[i].run

\* A check returns its own reading or none, and does not throw.
ChecksReturn ==
  \A i \in Instance : Busy(i) /\ KindOf(i) \in Check =>
    /\ worker[i].pc \in {"start", "returned"}
    /\ worker[i].pc = "returned" => worker[i].docs \subseteq {KindOf(i)}

\* The holder of a lock is at the last run of its job.
LocksAreFresh == \A j \in Job : lock[j] # None => worker[lock[j]].run = stalls[j]

\* Nothing is saved before the review's run collects.
ReviewsStartClean ==
  \A i \in Instance : Busy(i) /\ KindOf(i) = Review /\ worker[i].pc = "start" =>
    \A c \in Check : LET d == <<RoundOf(i), c, worker[i].run>> IN
      documents[d] = 0 /\ \A k \in Instance : d \notin saving[k]

\* A save in flight is one process's, and of a reading that its run, which has
\* begun, has not written.
SavesAreOwn ==
  \A i \in Instance : \A d \in saving[i] :
    /\ d[3] < Begun(<<d[1], Review>>) /\ d[2] \in values[d[1]]
    /\ documents[d] = 0
    /\ \A k \in Instance \ {i} : d \notin saving[k]

\* BullMQ lets a review go only when all checks of its round have completed.
ReviewAfterChecks ==
  \A r \in Round :
    \/ place[<<r, Review>>] \in {"waiting", "active", "done", "failed"}
    \/ Begun(<<r, Review>>) > 0
    => \A c \in Check : place[<<r, c>>] = "done"

\* A run writes a reading once at most, and not before it begins.
DocumentsAreBegun ==
  \A r \in Round, c \in Check, n \in Run :
    /\ documents[<<r, c, n>>] <= 1
    /\ documents[<<r, c, n>>] > 0 => n < Begun(<<r, Review>>)

\* The checks of a round whose reading an error has cost, or is about to.
Lost(r) ==
  {c \in Check :
     \/ place[<<r, c>>] = "done" /\ c \notin values[r]
     \/ \E i \in Instance : /\ worker[i].job = <<r, c>> /\ worker[i].pc = "returned"
                            /\ worker[i].docs = {}}

\* What a run of a review has neither saved nor in flight, and no crash cut off.
Missed(r, n) == Unsaved(r, n) \ Adrift(r, n)

LossesAreErrors ==
  /\ \A r \in Round : Cardinality(Lost(r)) <= errors
  /\ \A i \in Instance :
       Busy(i) /\ KindOf(i) = Review /\ worker[i].pc \in {"storing", "returned"} =>
         Cardinality(Missed(RoundOf(i), worker[i].run)) <= errors

\* As long as no call fails, a review waits for all that it has not saved.
ReviewsAwaitSaves ==
  \A i \in Instance : Busy(i) /\ KindOf(i) = Review /\ errors = 0 =>
    /\ worker[i].pc = "storing" => \A c \in Unsaved(RoundOf(i), worker[i].run) :
         <<RoundOf(i), c, worker[i].run>> \in saving[i]
    /\ worker[i].pc = "returned" => Unsaved(RoundOf(i), worker[i].run) = {}

Hygiene ==
  /\ LocksAreHeld /\ LocksAreFresh /\ RunsAreOwn /\ ChecksReturn
  /\ ReviewsStartClean /\ SavesAreOwn /\ ReviewAfterChecks
  /\ DocumentsAreBegun /\ ChecksFailByStallingOnly

LEMMA JobParts ==
  ASSUME NEW j \in Job
  PROVE  /\ j = <<j[1], j[2]>> /\ j # None
         /\ j[1] \in Round /\ j[2] \in Check \cup {Review}
  BY FlowConstants DEF Job

LEMMA WorkerState ==
  ASSUME TypeOK, NEW i \in Instance
  PROVE  IF Busy(i)
         THEN /\ worker[i] \in WorkType /\ worker[i] # NoWork /\ worker[i].job \in Job
              /\ worker[i].run \in Run /\ worker[i].job = <<RoundOf(i), KindOf(i)>>
              /\ RoundOf(i) \in Round /\ KindOf(i) \in Check \cup {Review}
         ELSE worker[i] = NoWork /\ worker[i].job = None
<1>1. CASE Busy(i)
  <2>1. worker[i] \in WorkType
    BY <1>1, WorkUnderWay DEF Busy
  <2> QED
    BY <1>1, <2>1, WorkUnderWay DEF Busy, WorkType
<1>2. CASE ~Busy(i)
  BY <1>2 DEF Busy, TypeOK, WorkType, NoWork
<1> QED
  BY <1>1, <1>2

\* The holder of a lock is busy.
LEMMA HoldersAreBusy ==
  ASSUME TypeOK, LocksAreHeld, NEW j \in Job, NEW i \in Instance, lock[j] = i
  PROVE  place[j] = "active" /\ worker[i].job = j /\ Busy(i)
<1>1. place[j] = "active" /\ worker[i].job = j
  BY FlowConstants DEF LocksAreHeld
<1> QED
  BY <1>1, WorkerState, JobParts

\* A check runs, a review collects, or a save ends.
Handles(i) == RunCheck(i) \/ Collect(i) \/ SaveEnds(i)

\* A save moves on only a review that waits for it.
LEMMA SaveMoves ==
  ASSUME TypeOK, NEW i \in Instance, SaveEnds(i)
  PROVE  /\ \A k \in Instance \ {i} : worker'[k] = worker[k]
         /\ \/ worker'[i] = worker[i]
            \/ /\ Busy(i) /\ KindOf(i) = Review /\ worker[i].pc = "storing"
               /\ worker[i] \in WorkType /\ worker'[i] = Returning(worker[i], {})
<1>1. PICK d \in saving[i] : Save(i, d)
  BY DEF SaveEnds
<1>2. PICK failed \in BOOLEAN : worker' = [worker EXCEPT ![i] = AfterSave(i, d, failed)]
  BY <1>1 DEF Save
<1>3. ASSUME Awaits(i, d)
      PROVE  Busy(i) /\ KindOf(i) = Review /\ worker[i].pc = "storing" /\ worker[i] \in WorkType
  <2>1. Busy(i) /\ worker[i].pc = "storing"
    BY <1>3 DEF Awaits, Busy
  <2> QED
    BY <1>3, <2>1, WorkerState DEF Awaits, KindOf
<1> QED
  BY <1>2, <1>3 DEF AfterSave, TypeOK

\* What a step of the handler leaves of the worker.
LEMMA HandlerMoves ==
  ASSUME TypeOK, NEW i \in Instance, Handles(i)
  PROVE  /\ worker'[i].job = worker[i].job
         /\ \/ worker'[i] = worker[i]
            \/ /\ Busy(i) /\ Busy(i)' /\ worker'[i].pc # "start"
               /\ worker'[i].run = worker[i].run
         /\ \A k \in Instance \ {i} : worker'[k] = worker[k]
         /\ UNCHANGED <<place, stalls, lock, values>>
<1> DEFINE Moved(w) == w.job = worker[i].job /\ w.run = worker[i].run
                      /\ w.pc \in {"returned", "storing", "thrown"}
<1>1. UNCHANGED <<place, stalls, lock, values>>
  BY DEF Handles, RunCheck, Collect, SaveEnds, Save
<1>2. ASSUME RunCheck(i) \/ Collect(i)
      PROVE  Busy(i) /\ worker[i] \in WorkType /\ KindOf(i) \in Check \cup {Review}
  <2>1. Busy(i)
    BY <1>2 DEF RunCheck, Collect, Busy
  <2> QED
    BY <2>1, WorkerState
<1>3. ASSUME RunCheck(i) PROVE \E w : Moved(w) /\ worker' = [worker EXCEPT ![i] = w]
  <2>1. PICK d \in SUBSET Check : worker' = [worker EXCEPT ![i] = Returning(worker[i], d)]
    BY <1>2, <1>3 DEF RunCheck, OnCheckError
  <2> QED
    BY <1>2, <1>3, <2>1, ReturningWork
<1>4. ASSUME Collect(i) PROVE \E w : Moved(w) /\ worker' = [worker EXCEPT ![i] = w]
  <2>1. PICK w \in {Returning(worker[i], {}), [worker[i] EXCEPT !.pc = "storing"],
                    [worker[i] EXCEPT !.pc = "thrown"]} : worker' = [worker EXCEPT ![i] = w]
    BY <1>4 DEF Collect
  <2>2. /\ Moved(Returning(worker[i], {})) /\ Moved([worker[i] EXCEPT !.pc = "storing"])
        /\ Moved([worker[i] EXCEPT !.pc = "thrown"])
    BY <1>2, <1>4, ReturningWork, StoringWork, ThrownWork
  <2> QED
    BY <2>1, <2>2
<1>5. CASE RunCheck(i) \/ Collect(i)
  <2>1. PICK w : Moved(w) /\ worker' = [worker EXCEPT ![i] = w]
    BY <1>3, <1>4, <1>5
  <2>2. worker'[i] = w /\ \A k \in Instance \ {i} : worker'[k] = worker[k]
    BY <2>1 DEF TypeOK
  <2> QED
    BY <1>1, <1>2, <1>5, <2>1, <2>2 DEF Busy
<1>6. CASE SaveEnds(i)
  <2>1. CASE worker'[i] = worker[i]
    BY <1>1, <1>6, <2>1, SaveMoves
  <2>2. CASE Busy(i) /\ worker[i] \in WorkType /\ worker'[i] = Returning(worker[i], {})
    BY <1>1, <1>6, <2>2, SaveMoves, ReturningWork DEF Busy
  <2> QED
    BY <1>6, <2>1, <2>2, SaveMoves
<1> QED
  BY <1>5, <1>6 DEF Handles

\* What the end of a run changes: nothing for a worker that lost its lock.
LEMMA FinishMoves ==
  ASSUME TypeOK, LocksAreHeld, NEW i \in Instance, Finish(i)
  PROVE  LET j == worker[i].job IN
         /\ Busy(i) /\ j \in Job /\ worker[i].pc \in {"returned", "thrown"}
         /\ worker' = [worker EXCEPT ![i] = NoWork]
         /\ lock[j] # i => UNCHANGED <<place, lock, values>>
         /\ lock[j] = i =>
              /\ place[j] = "active" /\ lock' = [lock EXCEPT ![j] = None]
              /\ place'[j] = IF worker[i].pc = "returned" THEN "done" ELSE "failed"
              /\ \A q \in Job \ {j} :
                   \/ place'[q] = place[q]
                   \/ /\ q = <<j[1], Review>> /\ place[q] = "blocked" /\ place'[q] = "waiting"
                      /\ \A c \in Check : place'[<<j[1], c>>] = "done"
              /\ values' = IF worker[i].pc = "thrown" \/ j[2] = Review THEN values
                           ELSE [values EXCEPT ![j[1]] = @ \cup worker[i].docs]
<1> DEFINE j == worker[i].job
<1>1. Busy(i) /\ worker[i].pc \in {"returned", "thrown"}
  BY DEF Finish, Busy
<1>2. j \in Job /\ j = <<j[1], j[2]>> /\ j[1] \in Round /\ j[2] \in Check \cup {Review}
  BY <1>1, WorkerState, JobParts
<1>3. <<j[1], Review>> \in Job /\ \A c \in Check : <<j[1], c>> \in Job /\ <<j[1], c>> # <<j[1], Review>>
  BY <1>2, FlowConstants DEF Job
<1>4. ASSUME lock[j] = i PROVE place[j] = "active"
  BY <1>2, <1>4, HoldersAreBusy
<1>5. ASSUME lock[j] = i, worker[i].pc = "returned"
      PROVE  /\ place'[j] = "done"
             /\ \A q \in Job \ {j} :
                   \/ place'[q] = place[q]
                   \/ /\ q = <<j[1], Review>> /\ place[q] = "blocked" /\ place'[q] = "waiting"
                      /\ \A c \in Check : place'[<<j[1], c>>] = "done"
  <2> DEFINE v == <<j[1], Review>>
  <2>1. place' = [place EXCEPT ![j] = "done",
                    ![v] = IF @ = "blocked" /\ AllAnswered(j) THEN "waiting" ELSE @]
    BY <1>5 DEF Finish, Complete
  <2>2. DOMAIN place = Job
    BY DEF TypeOK
  <2>3. CASE j = v
    <3>1. place'[j] = "done" /\ \A q \in Job \ {j} : place'[q] = place[q]
      BY <1>2, <2>1, <2>2, <2>3
    <3> QED
      BY <3>1
  <2>4. CASE j # v
    <3>1. place'[j] = "done" /\ \A q \in Job \ {j, v} : place'[q] = place[q]
      BY <1>2, <2>1, <2>2, <2>4
    <3>2. place'[v] = IF place[v] = "blocked" /\ AllAnswered(j) THEN "waiting" ELSE place[v]
      BY <1>2, <1>3, <2>1, <2>2, <2>4
    <3>3. ASSUME AllAnswered(j) PROVE \A c \in Check : place'[<<j[1], c>>] = "done"
      BY <1>3, <3>1, <3>3 DEF AllAnswered
    <3> QED
      BY <3>1, <3>2, <3>3
  <2> QED
    BY <2>3, <2>4
<1>6. ASSUME lock[j] = i, worker[i].pc = "thrown"
      PROVE  place'[j] = "failed" /\ \A q \in Job \ {j} : place'[q] = place[q]
  BY <1>2, <1>6 DEF Finish, TypeOK
<1>7. worker' = [worker EXCEPT ![i] = NoWork]
  BY DEF Finish
<1>8. ASSUME lock[j] # i PROVE UNCHANGED <<place, lock, values>>
  BY <1>8 DEF Finish
<1>9. ASSUME lock[j] = i
      PROVE  /\ lock' = [lock EXCEPT ![j] = None]
             /\ values' = IF worker[i].pc = "thrown" \/ j[2] = Review THEN values
                          ELSE [values EXCEPT ![j[1]] = @ \cup worker[i].docs]
  BY <1>1, <1>9 DEF Finish, Complete
<1> QED
  BY <1>1, <1>2, <1>4, <1>5, <1>6, <1>7, <1>8, <1>9

\* Only a fetch begins a run; whatever else a job goes through, it counts the same.
LEMMA BegunStep ==
  ASSUME TypeOK, LocksAreHeld, [Next]_vars, NEW q \in Job
  PROVE  /\ Begun(q) \in 0..2
         /\ \/ Begun(q)' = Begun(q)
            \/ /\ \E i \in Instance : Fetch(i, q)
               /\ Begun(q) = stalls[q] /\ Begun(q)' = Begun(q) + 1
<1> DEFINE Same == Begun(q)' = Begun(q)
<1>1. Begun(q) \in 0..2
  BY DEF TypeOK, Begun
<1>2. ASSUME NEW r \in Round, AddFlow(r) PROVE Same
  <2>1. q = <<q[1], q[2]>> /\ q[2] \in Check \cup {Review}
    BY JobParts
  <2>2. q[1] = r => place[q] = "absent"
    BY <1>2, <2>1 DEF AddFlow
  <2> QED
    BY <1>2, <2>2 DEF AddFlow, Begun
<1>3. ASSUME NEW i \in Instance, NEW j \in Job, Fetch(i, j)
      PROVE  Same \/ (q = j /\ Begun(q) = stalls[q] /\ Begun(q)' = Begun(q) + 1)
  BY <1>3 DEF Fetch, Begun, TypeOK
<1>4. ASSUME NEW i \in Instance, Handles(i)
      PROVE  Same
  BY <1>4, HandlerMoves DEF Begun
<1>5. ASSUME NEW i \in Instance, Finish(i) PROVE Same
  <2>1. UNCHANGED stalls
    BY <1>5 DEF Finish
  <2>2. UNCHANGED place \/ (place[q] = "active" /\ place'[q] \in {"done", "failed"})
          \/ place'[q] = place[q] \/ (place[q] = "blocked" /\ place'[q] = "waiting")
    BY <1>5, FinishMoves
  <2> QED
    BY <2>1, <2>2 DEF Begun
<1>6. ASSUME NEW i \in Instance, Crash(i) \/ Lapse(i) PROVE Same
  BY <1>6 DEF Crash, Lapse, Begun
<1>7. ASSUME NEW j \in Job, Stall(j) PROVE Same
  BY <1>7 DEF Stall, MayRetry, Begun, TypeOK
<1>8. ASSUME UNCHANGED vars PROVE Same
  <2>1. UNCHANGED <<place, stalls>>
    BY <1>8 DEF vars
  <2> QED
    BY <2>1 DEF Begun
<1> QED
  BY <1>1, <1>2, <1>3, <1>4, <1>5, <1>6, <1>7, <1>8 DEF Next, Handles

LEMMA LocksStep ==
  ASSUME TypeOK, LocksAreHeld, [Next]_vars
  PROVE  LocksAreHeld'
<1> SUFFICES ASSUME NEW q \in Job, lock'[q] # None
             PROVE  place'[q] = "active" /\ worker'[lock'[q]].job = q
  BY DEF LocksAreHeld
<1> DEFINE Goal == place'[q] = "active" /\ worker'[lock'[q]].job = q
           Kept == lock'[q] = lock[q]
<1>1. ASSUME Kept
      PROVE  lock[q] \in Instance /\ place[q] = "active" /\ worker[lock[q]].job = q
  BY <1>1 DEF LocksAreHeld, TypeOK
<1>2. ASSUME NEW r \in Round, AddFlow(r) PROVE Goal
  <2>1. q = <<q[1], q[2]>> /\ q[2] \in Check \cup {Review}
    BY JobParts
  <2>2. Kept /\ UNCHANGED worker
    BY <1>2 DEF AddFlow
  <2>3. q[1] # r
    BY <1>1, <1>2, <2>1, <2>2 DEF AddFlow
  <2> QED
    BY <1>1, <1>2, <2>2, <2>3 DEF AddFlow
<1>3. ASSUME NEW i \in Instance, NEW j \in Job, Fetch(i, j) PROVE Goal
  <2>1. CASE q = j
    <3>1. lock'[q] = i /\ place'[q] = "active" /\ worker'[i].job = q
      BY <1>3, <2>1 DEF Fetch, TypeOK
    <3> QED
      BY <3>1
  <2>2. CASE q # j
    <3>1. Kept /\ place'[q] = place[q] /\ \A k \in Instance \ {i} : worker'[k] = worker[k]
      BY <1>3, <2>2 DEF Fetch, TypeOK
    <3>2. lock[q] # i
      BY <1>3, HoldersAreBusy DEF Fetch, Busy, NoWork
    <3> QED
      BY <1>1, <3>1, <3>2
  <2> QED
    BY <2>1, <2>2
<1>4. ASSUME NEW i \in Instance, Handles(i)
      PROVE  Goal
  BY <1>1, <1>4, HandlerMoves
<1>5. ASSUME NEW i \in Instance, Finish(i) PROVE Goal
  <2>1. /\ worker[i].job \in Job /\ \A k \in Instance \ {i} : worker'[k] = worker[k]
    BY <1>5, FinishMoves DEF TypeOK
  <2>2. CASE lock[worker[i].job] # i
    <3>1. Kept /\ place'[q] = place[q]
      BY <1>5, <2>2, FinishMoves
    <3>2. lock[q] # i
      BY <1>1, <2>2, <3>1
    <3> QED
      BY <1>1, <2>1, <3>1, <3>2
  <2>3. CASE lock[worker[i].job] = i
    <3>1. lock' = [lock EXCEPT ![worker[i].job] = None]
      BY <1>5, <2>3, FinishMoves
    <3>2. q # worker[i].job /\ Kept
      BY <2>1, <3>1 DEF TypeOK
    <3>3. place'[q] = place[q] \/ place[q] = "blocked"
      BY <1>5, <2>3, <3>2, FinishMoves
    <3>4. lock[q] # i
      BY <1>1, <3>2
    <3> QED
      BY <1>1, <2>1, <3>2, <3>3, <3>4
  <2> QED
    BY <2>2, <2>3
<1>6. ASSUME NEW i \in Instance, Crash(i) PROVE Goal
  <2>1. Kept /\ lock[q] # i /\ place'[q] = place[q]
        /\ \A k \in Instance \ {i} : worker'[k] = worker[k]
    BY <1>6 DEF Crash, TypeOK
  <2> QED
    BY <1>1, <2>1
<1>7. ASSUME NEW i \in Instance, Lapse(i) PROVE Goal
  <2>1. Kept /\ UNCHANGED <<place, worker>>
    BY <1>7 DEF Lapse, TypeOK
  <2> QED
    BY <1>1, <2>1
<1>8. ASSUME NEW j \in Job, Stall(j) PROVE Goal
  <2>1. Kept /\ UNCHANGED worker
    BY <1>8 DEF Stall
  <2>2. q # j
    BY <1>8, <2>1 DEF Stall
  <2> QED
    BY <1>1, <1>8, <2>1, <2>2 DEF Stall, TypeOK
<1>9. CASE UNCHANGED vars
  BY <1>1, <1>9 DEF vars
<1> QED
  BY <1>2, <1>3, <1>4, <1>5, <1>6, <1>7, <1>8, <1>9 DEF Next, Handles

\* A worker is where it was, or gone, or has moved on, or has just fetched.
LEMMA WorkerStep ==
  ASSUME TypeOK, LocksAreHeld, [Next]_vars, NEW k \in Instance, Busy(k)'
  PROVE  \/ worker'[k] = worker[k] /\ Busy(k)
         \/ /\ Busy(k) /\ worker'[k].pc # "start"
            /\ worker'[k].job = worker[k].job /\ worker'[k].run = worker[k].run
            /\ Handles(k)
         \/ /\ ~Busy(k) /\ \E j \in Job : Fetch(k, j) /\ worker'[k] =
                 [job |-> j, pc |-> "start", run |-> stalls[j], docs |-> {}]
<1> DEFINE Kept == worker'[k] = worker[k] /\ Busy(k)
<1>1. ASSUME worker'[k] = worker[k] PROVE Kept
  BY <1>1 DEF Busy
<1>2. ASSUME NEW i \in Instance, NEW j \in Job, Fetch(i, j), k # i PROVE Kept
  BY <1>1, <1>2 DEF Fetch, TypeOK
<1>3. ASSUME NEW j \in Job, Fetch(k, j)
      PROVE  ~Busy(k) /\ worker'[k] =
                 [job |-> j, pc |-> "start", run |-> stalls[j], docs |-> {}]
  BY <1>3 DEF Fetch, TypeOK, Busy, NoWork
<1>4. ASSUME NEW i \in Instance, Finish(i) \/ Crash(i) PROVE Kept
  <2>1. worker' = [worker EXCEPT ![i] = NoWork]
    BY <1>4 DEF Finish, Crash
  <2> QED
    BY <1>1, <2>1 DEF TypeOK, Busy, NoWork
<1>5. ASSUME NEW i \in Instance, Handles(i), i # k
      PROVE Kept
  BY <1>1, <1>5, HandlerMoves
<1>6. ASSUME Handles(k)
      PROVE \/ Kept
            \/ /\ Busy(k) /\ worker'[k].pc # "start"
               /\ worker'[k].job = worker[k].job /\ worker'[k].run = worker[k].run
  BY <1>1, <1>6, HandlerMoves
<1>7. ASSUME UNCHANGED worker PROVE Kept
  BY <1>1, <1>7
<1>8. ASSUME (\E r \in Round : AddFlow(r)) \/ (\E i \in Instance : Lapse(i))
             \/ (\E j \in Job : Stall(j)) \/ UNCHANGED vars
      PROVE  UNCHANGED worker
  BY <1>8 DEF AddFlow, Lapse, Stall, vars
<1> QED
  BY <1>2, <1>3, <1>4, <1>5, <1>6, <1>7, <1>8 DEF Next, Handles

\* The documents change only by a save that ends.
LEMMA DocumentsStep ==
  ASSUME TypeOK, [Next]_vars
  PROVE  \/ UNCHANGED documents
         \/ \E i \in Instance : \E d \in saving[i] :
              Save(i, d) /\ documents' = [documents EXCEPT ![d] = @ + 1]
BY DEF Next, AddFlow, Fetch, RunCheck, Collect, SaveEnds, Save, Finish, Crash, Lapse, Stall,
       vars

\* A worker's run is new at its job: whoever else is at the job began before.
LEMMA RunsStep ==
  ASSUME TypeOK, LocksAreHeld, RunsAreOwn, [Next]_vars
  PROVE  RunsAreOwn'
<1> DEFINE BegunNow(q) ==
             stalls'[q] + (IF place'[q] \in {"active", "done", "failed"} THEN 1 ELSE 0)
<1> SUFFICES ASSUME NEW i \in Instance, Busy(i)'
             PROVE  /\ worker'[i].run < BegunNow(worker'[i].job)
                    /\ \A k \in Instance \ {i} :
                         worker'[k].job = worker'[i].job => worker'[k].run # worker'[i].run
  BY DEF RunsAreOwn, Begun
<1> DEFINE Stays(k) == Busy(k) /\ worker'[k].job = worker[k].job /\ worker'[k].run = worker[k].run
           Fetched(k) == /\ ~Busy(k)
                         /\ \E j \in Job : Fetch(k, j) /\ worker'[k] =
                             [job |-> j, pc |-> "start", run |-> stalls[j], docs |-> {}]
<1>1. \A k \in Instance : Busy(k)' => Stays(k) \/ Fetched(k)
  BY WorkerStep
<1>2. TypeOK'
  BY TypeStep
<1>3. \A k \in Instance : worker'[k].job \in Job => Busy(k)'
  <2> SUFFICES ASSUME NEW k \in Instance, ~Busy(k)' PROVE worker'[k].job \notin Job
    OBVIOUS
  <2>1. worker'[k] = NoWork
    BY <1>2 DEF TypeOK, Busy, WorkType
  <2> QED
    BY <2>1, FlowConstants DEF NoWork, Job
<1>4. \A k \in Instance : Stays(k) =>
        /\ worker[k].job \in Job /\ worker[k].run \in Nat
        /\ worker[k].run < Begun(worker[k].job)
  BY WorkerState DEF RunsAreOwn, Run
<1>5. \A q \in Job : BegunNow(q) \in Nat /\ Begun(q) \in Nat /\ Begun(q) <= BegunNow(q)
  <2> SUFFICES ASSUME NEW q \in Job
               PROVE  BegunNow(q) \in Nat /\ Begun(q) \in Nat /\ Begun(q) <= BegunNow(q)
    OBVIOUS
  <2>1. BegunNow(q) = Begun(q)'
    BY DEF Begun
  <2> QED
    BY <2>1, BegunStep
<1>6. ASSUME NEW k \in Instance, Fetched(k)
      PROVE  /\ worker'[k].job \in Job
             /\ worker'[k].run = Begun(worker'[k].job)
             /\ worker'[k].run < BegunNow(worker'[k].job)
  <2>1. PICK j \in Job : Fetch(k, j) /\ worker'[k] =
                 [job |-> j, pc |-> "start", run |-> stalls[j], docs |-> {}]
    BY <1>6
  <2>2. Begun(j) = stalls[j] /\ BegunNow(j) = stalls[j] + 1 /\ stalls[j] \in Nat
    BY <2>1 DEF Fetch, Begun, TypeOK
  <2> QED
    BY <2>1, <2>2
<1>7. worker'[i].run < BegunNow(worker'[i].job)
  <2>1. CASE Stays(i)
    <3>1. worker[i].job \in Job /\ worker[i].run \in Nat /\ worker[i].run < Begun(worker[i].job)
      BY <1>4, <2>1
    <3>2. Begun(worker[i].job) \in Nat /\ Begun(worker[i].job) <= BegunNow(worker[i].job)
          /\ BegunNow(worker[i].job) \in Nat
      BY <1>5, <3>1
    <3>3. worker[i].run < BegunNow(worker[i].job)
      <4> HIDE DEF BegunNow
      <4> QED
        BY <3>1, <3>2
    <3> QED
      BY <2>1, <3>3
  <2>2. CASE Fetched(i)
    BY <1>6, <2>2
  <2> QED
    BY <1>1, <2>1, <2>2
<1>8. ASSUME NEW k \in Instance \ {i}, worker'[k].job = worker'[i].job
      PROVE  worker'[k].run # worker'[i].run
  <2>1. Busy(k)'
    <3>1. worker'[i].job \in Job
      BY <1>1, <1>4, <1>6
    <3> QED
      BY <1>3, <1>8, <3>1
  <2>2. CASE Stays(i) /\ Stays(k)
    BY <1>8, <2>2 DEF RunsAreOwn
  <2>3. ASSUME NEW a \in Instance, NEW b \in Instance, Stays(a), Fetched(b),
               worker'[a].job = worker'[b].job
        PROVE  worker'[a].run # worker'[b].run
    <3>1. worker[a].run \in Nat /\ worker[a].run < Begun(worker[a].job)
      BY <1>4, <2>3
    <3>2. worker'[b].run = Begun(worker'[b].job)
      BY <1>6, <2>3
    <3>3. worker'[b].job = worker[a].job /\ worker'[a].run = worker[a].run
      BY <2>3
    <3>4. worker'[b].run = Begun(worker[a].job)
      BY <3>2, <3>3
    <3> QED
      BY <3>1, <3>3, <3>4
  <2>4. ~(Fetched(i) /\ Fetched(k))
    <3> SUFFICES ASSUME Fetched(i), Fetched(k) PROVE FALSE
      OBVIOUS
    <3>1. PICK j \in Job : Fetch(i, j)
      OBVIOUS
    <3>2. worker'[k] = worker[k]
      BY <3>1 DEF Fetch, TypeOK
    <3> QED
      BY <2>1, <3>2 DEF Busy
  <2> QED
    <3>1. CASE Stays(i) /\ Fetched(k)
      BY <1>8, <2>3, <3>1
    <3>2. CASE Fetched(i) /\ Stays(k)
      BY <1>8, <2>3, <3>2
    <3> QED
      BY <1>1, <2>1, <2>2, <3>1, <3>2, <2>4
<1> QED
  BY <1>7, <1>8

\* The places a job goes through.
LEMMA PlaceStep ==
  ASSUME TypeOK, LocksAreHeld, [Next]_vars, NEW q \in Job
  PROVE  \/ place'[q] = place[q]
         \/ place[q] = "absent" /\ place'[q] = IF q[2] = Review THEN "blocked" ELSE "waiting"
         \/ /\ place[q] = "blocked" /\ place'[q] = "waiting" /\ q[2] = Review
            /\ \A c \in Check : place'[<<q[1], c>>] = "done"
         \/ place[q] = "waiting" /\ place'[q] = "active"
         \/ place[q] = "active" /\ place'[q] = "waiting"
         \/ place[q] = "active" /\ place'[q] = "failed" /\ stalls[q] = 1
         \/ /\ place[q] = "active"
            /\ \E i \in Instance :
                 /\ Finish(i) /\ worker[i].job = q
                 /\ place'[q] = IF worker[i].pc = "returned" THEN "done" ELSE "failed"
<1> DEFINE Kept == place'[q] = place[q]
<1>1. ASSUME NEW r \in Round, AddFlow(r)
      PROVE  \/ Kept
             \/ /\ place[q] = "absent"
                /\ place'[q] = IF q[2] = Review THEN "blocked" ELSE "waiting"
  <2>1. q = <<q[1], q[2]>> /\ q[2] \in Check \cup {Review}
    BY JobParts
  <2>2. q[1] = r => place[q] = "absent"
    BY <1>1, <2>1 DEF AddFlow
  <2>3. place'[q] = IF q[1] # r THEN place[q] ELSE IF q[2] = Review THEN "blocked" ELSE "waiting"
    BY <1>1 DEF AddFlow
  <2> QED
    BY <2>2, <2>3
<1>2. ASSUME NEW i \in Instance, NEW j \in Job, Fetch(i, j)
      PROVE  Kept \/ (place[q] = "waiting" /\ place'[q] = "active")
  BY <1>2 DEF Fetch, TypeOK
<1>3. ASSUME NEW i \in Instance, Finish(i)
      PROVE  \/ Kept
             \/ /\ place[q] = "blocked" /\ place'[q] = "waiting" /\ q[2] = Review
                /\ \A c \in Check : place'[<<q[1], c>>] = "done"
             \/ /\ place[q] = "active" /\ Finish(i) /\ worker[i].job = q
                /\ place'[q] = IF worker[i].pc = "returned" THEN "done" ELSE "failed"
  <2> DEFINE j == worker[i].job
  <2>1. CASE lock[j] # i
    BY <1>3, <2>1, FinishMoves
  <2>2. CASE lock[j] = i /\ q = j
    BY <1>3, <2>2, FinishMoves
  <2>3. CASE lock[j] = i /\ q # j
    <3>1. \/ Kept
          \/ /\ q = <<j[1], Review>> /\ place[q] = "blocked" /\ place'[q] = "waiting"
             /\ \A c \in Check : place'[<<j[1], c>>] = "done"
      BY <1>3, <2>3, FinishMoves
    <3> QED
      BY <3>1
  <2> QED
    BY <2>1, <2>2, <2>3
<1>4. ASSUME NEW j \in Job, Stall(j)
      PROVE  \/ Kept
             \/ place[q] = "active" /\ place'[q] = "waiting"
             \/ place[q] = "active" /\ place'[q] = "failed" /\ stalls[q] = 1
  BY <1>4 DEF Stall, MayRetry, TypeOK
<1>5. ASSUME NEW i \in Instance, Handles(i)
      PROVE  Kept
  BY <1>5, HandlerMoves
<1>6. ASSUME (\E i \in Instance : Crash(i) \/ Lapse(i)) \/ UNCHANGED vars
      PROVE  Kept
  BY <1>6 DEF Crash, Lapse, vars
<1> QED
  BY <1>1, <1>2, <1>3, <1>4, <1>5, <1>6 DEF Next, Handles

LEMMA AfterChecksStep ==
  ASSUME TypeOK, LocksAreHeld, ReviewAfterChecks, [Next]_vars
  PROVE  ReviewAfterChecks'
<1> SUFFICES ASSUME NEW r \in Round, NEW c \in Check,
                    \/ place'[<<r, Review>>] \in {"waiting", "active", "done", "failed"}
                    \/ Begun(<<r, Review>>)' > 0
             PROVE  place'[<<r, c>>] = "done"
  BY DEF ReviewAfterChecks
<1> DEFINE v == <<r, Review>>
<1>1. v \in Job /\ <<r, c>> \in Job
  BY DEF Job
<1>2. place[<<r, c>>] = "done" => place'[<<r, c>>] = "done"
  BY <1>1, PlaceStep
<1>3. place'[v] \in {"waiting", "active", "done", "failed"} =>
        \/ place[v] \in {"waiting", "active", "done", "failed"}
        \/ \A d \in Check : place'[<<r, d>>] = "done"
  BY <1>1, PlaceStep
<1>4. Begun(v)' > 0 => Begun(v) > 0 \/ place[v] = "waiting"
  BY <1>1, BegunStep DEF Fetch
<1> QED
  BY <1>2, <1>3, <1>4 DEF ReviewAfterChecks

LEMMA ReturnStep ==
  ASSUME TypeOK, LocksAreHeld, ChecksReturn, [Next]_vars
  PROVE  ChecksReturn'
<1> SUFFICES ASSUME NEW i \in Instance, Busy(i)', KindOf(i)' \in Check
             PROVE  /\ worker'[i].pc \in {"start", "returned"}
                    /\ worker'[i].pc = "returned" => worker'[i].docs \subseteq {KindOf(i)'}
  BY DEF ChecksReturn
<1>1. CASE worker'[i] = worker[i] /\ Busy(i)
  BY <1>1 DEF ChecksReturn, KindOf
<1>2. CASE /\ Busy(i) /\ worker'[i].job = worker[i].job
           /\ Handles(i)
  <2>1. KindOf(i)' = KindOf(i) /\ KindOf(i) \in Check /\ worker[i] \in WorkType
    BY <1>2, WorkerState DEF KindOf
  <2>2. RunCheck(i) \/ worker'[i] = worker[i]
    BY <1>2, <2>1, SaveMoves, FlowConstants DEF Handles, Collect
  <2>3. ASSUME RunCheck(i)
        PROVE  \/ worker'[i] = Returning(worker[i], {KindOf(i)})
               \/ worker'[i] = Returning(worker[i], {})
    BY <2>3 DEF RunCheck, OnCheckError, TypeOK
  <2>4. CASE RunCheck(i)
    BY <2>1, <2>3, <2>4, ReturningWork
  <2> QED
    BY <1>1, <1>2, <2>2, <2>4
<1>3. CASE \E j \in Job : worker'[i] =
                 [job |-> j, pc |-> "start", run |-> stalls[j], docs |-> {}]
  BY <1>3
<1> QED
  BY <1>1, <1>2, <1>3, WorkerStep

LEMMA FailStep ==
  ASSUME TypeOK, LocksAreHeld, ChecksReturn, ChecksFailByStallingOnly, [Next]_vars
  PROVE  ChecksFailByStallingOnly'
<1> SUFFICES ASSUME NEW r \in Round, NEW c \in Check, place'[<<r, c>>] = "failed"
             PROVE  stalls'[<<r, c>>] = 1
  BY DEF ChecksFailByStallingOnly
<1> DEFINE q == <<r, c>>
<1>1. q \in Job /\ q[2] = c /\ q[2] # Review
  BY FlowConstants DEF Job
<1>2. ASSUME NEW i \in Instance, Finish(i), worker[i].job = q
      PROVE  worker[i].pc = "returned"
  BY <1>1, <1>2 DEF Finish, ChecksReturn, Busy, KindOf
<1>3. place[q] = "failed" \/ (place[q] = "active" /\ stalls[q] = 1)
  BY <1>1, <1>2, PlaceStep
<1>4. stalls[q] = 1
  BY <1>3 DEF ChecksFailByStallingOnly
<1>5. stalls'[q] = stalls[q]
  <2>1. ASSUME NEW j \in Job, Stall(j) PROVE stalls'[q] = stalls[q]
    BY <1>1, <1>4, <2>1 DEF Stall, MayRetry, TypeOK
  <2>2. ASSUME NEW i \in Instance, Handles(i)
        PROVE  UNCHANGED stalls
    BY <2>2, HandlerMoves
  <2>3. ASSUME NEW i \in Instance, Finish(i) \/ Crash(i) \/ Lapse(i) PROVE UNCHANGED stalls
    BY <2>3 DEF Finish, Crash, Lapse
  <2>4. ASSUME (\E s \in Round : AddFlow(s)) \/ (\E i \in Instance, j \in Job : Fetch(i, j))
               \/ UNCHANGED vars
        PROVE  UNCHANGED stalls
    BY <2>4 DEF AddFlow, Fetch, vars
  <2> QED
    BY <2>1, <2>2, <2>3, <2>4 DEF Next, Handles
<1> QED
  BY <1>4, <1>5

LEMMA SaveParts ==
  ASSUME TypeOK, NEW i \in Instance, NEW d \in saving[i]
  PROVE  /\ d \in Round \X Check \X Run /\ d = <<d[1], d[2], d[3]>>
         /\ d[1] \in Round /\ d[2] \in Check /\ d[3] \in Run
<1>1. d \in Round \X Check \X Run
  BY DEF TypeOK
<1> QED
  BY <1>1

LEMMA Collects ==
  ASSUME TypeOK, NEW i \in Instance, Collect(i)
  PROVE  /\ Busy(i) /\ worker[i].pc = "start" /\ KindOf(i) = Review /\ worker[i] \in WorkType
         /\ RoundOf(i) \in Round /\ worker[i].run \in Run
         /\ worker[i].job = <<RoundOf(i), Review>> /\ worker[i].job \in Job
         /\ values[RoundOf(i)] \in SUBSET Check /\ worker'[i].pc # "start"
<1>1. Busy(i)
  BY DEF Collect, Busy
<1>2. worker[i] \in WorkType
  BY <1>1, WorkerState
<1>3. worker'[i] \in {Returning(worker[i], {}), [worker[i] EXCEPT !.pc = "storing"],
                      [worker[i] EXCEPT !.pc = "thrown"]}
  BY DEF Collect, TypeOK
<1>4. worker'[i].pc # "start"
  <2>1. /\ Returning(worker[i], {}).pc # "start"
        /\ [worker[i] EXCEPT !.pc = "storing"].pc # "start"
        /\ [worker[i] EXCEPT !.pc = "thrown"].pc # "start"
    BY <1>2, ReturningWork, StoringWork, ThrownWork
  <2> QED
    BY <1>3, <2>1
<1> QED
  BY <1>1, <1>4, WorkerState DEF Collect, TypeOK

\* Only a review that collects has new saves in flight, one for each reading.
LEMMA SavingStep ==
  ASSUME TypeOK, [Next]_vars, NEW k \in Instance, NEW d \in saving'[k]
  PROVE  \/ d \in saving[k]
         \/ /\ Collect(k)
            /\ \E c \in values[RoundOf(k)] : d = <<RoundOf(k), c, worker[k].run>>
<1>1. ASSUME NEW i \in Instance, Collect(i)
      PROVE  \/ d \in saving[k]
             \/ k = i /\ \E c \in values[RoundOf(i)] : d = <<RoundOf(i), c, worker[i].run>>
  BY <1>1 DEF Collect, Collected, TypeOK
<1>2. ASSUME NEW i \in Instance, SaveEnds(i) \/ Crash(i) PROVE d \in saving[k]
  BY <1>2 DEF SaveEnds, Save, StillSaving, Crash, TypeOK
<1>3. ASSUME \/ \E r \in Round : AddFlow(r)
             \/ \E i \in Instance : \/ \E j \in Job : Fetch(i, j)
                                    \/ RunCheck(i) \/ Finish(i) \/ Lapse(i)
             \/ \E j \in Job : Stall(j)
             \/ UNCHANGED vars
      PROVE  UNCHANGED saving
  BY <1>3 DEF AddFlow, Fetch, RunCheck, Finish, Lapse, Stall, vars
<1> QED
  BY <1>1, <1>2, <1>3 DEF Next

\* Readings are only ever added to what Redis keeps for a review.
LEMMA ValuesGrow ==
  ASSUME TypeOK, LocksAreHeld, [Next]_vars, NEW r \in Round
  PROVE  values[r] \subseteq values'[r]
<1>1. ASSUME NEW i \in Instance, Finish(i) PROVE values[r] \subseteq values'[r]
  <2> DEFINE j == worker[i].job
  <2>1. CASE values' = values
    BY <2>1
  <2>2. CASE values' = [values EXCEPT ![j[1]] = @ \cup worker[i].docs]
    BY <2>2 DEF TypeOK
  <2> QED
    BY <1>1, <2>1, <2>2, FinishMoves
<1>2. ASSUME NEW i \in Instance, Handles(i)
      PROVE  UNCHANGED values
  BY <1>2, HandlerMoves
<1>3. ASSUME \/ \E s \in Round : AddFlow(s)
             \/ \E i \in Instance : (\E j \in Job : Fetch(i, j)) \/ Crash(i) \/ Lapse(i)
             \/ \E j \in Job : Stall(j)
             \/ UNCHANGED vars
      PROVE  UNCHANGED values
  BY <1>3 DEF AddFlow, Fetch, Crash, Lapse, Stall, vars
<1> QED
  BY <1>1, <1>2, <1>3 DEF Next, Handles

LEMMA FreshStep ==
  ASSUME TypeOK, LocksAreHeld, LocksAreFresh, [Next]_vars
  PROVE  LocksAreFresh'
<1> SUFFICES ASSUME NEW q \in Job, NEW i \in Instance, lock'[q] = i
             PROVE  worker'[i].run = stalls'[q]
  <2>1. TypeOK'
    BY TypeStep
  <2> QED
    BY <2>1 DEF LocksAreFresh, TypeOK
<1>1. worker'[i].job = q /\ Busy(i)'
  <2>1. TypeOK' /\ LocksAreHeld'
    BY TypeStep, LocksStep
  <2>2. worker'[i].job = q
    BY <2>1, FlowConstants DEF LocksAreHeld
  <2>3. worker'[i] # NoWork
    BY <2>2, JobParts DEF NoWork
  <2>4. worker'[i] \in WorkType
    BY <2>1, <2>3 DEF TypeOK
  <2> QED
    BY <2>2, <2>4 DEF WorkType, Busy
<1>2. ASSUME NEW j \in Job, Fetch(i, j), worker'[i] =
               [job |-> j, pc |-> "start", run |-> stalls[j], docs |-> {}]
      PROVE  worker'[i].run = stalls'[q]
  BY <1>1, <1>2 DEF Fetch
<1>3. ASSUME Busy(i), worker'[i].job = worker[i].job, worker'[i].run = worker[i].run
      PROVE  worker'[i].run = stalls'[q]
  <2>1. ASSUME NEW k \in Instance, NEW j \in Job, Fetch(k, j)
        PROVE  lock[q] = i /\ stalls'[q] = stalls[q]
    BY <1>1, <1>3, <2>1 DEF Fetch, TypeOK, Busy, NoWork
  <2>2. ASSUME NEW k \in Instance, Finish(k) \/ Crash(k) \/ Lapse(k)
        PROVE  lock[q] = i /\ stalls'[q] = stalls[q]
    BY <1>1, <2>2, FlowConstants DEF Finish, Crash, Lapse, TypeOK
  <2>3. ASSUME NEW j \in Job, Stall(j) PROVE lock[q] = i /\ stalls'[q] = stalls[q]
    BY <1>1, <2>3, FlowConstants DEF Stall, TypeOK
  <2>4. ASSUME NEW k \in Instance, Handles(k) PROVE lock[q] = i /\ stalls'[q] = stalls[q]
    BY <2>4, HandlerMoves
  <2>5. ASSUME (\E r \in Round : AddFlow(r)) \/ UNCHANGED vars
        PROVE  lock[q] = i /\ stalls'[q] = stalls[q]
    BY <2>5 DEF AddFlow, vars
  <2>6. lock[q] = i /\ stalls'[q] = stalls[q]
    BY <2>1, <2>2, <2>3, <2>4, <2>5 DEF Next, Handles
  <2> QED
    BY <1>1, <1>3, <2>6, FlowConstants DEF LocksAreFresh
<1> QED
  BY <1>1, <1>2, <1>3, WorkerStep

LEMMA StartCleanStep ==
  ASSUME TypeOK, LocksAreHeld, RunsAreOwn, ReviewsStartClean, SavesAreOwn, DocumentsAreBegun,
         [Next]_vars
  PROVE  ReviewsStartClean'
<1> SUFFICES ASSUME NEW i \in Instance, Busy(i)', KindOf(i)' = Review,
                    worker'[i].pc = "start", NEW c \in Check
             PROVE  LET d == <<worker'[i].job[1], c, worker'[i].run>> IN
                    documents'[d] = 0 /\ \A k \in Instance : d \notin saving'[k]
  BY DEF ReviewsStartClean, RoundOf
<1> DEFINE d == <<worker'[i].job[1], c, worker'[i].run>>
<1>1. CASE worker'[i] = worker[i] /\ Busy(i)
  <2>1. /\ KindOf(i) = Review /\ worker[i].pc = "start" /\ RoundOf(i) \in Round
        /\ worker[i].run \in Run /\ worker[i].job = <<RoundOf(i), Review>>
        /\ d = <<RoundOf(i), c, worker[i].run>>
    BY <1>1, WorkerState DEF KindOf, RoundOf
  <2>2. documents[d] = 0 /\ \A k \in Instance : d \notin saving[k]
    BY <1>1, <2>1 DEF ReviewsStartClean
  <2>3. documents'[d] = 0
    <3>1. ASSUME NEW k \in Instance, NEW e \in saving[k],
                 documents' = [documents EXCEPT ![e] = @ + 1]
          PROVE  documents'[d] = 0
      BY <2>1, <2>2, <3>1 DEF TypeOK
    <3> QED
      BY <2>2, <3>1, DocumentsStep
  <2>4. ASSUME NEW k \in Instance, d \in saving'[k] PROVE FALSE
    <3>1. Collect(k) /\ \E e \in values[RoundOf(k)] : d = <<RoundOf(k), e, worker[k].run>>
      BY <2>2, <2>4, SavingStep
    <3>2. /\ RoundOf(k) = RoundOf(i) /\ worker[k].run = worker[i].run
          /\ worker[k].job = worker[i].job
      BY <2>1, <3>1, Collects
    <3>3. k = i
      BY <1>1, <3>2 DEF RunsAreOwn
    <3>4. worker'[i].pc # "start"
      BY <3>1, <3>3, Collects
    <3> QED
      BY <3>4
  <2> QED
    BY <2>3, <2>4
<1>2. CASE \E j \in Job : Fetch(i, j) /\ worker'[i] =
                 [job |-> j, pc |-> "start", run |-> stalls[j], docs |-> {}]
  <2>1. PICK j \in Job : Fetch(i, j) /\ worker'[i] =
                 [job |-> j, pc |-> "start", run |-> stalls[j], docs |-> {}]
    BY <1>2
  <2>2. j = <<j[1], Review>> /\ j[1] \in Round /\ d = <<j[1], c, stalls[j]>>
    BY <2>1, JobParts DEF KindOf
  <2>3. /\ Begun(<<j[1], Review>>) = stalls[j] /\ stalls[j] \in Run /\ stalls[j] \in Nat
        /\ UNCHANGED <<documents, saving>>
    BY <2>1, <2>2 DEF Fetch, Begun, TypeOK, Run
  <2>4. documents[d] = 0
    <3>1. documents[d] \in Nat
      BY <2>2, <2>3 DEF TypeOK
    <3>2. documents[d] > 0 => stalls[j] < Begun(<<j[1], Review>>)
      BY <2>2, <2>3 DEF DocumentsAreBegun
    <3> QED
      BY <2>3, <3>1, <3>2
  <2>5. ASSUME NEW k \in Instance, d \in saving[k] PROVE FALSE
    <3>1. d[3] < Begun(<<d[1], Review>>)
      BY <2>5 DEF SavesAreOwn
    <3>2. d[3] = stalls[j] /\ d[1] = j[1]
      BY <2>2
    <3> QED
      BY <2>3, <3>1, <3>2
  <2> QED
    BY <2>3, <2>4, <2>5
<1> QED
  BY <1>1, <1>2, WorkerStep

LEMMA SavesStep ==
  ASSUME TypeOK, LocksAreHeld, RunsAreOwn, ReviewsStartClean, SavesAreOwn, [Next]_vars
  PROVE  SavesAreOwn'
<1> DEFINE BegunNow(q) ==
             stalls'[q] + (IF place'[q] \in {"active", "done", "failed"} THEN 1 ELSE 0)
<1> SUFFICES ASSUME NEW i \in Instance, NEW d \in saving'[i]
             PROVE  /\ d[3] < BegunNow(<<d[1], Review>>) /\ d[2] \in values'[d[1]]
                    /\ documents'[d] = 0
                    /\ \A k \in Instance \ {i} : d \notin saving'[k]
  BY DEF SavesAreOwn, Begun
<1>1. ASSUME NEW r \in Round, NEW n \in Nat, n < Begun(<<r, Review>>)
      PROVE  n < BegunNow(<<r, Review>>)
  <2>1. <<r, Review>> \in Job
    BY DEF Job
  <2>2. BegunNow(<<r, Review>>) = Begun(<<r, Review>>)'
    BY DEF Begun
  <2>3. /\ Begun(<<r, Review>>) \in Nat /\ Begun(<<r, Review>>)' \in Nat
        /\ Begun(<<r, Review>>) <= Begun(<<r, Review>>)'
    BY <2>1, BegunStep
  <2> HIDE DEF BegunNow
  <2> QED
    BY <1>1, <2>2, <2>3
<1>2. CASE d \in saving[i]
  <2>1. /\ d[1] \in Round /\ d[3] \in Nat /\ d \in Round \X Check \X Run
        /\ d[3] < Begun(<<d[1], Review>>) /\ d[2] \in values[d[1]] /\ documents[d] = 0
        /\ \A k \in Instance \ {i} : d \notin saving[k]
    BY <1>2, SaveParts DEF SavesAreOwn, Run
  <2>2. d[2] \in values'[d[1]]
    BY <2>1, ValuesGrow
  <2>3. documents'[d] = 0
    <3>1. ASSUME NEW k \in Instance, NEW e \in saving[k], Save(k, e),
                 documents' = [documents EXCEPT ![e] = @ + 1]
          PROVE  documents'[d] = 0
      <4>1. e # d
        BY <2>1, <3>1 DEF Save, StillSaving, TypeOK
      <4> QED
        BY <2>1, <3>1, <4>1 DEF TypeOK
    <3> QED
      BY <2>1, <3>1, DocumentsStep
  <2>4. ASSUME NEW k \in Instance \ {i}, d \in saving'[k] PROVE FALSE
    <3>1. Collect(k) /\ \E c \in values[RoundOf(k)] : d = <<RoundOf(k), c, worker[k].run>>
      BY <2>1, <2>4, SavingStep
    <3> QED
      BY <1>2, <3>1, Collects DEF ReviewsStartClean
  <2> QED
    BY <1>1, <2>1, <2>2, <2>3, <2>4
<1>3. CASE d \notin saving[i]
  <2>1. PICK c \in values[RoundOf(i)] : Collect(i) /\ d = <<RoundOf(i), c, worker[i].run>>
    BY <1>3, SavingStep
  <2>2. /\ Busy(i) /\ RoundOf(i) \in Round /\ worker[i].run \in Nat /\ c \in Check
        /\ KindOf(i) = Review /\ worker[i].pc = "start" /\ worker[i].job = <<RoundOf(i), Review>>
    BY <2>1, Collects DEF Run
  <2>3. documents[d] = 0 /\ \A k \in Instance : d \notin saving[k]
    BY <2>1, <2>2 DEF ReviewsStartClean
  <2>4. worker[i].run < Begun(<<RoundOf(i), Review>>)
    BY <2>2 DEF RunsAreOwn
  <2>5. UNCHANGED <<documents, values>> /\ \A k \in Instance \ {i} : saving'[k] = saving[k]
    BY <2>1 DEF Collect, TypeOK
  <2>6. d[1] = RoundOf(i) /\ d[2] = c /\ d[3] = worker[i].run
    BY <2>1
  <2> QED
    BY <1>1, <2>2, <2>3, <2>4, <2>5, <2>6
<1> QED
  BY <1>2, <1>3

LEMMA DocumentsBegunStep ==
  ASSUME TypeOK, LocksAreHeld, SavesAreOwn, DocumentsAreBegun, [Next]_vars
  PROVE  DocumentsAreBegun'
<1> SUFFICES ASSUME NEW r \in Round, NEW c \in Check, NEW n \in Run
             PROVE  /\ documents'[<<r, c, n>>] <= 1
                    /\ documents'[<<r, c, n>>] > 0 => n < Begun(<<r, Review>>)'
  BY DEF DocumentsAreBegun
<1> DEFINE v == <<r, Review>>
<1>1. v \in Job /\ n \in Nat
  BY DEF Job, Run
<1>2. Begun(v) \in Nat /\ Begun(v)' \in Nat /\ Begun(v) <= Begun(v)'
  BY <1>1, BegunStep
<1>3. documents[<<r, c, n>>] > 0 => n < Begun(v)'
  BY <1>1, <1>2 DEF DocumentsAreBegun
<1>4. CASE UNCHANGED documents
  BY <1>3, <1>4 DEF DocumentsAreBegun
<1>5. ASSUME NEW i \in Instance, NEW d \in saving[i],
             documents' = [documents EXCEPT ![d] = @ + 1]
      PROVE  /\ documents'[<<r, c, n>>] <= 1
             /\ documents'[<<r, c, n>>] > 0 => n < Begun(v)'
  <2>1. CASE d = <<r, c, n>>
    <3>1. documents[d] = 0 /\ d[3] < Begun(<<d[1], Review>>) /\ d[3] = n /\ d[1] = r
      BY <1>5, <2>1 DEF SavesAreOwn
    <3>2. documents'[d] = 1
      BY <1>5, <2>1, <3>1 DEF TypeOK
    <3> QED
      BY <1>1, <1>2, <2>1, <3>1, <3>2
  <2>2. CASE d # <<r, c, n>>
    <3>1. documents'[<<r, c, n>>] = documents[<<r, c, n>>]
      BY <1>5, <2>2 DEF TypeOK
    <3> QED
      BY <1>3, <3>1 DEF DocumentsAreBegun
  <2> QED
    BY <2>1, <2>2
<1> QED
  BY <1>4, <1>5, DocumentsStep

LEMMA InitHygiene == Init => Hygiene
<1> SUFFICES ASSUME Init PROVE Hygiene
  OBVIOUS
<1>1. \A i \in Instance : ~Busy(i)
  BY DEF Init, Busy, NoWork
<1>2. /\ LocksAreHeld /\ LocksAreFresh /\ RunsAreOwn /\ ChecksReturn
      /\ ReviewsStartClean /\ SavesAreOwn
  BY <1>1 DEF Init, LocksAreHeld, LocksAreFresh, RunsAreOwn, ChecksReturn, ReviewsStartClean,
              SavesAreOwn
<1>3. \A r \in Round, k \in Check \cup {Review} : place[<<r, k>>] = "absent"
  BY DEF Init, Job
<1>4. ReviewAfterChecks /\ ChecksFailByStallingOnly
  <2>1. \A r \in Round : Begun(<<r, Review>>) = 0
    BY <1>3 DEF Begun, Init, Job
  <2> QED
    BY <1>3, <2>1 DEF ReviewAfterChecks, ChecksFailByStallingOnly
<1>5. \A r \in Round, c \in Check, n \in Run : documents[<<r, c, n>>] = 0
  BY DEF Init
<1>6. DocumentsAreBegun
  <2> SUFFICES ASSUME NEW r \in Round, NEW c \in Check, NEW n \in Run
               PROVE  documents[<<r, c, n>>] <= 1 /\ ~(documents[<<r, c, n>>] > 0)
    BY DEF DocumentsAreBegun
  <2>1. documents[<<r, c, n>>] = 0
    BY <1>5
  <2> QED
    BY <2>1
<1> QED
  BY <1>2, <1>4, <1>6 DEF Hygiene

\* The flow keeps its books: what each lock, run, reading and document says of
\* the others stays true through crashes, lost locks, stalls and errors.
THEOREM BooksAreKept == Spec => [](TypeOK /\ Hygiene)
<1>1. Init => TypeOK /\ Hygiene
  BY InitType, InitHygiene
<1>2. TypeOK /\ Hygiene /\ [Next]_vars => TypeOK' /\ Hygiene'
  BY TypeStep, LocksStep, FreshStep, RunsStep, ReturnStep, StartCleanStep, SavesStep,
     AfterChecksStep, DocumentsBegunStep, FailStep DEF Hygiene
<1> QED
  BY <1>1, <1>2, PTL DEF Spec

\* A check fails only when two workers were lost at it.
THEOREM FailuresAreStalls == Spec => []ChecksFailByStallingOnly
<1>1. Hygiene => ChecksFailByStallingOnly
  BY DEF Hygiene
<1> QED
  BY <1>1, BooksAreKept, PTL

\* A reading is stored once by each run of its review, and by a second run only
\* if the review was taken back.
THEOREM CopiesAreRuns == Spec => []CopiesNeedRetries
<1>1. TypeOK /\ Hygiene => CopiesNeedRetries
  <2> SUFFICES ASSUME TypeOK, Hygiene, NEW r \in Round, NEW c \in Check, NEW n \in Run
               PROVE  /\ documents[<<r, c, n>>] <= 1
                      /\ documents[<<r, c, n>>] > 0 => n <= stalls[<<r, Review>>]
    BY DEF CopiesNeedRetries
  <2>1. <<r, Review>> \in Job /\ n \in Nat
    BY DEF Job, Run
  <2>2. stalls[<<r, Review>>] \in Nat /\ Begun(<<r, Review>>) <= stalls[<<r, Review>>] + 1
        /\ Begun(<<r, Review>>) \in Nat
    BY <2>1 DEF TypeOK, Begun
  <2>3. /\ documents[<<r, c, n>>] <= 1
        /\ documents[<<r, c, n>>] > 0 => n < Begun(<<r, Review>>)
    BY DEF Hygiene, DocumentsAreBegun
  <2> QED
    BY <2>1, <2>2, <2>3
<1> QED
  BY <1>1, BooksAreKept, PTL

-----------------------------------------------------------------------------
(* The flow implements ReadingsLog.                                        *)

Answered == [r \in Round |-> {c \in Check : place[<<r, c>>] = "done"}]
BegunRuns == [r \in Round |-> Begun(<<r, Review>>)]

\* A step in which no check completes and no review is fetched.
LEMMA LogStutters ==
  ASSUME TypeOK, Hygiene, [Next]_vars,
         \A i \in Instance, r \in Round : ~Fetch(i, <<r, Review>>),
         \A i \in Instance : Finish(i) => UNCHANGED values /\
            (KindOf(i) = Review \/ lock[worker[i].job] # i)
  PROVE  UNCHANGED <<Answered, values, BegunRuns>>
<1>1. ASSUME NEW r \in Round PROVE Begun(<<r, Review>>)' = Begun(<<r, Review>>)
  BY BegunStep DEF Hygiene, Job
<1>2. ASSUME NEW r \in Round, NEW c \in Check
      PROVE  place'[<<r, c>>] = "done" <=> place[<<r, c>>] = "done"
  <2> DEFINE q == <<r, c>>
  <2>1. q \in Job /\ q[2] = c /\ c # Review
    BY FlowConstants DEF Job
  <2>2. ASSUME NEW i \in Instance, Finish(i), worker[i].job = q, place[q] = "active"
        PROVE  place'[q] = "active"
    <3>1. lock[q] # i
      BY <2>1, <2>2 DEF KindOf
    <3> QED
      BY <2>2, <3>1, FinishMoves DEF Hygiene
  <2> QED
    BY <2>1, <2>2, PlaceStep DEF Hygiene
<1>3. UNCHANGED values
  <2>1. ASSUME NEW i \in Instance, Handles(i)
        PROVE  UNCHANGED values
    BY <2>1, HandlerMoves
  <2>2. ASSUME \/ \E s \in Round : AddFlow(s)
               \/ \E i \in Instance : (\E j \in Job : Fetch(i, j)) \/ Crash(i) \/ Lapse(i)
               \/ \E j \in Job : Stall(j)
               \/ UNCHANGED vars
        PROVE  UNCHANGED values
    BY <2>2 DEF AddFlow, Fetch, Crash, Lapse, Stall, vars
  <2> QED
    BY <2>1, <2>2 DEF Next, Handles
<1>4. BegunRuns' = BegunRuns
  BY <1>1 DEF BegunRuns
<1>5. Answered' = Answered
  BY <1>2 DEF Answered
<1> QED
  BY <1>3, <1>4, <1>5

\* A check that completes answers, with its reading or without.
LEMMA CompletionAnswers ==
  ASSUME TypeOK, Hygiene, [Next]_vars, NEW i \in Instance, Finish(i),
         KindOf(i) \in Check, lock[worker[i].job] = i
  PROVE  \E r \in Round, c \in Check : Log!Answer(r, c)
<1> DEFINE q == worker[i].job
<1>1. Busy(i) /\ worker[i].pc \in {"returned", "thrown"}
  BY DEF Finish, Busy
<1> PICK r \in Round, c \in Check : r = RoundOf(i) /\ c = KindOf(i)
  BY <1>1, WorkerState
<1>2. q = <<r, c>> /\ q \in Job /\ r \in Round /\ c # Review
  BY <1>1, WorkerState, FlowConstants
<1>3. worker[i].pc = "returned" /\ worker[i].docs \subseteq {c}
  BY <1>1 DEF Hygiene, ChecksReturn
<1>4. place[q] = "active" /\ place'[q] = "done"
  BY <1>3, FinishMoves DEF Hygiene
<1>5. values' = [values EXCEPT ![r] = @ \cup worker[i].docs]
  <2>1. q[1] = r /\ q[2] # Review
    BY <1>2
  <2> QED
    BY <1>3, <2>1, FinishMoves DEF Hygiene
<1>6. values' = [values EXCEPT ![r] = @ \cup {c}] \/ values' = values
  <2>1. CASE worker[i].docs = {c}
    BY <1>5, <2>1
  <2>2. CASE worker[i].docs = {}
    BY <1>2, <1>5, <2>2 DEF TypeOK
  <2> QED
    BY <1>3, <2>1, <2>2
<1>7. ASSUME NEW s \in Round, NEW d \in Check, <<s, d>> # q
      PROVE  place'[<<s, d>>] = place[<<s, d>>]
  <2>1. <<s, d>> \in Job \ {q} /\ \A t : <<s, d>> # <<t, Review>>
    BY <1>7, FlowConstants DEF Job
  <2> QED
    BY <2>1, FinishMoves DEF Hygiene
<1>8. Answered' = [Answered EXCEPT ![r] = @ \cup {c}]
  <2>1. ASSUME NEW s \in Round
        PROVE  {d \in Check : place'[<<s, d>>] = "done"} =
                 IF s = r THEN {d \in Check : place[<<s, d>>] = "done"} \cup {c}
                 ELSE {d \in Check : place[<<s, d>>] = "done"}
    BY <1>2, <1>4, <1>7
  <2> QED
    BY <1>2, <2>1 DEF Answered
<1>9. BegunRuns' = BegunRuns
  <2>1. ASSUME NEW s \in Round PROVE Begun(<<s, Review>>)' = Begun(<<s, Review>>)
    <3>1. <<s, Review>> \in Job
      BY DEF Job
    <3>2. \A k \in Instance : ~Fetch(k, <<s, Review>>)
      BY <1>2, <1>4, <3>1 DEF Fetch, TypeOK
    <3> QED
      BY <3>1, <3>2, BegunStep DEF Hygiene
  <2> QED
    BY <2>1 DEF BegunRuns
<1>10. c \notin Answered[r] /\ UNCHANGED documents
  BY <1>2, <1>4 DEF Answered, Finish
<1> QED
  BY <1>2, <1>6, <1>8, <1>9, <1>10 DEF Log!Answer, Answered, BegunRuns

LEMMA FetchBegins ==
  ASSUME TypeOK, Hygiene, [Next]_vars, NEW i \in Instance, NEW r \in Round,
         Fetch(i, <<r, Review>>)
  PROVE  Log!Begin(r)
<1> DEFINE q == <<r, Review>>
<1>1. q \in Job
  BY DEF Job
<1>2. \A c \in Check : place[<<r, c>>] = "done"
  BY DEF Fetch, Hygiene, ReviewAfterChecks
<1>3. Answered[r] = Check
  BY <1>2 DEF Answered
<1>4. BegunRuns[r] < 2 /\ BegunRuns' = [BegunRuns EXCEPT ![r] = @ + 1]
  <2>1. Begun(q) = stalls[q] /\ stalls[q] \in 0..1 /\ Begun(q)' = Begun(q) + 1
    BY <1>1 DEF Fetch, Begun, TypeOK
  <2>2. ASSUME NEW s \in Round, s # r PROVE Begun(<<s, Review>>)' = Begun(<<s, Review>>)
    <3>1. <<s, Review>> \in Job /\ <<s, Review>> # q
      BY <2>2 DEF Job
    <3> QED
      BY <3>1 DEF Fetch, Begun, TypeOK
  <2>3. BegunRuns' = [s \in Round |-> IF s = r THEN Begun(q) + 1 ELSE Begun(<<s, Review>>)]
    BY <2>1, <2>2 DEF BegunRuns
  <2>4. BegunRuns[r] = Begun(q) /\ Begun(q) < 2
    BY <2>1 DEF BegunRuns
  <2> QED
    BY <2>3, <2>4 DEF BegunRuns
<1>5. Answered' = Answered
  <2>1. ASSUME NEW s \in Round, NEW c \in Check PROVE place'[<<s, c>>] = place[<<s, c>>]
    <3>1. <<s, c>> \in Job /\ <<s, c>> # q
      BY FlowConstants DEF Job
    <3> QED
      BY <3>1 DEF Fetch, TypeOK
  <2> QED
    BY <2>1 DEF Answered
<1>6. UNCHANGED <<values, documents>>
  BY DEF Fetch
<1> QED
  BY <1>3, <1>4, <1>5, <1>6 DEF Log!Begin, Answered, BegunRuns

LEMMA LogStep ==
  ASSUME TypeOK, Hygiene, [Next]_vars
  PROVE  [Log!Next]_(Log!vars)
<1>1. CASE \E i \in Instance, r \in Round : Fetch(i, <<r, Review>>)
  BY <1>1, FetchBegins DEF Log!Next
<1>2. CASE \E i \in Instance :
             Finish(i) /\ KindOf(i) \in Check /\ lock[worker[i].job] = i
  <2>1. PICK i \in Instance :
          Finish(i) /\ KindOf(i) \in Check /\ lock[worker[i].job] = i
    BY <1>2
  <2>2. \E r \in Round, c \in Check : Log!Answer(r, c)
    BY <2>1, CompletionAnswers, Zenon
  <2> QED
    BY <2>2 DEF Log!Next
<1>3. CASE /\ ~\E i \in Instance, r \in Round : Fetch(i, <<r, Review>>)
           /\ ~\E i \in Instance :
                 Finish(i) /\ KindOf(i) \in Check /\ lock[worker[i].job] = i
  <2>1. ASSUME NEW i \in Instance, Finish(i)
        PROVE  UNCHANGED values /\ (KindOf(i) = Review \/ lock[worker[i].job] # i)
    <3>1. Busy(i) /\ KindOf(i) = worker[i].job[2] /\ KindOf(i) \in Check \cup {Review}
      BY <2>1, FinishMoves, WorkerState DEF Hygiene, KindOf
    <3> QED
      BY <1>3, <2>1, <3>1, FinishMoves DEF Hygiene
  <2>2. UNCHANGED <<Answered, values, BegunRuns>>
    BY <1>3, <2>1, LogStutters
  <2>3. CASE UNCHANGED documents
    BY <2>2, <2>3 DEF Log!vars, Answered, BegunRuns
  <2>4. ASSUME NEW i \in Instance, NEW d \in saving[i],
               documents' = [documents EXCEPT ![d] = @ + 1]
        PROVE  \E r \in Round, c \in Check, n \in Run : Log!Write(r, c, n)
    <3>1. PICK r \in Round, c \in Check, n \in Run : d = <<r, c, n>>
      BY <2>4, SaveParts
    <3>2. n < BegunRuns[r] /\ c \in values[r] /\ documents[<<r, c, n>>] = 0
      BY <2>4, <3>1 DEF Hygiene, SavesAreOwn, BegunRuns
    <3>3. documents' = [documents EXCEPT ![<<r, c, n>>] = 1]
      BY <2>4, <3>1, <3>2 DEF TypeOK
    <3> QED
      BY <2>2, <3>2, <3>3 DEF Log!Write, Answered, BegunRuns
  <2> QED
    BY <2>3, <2>4, DocumentsStep DEF Log!Next
<1> QED
  BY <1>1, <1>2, <1>3

LEMMA LogInit == Init => Log!Init
<1> SUFFICES ASSUME Init PROVE Log!Init
  OBVIOUS
<1>1. \A r \in Round, k \in Check \cup {Review} :
        place[<<r, k>>] = "absent" /\ stalls[<<r, k>>] = 0
  BY DEF Init, Job
<1>2. [r \in Round |-> {c \in Check : place[<<r, c>>] = "done"}] = [r \in Round |-> {}]
  BY <1>1
<1>3. [r \in Round |-> Begun(<<r, Review>>)] = [r \in Round |-> 0]
  BY <1>1 DEF Begun
<1> QED
  BY <1>2, <1>3 DEF Init, Log!Init

\* Through crashes, lost locks, retries and errors, the readings of a round are
\* written as ReadingsLog says.
THEOREM ImplementsReadingsLog == Spec => RefinesReadingsLog
<1>1. TypeOK /\ Hygiene /\ [Next]_vars => [Log!Next]_(Log!vars)
  BY LogStep
<1> QED
  BY <1>1, LogInit, BooksAreKept, PTL DEF Spec, RefinesReadingsLog, Log!Spec

-----------------------------------------------------------------------------
(* What a review waits for.                                                *)

\* The jobs of a round are added together, and a review that is held back has a
\* check that has not completed.
HeldBack(r) ==
  place[<<r, Review>>] = "blocked" =>
    /\ \A c \in Check : place[<<r, c>>] \in {"waiting", "active", "done", "failed"}
    /\ \E c \in Check : place[<<r, c>>] # "done"

\* Only the flow that is added holds a review back.
LEMMA AddedBlocked ==
  ASSUME TypeOK, LocksAreHeld, [Next]_vars, NEW r \in Round,
         place[<<r, Review>>] # "blocked", place'[<<r, Review>>] = "blocked"
  PROVE  AddFlow(r)
<1> DEFINE v == <<r, Review>>
<1>1. v \in Job /\ v[1] = r
  BY DEF Job
<1>2. ASSUME NEW s \in Round, AddFlow(s) PROVE AddFlow(r)
  BY <1>1, <1>2 DEF AddFlow
<1>3. ASSUME NEW i \in Instance, NEW j \in Job, Fetch(i, j) PROVE FALSE
  BY <1>1, <1>3 DEF Fetch, TypeOK
<1>4. ASSUME NEW i \in Instance, Finish(i) PROVE FALSE
  <2> DEFINE j == worker[i].job
  <2>1. lock[j] = i
    BY <1>4, FinishMoves
  <2>2. CASE v = j
    BY <1>4, <2>1, <2>2, FinishMoves
  <2>3. CASE v # j
    <3>1. place'[v] = place[v] \/ place'[v] = "waiting"
      BY <1>1, <1>4, <2>1, <2>3, FinishMoves
    <3> QED
      BY <3>1
  <2> QED
    BY <2>2, <2>3
<1>5. ASSUME NEW j \in Job, Stall(j) PROVE FALSE
  BY <1>1, <1>5 DEF Stall, TypeOK
<1>6. ASSUME NEW i \in Instance, Handles(i)
      PROVE  FALSE
  BY <1>6, HandlerMoves
<1>7. ASSUME (\E i \in Instance : Crash(i) \/ Lapse(i)) \/ UNCHANGED vars
      PROVE  FALSE
  BY <1>7 DEF Crash, Lapse, vars
<1> QED
  BY <1>2, <1>3, <1>4, <1>5, <1>6, <1>7 DEF Next, Handles

\* The last check of a round that completes lets its review go.
LEMMA LastCheckReleases ==
  ASSUME TypeOK, LocksAreHeld, NEW r \in Round, NEW c \in Check, NEW i \in Instance,
         Finish(i), worker[i].job = <<r, c>>, lock[<<r, c>>] = i, worker[i].pc = "returned",
         place[<<r, Review>>] = "blocked", place'[<<r, Review>>] = "blocked"
  PROVE  \E d \in Check : place'[<<r, d>>] # "done"
<1> DEFINE q == <<r, c>>
           v == <<r, Review>>
<1>1. q \in Job /\ v \in Job /\ q # v /\ q[1] = r /\ \A d \in Check : <<r, d>> \in Job
  BY FlowConstants DEF Job
<1>2. place' = [place EXCEPT ![q] = "done",
                  ![<<q[1], Review>>] = IF @ = "blocked" /\ AllAnswered(q)
                                        THEN "waiting" ELSE @]
  BY DEF Finish, Complete
<1>3. ~AllAnswered(q)
  BY <1>1, <1>2 DEF TypeOK
<1>4. PICK d \in Check : <<r, d>> # q /\ place[<<r, d>>] # "done"
  BY <1>1, <1>3 DEF AllAnswered
<1>5. place'[<<r, d>>] = place[<<r, d>>]
  <2>1. <<r, d>> \in Job /\ <<r, d>> # v
    BY <1>1, FlowConstants
  <2> QED
    BY <1>1, <1>2, <1>4, <2>1 DEF TypeOK
<1> QED
  BY <1>4, <1>5

LEMMA HeldBackStep ==
  ASSUME TypeOK, LocksAreHeld, [Next]_vars, NEW r \in Round, HeldBack(r)
  PROVE  HeldBack(r)'
<1> DEFINE v == <<r, Review>>
<1> SUFFICES ASSUME place'[v] = "blocked"
             PROVE  /\ \A c \in Check :
                         place'[<<r, c>>] \in {"waiting", "active", "done", "failed"}
                    /\ \E c \in Check : place'[<<r, c>>] # "done"
  BY DEF HeldBack
<1>1. \A c \in Check : <<r, c>> \in Job /\ <<r, c>>[1] = r /\ <<r, c>>[2] = c /\ c # Review
  BY FlowConstants DEF Job
<1>2. CASE place[v] # "blocked"
  <2>1. \A c \in Check : place'[<<r, c>>] = "waiting"
    BY <1>1, <1>2, AddedBlocked DEF AddFlow
  <2> QED
    BY <2>1, FlowConstants
<1>3. CASE place[v] = "blocked"
  <2>1. ASSUME NEW c \in Check
        PROVE  place'[<<r, c>>] \in {"waiting", "active", "done", "failed"}
    <3>1. place[<<r, c>>] \in {"waiting", "active", "done", "failed"}
      BY <1>3 DEF HeldBack
    <3> QED
      BY <1>1, <3>1, PlaceStep
  <2>2. PICK c \in Check : place[<<r, c>>] # "done"
    BY <1>3 DEF HeldBack
  <2>3. CASE place'[<<r, c>>] = "done"
    <3>1. PICK i \in Instance : Finish(i) /\ worker[i].job = <<r, c>> /\ worker[i].pc = "returned"
      BY <1>1, <2>2, <2>3, PlaceStep DEF Finish
    <3>2. lock[<<r, c>>] = i
      BY <2>2, <2>3, <3>1, FinishMoves
    <3>3. \E d \in Check : place'[<<r, d>>] # "done"
      BY <1>3, <3>1, <3>2, LastCheckReleases
    <3> QED
      BY <2>1, <3>3
  <2> QED
    BY <2>1, <2>2, <2>3
<1> QED
  BY <1>2, <1>3

\* A review that is held back has a check to wait for that failed or can still
\* go on, whatever locks were lost and in whatever order the checks complete.
THEOREM NoWakeUpIsLost == Spec => []ReviewsAwaitChecks
<1> DEFINE AllHeld == \A r \in Round : HeldBack(r)
<1>1. Init => AllHeld
  BY DEF Init, HeldBack, Job
<1>2. TypeOK /\ Hygiene /\ AllHeld /\ [Next]_vars => AllHeld'
  <2> SUFFICES ASSUME TypeOK, Hygiene, AllHeld, [Next]_vars, NEW r \in Round
               PROVE  HeldBack(r)'
    OBVIOUS
  <2> QED
    BY HeldBackStep DEF Hygiene
<1>3. TypeOK /\ Hygiene /\ AllHeld => ReviewsAwaitChecks
  <2> SUFFICES ASSUME TypeOK, Hygiene, AllHeld, NEW r \in Round,
                      place[<<r, Review>>] = "blocked"
               PROVE  \E c \in Check : LET j == <<r, c>> IN
                        \/ place[j] \in {"waiting", "failed"}
                        \/ /\ place[j] = "active"
                           /\ \/ lock[j] = None
                              \/ \E i \in Instance : lock[j] = i /\ worker[i].job = j
    BY DEF ReviewsAwaitChecks
  <2>1. PICK c \in Check : place[<<r, c>>] \in {"waiting", "active", "failed"}
    BY DEF HeldBack
  <2>2. <<r, c>> \in Job
    BY DEF Job
  <2>3. lock[<<r, c>>] # None => /\ lock[<<r, c>>] \in Instance
                                 /\ worker[lock[<<r, c>>]].job = <<r, c>>
    BY <2>2 DEF Hygiene, LocksAreHeld, TypeOK
  <2> QED
    BY <2>1, <2>3
<1> HIDE DEF AllHeld
<1> QED
  BY <1>1, <1>2, <1>3, BooksAreKept, PTL DEF Spec

-----------------------------------------------------------------------------
(* What errors cost.                                                       *)

LEMMA Counts ==
  ASSUME NEW S \in SUBSET Check, NEW n \in Nat, Cardinality(S) <= n,
         NEW c \in Check, NEW T, T \subseteq S \cup {c}
  PROVE  /\ T \subseteq S => Cardinality(T) <= n
         /\ Cardinality(T) <= n + 1
<1>1. IsFiniteSet(S) /\ Cardinality(S) \in Nat
  BY FlowConstants, FS_Subset, FS_CardinalityType
<1>2. IsFiniteSet(S \cup {c})
      /\ Cardinality(S \cup {c}) = (IF c \in S THEN Cardinality(S) ELSE Cardinality(S) + 1)
  BY <1>1, FS_AddElement
<1>3. Cardinality(T) \in Nat /\ Cardinality(T) <= Cardinality(S \cup {c})
  BY <1>2, FS_Subset, FS_CardinalityType
<1>4. T \subseteq S => Cardinality(T) <= Cardinality(S)
  BY <1>1, FS_Subset
<1> QED
  BY <1>1, <1>2, <1>3, <1>4

LEMMA SubsetCounts ==
  ASSUME NEW S \in SUBSET Check, NEW n \in Nat, Cardinality(S) <= n,
         NEW T, T \subseteq S
  PROVE  Cardinality(T) <= n
<1>1. IsFiniteSet(S) /\ Cardinality(S) \in Nat
  BY FlowConstants, FS_Subset, FS_CardinalityType
<1>2. Cardinality(T) \in Nat /\ Cardinality(T) <= Cardinality(S)
  BY <1>1, FS_Subset, FS_CardinalityType
<1> QED
  BY <1>1, <1>2

LEMMA ErrorsGrow ==
  ASSUME TypeOK, [Next]_vars
  PROVE  errors \in Nat /\ errors' \in Nat /\ errors <= errors'
<1>1. errors \in Nat
  BY FlowConstants DEF TypeOK
<1>2. errors' = errors \/ errors' = errors + 1
  BY DEF Next, AddFlow, Fetch, RunCheck, Collect, SaveEnds, Save, Finish, Crash, Lapse, Stall,
         Fails, vars, bounds
<1> QED
  BY <1>1, <1>2

LEMMA DocumentsGrow ==
  ASSUME TypeOK, [Next]_vars, NEW r \in Round, NEW c \in Check, NEW n \in Run,
         documents'[<<r, c, n>>] = 0
  PROVE  documents[<<r, c, n>>] = 0
<1>1. documents[<<r, c, n>>] \in Nat
  BY DEF TypeOK
<1>2. ASSUME NEW d, documents' = [documents EXCEPT ![d] = @ + 1] PROVE documents[<<r, c, n>>] = 0
  BY <1>1, <1>2 DEF TypeOK
<1> QED
  BY <1>2, DocumentsStep

\* A reading is newly lost only by the error of a worker at its check.
LEMMA LostStep ==
  ASSUME TypeOK, Hygiene, [Next]_vars, NEW r \in Round, NEW c \in Lost(r)', c \notin Lost(r)
  PROVE  \E k \in Instance :
           RunCheck(k) /\ worker[k].job = <<r, c>> /\ errors' = errors + 1
<1> DEFINE q == <<r, c>>
<1>1. c \in Check /\ q \in Job /\ q[1] = r /\ q[2] = c /\ c # Review
  BY FlowConstants DEF Lost, Job
<1>2. CASE place'[q] = "done" /\ c \notin values'[r]
  <2>1. c \notin values[r]
    BY <1>2, ValuesGrow DEF Hygiene
  <2>2. place[q] # "done"
    BY <1>1, <2>1 DEF Lost
  <2>3. PICK i \in Instance : Finish(i) /\ worker[i].job = q /\ worker[i].pc = "returned"
    BY <1>1, <1>2, <2>2, PlaceStep DEF Hygiene, Finish
  <2>4. lock[q] = i
    BY <1>2, <2>2, <2>3, FinishMoves DEF Hygiene
  <2>5. values' = [values EXCEPT ![r] = @ \cup worker[i].docs]
    BY <1>1, <2>3, <2>4, FinishMoves DEF Hygiene
  <2>6. c \notin worker[i].docs
    BY <1>2, <2>5 DEF TypeOK
  <2>7. worker[i].docs \subseteq {c}
    BY <1>1, <2>3 DEF Hygiene, ChecksReturn, Busy, KindOf
  <2>8. worker[i].docs = {}
    BY <2>6, <2>7
  <2> QED
    BY <1>1, <2>3, <2>8 DEF Lost
<1>3. CASE \E k \in Instance :
             worker'[k].job = q /\ worker'[k].pc = "returned" /\ worker'[k].docs = {}
  <2>1. PICK k \in Instance :
          worker'[k].job = q /\ worker'[k].pc = "returned" /\ worker'[k].docs = {}
    BY <1>3
  <2>2. worker'[k] # worker[k] /\ Busy(k)'
    BY <1>1, <2>1 DEF Lost, Busy
  <2>3. /\ Busy(k) /\ worker[k].job = q
        /\ Handles(k)
    <3>1. ASSUME NEW j \in Job, worker'[k] =
                 [job |-> j, pc |-> "start", run |-> stalls[j], docs |-> {}]
          PROVE  FALSE
      <4>1. worker'[k].pc = "start"
        BY <3>1
      <4> QED
        BY <2>1, <4>1
    <3> QED
      BY <2>1, <2>2, <3>1, WorkerStep DEF Hygiene
  <2>4. KindOf(k) = c /\ worker[k] \in WorkType
    BY <1>1, <2>3, WorkerState DEF KindOf
  <2>5. RunCheck(k)
    BY <1>1, <2>2, <2>3, <2>4, SaveMoves DEF Handles, Collect
  <2>6. worker'[k] # Returning(worker[k], {KindOf(k)})
    BY <1>1, <2>1, <2>4, ReturningWork
  <2>7. errors' = errors + 1
    BY <2>5, <2>6 DEF RunCheck, Fails, TypeOK
  <2> QED
    BY <2>3, <2>5, <2>7
<1> QED
  BY <1>2, <1>3 DEF Lost

LEMMA LostCounts ==
  ASSUME TypeOK, Hygiene, [Next]_vars, NEW r \in Round, Cardinality(Lost(r)) <= errors
  PROVE  Cardinality(Lost(r)') <= errors'
<1>1. errors \in Nat /\ errors' \in Nat /\ errors <= errors'
  BY ErrorsGrow
<1>2. Lost(r) \in SUBSET Check
  BY DEF Lost
<1>3. CASE Lost(r)' \subseteq Lost(r)
  <2>1. Cardinality(Lost(r)') <= errors
    BY <1>1, <1>2, <1>3, SubsetCounts
  <2>2. Cardinality(Lost(r)') \in Nat
    BY <1>2, <1>3, FlowConstants, FS_Subset, FS_CardinalityType
  <2> QED
    BY <1>1, <2>1, <2>2
<1>4. CASE ~(Lost(r)' \subseteq Lost(r))
  <2>1. PICK c \in Lost(r)' : c \notin Lost(r)
    BY <1>4
  <2>2. c \in Check
    BY DEF Lost
  <2>3. PICK k \in Instance :
          RunCheck(k) /\ worker[k].job = <<r, c>> /\ errors' = errors + 1
    BY <2>1, LostStep
  <2>4. ASSUME NEW d \in Lost(r)', d \notin Lost(r) PROVE d = c
    <3>1. PICK m \in Instance : RunCheck(m) /\ worker[m].job = <<r, d>>
      BY <2>4, LostStep
    <3>2. worker[m].pc = "start" /\ worker'[m].pc # "start"
      <4>1. worker[m].pc = "start" /\ worker[m] \in WorkType /\ KindOf(m) \in Check
        BY <3>1, WorkerState DEF RunCheck, Busy
      <4>2. worker'[m] = Returning(worker[m], {KindOf(m)}) \/ worker'[m] = Returning(worker[m], {})
        BY <3>1 DEF RunCheck, OnCheckError, TypeOK
      <4> QED
        BY <4>1, <4>2, ReturningWork
    <3>3. m = k
      BY <2>3, <3>2, HandlerMoves DEF Handles
    <3> QED
      BY <2>3, <3>1, <3>3
  <2>5. Lost(r)' \subseteq Lost(r) \cup {c}
    BY <2>4
  <2>6. Cardinality(Lost(r)') <= errors + 1
    BY <1>1, <1>2, <2>2, <2>5, Counts
  <2> QED
    BY <2>3, <2>6
<1> QED
  BY <1>3, <1>4

\* A save that is no longer in flight has ended, or its process has died.
LEMMA InFlightStep ==
  ASSUME TypeOK, [Next]_vars, NEW k \in Instance, NEW d \in saving[k], d \notin saving'[k]
  PROVE  \/ Save(k, d) /\ saving' = [saving EXCEPT ![k] = @ \ {d}]
         \/ Crash(k)
<1>1. ASSUME NEW i \in Instance, NEW e \in saving[i], Save(i, e)
      PROVE  i = k /\ e = d /\ saving' = [saving EXCEPT ![i] = @ \ {e}]
  BY <1>1 DEF Save, StillSaving, TypeOK
<1>2. ASSUME NEW i \in Instance, Crash(i) PROVE i = k
  BY <1>2 DEF Crash, TypeOK
<1>3. ASSUME \/ \E r \in Round : AddFlow(r)
             \/ \E i \in Instance : \/ \E j \in Job : Fetch(i, j)
                                    \/ RunCheck(i) \/ Finish(i) \/ Lapse(i)
             \/ \E j \in Job : Stall(j)
             \/ UNCHANGED vars
      PROVE  FALSE
  BY <1>3 DEF AddFlow, Fetch, RunCheck, Finish, Lapse, Stall, vars
<1>4. ASSUME NEW i \in Instance, Collect(i) PROVE FALSE
  BY <1>4 DEF Collect, TypeOK
<1> QED
  BY <1>1, <1>2, <1>3, <1>4 DEF Next, SaveEnds

\* A save whose call does not fail has written its document.
LEMMA SavedUnlessFailed ==
  ASSUME TypeOK, NEW i \in Instance, NEW d \in saving[i], Save(i, d), documents'[d] = 0
  PROVE  errors' = errors + 1
<1>1. d \in Round \X Check \X Run /\ documents[d] \in Nat
  BY SaveParts DEF TypeOK
<1>2. documents' # [documents EXCEPT ![d] = @ + 1]
  BY <1>1 DEF TypeOK
<1> QED
  BY <1>2 DEF Save, Fails

LEMMA CutStays ==
  ASSUME [Next]_vars
  PROVE  cut \subseteq cut'
BY DEF Next, AddFlow, Fetch, RunCheck, Collect, SaveEnds, Save, Finish, Crash, Lapse, Stall, vars

\* A reading is newly missed only by a save that fails.
LEMMA MissedStep ==
  ASSUME TypeOK, [Next]_vars, NEW r \in Round, NEW n \in Run,
         NEW c \in Missed(r, n)', c \notin Missed(r, n)
  PROVE  \E k \in Instance :
           /\ <<r, c, n>> \in saving[k] /\ errors' = errors + 1
           /\ saving' = [saving EXCEPT ![k] = @ \ {<<r, c, n>>}]
<1> DEFINE d == <<r, c, n>>
<1>1. /\ c \in Check /\ documents'[d] = 0 /\ d \notin cut'
      /\ \A k \in Instance : d \notin saving'[k]
  BY DEF Missed, Unsaved, Adrift
<1>2. documents[d] = 0
  BY <1>1, DocumentsGrow
<1>3. PICK k \in Instance : d \in saving[k]
  BY <1>1, <1>2, CutStays DEF Missed, Unsaved, Adrift
<1>4. d \notin saving'[k]
  BY <1>1
<1>5. ~Crash(k)
  BY <1>1, <1>3 DEF Crash
<1>6. Save(k, d) /\ saving' = [saving EXCEPT ![k] = @ \ {d}]
  BY <1>3, <1>4, <1>5, InFlightStep
<1> QED
  BY <1>1, <1>3, <1>6, SavedUnlessFailed

LEMMA MissedCounts ==
  ASSUME TypeOK, [Next]_vars, NEW r \in Round, NEW n \in Run,
         Cardinality(Missed(r, n)) <= errors
  PROVE  Cardinality(Missed(r, n)') <= errors'
<1>1. errors \in Nat /\ errors' \in Nat /\ errors <= errors'
  BY ErrorsGrow
<1>2. Missed(r, n) \in SUBSET Check /\ Missed(r, n)' \in SUBSET Check
  BY DEF Missed, Unsaved
<1>3. CASE Missed(r, n)' \subseteq Missed(r, n)
  <2>1. Cardinality(Missed(r, n)') <= errors
    BY <1>1, <1>2, <1>3, SubsetCounts
  <2>2. Cardinality(Missed(r, n)') \in Nat
    BY <1>2, FlowConstants, FS_Subset, FS_CardinalityType
  <2> QED
    BY <1>1, <2>1, <2>2
<1>4. CASE ~(Missed(r, n)' \subseteq Missed(r, n))
  <2>1. PICK c \in Missed(r, n)' : c \notin Missed(r, n)
    BY <1>4
  <2>2. PICK k \in Instance :
          /\ <<r, c, n>> \in saving[k] /\ errors' = errors + 1
          /\ saving' = [saving EXCEPT ![k] = @ \ {<<r, c, n>>}]
    BY <2>1, MissedStep
  <2>3. ASSUME NEW e \in Missed(r, n)', e \notin Missed(r, n) PROVE e = c
    <3>1. PICK m \in Instance :
            /\ <<r, e, n>> \in saving[m]
            /\ saving' = [saving EXCEPT ![m] = @ \ {<<r, e, n>>}]
      BY <2>3, MissedStep
    <3>2. <<r, e, n>> \notin saving'[m]
      BY <3>1 DEF TypeOK
    <3>3. <<r, e, n>> = <<r, c, n>>
      BY <2>2, <3>1, <3>2 DEF TypeOK
    <3> QED
      BY <3>3
  <2>4. Missed(r, n)' \subseteq Missed(r, n) \cup {c} /\ c \in Check
    BY <1>2, <2>1, <2>3
  <2>5. Cardinality(Missed(r, n)') <= errors + 1
    BY <1>1, <1>2, <2>4, Counts
  <2> QED
    BY <2>2, <2>5
<1> QED
  BY <1>3, <1>4

\* With every check of a review's round done, what the review does not collect
\* was lost by its check.
LEMMA CollectedUnlessLost ==
  ASSUME TypeOK, Hygiene, [Next]_vars, NEW i \in Instance, Collect(i),
         NEW c \in Check, c \notin Lost(RoundOf(i))
  PROVE  c \in values[RoundOf(i)]
<1> DEFINE v == <<RoundOf(i), Review>>
<1>1. /\ Busy(i) /\ v \in Job /\ worker[i].job = v /\ RoundOf(i) \in Round
      /\ worker[i].run \in Nat
  BY Collects DEF Run
<1>2. Begun(v) > 0
  <2>1. worker[i].run < Begun(v)
    BY <1>1 DEF Hygiene, RunsAreOwn
  <2>2. Begun(v) \in Nat
    BY <1>1, BegunStep DEF Hygiene
  <2> QED
    BY <1>1, <2>1, <2>2
<1>3. place[<<RoundOf(i), c>>] = "done"
  BY <1>1, <1>2 DEF Hygiene, ReviewAfterChecks
<1> QED
  BY <1>3 DEF Lost

\* A review that goes on has all that it collected in flight.
LEMMA CollectMoves ==
  ASSUME TypeOK, NEW i \in Instance, Collect(i), worker'[i].pc # "thrown"
  PROVE  /\ \A c \in values[RoundOf(i)] : <<RoundOf(i), c, worker[i].run>> \in saving'[i]
         /\ UNCHANGED errors
         /\ values[RoundOf(i)] # {} => worker'[i].pc = "storing"
<1>1. worker[i] \in WorkType
  BY Collects
<1>2. worker'[i] # [worker[i] EXCEPT !.pc = "thrown"]
  BY <1>1, ThrownWork
<1>3. /\ UNCHANGED errors
      /\ saving' = [saving EXCEPT ![i] = @ \cup {<<RoundOf(i), c, worker[i].run>> :
                                                   c \in values[RoundOf(i)]}]
      /\ worker'[i] = IF values[RoundOf(i)] = {} THEN Returning(worker[i], {})
                      ELSE [worker[i] EXCEPT !.pc = "storing"]
  BY <1>2 DEF Collect, Collected, TypeOK
<1>4. \A c \in values[RoundOf(i)] : <<RoundOf(i), c, worker[i].run>> \in saving'[i]
  BY <1>3 DEF TypeOK
<1> QED
  BY <1>1, <1>3, <1>4, StoringWork

\* How a review comes to be storing or done with it.
LEMMA ReviewMoves ==
  ASSUME TypeOK, LocksAreHeld, [Next]_vars, NEW i \in Instance,
         Busy(i)', KindOf(i)' = Review, worker'[i].pc \in {"storing", "returned"}
  PROVE  /\ Busy(i) /\ KindOf(i) = Review /\ RoundOf(i) \in Round /\ worker[i].run \in Run
         /\ RoundOf(i)' = RoundOf(i) /\ worker'[i].run = worker[i].run
         /\ \/ worker'[i] = worker[i]
            \/ Collect(i)
            \/ SaveEnds(i) /\ worker[i].pc = "storing" /\ worker'[i].pc = "returned"
<1>1. ASSUME NEW j \in Job, worker'[i] =
               [job |-> j, pc |-> "start", run |-> stalls[j], docs |-> {}]
      PROVE  FALSE
  <2>1. worker'[i].pc = "start"
    BY <1>1
  <2> QED
    BY <2>1
<1>2. /\ Busy(i) /\ worker'[i].job = worker[i].job /\ worker'[i].run = worker[i].run
      /\ worker'[i] = worker[i] \/ Handles(i)
  BY <1>1, WorkerStep
<1>3. /\ KindOf(i) = Review /\ RoundOf(i)' = RoundOf(i) /\ RoundOf(i) \in Round
      /\ worker[i].run \in Run
  BY <1>2, WorkerState DEF KindOf, RoundOf
<1>4. ~RunCheck(i)
  BY <1>3, FlowConstants DEF RunCheck
<1>5. ASSUME SaveEnds(i), worker'[i] # worker[i]
      PROVE  worker[i].pc = "storing" /\ worker'[i].pc = "returned"
  BY <1>5, SaveMoves, ReturningWork
<1> QED
  BY <1>2, <1>3, <1>4, <1>5 DEF Handles

LEMMA LossesStep ==
  ASSUME TypeOK, Hygiene, LossesAreErrors, [Next]_vars
  PROVE  LossesAreErrors'
<1>1. \A r \in Round : Cardinality(Lost(r)') <= errors'
  BY LostCounts DEF LossesAreErrors
<1>2. ASSUME NEW i \in Instance, Busy(i)', KindOf(i)' = Review,
             worker'[i].pc \in {"storing", "returned"},
             NEW r \in Round, r = RoundOf(i), NEW n \in Run, n = worker[i].run
      PROVE  Cardinality(Missed(r, n)') <= errors'
  <2>1. /\ Busy(i) /\ KindOf(i) = Review
        /\ \/ Collect(i)
           \/ worker[i].pc \in {"storing", "returned"}
    BY <1>2, ReviewMoves DEF Hygiene
  <2>2. CASE worker[i].pc \in {"storing", "returned"}
    BY <1>2, <2>1, <2>2, MissedCounts DEF LossesAreErrors
  <2>3. CASE Collect(i)
    <3>1. Missed(r, n)' \subseteq Lost(r)
      <4>1. \A c \in values[r] : <<r, c, n>> \in saving'[i]
        BY <1>2, <2>3, CollectMoves
      <4>2. \A c \in Check : c \notin Lost(r) => c \in values[r]
        BY <1>2, <2>3, CollectedUnlessLost
      <4> QED
        BY <4>1, <4>2 DEF Missed, Unsaved, Adrift
    <3>2. Lost(r) \in SUBSET Check /\ Cardinality(Lost(r)) <= errors
      BY DEF LossesAreErrors, Lost
    <3>3. errors \in Nat /\ errors' = errors
      BY <1>2, <2>3, CollectMoves, ErrorsGrow
    <3> QED
      BY <3>1, <3>2, <3>3, SubsetCounts
  <2> QED
    BY <2>1, <2>2, <2>3
<1>3. ASSUME NEW i \in Instance, Busy(i)', KindOf(i)' = Review,
             worker'[i].pc \in {"storing", "returned"}
      PROVE  Cardinality(Missed(RoundOf(i), worker[i].run)') <= errors'
  <2>1. /\ RoundOf(i) \in Round /\ RoundOf(i)' = RoundOf(i)
        /\ worker[i].run \in Run /\ worker'[i].run = worker[i].run
    BY <1>3, ReviewMoves DEF Hygiene
  <2>2. PICK r \in Round, n \in Run : r = RoundOf(i) /\ n = worker[i].run
    BY <2>1
  <2>3. Cardinality(Missed(r, n)') <= errors'
    BY <1>2, <1>3, <2>2
  <2>4. Missed(RoundOf(i), worker[i].run)' = Missed(r, n)'
    BY <2>1, <2>2 DEF Missed, Unsaved, Adrift
  <2> QED
    BY <2>3, <2>4
<1> QED
  BY <1>1, <1>3 DEF LossesAreErrors

LEMMA UnsavedShrinks ==
  ASSUME TypeOK, [Next]_vars, NEW r \in Round, NEW n \in Run
  PROVE  Unsaved(r, n)' \subseteq Unsaved(r, n)
  BY DocumentsGrow DEF Unsaved

LEMMA AwaitSavesStep ==
  ASSUME TypeOK, Hygiene, LossesAreErrors, ReviewsAwaitSaves, [Next]_vars
  PROVE  ReviewsAwaitSaves'
<1>1. ASSUME NEW i \in Instance, Busy(i)', KindOf(i)' = Review, errors' = 0,
             worker'[i].pc \in {"storing", "returned"},
             NEW r \in Round, r = RoundOf(i), NEW n \in Run, n = worker[i].run
      PROVE  /\ worker'[i].pc = "storing" =>
                  \A c \in Unsaved(r, n)' : <<r, c, n>> \in saving'[i]
             /\ worker'[i].pc = "returned" => Unsaved(r, n)' = {}
  <2>1. errors = 0 /\ Unsaved(r, n)' \subseteq Unsaved(r, n)
    BY <1>1, ErrorsGrow, UnsavedShrinks
  <2>2. /\ Busy(i) /\ KindOf(i) = Review
        /\ \/ worker'[i] = worker[i]
           \/ Collect(i)
           \/ SaveEnds(i) /\ worker[i].pc = "storing" /\ worker'[i].pc = "returned"
    BY <1>1, ReviewMoves DEF Hygiene
  <2>3. CASE worker'[i] = worker[i]
    <3>1. /\ worker[i].pc = "storing" => \A c \in Unsaved(r, n) : <<r, c, n>> \in saving[i]
          /\ worker[i].pc = "returned" => Unsaved(r, n) = {}
      BY <1>1, <2>1, <2>2 DEF ReviewsAwaitSaves
    <3>2. ASSUME worker[i].pc = "storing", NEW c \in Unsaved(r, n)'
          PROVE  <<r, c, n>> \in saving'[i]
      <4>1. <<r, c, n>> \in saving[i] /\ documents'[<<r, c, n>>] = 0
        BY <2>1, <3>1, <3>2 DEF Unsaved
      <4>2. ~Crash(i)
        BY <1>1 DEF Crash, TypeOK, Busy, NoWork
      <4>3. ~Save(i, <<r, c, n>>)
        BY <1>1, <2>1, <4>1, SavedUnlessFailed
      <4> QED
        BY <4>1, <4>2, <4>3, InFlightStep
    <3> QED
      BY <2>1, <2>3, <3>1, <3>2
  <2>4. CASE Collect(i)
    <3>1. Lost(r) = {}
      <4>1. IsFiniteSet(Lost(r)) /\ Cardinality(Lost(r)) \in Nat
        BY FlowConstants, FS_Subset, FS_CardinalityType DEF Lost
      <4>2. Cardinality(Lost(r)) = 0
        BY <2>1, <4>1 DEF LossesAreErrors
      <4> QED
        BY <4>1, <4>2, FS_EmptySet
    <3>2. \A c \in Check : c \in values[r]
      BY <1>1, <2>4, <3>1, CollectedUnlessLost
    <3>3. \A c \in Check : <<r, c, n>> \in saving'[i]
      BY <1>1, <2>4, <3>2, CollectMoves
    <3>4. worker'[i].pc = "storing"
      BY <1>1, <2>4, <3>2, CollectMoves, FlowConstants
    <3> QED
      BY <3>3, <3>4 DEF Unsaved
  <2>5. CASE SaveEnds(i) /\ worker[i].pc = "storing" /\ worker'[i].pc = "returned"
    <3>1. PICK d \in saving[i] : Save(i, d)
      BY <2>5 DEF SaveEnds
    <3>2. worker' = [worker EXCEPT ![i] = AfterSave(i, d, FALSE)]
      <4>1. PICK failed \in BOOLEAN :
              /\ failed => errors' = errors + 1
              /\ worker' = [worker EXCEPT ![i] = AfterSave(i, d, failed)]
        BY <3>1 DEF Save, Fails
      <4>2. failed = FALSE
        BY <1>1, <2>1, <4>1
      <4> QED
        BY <4>1, <4>2
    <3>3. \A e \in saving[i] \ {d} : ~Awaits(i, e)
      BY <2>5, <3>2 DEF AfterSave, TypeOK
    <3>4. ASSUME NEW c \in Unsaved(r, n)' PROVE FALSE
      <4>1. <<r, c, n>> \in saving[i] /\ documents'[<<r, c, n>>] = 0
        BY <1>1, <2>1, <2>2, <2>5, <3>4 DEF ReviewsAwaitSaves, Unsaved
      <4>2. Awaits(i, <<r, c, n>>)
        BY <1>1, <2>2, <2>5, WorkerState DEF Awaits
      <4>3. <<r, c, n>> = d
        BY <3>3, <4>1, <4>2
      <4> QED
        BY <1>1, <2>1, <3>1, <4>1, <4>3, SavedUnlessFailed
    <3> QED
      BY <2>5, <3>4
  <2> QED
    BY <2>2, <2>3, <2>4, <2>5
<1>2. ASSUME NEW i \in Instance, Busy(i)', KindOf(i)' = Review, errors' = 0,
             worker'[i].pc \in {"storing", "returned"}
      PROVE  /\ worker'[i].pc = "storing" => \A c \in Unsaved(RoundOf(i), worker[i].run)' :
                  <<worker'[i].job[1], c, worker'[i].run>> \in saving'[i]
             /\ worker'[i].pc = "returned" => Unsaved(RoundOf(i), worker[i].run)' = {}
  <2>1. /\ RoundOf(i) \in Round /\ RoundOf(i)' = RoundOf(i)
        /\ worker[i].run \in Run /\ worker'[i].run = worker[i].run
    BY <1>2, ReviewMoves DEF Hygiene
  <2>2. PICK r \in Round, n \in Run : r = RoundOf(i) /\ n = worker[i].run
    BY <2>1
  <2>3. /\ Unsaved(RoundOf(i), worker[i].run)' = Unsaved(r, n)'
        /\ worker'[i].job[1] = r /\ worker'[i].run = n
    BY <2>1, <2>2 DEF Unsaved, RoundOf
  <2> QED
    BY <1>1, <1>2, <2>2, <2>3
<1> QED
  BY <1>2 DEF ReviewsAwaitSaves, RoundOf

LEMMA DoneStays ==
  ASSUME TypeOK, LocksAreHeld, [Next]_vars, NEW q \in Job, place[q] = "done"
  PROVE  stalls'[q] = stalls[q]
<1>1. ASSUME NEW j \in Job, Stall(j) PROVE stalls'[q] = stalls[q]
  BY <1>1 DEF Stall, TypeOK
<1>2. ASSUME NEW i \in Instance, Handles(i) PROVE UNCHANGED stalls
  BY <1>2, HandlerMoves
<1>3. ASSUME NEW i \in Instance, Finish(i) \/ Crash(i) \/ Lapse(i) PROVE UNCHANGED stalls
  BY <1>3 DEF Finish, Crash, Lapse
<1>4. ASSUME (\E s \in Round : AddFlow(s)) \/ (\E i \in Instance, j \in Job : Fetch(i, j))
             \/ UNCHANGED vars
      PROVE  UNCHANGED stalls
  BY <1>4 DEF AddFlow, Fetch, vars
<1> QED
  BY <1>1, <1>2, <1>3, <1>4 DEF Next, Handles

LEMMA StoredStep ==
  ASSUME TypeOK, Hygiene, LossesAreErrors, ReviewsAwaitSaves, ReviewedRoundIsStored,
         [Next]_vars
  PROVE  ReviewedRoundIsStored'
<1> SUFFICES ASSUME NEW r \in Round, place'[<<r, Review>>] = "done"
             PROVE  \E n \in Run :
                      /\ n = stalls'[<<r, Review>>]
                      /\ Cardinality(Missed(r, n)') <= errors'
                      /\ errors' = 0 => Unsaved(r, n)' = {}
  BY DEF ReviewedRoundIsStored, Missed, Unsaved, Adrift
<1> DEFINE v == <<r, Review>>
<1>1. v \in Job
  BY DEF Job
<1>2. ASSUME NEW n \in Run, Cardinality(Missed(r, n)) <= errors,
             errors = 0 => Unsaved(r, n) = {}
      PROVE  /\ Cardinality(Missed(r, n)') <= errors'
             /\ errors' = 0 => Unsaved(r, n)' = {}
  BY <1>2, MissedCounts, UnsavedShrinks, ErrorsGrow
<1>3. CASE place[v] = "done"
  <2>1. stalls'[v] = stalls[v] /\ stalls[v] \in Run
    BY <1>1, <1>3, DoneStays DEF Hygiene, TypeOK, Run
  <2>2. /\ Cardinality(Missed(r, stalls[v])) <= errors
        /\ errors = 0 => Unsaved(r, stalls[v]) = {}
    BY <1>3 DEF ReviewedRoundIsStored, Missed
  <2>3. PICK n \in Run : n = stalls[v]
    BY <2>1
  <2> QED
    BY <1>2, <2>1, <2>2, <2>3
<1>4. CASE place[v] # "done"
  <2>1. PICK i \in Instance : Finish(i) /\ worker[i].job = v /\ worker[i].pc = "returned"
    BY <1>1, <1>4, PlaceStep DEF Hygiene, Finish
  <2>2. Busy(i) /\ KindOf(i) = Review /\ RoundOf(i) = r /\ worker[i].run \in Run
    BY <2>1, WorkerState DEF Busy, KindOf, RoundOf
  <2>3. lock[v] = i
    BY <1>4, <2>1, FinishMoves DEF Hygiene
  <2>4. worker[i].run = stalls[v] /\ stalls'[v] = stalls[v]
    BY <1>1, <2>1, <2>3, FlowConstants DEF Hygiene, LocksAreFresh, Finish
  <2>5. /\ Cardinality(Missed(r, worker[i].run)) <= errors
        /\ errors = 0 => Unsaved(r, worker[i].run) = {}
    BY <2>1, <2>2 DEF LossesAreErrors, ReviewsAwaitSaves
  <2>6. PICK n \in Run : n = worker[i].run
    BY <2>2
  <2> QED
    BY <1>2, <2>4, <2>5, <2>6
<1> QED
  BY <1>3, <1>4

\* The run that completes a review has stored the round, as long as no call
\* fails; crashes and lost locks cost no reading.  Each failing call costs one at
\* most, besides those whose saves were in flight when the review went on
\* without them, which a crash may cut off.
THEOREM ReviewsStore == Spec => []ReviewedRoundIsStored
<1> DEFINE Inv == /\ TypeOK /\ Hygiene /\ LossesAreErrors /\ ReviewsAwaitSaves
                  /\ ReviewedRoundIsStored
<1>1. Init => Inv
  <2> SUFFICES ASSUME Init
               PROVE  LossesAreErrors /\ ReviewsAwaitSaves /\ ReviewedRoundIsStored
    BY InitType, InitHygiene
  <2>1. \A i \in Instance : worker[i] = NoWork /\ ~Busy(i)
    BY DEF Init, Busy, NoWork
  <2>2. \A r \in Round, k \in Check \cup {Review} : place[<<r, k>>] = "absent"
    BY DEF Init, Job
  <2>3. ASSUME NEW r \in Round PROVE Lost(r) = {}
    BY <2>1, <2>2 DEF Lost, NoWork
  <2>4. errors = 0 /\ Cardinality({}) = 0
    BY FS_EmptySet DEF Init
  <2> QED
    BY <2>1, <2>2, <2>3, <2>4 DEF LossesAreErrors, ReviewsAwaitSaves, ReviewedRoundIsStored
<1>2. Inv /\ [Next]_vars => Inv'
  <2> SUFFICES ASSUME Inv, [Next]_vars PROVE Inv'
    OBVIOUS
  <2>1. TypeOK' /\ Hygiene'
    BY TypeStep, LocksStep, FreshStep, RunsStep, ReturnStep, StartCleanStep, SavesStep,
       AfterChecksStep, DocumentsBegunStep, FailStep DEF Hygiene
  <2>2. LossesAreErrors' /\ ReviewsAwaitSaves' /\ ReviewedRoundIsStored'
    BY LossesStep, AwaitSavesStep, StoredStep
  <2> QED
    BY <2>1, <2>2
<1>3. Inv => ReviewedRoundIsStored
  OBVIOUS
<1> QED
  BY <1>1, <1>2, <1>3, PTL DEF Spec
=============================================================================
