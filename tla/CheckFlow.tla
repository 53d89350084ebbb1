----------------------------- MODULE CheckFlow -----------------------------
(***************************************************************************)
(* One balance-checks flow per round of the check loop.                    *)
(*                                                                         *)
(* A flow (TasksService.CHECK_BALANCES_FLOW) is a child job for each check *)
(* and a parent, review-balance-checks, that BullMQ holds back until every *)
(* child has completed.  All jobs go through one queue, and the worker of  *)
(* every instance (processors/balance-checks-queue.ts) runs one at a time. *)
(* A child returns its reading, which BullMQ keeps with the parent; the    *)
(* review collects them and stores them in MongoDB                         *)
(* (checks/balances.service.ts), one document a reading, all at once.  It  *)
(* waits for the saves until one of them fails; the others then go on, and *)
(* nobody waits for them.                                                  *)
(*                                                                         *)
(* A worker holds its job by a lock that it renews.  When the process dies *)
(* the lock lapses, and when Redis is out of its reach for too long it     *)
(* lapses under a worker that goes on: BullMQ then takes the job back, and *)
(* two workers may be at it.  What a check does to the wallets is the      *)
(* matter of Refills.                                                      *)
(***************************************************************************)
EXTENDS Naturals, FiniteSets

CONSTANTS
  Instance,     \* processes, each with a worker on the queue
  Round,        \* stamps of the rounds; bounds them
  Check,        \* the checks of a round (ten in the code)
  Refilled,     \* the checks that may request a refill
  Review,       \* stands for the parent job of a round
  None,
  MaxErrors,    \* bound on failing calls in a behaviour
  MaxDowns,     \* bound on crashes in a behaviour
  MaxLapses     \* bound on locks that lapse under a live worker

ASSUME FlowConstants ==
  /\ IsFiniteSet(Check) /\ Check # {} /\ Refilled \subseteq Check /\ Review \notin Check
  /\ None \notin Instance /\ None \notin Round \X (Check \cup {Review})
  /\ MaxErrors \in Nat /\ MaxDowns \in Nat /\ MaxLapses \in Nat

Job == Round \X (Check \cup {Review})

\* The runs of a job, by how often it had been taken back when it was fetched;
\* one more than BullMQ allows.
Run == 0..2

VARIABLES
  place,      \* where Redis keeps each job
  stalls,     \* how often BullMQ took each job back
  lock,       \* the instance that holds each job's lock
  values,     \* the readings Redis keeps for each round's review
  worker,     \* what each instance's worker is at
  saving,     \* the saves each process has in flight, as <<round, check, run>>
  documents,  \* the documents in MongoDB, by the run of the review that saved them
  cut,        \* history: the saves that were in flight when their process died
  errors, downs, lapses    \* history, read by no guard except the bounds

bounds == <<errors, downs, lapses>>
vars == <<place, stalls, lock, values, worker, saving, documents, cut, bounds>>

-----------------------------------------------------------------------------
(* Records.                                                                *)

NoWork == [job |-> None, pc |-> "idle", run |-> 0, docs |-> {}]

\* `docs` is what a check is about to return.
WorkType ==
  [job : Job, pc : {"start", "storing", "returned", "thrown"}, run : Run,
   docs : SUBSET Check]

RoundOf(i) == worker[i].job[1]
KindOf(i) == worker[i].job[2]

\* A call to Redis, to MongoDB or to another queue fails.
Fails == errors < MaxErrors /\ errors' = errors + 1

Init ==
  /\ place = [j \in Job |-> "absent"]
  /\ stalls = [j \in Job |-> 0]
  /\ lock = [j \in Job |-> None]
  /\ values = [r \in Round |-> {}]
  /\ worker = [i \in Instance |-> NoWork]
  /\ saving = [i \in Instance |-> {}]
  /\ documents = [d \in Round \X Check \X Run |-> 0] /\ cut = {}
  /\ errors = 0 /\ downs = 0 /\ lapses = 0

-----------------------------------------------------------------------------
(* The queue.                                                              *)

\* The flow of a round is added, all of its jobs at once.
AddFlow(r) ==
  /\ \A k \in Check \cup {Review} : place[<<r, k>>] = "absent"
  /\ place' = [j \in Job |->
       IF j[1] # r THEN place[j] ELSE IF j[2] = Review THEN "blocked" ELSE "waiting"]
  /\ UNCHANGED <<stalls, lock, values, worker, saving, documents, cut, bounds>>

Fetch(i, j) ==
  /\ worker[i] = NoWork /\ place[j] = "waiting"
  /\ place' = [place EXCEPT ![j] = "active"]
  /\ lock' = [lock EXCEPT ![j] = i]
  /\ worker' = [worker EXCEPT ![i] =
       [job |-> j, pc |-> "start", run |-> stalls[j], docs |-> {}]]
  /\ UNCHANGED <<stalls, values, saving, documents, cut, bounds>>

\* Mutant of AllAnswered: the child that completes is still counted as open.
AllAnsweredBefore(j) == \A c \in Check : place[<<j[1], c>>] = "done"

\* Mutant of AllAnswered: a failed child does not hold the review back.
AllSettled(j) ==
  \A c \in Check : <<j[1], c>> = j \/ place[<<j[1], c>>] \in {"done", "failed"}

\* With job j completed, no child of its round is left.  A child that failed
\* is never completed, and the review waits for it.
AllAnswered(j) == \A c \in Check : <<j[1], c>> = j \/ place[<<j[1], c>>] = "done"

\* BullMQ: a job completes.  A child hands its reading over to the review.
Complete(j, docs) ==
  /\ place' = [place EXCEPT ![j] = "done",
       ![<<j[1], Review>>] = IF @ = "blocked" /\ AllAnswered(j) THEN "waiting" ELSE @]
  /\ values' = IF j[2] = Review THEN values ELSE [values EXCEPT ![j[1]] = @ \cup docs]

\* process() has returned or thrown; there is no second attempt.  A worker
\* that lost its lock is told so, and nothing changes.
Finish(i) ==
  LET j == worker[i].job IN
  /\ worker[i].pc \in {"returned", "thrown"}
  /\ IF lock[j] # i THEN UNCHANGED <<place, lock, values>>
     ELSE /\ lock' = [lock EXCEPT ![j] = None]
          /\ IF worker[i].pc = "returned" THEN Complete(j, worker[i].docs)
             ELSE place' = [place EXCEPT ![j] = "failed"] /\ UNCHANGED values
  /\ worker' = [worker EXCEPT ![i] = NoWork]
  /\ UNCHANGED <<stalls, saving, documents, cut, bounds>>

\* Mutant of MayRetry: stalled jobs are retried for ever.
AlwaysRetry(j) == TRUE

\* BullMQ: maxStalledCount = 1.
MayRetry(j) == stalls[j] < 1

\* BullMQ: an active job whose lock has lapsed is retried from the start, or fails.
Stall(j) ==
  /\ place[j] = "active" /\ lock[j] = None
  /\ IF MayRetry(j)
     THEN /\ place' = [place EXCEPT ![j] = "waiting"]
          /\ stalls' = [stalls EXCEPT ![j] = @ + 1]
     ELSE place' = [place EXCEPT ![j] = "failed"] /\ UNCHANGED stalls
  /\ UNCHANGED <<lock, values, worker, saving, documents, cut, bounds>>

-----------------------------------------------------------------------------
(* The handlers.                                                           *)

Returning(w, docs) == [w EXCEPT !.docs = docs, !.pc = "returned"]

\* Mutant of OnCheckError: the error is not caught.
OnCheckErrorThrow(w) == [w EXCEPT !.pc = "thrown"]

\* Every case catches its error and returns no reading.
OnCheckError(w) == Returning(w, {})

\* A check returns one reading, of 0 when the balance could not be read
\* (Thresholds).  What may throw is the request of a refill.
RunCheck(i) ==
  /\ worker[i].pc = "start" /\ KindOf(i) \in Check
  /\ \/ /\ worker' = [worker EXCEPT ![i] = Returning(@, {KindOf(i)})]
        /\ UNCHANGED errors
     \/ /\ KindOf(i) \in Refilled /\ Fails
        /\ worker' = [worker EXCEPT ![i] = OnCheckError(@)]
  /\ UNCHANGED <<place, stalls, lock, values, saving, documents, cut, downs, lapses>>

\* Mutant of Collected: the reduction keeps the last child's reading only.
CollectedLast(r) == IF values[r] = {} THEN {} ELSE {CHOOSE c \in values[r] : TRUE}

\* getChildrenValues(), concatenated.
Collected(r) == values[r]

\* The review collects the readings and calls create() with them, which saves
\* each document by itself, all at the same time.
Collect(i) ==
  LET docs == Collected(RoundOf(i)) IN
  /\ worker[i].pc = "start" /\ KindOf(i) = Review
  /\ \/ /\ worker' = [worker EXCEPT ![i] =
             IF docs = {} THEN Returning(@, {}) ELSE [@ EXCEPT !.pc = "storing"]]
        /\ saving' = [saving EXCEPT ![i] = @ \cup {<<RoundOf(i), c, worker[i].run>> : c \in docs}]
        /\ UNCHANGED errors
     \/ /\ Fails
        /\ worker' = [worker EXCEPT ![i] = [@ EXCEPT !.pc = "thrown"]]
        /\ UNCHANGED saving
  /\ UNCHANGED <<place, stalls, lock, values, documents, cut, downs, lapses>>

\* Mutant of StillSaving: a save that failed is done once more.
SavingAgain(i, d, failed) == IF failed THEN saving[i] ELSE saving[i] \ {d}

\* The other documents are saved whether or not this one was; the error is
\* caught in storeCheckResults, logged, and nothing is tried again.
StillSaving(i, d, failed) == saving[i] \ {d}

\* The worker's review waits in create() for save d.
Awaits(i, d) ==
  worker[i].pc = "storing" /\ worker[i].job = <<d[1], Review>> /\ worker[i].run = d[3]

\* create() resolves with the last save of its run, and rejects with the first
\* that fails.  A save of a review that has gone on is nobody's business.
AfterSave(i, d, failed) ==
  IF Awaits(i, d) /\ (failed \/ \A e \in saving[i] \ {d} : ~Awaits(i, e))
  THEN Returning(worker[i], {}) ELSE worker[i]

\* A save of process i comes to its end.  A failing save may have been done.
Save(i, d) ==
  LET saved == [documents EXCEPT ![d] = @ + 1] IN
  /\ \E failed \in BOOLEAN :
       /\ IF failed THEN Fails ELSE UNCHANGED errors
       /\ \/ documents' = saved
          \/ failed /\ UNCHANGED documents
       /\ saving' = [saving EXCEPT ![i] = StillSaving(i, d, failed)]
       /\ worker' = [worker EXCEPT ![i] = AfterSave(i, d, failed)]
  /\ UNCHANGED <<place, stalls, lock, values, cut, downs, lapses>>

-----------------------------------------------------------------------------
(* Crashes and lost locks.                                                 *)

\* The process dies with its job and its saves, and is started again.
Crash(i) ==
  /\ downs < MaxDowns /\ (worker[i] # NoWork \/ saving[i] # {})
  /\ worker' = [worker EXCEPT ![i] = NoWork]
  /\ saving' = [saving EXCEPT ![i] = {}] /\ cut' = cut \cup saving[i]
  /\ lock' = [j \in Job |-> IF lock[j] = i THEN None ELSE lock[j]]
  /\ downs' = downs + 1
  /\ UNCHANGED <<place, stalls, values, documents, errors, lapses>>

\* A live worker cannot renew its lock in time, and does not learn of it.
Lapse(i) ==
  /\ lapses < MaxLapses
  /\ \E j \in Job : lock[j] = i /\ lock' = [lock EXCEPT ![j] = None]
  /\ lapses' = lapses + 1
  /\ UNCHANGED <<place, stalls, values, worker, saving, documents, cut, errors, downs>>

-----------------------------------------------------------------------------
HandlerStep(i) == RunCheck(i) \/ Collect(i) \/ Finish(i)

SaveEnds(i) == \E d \in saving[i] : Save(i, d)

Next ==
  \/ \E r \in Round : AddFlow(r)
  \/ \E i \in Instance :
       \/ \E j \in Job : Fetch(i, j)
       \/ RunCheck(i) \/ Collect(i) \/ SaveEnds(i) \/ Finish(i)
       \/ Crash(i) \/ Lapse(i)
  \/ \E j \in Job : Stall(j)

Spec == Init /\ [][Next]_vars

\* Workers fetch and go on, answers come, and the check for stalled jobs runs
\* on a timer.  The queue is first-in first-out and its jobs are finitely many,
\* so nothing more is needed for each of them to be fetched.
Fairness ==
  /\ \A i \in Instance :
       /\ WF_vars(\E j \in Job : Fetch(i, j))
       /\ WF_vars(HandlerStep(i)) /\ WF_vars(SaveEnds(i))
  /\ \A j \in Job : WF_vars(Stall(j))

FairSpec == Spec /\ Fairness

-----------------------------------------------------------------------------
(* Properties.                                                             *)

\* Every variable keeps its type; in particular a job is taken back once at most.
TypeOK ==
  /\ place \in [Job -> {"absent", "blocked", "waiting", "active", "done", "failed"}]
  /\ stalls \in [Job -> 0..1]
  /\ lock \in [Job -> Instance \cup {None}]
  /\ values \in [Round -> SUBSET Check]
  /\ worker \in [Instance -> WorkType \cup {NoWork}]
  /\ saving \in [Instance -> SUBSET (Round \X Check \X Run)]
  /\ documents \in [Round \X Check \X Run -> Nat] /\ cut \subseteq Round \X Check \X Run
  /\ errors \in 0..MaxErrors /\ downs \in 0..MaxDowns /\ lapses \in 0..MaxLapses

\* The readings without a document of run n; and those whose save the run had
\* to leave behind, or a crash cut off.
Unsaved(r, n) == {c \in Check : documents[<<r, c, n>>] = 0}
Adrift(r, n) ==
  {c \in Check : <<r, c, n>> \in cut \/ \E i \in Instance : <<r, c, n>> \in saving[i]}

\* The run of a review that completes it, which is its last, has stored all of
\* the round's readings, whatever processes died and whatever locks were lost
\* on the way, and whichever of two workers on one job finished first, as long
\* as no call fails.  Each failing call costs one reading at most; but after
\* the first save that fails the review does not wait for the others, which
\* end later, or are cut off when the process dies.
ReviewedRoundIsStored ==
  \A r \in Round : place[<<r, Review>>] = "done" =>
    LET n == stalls[<<r, Review>>] IN
    /\ Cardinality(Unsaved(r, n) \ Adrift(r, n)) <= errors
    /\ errors = 0 => Unsaved(r, n) = {}

\* A reading is stored more than once only if its review was taken back, and
\* then once by each run: a check that is retried, or two workers that finish
\* the same check, never store its reading again.
CopiesNeedRetries ==
  \A r \in Round, c \in Check, n \in Run :
    /\ documents[<<r, c, n>>] <= 1
    /\ documents[<<r, c, n>>] > 0 => n <= stalls[<<r, Review>>]

\* A check fails, and with it its round, only when two workers were lost at
\* it: no answer of a wallet, of Turbo or of the refills queue fails a check.
ChecksFailByStallingOnly ==
  \A r \in Round, c \in Check : place[<<r, c>>] = "failed" => stalls[<<r, c>>] = 1

\* How many runs of a job have begun.
Begun(j) == stalls[j] + (IF place[j] \in {"active", "done", "failed"} THEN 1 ELSE 0)

\* Whatever fails, the readings of a round are written as ReadingsLog says:
\* after all of its checks have answered, in two attempts at most.
Log == INSTANCE ReadingsLog WITH
  answered <- [r \in Round |-> {c \in Check : place[<<r, c>>] = "done"}],
  readings <- values,
  begun <- [r \in Round |-> Begun(<<r, Review>>)]

RefinesReadingsLog == Log!Spec

\* Nothing can be lost that a review waits for: one that is held back has a
\* check that failed, that waits to be fetched, that is at a worker with its
\* lock, or whose lock is gone, so that BullMQ takes it back.  No order of
\* completions, lost locks and crashes leaves it with all checks completed.
ReviewsAwaitChecks ==
  \A r \in Round : place[<<r, Review>>] = "blocked" =>
    \E c \in Check : LET j == <<r, c>> IN
      \/ place[j] \in {"waiting", "failed"}
      \/ place[j] = "active" /\ \/ lock[j] = None
                                \/ \E i \in Instance : lock[j] = i /\ worker[i].job = j

\* "A parent job that runs once all children finish" (README): every round
\* that was added is reviewed in the end, unless one of its jobs fails.
RoundsReviewed ==
  \A r \in Round : place[<<r, Review>>] = "blocked" ~>
    \/ place[<<r, Review>>] = "done"
    \/ \E k \in Check \cup {Review} : place[<<r, k>>] = "failed"

\* "Records every reading in MongoDB" (README): what the checks of a round
\* return is stored in the end.
ReadingsAreStored ==
  \A r \in Round, c \in Check :
    c \in values[r] ~> \E n \in Run : documents[<<r, c, n>>] > 0
=============================================================================
