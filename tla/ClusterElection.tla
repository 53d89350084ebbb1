-------------------------- MODULE ClusterElection --------------------------
(***************************************************************************)
(* Leader election of the cluster service (cluster/cluster.service.ts).    *)
(*                                                                         *)
(* An instance that is a local leader creates a Consul session, asks for   *)
(* the lock clusters/<service>/leader with it, waits for the answer, and   *)
(* from then on watches the key: each time the watch reports the key       *)
(* missing it asks once more.  An answer sets isLeader; a failed request   *)
(* leaves it as it was.  The session is renewed by a timer, never          *)
(* recreated, and destroyed on shutdown.                                   *)
(*                                                                         *)
(* Consul is external: a session that ends deletes the keys it locks       *)
(* (behavior 'delete') and leaves a lock-delay on them, during which every *)
(* acquire is answered false; a request with a dead session is an error.   *)
(* Requests, answers and watch reports travel on connections of their own  *)
(* and may overtake each other.                                            *)
(***************************************************************************)
EXTENDS Naturals

CONSTANTS
  Instance,     \* the service's processes (Nomad: count = 2)
  Session,      \* ids of Consul sessions; bounds the sessions ever created
  NoSession,
  Undefined,    \* isLeader before the first answer
  Clustered,    \* IS_LIVE = 'true', and CONSUL_HOST and CONSUL_PORT are set
  LocalLeader,  \* the instances with IS_LOCAL_LEADER = 'true'
  MaxAsks,      \* bound on the lock requests of an instance under way
  MaxErrors,    \* bound on failed Consul requests of live instances
  MaxLapses     \* bound on sessions that expire although their owner lives

ASSUME ElectionConstants ==
  /\ NoSession \notin Session
  /\ Undefined \notin BOOLEAN
  /\ Clustered \in BOOLEAN
  /\ LocalLeader \subseteq Instance
  /\ MaxAsks \in Nat /\ MaxErrors \in Nat /\ MaxLapses \in Nat

VARIABLES
  hook,       \* how far each instance's onApplicationBootstrap has come
  isLeader,   \* what each instance believes: TRUE, FALSE or Undefined
  sessionId,  \* the session each instance created
  watching,   \* the watch on the key is running
  asks,       \* lock requests that Consul has not processed
  answers,    \* answers under way to each instance, counted by kind
  \* Consul's side
  session,    \* "unused", "live" or "dead"
  holder,     \* the session the key is locked with; NoSession: no such key
  lockDelay,  \* the key was released a moment ago and cannot be acquired
  news,       \* the key's index moved since the instance's watch last reported
  \* history, read by the bounds only
  errors, lapses,
  turnedAway  \* whose requests were refused or lost since the key became free

instanceVars == <<hook, isLeader, sessionId, watching, asks, answers>>
consulVars == <<session, holder, lockDelay, news>>
vars == <<instanceVars, consulVars, errors, lapses, turnedAway>>

-----------------------------------------------------------------------------
\* Consul's answers to an acquire: true or false.
Answer == {"granted", "refused"}

NoAnswers == [a \in Answer |-> 0]

Free == holder = NoSession

Live(i) == sessionId[i] # NoSession /\ session[sessionId[i]] = "live"

Owned(s) == \E i \in Instance : sessionId[i] = s

\* isTheOne(): both the Consul leader and the local leader.
IsTheOne(i) == isLeader[i] = TRUE /\ i \in LocalLeader

\* In single-node mode the constructor itself sets isLeader.
InitialBelief == IF Clustered THEN Undefined ELSE TRUE

Init ==
  /\ hook = [i \in Instance |-> "down"]
  /\ isLeader = [i \in Instance |-> InitialBelief]
  /\ sessionId = [i \in Instance |-> NoSession]
  /\ watching = [i \in Instance |-> FALSE]
  /\ asks = [i \in Instance |-> 0]
  /\ answers = [i \in Instance |-> NoAnswers]
  /\ session = [s \in Session |-> "unused"]
  /\ holder = NoSession /\ lockDelay = FALSE
  /\ news = [i \in Instance |-> FALSE]
  /\ errors = 0 /\ lapses = 0 /\ turnedAway = {}

-----------------------------------------------------------------------------
(* The bootstrap hook.                                                     *)

Boot(i) ==
  /\ hook[i] = "down"
  /\ hook' = [hook EXCEPT ![i] = "starting"]
  /\ UNCHANGED <<isLeader, sessionId, watching, asks, answers, consulVars,
                 errors, lapses, turnedAway>>

\* Without Consul, or when it is not the local leader, the hook returns.
StartHook(i) ==
  /\ hook[i] = "starting"
  /\ hook' = [hook EXCEPT ![i] =
       IF Clustered /\ i \in LocalLeader THEN "creating" ELSE "done"]
  /\ UNCHANGED <<isLeader, sessionId, watching, asks, answers, consulVars,
                 errors, lapses, turnedAway>>

\* Mutant of NewSession: the instances share the session of the service.
SharedSession(s) == session[s] # "dead"

\* session.create makes a session of its own for every call.
NewSession(s) == session[s] = "unused"

\* createSession resolves, and startLeaderElection sends its first request.
CreateSession(i) ==
  /\ hook[i] = "creating"
  /\ \E s \in Session :
       /\ NewSession(s)
       /\ session' = [session EXCEPT ![s] = "live"]
       /\ sessionId' = [sessionId EXCEPT ![i] = s]
  /\ hook' = [hook EXCEPT ![i] = "electing"]
  /\ asks' = [asks EXCEPT ![i] = 1]
  /\ UNCHANGED <<isLeader, watching, answers, holder, lockDelay, news,
                 errors, lapses, turnedAway>>

\* createSession rejects: the hook logs it and returns.
CreateSessionFails(i) ==
  /\ hook[i] = "creating" /\ errors < MaxErrors
  /\ hook' = [hook EXCEPT ![i] = "done"]
  /\ errors' = errors + 1
  /\ UNCHANGED <<isLeader, sessionId, watching, asks, answers, consulVars,
                 lapses, turnedAway>>

\* What follows the await of the first acquireLock, be it answered or not:
\* the watch is started and the hook returns.  Later requests only return.
\* A new watch reports the key at once.
AfterAcquireLock(i) ==
  IF hook[i] = "electing"
  THEN /\ hook' = [hook EXCEPT ![i] = "done"]
       /\ watching' = [watching EXCEPT ![i] = TRUE]
       /\ news' = [news EXCEPT ![i] = TRUE]
  ELSE UNCHANGED <<hook, watching, news>>

-----------------------------------------------------------------------------
(* Consul and the lock requests.                                           *)

\* The key changed: every watch that runs has something to report.
TellWatches == news' = [i \in Instance |-> news[i] \/ watching[i]]

\* A request of i was in vain; while the key is free, nobody tells i to repeat it.
InVain(i) == turnedAway' = IF Free THEN turnedAway \cup {i} ELSE turnedAway

\* Consul processes a request with a live session.
ConsulAcquire(i) ==
  /\ asks[i] > 0 /\ Live(i)
  /\ IF holder = sessionId[i] \/ (Free /\ ~lockDelay)
     THEN /\ answers' = [answers EXCEPT ![i]["granted"] = @ + 1]
          /\ holder' = sessionId[i]
          /\ TellWatches
          /\ turnedAway' = {}
     ELSE /\ answers' = [answers EXCEPT ![i]["refused"] = @ + 1]
          /\ InVain(i)
          /\ UNCHANGED <<holder, news>>
  /\ asks' = [asks EXCEPT ![i] = @ - 1]
  /\ UNCHANGED <<hook, isLeader, sessionId, watching, session, lockDelay,
                 errors, lapses>>

\* Mutant of Belief: any answer that is not an error counts as the lock.
AnyAnswerLeads(answer) == TRUE

\* Mutant of Belief: a refusal leaves no belief.
OnlyGrantsCount(answer) == IF answer = "granted" THEN TRUE ELSE Undefined

\* this.isLeader = result
Belief(answer) == answer = "granted"

\* acquireLock gets its answer.
Deliver(i, answer) ==
  /\ answers[i][answer] > 0
  /\ answers' = [answers EXCEPT ![i][answer] = @ - 1]
  /\ isLeader' = [isLeader EXCEPT ![i] = Belief(answer)]
  /\ AfterAcquireLock(i)
  /\ UNCHANGED <<sessionId, asks, session, holder, lockDelay, errors, lapses, turnedAway>>

\* Consul refuses a request whose session is dead; acquireLock catches it.
RefuseDeadSession(i) ==
  /\ asks[i] > 0 /\ ~Live(i)
  /\ asks' = [asks EXCEPT ![i] = @ - 1]
  /\ AfterAcquireLock(i)
  /\ UNCHANGED <<isLeader, sessionId, answers, session, holder, lockDelay,
                 errors, lapses, turnedAway>>

\* The request or its answer is lost; acquireLock catches the error.
LoseRequest(i) ==
  /\ errors < MaxErrors
  /\ errors' = errors + 1
  /\ \/ /\ asks[i] > 0
        /\ asks' = [asks EXCEPT ![i] = @ - 1]
        /\ InVain(i)
        /\ UNCHANGED answers
     \/ \E a \in Answer :
          /\ answers[i][a] > 0
          /\ answers' = [answers EXCEPT ![i][a] = @ - 1]
          /\ UNCHANGED <<asks, turnedAway>>
  /\ AfterAcquireLock(i)
  /\ UNCHANGED <<isLeader, sessionId, session, holder, lockDelay, lapses>>

UnderWay(i) == asks[i] + answers[i]["granted"] + answers[i]["refused"]

\* Mutant of AsksAgain: the test of `data` is the wrong way round.
AsksWhenTaken(missing) == ~missing

\* if (!data) await acquireLock()
AsksAgain(missing) == missing

\* The watch emits 'change' with the key it read.
WatchChange(i) ==
  /\ watching[i] /\ news[i] /\ UnderWay(i) < MaxAsks
  /\ news' = [news EXCEPT ![i] = FALSE]
  /\ asks' = IF AsksAgain(Free) THEN [asks EXCEPT ![i] = @ + 1] ELSE asks
  /\ UNCHANGED <<hook, isLeader, sessionId, watching, answers, session,
                 holder, lockDelay, errors, lapses, turnedAway>>

\* The index of a missing key is that of Consul's whole KV store: a write
\* of anyone to any other key can make the watch report again.
OtherKeyWritten(i) ==
  /\ watching[i] /\ ~news[i] /\ Free
  /\ news' = [news EXCEPT ![i] = TRUE]
  /\ UNCHANGED <<instanceVars, session, holder, lockDelay, errors, lapses, turnedAway>>

-----------------------------------------------------------------------------
(* Ends of sessions and of instances.                                      *)

\* Consul invalidates session s: a key it locks goes, a lock-delay stays.
EndSession(s) ==
  /\ session' = [session EXCEPT ![s] = "dead"]
  /\ IF holder = s
     THEN holder' = NoSession /\ lockDelay' = TRUE /\ TellWatches
     ELSE UNCHANGED <<holder, lockDelay, news>>

\* The TTL of 15s passes without a renewal: the owner is gone, or lives
\* and was held up (a busy event loop, a partition).
Expire(s) ==
  /\ session[s] = "live"
  /\ \/ ~Owned(s) /\ UNCHANGED lapses
     \/ Owned(s) /\ lapses < MaxLapses /\ lapses' = lapses + 1
  /\ EndSession(s)
  /\ UNCHANGED <<instanceVars, errors, turnedAway>>

LockDelayOver ==
  /\ lockDelay
  /\ lockDelay' = FALSE
  /\ UNCHANGED <<instanceVars, session, holder, news, errors, lapses, turnedAway>>

\* Mutant of DestroysSession: only an instance that believes it leads cleans up.
DestroysIfLeading(i) == sessionId[i] # NoSession /\ isLeader[i] = TRUE

\* The condition on session.destroy: there is a session.
DestroysSession(i) == sessionId[i] # NoSession

\* beforeApplicationShutdown, when session.destroy is answered or there is
\* nothing to destroy.  The watch and the requests under way go on until the
\* process exits.
Stop(i) ==
  /\ hook[i] = "done"
  /\ hook' = [hook EXCEPT ![i] = "stopping"]
  /\ IF DestroysSession(i)
     THEN EndSession(sessionId[i])
     ELSE UNCHANGED <<session, holder, lockDelay, news>>
  /\ UNCHANGED <<isLeader, sessionId, watching, asks, answers, errors, lapses, turnedAway>>

\* The process ends, and its memory with it.
GoDown(i) ==
  /\ hook' = [hook EXCEPT ![i] = "down"]
  /\ isLeader' = [isLeader EXCEPT ![i] = InitialBelief]
  /\ sessionId' = [sessionId EXCEPT ![i] = NoSession]
  /\ watching' = [watching EXCEPT ![i] = FALSE]
  /\ asks' = [asks EXCEPT ![i] = 0]
  /\ answers' = [answers EXCEPT ![i] = NoAnswers]
  /\ news' = [news EXCEPT ![i] = FALSE]
  /\ turnedAway' = turnedAway \ {i}
  /\ UNCHANGED <<session, holder, lockDelay, lapses>>

\* session.destroy rejects and nothing catches it: Nest's shutdown logs the
\* error and ends the process there.  The session, which nobody renews any
\* more, is left to its TTL (Expire), or to the destroy if that arrived.
StopFails(i) ==
  /\ hook[i] = "done" /\ DestroysSession(i)
  /\ errors < MaxErrors /\ errors' = errors + 1
  /\ GoDown(i)

Exit(i) == hook[i] = "stopping" /\ GoDown(i) /\ UNCHANGED errors

Crash(i) == hook[i] # "down" /\ GoDown(i) /\ UNCHANGED errors

-----------------------------------------------------------------------------
Next ==
  \/ \E i \in Instance :
       \/ Boot(i) \/ StartHook(i) \/ CreateSession(i) \/ CreateSessionFails(i)
       \/ ConsulAcquire(i) \/ RefuseDeadSession(i) \/ LoseRequest(i)
       \/ \E a \in Answer : Deliver(i, a)
       \/ WatchChange(i) \/ OtherKeyWritten(i)
       \/ Stop(i) \/ StopFails(i) \/ Exit(i) \/ Crash(i)
  \/ \E s \in Session : Expire(s)
  \/ LockDelayOver

Spec == Init /\ [][Next]_vars

\* Timers, and requests that Consul answers unless a bounded error strikes.
\* Nothing makes an instance start or stop, or anyone write other keys.
Fairness ==
  /\ \A i \in Instance :
       /\ WF_vars(StartHook(i)) /\ WF_vars(CreateSession(i))
       /\ WF_vars(ConsulAcquire(i)) /\ WF_vars(RefuseDeadSession(i))
       /\ WF_vars(\E a \in Answer : Deliver(i, a))
       /\ WF_vars(WatchChange(i)) /\ WF_vars(Exit(i))
  /\ \A s \in Session : WF_vars(~Owned(s) /\ Expire(s))
  /\ WF_vars(LockDelayOver)

FairSpec == Spec /\ Fairness

\* Other users of the KV store keep writing to it.
BusyStoreSpec == FairSpec /\ \A i \in Instance : WF_vars(OtherKeyWritten(i))

-----------------------------------------------------------------------------
(* Properties.                                                             *)

\* Every variable keeps its type, and the instances have a session each,
\* one that Consul created.
TypeOK ==
  /\ hook \in [Instance -> {"down", "starting", "creating", "electing",
                            "done", "stopping"}]
  /\ isLeader \in [Instance -> BOOLEAN \cup {Undefined}]
  /\ sessionId \in [Instance -> Session \cup {NoSession}]
  /\ watching \in [Instance -> BOOLEAN]
  /\ asks \in [Instance -> Nat]
  /\ answers \in [Instance -> [Answer -> Nat]]
  /\ session \in [Session -> {"unused", "live", "dead"}]
  /\ holder \in Session \cup {NoSession}
  /\ lockDelay \in BOOLEAN
  /\ news \in [Instance -> BOOLEAN]
  /\ errors \in 0..MaxErrors /\ lapses \in 0..MaxLapses
  /\ turnedAway \subseteq Instance
  /\ \A i, j \in Instance :
       sessionId[i] = sessionId[j] /\ sessionId[i] # NoSession => i = j
  /\ \A i \in Instance :
       sessionId[i] # NoSession => session[sessionId[i]] # "unused"

\* An instance that believes it is the leader and whose session has not
\* lapsed does hold the lock, however the answers to its requests, the
\* reports of its watch and the ends of other sessions were ordered.
LeaderHoldsLock ==
  Clustered => \A i \in Instance : isLeader[i] = TRUE /\ Live(i) => holder = sessionId[i]

\* The key is locked with session s, which no process renews or destroys.
Orphaned(s) == holder = s /\ ~Owned(s)

\* A shutdown whose session.destroy is answered frees the lock, even when the
\* instance does not know that it holds it (a lost answer) or asks again while
\* it stops.  So the only locks that wait for the TTL are those of processes
\* that crashed or whose destroy failed (cluster.service.ts,
\* beforeApplicationShutdown).
StopFreesLock ==
  /\ [](\A i \in Instance :
         hook[i] = "stopping" /\ sessionId[i] # NoSession => holder # sessionId[i])
  /\ [][\A s \in Session : Orphaned(s)' /\ ~Orphaned(s) =>
          \E i \in Instance :
            sessionId[i] = s /\ hook[i] # "stopping" /\ hook'[i] = "down"]_vars

\* The hook of a local leader returns with the leader resolved (the comment
\* on isLeader: "undefined - wait for leader resolution to finish") unless
\* a request failed or the session lapsed: TasksService, whose hook comes
\* next and reads isTheOne() once, does not take "not yet" for "no".
LeaderResolved ==
  \A i \in LocalLeader :
    hook[i] = "done" /\ errors = 0 /\ Live(i) => isLeader[i] # Undefined

\* No freed lock goes unnoticed: while the key is free, a standby with a live
\* session has a report of its watch to come or a request under way, unless a
\* request of it was refused in the lock-delay, or lost, since the key was
\* last held - whenever its watch began and however reports, requests and the
\* ends of sessions crossed.
StandbyIsTold ==
  \A i \in Instance :
    watching[i] /\ Live(i) /\ Free /\ i \notin turnedAway => news[i] \/ asks[i] > 0

\* A standby is "ready to become a leader" (cluster.service.ts): while it
\* watches with a live session, a free lock does not stay free for ever.
StandbyTakesOver ==
  \A i \in Instance :
    (watching[i] /\ Live(i) /\ Free) ~> (~Free \/ ~watching[i] \/ ~Live(i))
=============================================================================
