------------------------- MODULE RecheckChainProofs -------------------------
(***************************************************************************)
(* TLAPS proofs that CheckLoop implements RecheckChain, crashes, cleanups  *)
(* and retries included, and that every chain has its origin, for any      *)
(* number of instances, jobs and calls.                                    *)
(***************************************************************************)
EXTENDS CheckLoopProofs, FiniteSetTheorems

Queued == JobsIn({"waiting", "delayed"})
Cleaners == {i \in Instance : phase[i] \in {"notLive", "doClean"}}
Seeders == {c \in Call : call[c].kind = "bootstrap"}

-----------------------------------------------------------------------------
(* Counting.                                                               *)

LEMMA PartsAreFinite ==
  /\ IsFiniteSet(Queued) /\ IsFiniteSet(Queued')
  /\ IsFiniteSet(FetchedUnrun) /\ IsFiniteSet(FetchedUnrun')
  /\ IsFiniteSet(OpenRequeues) /\ IsFiniteSet(OpenRequeues')
  /\ IsFiniteSet(Orphans) /\ IsFiniteSet(Orphans')
  /\ IsFiniteSet(Cleaners) /\ IsFiniteSet(Cleaners')
  /\ IsFiniteSet(Seeders) /\ IsFiniteSet(Seeders')
<1>1. \A T \in SUBSET Job : IsFiniteSet(T)
  BY FS_Subset, LoopConstants
<1>2. \A T \in SUBSET Instance : IsFiniteSet(T)
  BY FS_Subset, LoopConstants
<1>3. \A T \in SUBSET Call : IsFiniteSet(T)
  BY FS_Subset, LoopConstants
<1>4. Queued \subseteq Job /\ Queued' \subseteq Job /\ Orphans \subseteq Job /\ Orphans' \subseteq Job
  BY DEF Queued, Orphans, JobsIn
<1>5. FetchedUnrun \subseteq Instance /\ FetchedUnrun' \subseteq Instance
      /\ Cleaners \subseteq Instance /\ Cleaners' \subseteq Instance
  BY DEF FetchedUnrun, Cleaners
<1>6. OpenRequeues \subseteq Call /\ OpenRequeues' \subseteq Call
      /\ Seeders \subseteq Call /\ Seeders' \subseteq Call
  BY DEF OpenRequeues, Seeders
<1> QED
  BY <1>1, <1>2, <1>3, <1>4, <1>5, <1>6

LEMMA PartsAreCounted ==
  /\ Cardinality(Queued) \in Nat /\ Cardinality(Queued') \in Nat
  /\ Cardinality(FetchedUnrun) \in Nat /\ Cardinality(FetchedUnrun') \in Nat
  /\ Cardinality(OpenRequeues) \in Nat /\ Cardinality(OpenRequeues') \in Nat
  /\ Cardinality(Orphans) \in Nat /\ Cardinality(Orphans') \in Nat
  /\ Cardinality(Cleaners) \in Nat /\ Cardinality(Cleaners') \in Nat
  /\ Cardinality(Seeders) \in Nat /\ Cardinality(Seeders') \in Nat
<1>1. \A S : IsFiniteSet(S) => Cardinality(S) \in Nat
  BY FS_CardinalityType
<1> QED
  BY <1>1, PartsAreFinite

\* One more, one less, and some less.
LEMMA OneMore ==
  ASSUME NEW S, IsFiniteSet(S), NEW x, x \notin S
  PROVE  Cardinality(S \cup {x}) = Cardinality(S) + 1
  BY FS_AddElement

LEMMA OneLess ==
  ASSUME NEW S, IsFiniteSet(S), NEW x \in S
  PROVE  Cardinality(S \ {x}) = Cardinality(S) - 1
  BY FS_RemoveElement

LEMMA NoMore ==
  ASSUME NEW S, IsFiniteSet(S), NEW T \in SUBSET S
  PROVE  Cardinality(T) <= Cardinality(S)
  BY FS_Subset

LEMMA SomeThere ==
  ASSUME NEW S, IsFiniteSet(S), Cardinality(S) \in Nat, NEW x \in S
  PROVE  Cardinality(S) > 0
<1>1. Cardinality(S) # 0
  BY FS_EmptySet
<1> QED
  BY <1>1

-----------------------------------------------------------------------------
(* What a step does to the parts.                                          *)

\* The step of RecheckChain that a step of the loop must be, with the origins
\* it may add for the chains it makes.
ChainStep ==
  /\ [Chain!Next]_(Chain!vars)
  /\ Chains' + origins <= Chains + origins'

PartsKept ==
  /\ Cardinality(Orphans') = Cardinality(Orphans)
  /\ Cardinality(Cleaners') = Cardinality(Cleaners)
  /\ Cardinality(Seeders') = Cardinality(Seeders)
  /\ downs' = downs

LEMMA ChainTypes ==
  /\ Chains \in Nat /\ Chains' \in Nat
  /\ Chains = Cardinality(Queued) + Cardinality(FetchedUnrun) + Cardinality(OpenRequeues)
  /\ Chains' = Cardinality(Queued') + Cardinality(FetchedUnrun') + Cardinality(OpenRequeues')
  BY PartsAreCounted DEF Chains, Queued

LEMMA Stutters ==
  ASSUME PartsKept, Chains' = Chains, origins' = origins, origins \in Nat
  PROVE  ChainStep
  BY ChainTypes DEF PartsKept, ChainStep, Chain!vars, Cleaners, Seeders

LEMMA Folds ==
  ASSUME PartsKept, Chains > 1, Chains' = Chains - 1, origins' = origins, origins \in Nat
  PROVE  ChainStep
<1>1. Chain!Fold
  BY DEF PartsKept, Chain!Fold, Cleaners, Seeders
<1> QED
  BY <1>1, ChainTypes DEF ChainStep, Chain!Next

\* A call is moved on, or ends.
LEMMA CallMoves ==
  ASSUME TypeOK, NEW c \in Call, NEW r, call' = [call EXCEPT ![c] = r]
  PROVE  /\ OpenRequeues' = IF r.kind = "handler" /\ ~r.seen
                            THEN OpenRequeues \cup {c} ELSE OpenRequeues \ {c}
         /\ Seeders' = IF r.kind = "bootstrap" THEN Seeders \cup {c} ELSE Seeders \ {c}
<1>1. call'[c] = r /\ \A d \in Call : d # c => call'[d] = call[d]
  BY DEF TypeOK
<1> QED
  BY <1>1 DEF OpenRequeues, Seeders

\* A call is started in a slot that carries nothing.
LEMMA CallStarts ==
  ASSUME TypeOK, NEW i \in Instance, NEW kind \in {"bootstrap", "handler"},
         StartCall(i, kind)
  PROVE  /\ kind = "handler" =>
              /\ Cardinality(OpenRequeues') = Cardinality(OpenRequeues) + 1
              /\ Cardinality(Seeders') = Cardinality(Seeders)
         /\ kind = "bootstrap" =>
              /\ Cardinality(OpenRequeues') = Cardinality(OpenRequeues)
              /\ Cardinality(Seeders') = Cardinality(Seeders) + 1
<1>1. PICK c \in Call : call[c] = NoCall /\ call' = [call EXCEPT ![c] = NewCall(i, kind)]
  BY DEF StartCall
<1>2. c \notin OpenRequeues /\ c \notin Seeders
  BY <1>1 DEF NoCall, OpenRequeues, Seeders
<1>3. NewCall(i, kind).kind = kind /\ ~NewCall(i, kind).seen
  BY DEF NewCall
<1>4. /\ kind = "handler" => OpenRequeues' = OpenRequeues \cup {c} /\ Seeders' = Seeders \ {c}
      /\ kind = "bootstrap" => OpenRequeues' = OpenRequeues \ {c} /\ Seeders' = Seeders \cup {c}
  BY <1>1, <1>3, CallMoves
<1>5. OpenRequeues \ {c} = OpenRequeues /\ Seeders \ {c} = Seeders
  BY <1>2
<1> QED
  BY <1>2, <1>4, <1>5, OneMore, PartsAreFinite

\* The bootstrap hook goes on to clean up, or to its call.
LEMMA HookGoesOn ==
  ASSUME TypeOK, NEW i \in Instance, NEW due, GoOn(i, due)
  PROVE  /\ Cardinality(OpenRequeues') = Cardinality(OpenRequeues)
         /\ \/ Cleaners' = Cleaners \cup {i} /\ Cardinality(Seeders') = Cardinality(Seeders)
            \/ Cleaners' = Cleaners \ {i} /\ Cardinality(Seeders') = Cardinality(Seeders) + 1
<1>1. CASE /\ phase' = [phase EXCEPT ![i] = IF "notLive" \in due THEN "notLive" ELSE "doClean"]
           /\ UNCHANGED call
  BY <1>1 DEF TypeOK, Cleaners, Seeders, OpenRequeues
<1>2. CASE phase' = [phase EXCEPT ![i] = "leading"] /\ StartCall(i, "bootstrap")
  <2>1. Cleaners' = Cleaners \ {i}
    BY <1>2 DEF TypeOK, Cleaners
  <2> QED
    BY <1>2, <2>1, CallStarts
<1> QED
  BY <1>1, <1>2 DEF GoOn

-----------------------------------------------------------------------------
(* Calls that have counted nothing, or are about to add, have seen no job. *)

UnseenAdds == \A c \in Call : call[c].pc \in {"waiting", "add"} => ~call[c].seen

ChainInv == LoopInv /\ UnseenAdds

LEMMA UnseenStep ==
  ASSUME TypeOK, UnseenAdds, [Next]_vars
  PROVE  UnseenAdds'
<1> USE DEF queueVars, workerVars, history
<1>1. ASSUME NEW i \in Instance, NEW kind \in {"bootstrap", "handler"}, StartCall(i, kind)
      PROVE  UnseenAdds'
  <2>1. PICK c \in Call : call' = [call EXCEPT ![c] = NewCall(i, kind)]
    BY <1>1 DEF StartCall
  <2>2. ~NewCall(i, kind).seen
    BY DEF NewCall
  <2> QED
    BY <2>1, <2>2 DEF UnseenAdds, TypeOK
<1>2. CASE UNCHANGED call
  BY <1>2 DEF UnseenAdds
<1>3. ASSUME NEW i \in Instance, NEW due, GoOn(i, due) PROVE UnseenAdds'
  BY <1>1, <1>2, <1>3 DEF GoOn
<1>4. ASSUME NEW i \in Instance, NEW one \in BOOLEAN, BootstrapTasks(i, one)
      PROVE  UnseenAdds'
  BY <1>2, <1>3, <1>4 DEF BootstrapTasks
<1>5. ASSUME NEW i \in Instance, Obliterate(i) PROVE UnseenAdds'
  BY <1>3, <1>5 DEF Obliterate
<1>6. ASSUME NEW i \in Instance, Process(i) PROVE UnseenAdds'
  BY <1>1, <1>6 DEF Process
<1>7. ASSUME NEW c \in Call, NEW r \in CallType \cup {NoCall},
             r.pc \in {"waiting", "add"} => ~r.seen, call' = [call EXCEPT ![c] = r]
      PROVE  UnseenAdds'
  BY <1>7 DEF UnseenAdds, TypeOK
<1>8. ASSUME NEW c \in Call, CountWaiting(c) PROVE UnseenAdds'
  <2>1. call'[c].pc = "delayed" /\ \A d \in Call : d # c => call'[d] = call[d]
    BY <1>8, CallUnderWay DEF CountWaiting, TypeOK, CallType
  <2> QED
    BY <2>1 DEF UnseenAdds
<1>9. ASSUME NEW c \in Call, NEW seen \in BOOLEAN, call[c].pc # "done",
             call[c].seen => seen, call' = [call EXCEPT ![c] = Decide(call[c], seen)]
      PROVE  UnseenAdds'
  <2>1. CASE seen
    BY <1>7, <1>9, <2>1 DEF Decide, NoCall
  <2>2. CASE ~seen
    <3>1. [call[c] EXCEPT !.pc = "add"].seen = call[c].seen /\ ~call[c].seen
      BY <1>9, <2>2, MovedOn
    <3>2. Decide(call[c], seen) \in CallType \cup {NoCall}
      BY <1>9, DecideType
    <3>3. Decide(call[c], seen) = [call[c] EXCEPT !.pc = "add"]
      BY <2>2 DEF Decide
    <3> QED
      BY <1>7, <1>9, <3>1, <3>2, <3>3
  <2> QED
    BY <2>1, <2>2
<1>10. ASSUME NEW c \in Call, CountDelayed(c) PROVE UnseenAdds'
  <2> DEFINE seen == call[c].seen \/ JobsIn({"delayed"}) # {}
  <2>1. call[c].pc # "done" /\ call[c] \in CallType /\ seen \in BOOLEAN
    BY <1>10, CallUnderWay DEF CountDelayed
  <2>2. CASE SkipActiveCheck(call[c].kind)
    BY <1>9, <1>10, <2>1, <2>2 DEF CountDelayed
  <2>3. CASE ~SkipActiveCheck(call[c].kind)
    <3>1. call' = [call EXCEPT ![c] = [call[c] EXCEPT !.pc = "active", !.seen = seen]]
      BY <1>10, <2>3 DEF CountDelayed
    <3>2. [call[c] EXCEPT !.pc = "active", !.seen = seen].pc = "active"
      BY <2>1, MovedOn
    <3>3. [call[c] EXCEPT !.pc = "active", !.seen = seen] \in CallType
      BY <2>1 DEF CallType
    <3> QED
      BY <1>7, <3>1, <3>2, <3>3
  <2> QED
    BY <2>2, <2>3
<1>11. ASSUME NEW c \in Call, CountActive(c) PROVE UnseenAdds'
  <2> DEFINE seen == call[c].seen \/ JobsIn({"active"}) # {}
  <2>1. call[c].pc # "done" /\ call[c] \in CallType /\ seen \in BOOLEAN
    BY <1>11, CallUnderWay DEF CountActive
  <2> QED
    BY <1>9, <1>11, <2>1 DEF CountActive
<1>12. ASSUME NEW c \in Call, Add(c) PROVE UnseenAdds'
  BY <1>7, <1>12 DEF Add, NoCall
<1>13. ASSUME NEW i \in Instance, GoDown(i) PROVE UnseenAdds'
  BY <1>13 DEF GoDown, UnseenAdds, NoCall, TypeOK
<1>14. ASSUME NEW i \in Instance, Boot(i) \/ Fetch(i) \/ AddFlow(i) \/ Finish(i)
       PROVE  UnseenAdds'
  BY <1>2, <1>14 DEF Boot, Fetch, AddFlow, Finish
<1>15. ASSUME NEW j \in Job, Promote(j) \/ Stall(j) PROVE UnseenAdds'
  BY <1>2, <1>15 DEF Promote, Stall
<1>16. CASE UNCHANGED vars
  BY <1>2, <1>16 DEF vars
<1> QED
  BY <1>4, <1>5, <1>6, <1>8, <1>10, <1>11, <1>12, <1>13, <1>14, <1>15, <1>16
     DEF Next, Crash, Shutdown

-----------------------------------------------------------------------------
(* The bootstrap.                                                          *)

LEMMA BootstrapChains ==
  ASSUME ChainInv, NEW i \in Instance, NEW one \in BOOLEAN, BootstrapTasks(i, one)
  PROVE  ChainStep
<1> USE DEF queueVars, workerVars, history
<1>0. TypeOK /\ origins \in Nat /\ i \notin Cleaners
  BY DEF ChainInv, LoopInv, TypeOK, BootstrapTasks, Cleaners
<1>1. /\ Queued' = Queued /\ FetchedUnrun' = FetchedUnrun /\ Orphans' = Orphans
      /\ UNCHANGED <<origins, downs>>
  BY DEF BootstrapTasks, Queued, JobsIn, FetchedUnrun, Orphans
<1>2. CASE GoOn(i, AskedCleanups)
  <2>1. Chains' = Chains
    BY <1>0, <1>1, <1>2, HookGoesOn, ChainTypes
  <2>2. \/ /\ Cardinality(Cleaners') = Cardinality(Cleaners) + 1
           /\ Cardinality(Seeders') = Cardinality(Seeders)
        \/ /\ Cardinality(Cleaners') = Cardinality(Cleaners)
           /\ Cardinality(Seeders') = Cardinality(Seeders) + 1
    <3>1. Cleaners \ {i} = Cleaners
      BY <1>0
    <3> QED
      BY <1>0, <1>2, <3>1, HookGoesOn, OneMore, PartsAreFinite
  <2>3. Chain!Start
    BY <1>1, <2>1, <2>2 DEF Chain!Start, Cleaners, Seeders
  <2> QED
    BY <1>0, <1>1, <2>1, <2>3, ChainTypes DEF ChainStep, Chain!Next
<1>3. CASE phase' = [phase EXCEPT ![i] = "standby"] /\ UNCHANGED call
  <2>1. Cleaners' = Cleaners /\ Seeders' = Seeders /\ OpenRequeues' = OpenRequeues
    BY <1>0, <1>3 DEF Cleaners, Seeders, OpenRequeues, TypeOK
  <2> QED
    BY <1>0, <1>1, <2>1, ChainTypes, Stutters DEF PartsKept
<1> QED
  BY <1>2, <1>3 DEF BootstrapTasks

LEMMA ObliterateChains ==
  ASSUME ChainInv, NEW i \in Instance, Obliterate(i)
  PROVE  ChainStep
<1>0. TypeOK /\ origins \in Nat /\ i \in Cleaners
  BY DEF ChainInv, LoopInv, TypeOK, Obliterate, Cleaners
<1>1. /\ Queued' = {} /\ Orphans' = {} /\ FetchedUnrun' = FetchedUnrun
      /\ UNCHANGED <<origins, downs>>
  BY DEF Obliterate, Obliterated, Queued, JobsIn, FetchedUnrun, Orphans, workerVars
<1>2. PICK due : GoOn(i, due)
  BY DEF Obliterate
<1>3. Cardinality(Queued') = 0 /\ Cardinality(Orphans') = 0
  BY <1>1, FS_EmptySet
<1>4. Chains' <= Chains
  BY <1>0, <1>1, <1>2, <1>3, HookGoesOn, ChainTypes, PartsAreCounted
<1>5. \/ /\ Cardinality(Cleaners') = Cardinality(Cleaners)
         /\ Cardinality(Seeders') = Cardinality(Seeders)
      \/ /\ Cardinality(Cleaners') = Cardinality(Cleaners) - 1
         /\ Cardinality(Seeders') = Cardinality(Seeders) + 1
  <2>1. Cleaners \cup {i} = Cleaners
    BY <1>0
  <2> QED
    BY <1>0, <1>2, <2>1, HookGoesOn, OneLess, PartsAreFinite
<1>6. Cardinality(Cleaners) > 0
  BY <1>0, SomeThere, PartsAreFinite, PartsAreCounted
<1>7. Chain!Clean
  BY <1>1, <1>3, <1>4, <1>5, <1>6, ChainTypes DEF Chain!Clean, Cleaners, Seeders
<1> QED
  BY <1>0, <1>1, <1>4, <1>7, ChainTypes DEF ChainStep, Chain!Next

-----------------------------------------------------------------------------
(* The calls.                                                              *)

\* A count changes no job: the call stays what it was, or stands down.
LEMMA CountsKeep ==
  ASSUME NEW c \in Call, CountWaiting(c) \/ CountDelayed(c) \/ CountActive(c)
  PROVE  /\ Queued' = Queued /\ FetchedUnrun' = FetchedUnrun /\ Orphans' = Orphans
         /\ Cleaners' = Cleaners /\ UNCHANGED <<origins, downs>>
  BY DEF CountWaiting, CountDelayed, CountActive, queueVars, workerVars, history,
     Queued, JobsIn, FetchedUnrun, Orphans, Cleaners

\* A handler's call that has found a queued job folds its chain into that one's.
LEMMA StandsDown ==
  ASSUME TypeOK, NEW c \in OpenRequeues, Queued # {},
         Queued' = Queued, FetchedUnrun' = FetchedUnrun, PartsKept,
         OpenRequeues' = OpenRequeues \ {c}, origins' = origins
  PROVE  ChainStep
<1>1. Cardinality(OpenRequeues') = Cardinality(OpenRequeues) - 1
  BY OneLess, PartsAreFinite
<1>2. Cardinality(Queued) > 0 /\ Cardinality(OpenRequeues) > 0
  BY SomeThere, PartsAreFinite, PartsAreCounted
<1> QED
  BY <1>1, <1>2, ChainTypes, PartsAreCounted, Folds DEF TypeOK

\* A call that is what it was as far as chains and seeders go.
LEMMA CallKept ==
  ASSUME TypeOK, Queued' = Queued, FetchedUnrun' = FetchedUnrun,
         OpenRequeues' = OpenRequeues, PartsKept, origins' = origins
  PROVE  ChainStep
  BY ChainTypes, Stutters DEF TypeOK

LEMMA CountChains ==
  ASSUME ChainInv, NEW c \in Call, NEW r,
         Queued' = Queued, FetchedUnrun' = FetchedUnrun, Orphans' = Orphans,
         Cleaners' = Cleaners, UNCHANGED <<origins, downs>>,
         call' = [call EXCEPT ![c] = r], call[c] \in CallType,
         \/ r.kind = call[c].kind /\ (call[c].seen => r.seen)
         \/ r.kind \notin {"bootstrap", "handler"},
         c \in OpenRequeues /\ ~(r.kind = "handler" /\ ~r.seen) => Queued # {}
  PROVE  ChainStep
<1>0. TypeOK
  BY DEF ChainInv, LoopInv
<1>1. /\ OpenRequeues' = IF r.kind = "handler" /\ ~r.seen
                         THEN OpenRequeues \cup {c} ELSE OpenRequeues \ {c}
      /\ Seeders' = IF r.kind = "bootstrap" THEN Seeders \cup {c} ELSE Seeders \ {c}
  BY <1>0, CallMoves
<1>2. CASE call[c].kind = "handler"
  <2>1. c \notin Seeders /\ r.kind # "bootstrap"
    BY <1>2 DEF Seeders
  <2>2. Seeders' = Seeders
    BY <1>1, <2>1
  <2>3. PartsKept
    BY <2>2 DEF PartsKept
  <2>4. r.kind = "handler" /\ ~r.seen => c \in OpenRequeues
    BY <1>2 DEF OpenRequeues, CallType
  <2>5. CASE c \in OpenRequeues /\ ~(r.kind = "handler" /\ ~r.seen)
    BY <1>0, <1>1, <2>3, <2>5, StandsDown
  <2>6. CASE ~(c \in OpenRequeues /\ ~(r.kind = "handler" /\ ~r.seen))
    <3>1. OpenRequeues' = OpenRequeues
      BY <1>1, <2>4, <2>6
    <3> QED
      BY <1>0, <2>3, <3>1, CallKept
  <2> QED
    BY <2>5, <2>6
<1>3. CASE call[c].kind = "bootstrap"
  <2>1. c \in Seeders /\ c \notin OpenRequeues /\ r.kind # "handler"
    BY <1>3 DEF Seeders, OpenRequeues
  <2>2. OpenRequeues' = OpenRequeues
    BY <1>1, <2>1
  <2>3. CASE r.kind = "bootstrap"
    <3>1. Seeders' = Seeders
      BY <1>1, <2>1, <2>3
    <3> QED
      BY <1>0, <2>2, <3>1, CallKept DEF PartsKept
  <2>4. CASE r.kind # "bootstrap"
    <3>1. Cardinality(Seeders') = Cardinality(Seeders) - 1
      BY <1>1, <2>1, <2>4, OneLess, PartsAreFinite
    <3>2. Cardinality(Seeders) > 0
      BY <2>1, SomeThere, PartsAreFinite, PartsAreCounted
    <3>3. Chains' = Chains
      BY <2>2, ChainTypes
    <3>4. Chain!Seed
      BY <3>1, <3>2, <3>3 DEF Chain!Seed, Cleaners, Seeders
    <3> QED
      BY <1>0, <3>3, <3>4, ChainTypes DEF ChainStep, Chain!Next, TypeOK
  <2> QED
    BY <2>3, <2>4
<1> QED
  BY <1>2, <1>3 DEF CallType

LEMMA CountWaitingChains ==
  ASSUME ChainInv, NEW c \in Call, CountWaiting(c)
  PROVE  ChainStep
<1> DEFINE r == [call[c] EXCEPT !.pc = "delayed", !.seen = (JobsIn({"waiting"}) # {})]
<1>0. TypeOK /\ call[c] \in CallType /\ ~call[c].seen
  BY CallUnderWay DEF ChainInv, LoopInv, UnseenAdds, CountWaiting
<1>1. call' = [call EXCEPT ![c] = r]
  BY <1>0 DEF CountWaiting, TypeOK
<1>2. r.kind = call[c].kind /\ r.seen = (JobsIn({"waiting"}) # {})
  BY <1>0 DEF CallType
<1>3. r.seen => Queued # {}
  BY <1>2 DEF Queued, JobsIn
<1>4. c \in OpenRequeues => call[c].kind = "handler"
  BY DEF OpenRequeues
<1> HIDE DEF r
<1> QED
  BY <1>0, <1>1, <1>2, <1>3, <1>4, CountsKeep, CountChains

LEMMA CountDelayedChains ==
  ASSUME ChainInv, NEW c \in Call, CountDelayed(c)
  PROVE  ChainStep
<1> DEFINE seen == call[c].seen \/ JobsIn({"delayed"}) # {}
<1>0. TypeOK /\ call[c] \in CallType /\ call[c].pc # "done"
  BY CallUnderWay DEF ChainInv, LoopInv, CountDelayed
<1>1. c \in OpenRequeues => call[c].kind = "handler" /\ ~call[c].seen
  BY DEF OpenRequeues
<1>2. c \in OpenRequeues /\ seen => Queued # {}
  BY <1>1 DEF Queued, JobsIn
<1>3. CASE SkipActiveCheck(call[c].kind) /\ seen
  <2>1. call' = [call EXCEPT ![c] = NoCall]
    BY <1>3 DEF CountDelayed, Decide
  <2>2. NoCall.kind \notin {"bootstrap", "handler"}
    BY DEF NoCall
  <2> QED
    BY <1>0, <1>2, <1>3, <2>1, <2>2, CountsKeep, CountChains
<1>4. CASE SkipActiveCheck(call[c].kind) /\ ~seen
  <2> DEFINE r == [call[c] EXCEPT !.pc = "add"]
  <2>1. call' = [call EXCEPT ![c] = r]
    BY <1>4 DEF CountDelayed, Decide
  <2>2. r.kind = call[c].kind /\ r.seen = call[c].seen
    BY <1>0, MovedOn
  <2> HIDE DEF r
  <2> QED
    BY <1>0, <1>1, <2>1, <2>2, CountsKeep, CountChains
<1>5. CASE ~SkipActiveCheck(call[c].kind)
  <2> DEFINE r == [call[c] EXCEPT !.pc = "active", !.seen = seen]
  <2>1. call' = [call EXCEPT ![c] = r]
    BY <1>5 DEF CountDelayed
  <2>2. r.kind = call[c].kind /\ r.seen = seen
    BY <1>0 DEF CallType
  <2>3. call[c].seen => r.seen
    BY <2>2
  <2>4. c \notin OpenRequeues
    BY <1>5 DEF OpenRequeues, SkipActiveCheck
  <2> HIDE DEF r, seen
  <2> QED
    BY <1>0, <2>1, <2>2, <2>3, <2>4, CountsKeep, CountChains
<1> QED
  BY <1>3, <1>4, <1>5

LEMMA CountActiveChains ==
  ASSUME ChainInv, NEW c \in Call, CountActive(c)
  PROVE  ChainStep
<1> DEFINE seen == call[c].seen \/ JobsIn({"active"}) # {}
<1>0. TypeOK /\ call[c] \in CallType /\ call[c].pc # "done"
  BY CallUnderWay DEF ChainInv, LoopInv, CountActive
<1>1. c \notin OpenRequeues
  BY DEF OpenRequeues, CountActive, ChainInv, LoopInv, HandlersSkipActive
<1>2. CASE seen
  <2>1. call' = [call EXCEPT ![c] = NoCall]
    BY <1>2 DEF CountActive, Decide
  <2>2. NoCall.kind \notin {"bootstrap", "handler"}
    BY DEF NoCall
  <2> QED
    BY <1>0, <1>1, <2>1, <2>2, CountsKeep, CountChains
<1>3. CASE ~seen
  <2> DEFINE r == [call[c] EXCEPT !.pc = "add"]
  <2>1. call' = [call EXCEPT ![c] = r]
    BY <1>3 DEF CountActive, Decide
  <2>2. r.kind = call[c].kind /\ r.seen = call[c].seen
    BY <1>0, MovedOn
  <2> HIDE DEF r
  <2> QED
    BY <1>0, <1>1, <2>1, <2>2, CountsKeep, CountChains
<1> QED
  BY <1>2, <1>3

LEMMA AddChains ==
  ASSUME ChainInv, NEW c \in Call, Add(c)
  PROVE  ChainStep
<1>0. TypeOK /\ origins \in Nat /\ call[c] \in CallType /\ ~call[c].seen
  BY CallUnderWay DEF ChainInv, LoopInv, UnseenAdds, Add, TypeOK
<1>1. PICK j \in Job : /\ state[j] = "absent"
                       /\ state' = [state EXCEPT ![j] = AddedTo(call[c].kind)]
  BY DEF Add
<1>2. j \notin Queued /\ Queued' = Queued \cup {j}
  BY <1>0, <1>1 DEF Queued, JobsIn, AddedTo, TypeOK
<1>3. Cardinality(Queued') = Cardinality(Queued) + 1
  BY <1>2, OneMore, PartsAreFinite
<1>4. FetchedUnrun' = FetchedUnrun /\ Cleaners' = Cleaners /\ UNCHANGED downs
  BY DEF Add, workerVars, FetchedUnrun, Cleaners
<1>5. Orphans' = Orphans
  BY <1>0, <1>1 DEF Add, workerVars, Orphans, JobsIn, AddedTo, TypeOK
<1>6. OpenRequeues' = OpenRequeues \ {c} /\ Seeders' = Seeders \ {c}
  <2>1. call' = [call EXCEPT ![c] = NoCall]
    BY DEF Add
  <2> QED
    BY <1>0, <2>1, CallMoves DEF NoCall
<1>7. CASE call[c].kind = "handler"
  <2>1. c \in OpenRequeues /\ c \notin Seeders
    BY <1>0, <1>7 DEF OpenRequeues, Seeders
  <2>2. Cardinality(OpenRequeues') = Cardinality(OpenRequeues) - 1 /\ Seeders' = Seeders
    BY <1>6, <2>1, OneLess, PartsAreFinite
  <2>3. origins' = origins
    BY <1>7 DEF Add
  <2>4. Chains' = Chains
    BY <1>3, <1>4, <2>2, ChainTypes, PartsAreCounted
  <2> QED
    BY <1>0, <1>4, <1>5, <2>2, <2>3, <2>4, Stutters DEF PartsKept
<1>8. CASE call[c].kind = "bootstrap"
  <2>1. c \notin OpenRequeues /\ c \in Seeders
    BY <1>8 DEF OpenRequeues, Seeders
  <2>2. Cardinality(Seeders') = Cardinality(Seeders) - 1 /\ OpenRequeues' = OpenRequeues
    BY <1>6, <2>1, OneLess, PartsAreFinite
  <2>3. origins' = origins + 1
    BY <1>8 DEF Add
  <2>4. Chains' = Chains + 1
    BY <1>3, <1>4, <2>2, ChainTypes, PartsAreCounted
  <2>5. Cardinality(Seeders) > 0
    BY <2>1, SomeThere, PartsAreFinite, PartsAreCounted
  <2>6. Chain!Seed
    BY <1>4, <1>5, <2>2, <2>4, <2>5, ChainTypes DEF Chain!Seed, Cleaners, Seeders
  <2> QED
    BY <1>0, <2>3, <2>4, <2>6, ChainTypes DEF ChainStep, Chain!Next
<1> QED
  BY <1>0, <1>7, <1>8 DEF CallType

-----------------------------------------------------------------------------
(* The worker.                                                             *)

LEMMA FetchChains ==
  ASSUME ChainInv, NEW i \in Instance, Fetch(i)
  PROVE  ChainStep
<1>0. TypeOK /\ origins \in Nat
  BY DEF ChainInv, LoopInv, TypeOK
<1>1. PICK j \in Job : /\ state[j] = "waiting"
                       /\ state' = [state EXCEPT ![j] = "active"]
                       /\ worker' = [worker EXCEPT ![i] = j]
  BY DEF Fetch, JobsIn
<1>2. j \in Queued /\ Queued' = Queued \ {j}
  BY <1>0, <1>1 DEF Queued, JobsIn, TypeOK
<1>3. i \notin FetchedUnrun /\ FetchedUnrun' = FetchedUnrun \cup {i}
  BY <1>0, <1>1, LoopConstants DEF Fetch, FetchedUnrun, TypeOK
<1>4. Orphans' = Orphans
  BY <1>0, <1>1, LoopConstants DEF Fetch, Orphans, JobsIn, TypeOK
<1>5. /\ OpenRequeues' = OpenRequeues /\ Cleaners' = Cleaners /\ Seeders' = Seeders
      /\ UNCHANGED <<origins, downs>>
  BY DEF Fetch, history, OpenRequeues, Cleaners, Seeders
<1>6. /\ Cardinality(Queued') = Cardinality(Queued) - 1
      /\ Cardinality(FetchedUnrun') = Cardinality(FetchedUnrun) + 1
  BY <1>2, <1>3, OneMore, OneLess, PartsAreFinite
<1>7. Chains' = Chains
  BY <1>5, <1>6, ChainTypes, PartsAreCounted
<1> QED
  BY <1>0, <1>4, <1>5, <1>7, Stutters DEF PartsKept

LEMMA ProcessChains ==
  ASSUME ChainInv, NEW i \in Instance, Process(i)
  PROVE  ChainStep
<1>0. TypeOK /\ origins \in Nat
  BY DEF ChainInv, LoopInv, TypeOK
<1>1. i \in FetchedUnrun /\ FetchedUnrun' = FetchedUnrun \ {i}
  BY <1>0 DEF Process, FetchedUnrun, TypeOK
<1>2. /\ Queued' = Queued /\ Orphans' = Orphans /\ Cleaners' = Cleaners
      /\ UNCHANGED <<origins, downs>>
  BY DEF Process, queueVars, history, Queued, Orphans, JobsIn, Cleaners
<1>3. /\ Cardinality(OpenRequeues') = Cardinality(OpenRequeues) + 1
      /\ Cardinality(Seeders') = Cardinality(Seeders)
  BY <1>0, CallStarts DEF Process
<1>4. Cardinality(FetchedUnrun') = Cardinality(FetchedUnrun) - 1
  BY <1>1, OneLess, PartsAreFinite
<1>5. Chains' = Chains
  BY <1>2, <1>3, <1>4, ChainTypes, PartsAreCounted
<1> QED
  BY <1>0, <1>2, <1>3, <1>5, Stutters DEF PartsKept

\* Steps that move no chain.
LEMMA QuietChains ==
  ASSUME ChainInv,
         \/ \E i \in Instance : Boot(i) \/ AddFlow(i) \/ Finish(i)
         \/ \E j \in Job : Promote(j)
         \/ UNCHANGED vars
  PROVE  ChainStep
<1> USE DEF queueVars, workerVars, history
<1>0. TypeOK /\ HeldOnce /\ origins \in Nat
  BY DEF ChainInv, LoopInv, TypeOK
<1> DEFINE Quiet == /\ Queued' = Queued /\ FetchedUnrun' = FetchedUnrun
                    /\ OpenRequeues' = OpenRequeues /\ Orphans' = Orphans
                    /\ Cleaners' = Cleaners /\ Seeders' = Seeders
                    /\ UNCHANGED <<origins, downs>>
<1>1. ASSUME NEW i \in Instance, Boot(i) PROVE Quiet
  BY <1>0, <1>1 DEF Boot, Queued, FetchedUnrun, OpenRequeues, Orphans, JobsIn, Cleaners,
     Seeders, TypeOK
<1>2. ASSUME NEW i \in Instance, AddFlow(i) PROVE Quiet
  BY <1>2 DEF AddFlow, Queued, FetchedUnrun, OpenRequeues, Orphans, JobsIn, Cleaners,
     Seeders
<1>3. ASSUME NEW i \in Instance, Finish(i) PROVE Quiet
  <2>1. Queued' = Queued
    BY <1>0, <1>3 DEF Finish, Queued, JobsIn, HeldOnce, TypeOK
  <2>2. Orphans' = Orphans
    <3>1. worker[i] \in Job /\ worker' = [worker EXCEPT ![i] = NoJob]
      BY <1>0, <1>3 DEF Finish, TypeOK
    <3>2. \A j \in Job : j # worker[i] =>
            (j \in Orphans' <=> j \in Orphans)
      BY <1>0, <1>3, <3>1, LoopConstants DEF Finish, Orphans, JobsIn, TypeOK
    <3>3. worker[i] \notin Orphans /\ worker[i] \notin Orphans'
      BY <1>0, <1>3, <3>1 DEF Finish, Orphans, JobsIn, TypeOK
    <3> QED
      BY <3>2, <3>3 DEF Orphans, JobsIn
  <2>3. FetchedUnrun' = FetchedUnrun
    BY <1>0, <1>3 DEF Finish, FetchedUnrun, TypeOK
  <2> QED
    BY <1>3, <2>1, <2>2, <2>3 DEF Finish, OpenRequeues, Cleaners, Seeders
<1>4. ASSUME NEW j \in Job, Promote(j) PROVE Quiet
  BY <1>0, <1>4 DEF Promote, Queued, FetchedUnrun, OpenRequeues, Orphans, JobsIn, Cleaners,
     Seeders, TypeOK
<1>5. ASSUME UNCHANGED vars PROVE Quiet
  BY <1>5 DEF vars, Queued, FetchedUnrun, OpenRequeues, Orphans, JobsIn, Cleaners, Seeders
<1>6. Quiet
  BY <1>1, <1>2, <1>3, <1>4, <1>5
<1> QED
  BY <1>0, <1>6, ChainTypes, Stutters DEF PartsKept

-----------------------------------------------------------------------------
(* Stalled jobs and ends of instances.                                     *)

LEMMA StallChains ==
  ASSUME ChainInv, NEW j \in Job, Stall(j)
  PROVE  ChainStep
<1> USE DEF workerVars
<1>0. TypeOK /\ origins \in Nat /\ j \in Orphans /\ j \notin Queued
  BY DEF ChainInv, LoopInv, TypeOK, Stall, Orphans, Queued, JobsIn
<1>1. Orphans' = Orphans \ {j}
  BY <1>0 DEF Stall, Orphans, JobsIn, TypeOK
<1>2. /\ Cardinality(Orphans') = Cardinality(Orphans) - 1
      /\ Cardinality(Orphans) > 0
  BY <1>0, <1>1, OneLess, SomeThere, PartsAreFinite, PartsAreCounted
<1>3. /\ FetchedUnrun' = FetchedUnrun /\ OpenRequeues' = OpenRequeues
      /\ Cleaners' = Cleaners /\ Seeders' = Seeders /\ UNCHANGED downs
  BY DEF Stall, FetchedUnrun, OpenRequeues, Cleaners, Seeders
<1>4. \/ Queued' = Queued \cup {j} /\ origins' = origins + 1
      \/ Queued' = Queued /\ origins' = origins
  BY <1>0 DEF Stall, Queued, JobsIn, TypeOK
<1>5. \/ Chains' = Chains + 1 /\ origins' = origins + 1
      \/ Chains' = Chains /\ origins' = origins
  BY <1>0, <1>3, <1>4, OneMore, PartsAreFinite, ChainTypes, PartsAreCounted
<1>6. Chain!TakeBack
  BY <1>2, <1>3, <1>5 DEF Chain!TakeBack, Cleaners, Seeders
<1> QED
  BY <1>0, <1>5, <1>6, ChainTypes DEF ChainStep, Chain!Next

LEMMA GoDownChains ==
  ASSUME ChainInv, NEW i \in Instance, GoDown(i)
  PROVE  ChainStep
<1>0. TypeOK /\ HeldOnce /\ origins \in Nat
  BY DEF ChainInv, LoopInv, TypeOK
<1>1. /\ Queued' = Queued /\ FetchedUnrun' \subseteq FetchedUnrun
      /\ OpenRequeues' \subseteq OpenRequeues /\ Cleaners' \subseteq Cleaners
      /\ Seeders' \subseteq Seeders /\ downs' = downs + 1 /\ origins' = origins
  BY <1>0 DEF GoDown, queueVars, Queued, JobsIn, FetchedUnrun, OpenRequeues, Cleaners,
     Seeders, NoCall, TypeOK
<1>2. /\ Cardinality(FetchedUnrun') <= Cardinality(FetchedUnrun)
      /\ Cardinality(OpenRequeues') <= Cardinality(OpenRequeues)
      /\ Cardinality(Cleaners') <= Cardinality(Cleaners)
      /\ Cardinality(Seeders') <= Cardinality(Seeders)
  BY <1>1, NoMore, PartsAreFinite
<1>3. Chains' <= Chains
  BY <1>1, <1>2, ChainTypes, PartsAreCounted
<1>4. Orphans' = Orphans \/ \E j \in Job \ Orphans : Orphans' = Orphans \cup {j}
  <2>1. \A k \in Instance : worker'[k] = IF k = i THEN NoJob ELSE worker[k]
    BY <1>0 DEF GoDown, TypeOK
  <2>2. state' = state
    BY DEF GoDown, queueVars
  <2>3. \A j \in Job : j # worker[i] => (j \in Orphans' <=> j \in Orphans)
    BY <2>1, <2>2, LoopConstants DEF Orphans, JobsIn
  <2>4. worker[i] \notin Orphans
    BY DEF Orphans
  <2>5. Orphans \subseteq Job /\ Orphans' \subseteq Job
    BY DEF Orphans, JobsIn
  <2>6. CASE worker[i] \in Orphans'
    <3>1. Orphans' = Orphans \cup {worker[i]}
      BY <2>3, <2>4, <2>5, <2>6
    <3> QED
      BY <2>4, <2>5, <2>6, <3>1
  <2>7. CASE worker[i] \notin Orphans'
    BY <2>3, <2>4, <2>5, <2>7
  <2> QED
    BY <2>6, <2>7
<1>5. Cardinality(Orphans') \in {Cardinality(Orphans), Cardinality(Orphans) + 1}
  BY <1>4, OneMore, PartsAreFinite
<1>6. Chain!GoDown
  BY <1>1, <1>2, <1>3, <1>5, ChainTypes, PartsAreCounted DEF Chain!GoDown, Cleaners, Seeders
<1> QED
  BY <1>0, <1>1, <1>3, <1>6, ChainTypes DEF ChainStep, Chain!Next

-----------------------------------------------------------------------------
(* The theorems.                                                           *)

LEMMA EveryStepChains ==
  ASSUME ChainInv, [Next]_vars
  PROVE  ChainStep
BY BootstrapChains, ObliterateChains, CountWaitingChains, CountDelayedChains,
   CountActiveChains, AddChains, FetchChains, ProcessChains, QuietChains,
   StallChains, GoDownChains DEF Next, Crash, Shutdown

LEMMA ChainInvariant == Spec => []ChainInv
<1>1. Init => ChainInv
  BY LoopInvInit DEF Init, ChainInv, UnseenAdds, NoCall
<1>2. ChainInv /\ [Next]_vars => ChainInv'
  BY LoopInvInductive, UnseenStep DEF ChainInv, LoopInv
<1> QED
  BY <1>1, <1>2, PTL DEF Spec

LEMMA NothingYet ==
  ASSUME Init
  PROVE  /\ Queued = {} /\ FetchedUnrun = {} /\ OpenRequeues = {} /\ Orphans = {}
         /\ Cleaners = {} /\ Seeders = {} /\ Chains = 0
<1>1. /\ Queued = {} /\ FetchedUnrun = {} /\ OpenRequeues = {} /\ Orphans = {}
      /\ Cleaners = {} /\ Seeders = {}
  BY DEF Init, Queued, JobsIn, FetchedUnrun, OpenRequeues, Orphans, Cleaners, Seeders, NoCall
<1> QED
  BY <1>1, ChainTypes, FS_EmptySet

\* Every step of the loop - any count, add, cleanup, crash or retry, between any
\* others - is a step of RecheckChain, or changes nothing that it speaks of.
THEOREM ImplementsRecheckChain == Spec => RefinesRecheckChain
<1>1. Init => Chain!Init
  BY NothingYet, FS_EmptySet DEF Init, Chain!Init, Cleaners, Seeders
<1>2. ChainInv /\ [Next]_vars => [Chain!Next]_(Chain!vars)
  BY EveryStepChains DEF ChainStep
<1> QED
  BY <1>1, <1>2, ChainInvariant, PTL DEF Spec, RefinesRecheckChain, Chain!Spec

\* A handler's racy count-then-add never makes two chains of one: there are at
\* most as many as bootstraps and retries have begun.
THEOREM OriginsOfChains == Spec => []ChainsHaveOrigins
<1>1. ASSUME Init PROVE ChainsHaveOrigins
  <2>1. Chains = 0 /\ origins = 0
    BY <1>1, NothingYet DEF Init
  <2> QED
    BY <2>1 DEF ChainsHaveOrigins
<1>2. ASSUME ChainInv, ChainsHaveOrigins, [Next]_vars PROVE ChainsHaveOrigins'
  <2>1. Chains' + origins <= Chains + origins' /\ origins \in Nat /\ origins' \in Nat
    BY <1>2, EveryStepChains, TypeInductive DEF ChainStep, ChainInv, LoopInv, TypeOK
  <2> QED
    BY <1>2, <2>1, ChainTypes DEF ChainsHaveOrigins
<1> QED
  BY <1>1, <1>2, ChainInvariant, PTL DEF Spec
=============================================================================
