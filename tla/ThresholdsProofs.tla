-------------------------- MODULE ThresholdsProofs --------------------------
(***************************************************************************)
(* What the checks of Thresholds request, for every balance and all        *)
(* thresholds.                                                             *)
(***************************************************************************)
EXTENDS Thresholds, TLAPS

\* The request of a reading, if there is one, belongs to a balance that was
\* fetched and is below the minimum, and lifts it to the maximum exactly.
Restores(reading, fetched, min, max) ==
  reading.requestAmount # Missing =>
    /\ fetched \in Nat /\ fetched < min
    /\ reading.balance = fetched
    /\ reading.requestAmount \in Nat \ {0}
    /\ fetched + reading.requestAmount = max

LEMMA JudgeRestores ==
  ASSUME NEW b \in Nat, NEW min \in Nat, NEW max \in Nat, min <= max, NEW a
  PROVE  Restores(Judge(b, min, max, a), b, min, max)
  BY MissingIsNoAmount DEF Restores, Judge, Below, Shortfall, Reading

\* No check of the service ever requests anything but the shortfall: not when
\* the fetch failed, nor for a wallet that is not configured, nor when AO
\* checks are disabled ("computes the shortfall (MAX - balance)", README).
THEOREM RequestIsShortfall ==
  ASSUME NEW fetched \in Nat \cup {Missing}, NEW min \in Nat, NEW max \in Nat,
         min <= max, NEW a, NEW enabled \in BOOLEAN
  PROVE  /\ Restores(CheckAo(enabled, fetched, min, max, a), fetched, min, max)
         /\ Restores(CheckBundler(fetched, min, max, a), fetched, min, max)
         /\ Restores(CheckHodlerEth(fetched, min, max, a), fetched, min, max)
         /\ Restores(CheckRewardsPool(fetched, min, max, a), fetched, min, max)
         /\ Restores(CheckCredits(fetched, min, max, a), fetched, min, max)
<1>1. ASSUME NEW b PROVE Restores(Unread(b), fetched, min, max)
  BY DEF Restores, Unread, Reading
<1>2. fetched # Missing => Restores(Judge(fetched, min, max, a), fetched, min, max)
  BY JudgeRestores
<1>3. Restores(CheckAo(enabled, fetched, min, max, a), fetched, min, max)
  BY <1>1, <1>2 DEF CheckAo
<1>4. Restores(CheckBundler(fetched, min, max, a), fetched, min, max)
  BY <1>1, <1>2 DEF CheckBundler
<1>5. min # Missing /\ max # Missing
  BY MissingIsNoAmount
<1>6. Restores(CheckHodlerEth(fetched, min, max, a), fetched, min, max)
  BY <1>1, <1>2, <1>5 DEF CheckHodlerEth
<1>7. Restores(CheckRewardsPool(fetched, min, max, a), fetched, min, max)
  BY <1>1, <1>2 DEF CheckRewardsPool
<1>8. Restores(CheckCredits(fetched, min, max, a), fetched, min, max)
  BY <1>1, <1>2 DEF CheckCredits
<1> QED
  BY <1>3, <1>4, <1>6, <1>7, <1>8

\* A depleted wallet that was read gets its request - from the AO, bundler and
\* Turbo checks whatever its balance, from the two hodler checks only when the
\* balance is not exactly 0.
THEOREM DepletionIsRequested ==
  ASSUME NEW fetched \in Nat, NEW min \in Nat, NEW max \in Nat,
         min <= max, NEW a, a # Missing, fetched < min
  PROVE  /\ CheckAo(TRUE, fetched, min, max, a).requestAmount = max - fetched
         /\ CheckBundler(fetched, min, max, a).requestAmount = max - fetched
         /\ CheckCredits(fetched, min, max, a).requestAmount = max - fetched
         /\ fetched # 0 =>
              /\ CheckHodlerEth(fetched, min, max, a).requestAmount = max - fetched
              /\ CheckRewardsPool(fetched, min, max, a).requestAmount = max - fetched
         /\ fetched = 0 =>
              /\ CheckHodlerEth(fetched, min, max, a).requestAmount = Missing
              /\ CheckRewardsPool(fetched, min, max, a).requestAmount = Missing
<1>1. fetched # Missing /\ min # Missing /\ max # Missing
  BY MissingIsNoAmount
<1>2. Judge(fetched, min, max, a).requestAmount = max - fetched
  BY <1>1 DEF Judge, Below, Shortfall, Reading
<1>3. Unread(a).requestAmount = Missing
  BY DEF Unread, Reading
<1> QED
  BY <1>1, <1>2, <1>3
  DEF CheckAo, CheckBundler, CheckCredits, CheckHodlerEth, CheckRewardsPool

\* A threshold that is missing from the configuration ("Skipping ... checks",
\* the constructors) does not always skip the check.  The rewards pool and Turbo
\* checks request nothing then.  The AO and bundler checks do not either without
\* a minimum, but without a maximum they request NaN for a depleted wallet; and
\* the hodler check, which reads a missing maximum as 0, a negative amount.
THEOREM MissingThresholds ==
  ASSUME NEW fetched \in Nat, NEW min \in Nat \cup {Missing},
         NEW max \in Nat \cup {Missing}, min = Missing \/ max = Missing,
         NEW a, a # Missing
  PROVE  /\ CheckRewardsPool(fetched, min, max, a).requestAmount = Missing
         /\ CheckCredits(fetched, min, max, a).requestAmount = Missing
         /\ LET nan == IF min \in Nat /\ fetched < min THEN NaN ELSE Missing IN
            /\ CheckAo(TRUE, fetched, min, max, a).requestAmount = nan
            /\ CheckBundler(fetched, min, max, a).requestAmount = nan
         /\ CheckHodlerEth(fetched, min, max, a).requestAmount =
              IF min \in Nat /\ fetched < min /\ fetched # 0 THEN -fetched ELSE Missing
<1>1. fetched # Missing /\ Missing \notin Nat
  BY MissingIsNoAmount
<1>2. Unread(a).requestAmount = Missing
  BY DEF Unread, Reading
<1>3. CheckRewardsPool(fetched, min, max, a).requestAmount = Missing
  BY <1>2 DEF CheckRewardsPool
<1>4. CheckCredits(fetched, min, max, a).requestAmount = Missing
  BY <1>2 DEF CheckCredits
<1>5. Judge(fetched, min, max, a).requestAmount =
        IF min \in Nat /\ fetched < min THEN NaN ELSE Missing
  BY <1>1 DEF Judge, Below, Shortfall, Reading
<1>6. CASE fetched = 0
  BY <1>1, <1>2, <1>3, <1>4, <1>5, <1>6 DEF CheckAo, CheckBundler, CheckHodlerEth
<1>7. CASE fetched # 0
  <2>1. CASE min = Missing
    <3>1. Judge(fetched, 0, IF max = Missing THEN 0 ELSE max, a).requestAmount = Missing
      BY DEF Judge, Below, Reading
    <3> QED
      BY <1>1, <1>3, <1>4, <1>5, <1>7, <2>1, <3>1 DEF CheckAo, CheckBundler, CheckHodlerEth
  <2>2. CASE min \in Nat
    <3>1. max = Missing /\ min # Missing
      BY <1>1, <2>2
    <3>2. Judge(fetched, min, 0, a).requestAmount =
            IF fetched < min THEN -fetched ELSE Missing
      BY <1>1, <2>2 DEF Judge, Below, Shortfall, Reading
    <3> QED
      BY <1>1, <1>3, <1>4, <1>5, <1>7, <2>2, <3>1, <3>2
      DEF CheckAo, CheckBundler, CheckHodlerEth
  <2> QED
    BY <2>1, <2>2
<1> QED
  BY <1>6, <1>7

\* "Missing RELAY_REWARDS_CONTROLLER_ADDRESS.  Skipping relay rewards operator
\* $AO checks!" (the constructor of the distribution checks): that skips the
\* staking check as well.  Without one of its values no AO check requests
\* anything, and of the distribution checks neither without one of the other's.
THEOREM AoChecksNeedAll ==
  ASSUME NEW relay, NEW staking, NEW process, NEW enabled \in BOOLEAN,
         NEW calls
  PROVE  LET Asks(kept) == CheckAoWith(kept, enabled, calls).requestAmount # Missing
             pair == DistributionConfig(relay, staking, process)
         IN
         /\ Asks(RelayRegistryConfig(relay.address, process, relay.min, relay.max)) =>
              relay.address # Missing /\ process # Missing
         /\ Asks(pair.relay) \/ Asks(pair.staking) =>
              Missing \notin {relay.address, staking.address, process}
         /\ relay.address = Missing =>
              CheckAoWith(pair.staking, enabled, calls).address = Missing
<1> DEFINE pair == DistributionConfig(relay, staking, process)
           alone == RelayRegistryConfig(relay.address, process, relay.min, relay.max)
<1>1. Missing \in {relay.address, staking.address, process} =>
        pair.relay.process = Missing /\ pair.staking.process = Missing
  BY DEF DistributionConfig, Nothing
<1>2. relay.address = Missing => pair.staking.address = Missing
  BY DEF DistributionConfig, Nothing
<1>3. relay.address = Missing \/ process = Missing => alone.process = Missing
  BY DEF RelayRegistryConfig, Nothing
<1>4. ASSUME NEW b PROVE Unread(b).requestAmount = Missing /\ Unread(b).address = b
  BY DEF Unread, Reading
<1>5. ASSUME NEW kept, kept.process = Missing
      PROVE  /\ CheckAoWith(kept, enabled, calls).requestAmount = Missing
             /\ kept.address = Missing =>
                  CheckAoWith(kept, enabled, calls).address = Missing
  BY <1>4, <1>5 DEF CheckAoWith, CheckAo
<1> QED
  BY <1>1, <1>2, <1>3, <1>5

\* A dry run gives the amount of the one call whose answer it takes, and that
\* is the first that is not met by a server error.
LEMMA DryRunAnswer ==
  ASSUME NEW calls \in [Attempt -> CallType], NEW n \in Attempt,
         calls[n].error = "none", \A m \in Attempt : m < n => calls[m].error = "500"
  PROVE  SendAosDryRun(calls) = calls[n].amount
<1> DEFINE Last(k) == /\ calls[k].error # "500"
                      /\ \A m \in Attempt : m < k => calls[m].error = "500"
<1>1. Last(n)
  OBVIOUS
<1>2. ASSUME NEW k \in Attempt, Last(k) PROVE k = n
  BY <1>1, <1>2 DEF Attempt
<1>3. (CHOOSE k \in Attempt : Last(k)) = n
  BY <1>1, <1>2
<1> QED
  BY <1>1, <1>3 DEF SendAosDryRun

LEMMA DryRunThrows ==
  ASSUME NEW calls \in [Attempt -> CallType],
         \A n \in Attempt : calls[n].error = "none" =>
           \E m \in Attempt : m < n /\ calls[m].error # "500"
  PROVE  SendAosDryRun(calls) = Missing
  BY DEF SendAosDryRun

\* An AO check that is enabled and configured requests the shortfall of a
\* depleted wallet if one of its first three calls answers and none before it
\* failed otherwise than with a 500; if not, it reads 0 and requests nothing.
THEOREM RetriesReachTheBalance ==
  ASSUME NEW calls \in [Attempt -> CallType],
         NEW min \in Nat, NEW max \in Nat, NEW kept,
         kept.process # Missing, kept.min = min, kept.max = max
  PROVE  LET reading == CheckAoWith(kept, TRUE, calls)
             Reached(n) == /\ calls[n].error = "none"
                           /\ \A m \in Attempt : m < n => calls[m].error = "500"
         IN /\ \A n \in Attempt : Reached(n) =>
                 /\ reading.balance = calls[n].amount
                 /\ calls[n].amount < min => reading.requestAmount = max - calls[n].amount
            /\ (\A n \in Attempt : ~Reached(n)) =>
                 reading.balance = 0 /\ reading.requestAmount = Missing
<1> DEFINE reading == CheckAoWith(kept, TRUE, calls)
           Reached(n) == /\ calls[n].error = "none"
                         /\ \A m \in Attempt : m < n => calls[m].error = "500"
<1>1. ASSUME NEW n \in Attempt, Reached(n)
      PROVE  /\ reading.balance = calls[n].amount
             /\ calls[n].amount < min => reading.requestAmount = max - calls[n].amount
  <2>1. SendAosDryRun(calls) = calls[n].amount
    BY <1>1, DryRunAnswer
  <2>2. calls[n].amount \in Nat /\ calls[n].amount # Missing /\ min # Missing /\ max # Missing
    BY MissingIsNoAmount DEF CallType
  <2>3. reading = Judge(calls[n].amount, min, max, kept.address)
    BY <2>1, <2>2 DEF CheckAoWith, CheckAo
  <2>4. /\ Judge(calls[n].amount, min, max, kept.address).balance = calls[n].amount
        /\ calls[n].amount < min =>
             Judge(calls[n].amount, min, max, kept.address).requestAmount = max - calls[n].amount
    BY <2>2 DEF Judge, Below, Shortfall, Reading
  <2> QED
    BY <2>3, <2>4
<1>2. ASSUME \A n \in Attempt : ~Reached(n)
      PROVE  reading.balance = 0 /\ reading.requestAmount = Missing
  <2>1. SendAosDryRun(calls) = Missing
    BY <1>2, DryRunThrows
  <2> QED
    BY <2>1 DEF CheckAoWith, CheckAo, Unread, Reading
<1> QED
  BY <1>1, <1>2
=============================================================================
