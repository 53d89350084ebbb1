----------------------------- MODULE Thresholds -----------------------------
(***************************************************************************)
(* What each balance check makes of the balance it fetched: the reading to *)
(* store, and the amount to request when the wallet is depleted.           *)
(*                                                                         *)
(* Amounts are whole numbers of the unit the check compares in.  `fetched` *)
(* is Missing when the remote call threw, anything else when it is not     *)
(* configured.                                                             *)
(***************************************************************************)
EXTENDS Integers

CONSTANTS
  Missing,   \* undefined: no answer, no request, not configured
  NaN        \* a request made of a maximum that is not configured

ASSUME MissingIsNoAmount == Missing \notin Int /\ NaN \notin Int /\ NaN # Missing

Reading(balance, request, address) ==
  [balance |-> balance, requestAmount |-> request, address |-> address]

\* A balance that could not be read is recorded as 0, and nothing requested.
Unread(address) == Reading(0, Missing, address)

\* Mutant of Judge: the whole maximum is requested, not the shortfall.
JudgeWhole(balance, min, max, address) ==
  Reading(balance, IF balance < min THEN max ELSE Missing, address)

\* Mutant of Judge: the comparison with the minimum is the wrong way round.
JudgeInverted(balance, min, max, address) ==
  Reading(balance, IF balance > min THEN max - balance ELSE Missing, address)

\* BigNumber.lt: no balance is below an undefined minimum.
Below(balance, min) == min # Missing /\ balance < min

\* BigNumber(undefined).minus(balance) is NaN.
Shortfall(balance, max) == IF max = Missing THEN NaN ELSE max - balance

\* Every check: below the minimum, request what is missing to the maximum.
Judge(balance, min, max, address) ==
  Reading(balance, IF Below(balance, min) THEN Shortfall(balance, max) ELSE Missing,
          address)

-----------------------------------------------------------------------------
(* The getters.                                                            *)

\* getOperatorBalance of the relay registry and the two getters of the
\* distribution checks: monitored only, and only while AO checks are enabled.
CheckAo(enabled, fetched, min, max, address) ==
  IF ~enabled THEN Unread(Missing)
  ELSE IF fetched = Missing THEN Unread(address)
  ELSE Judge(fetched, min, max, address)

\* BundlerChecksService.getOperatorBalance.
CheckBundler(fetched, min, max, address) ==
  IF address = Missing \/ fetched = Missing THEN Unread(address)
  ELSE Judge(fetched, min, max, address)

\* HodlerChecksService.getOperatorEth: `!result` is also true of a balance of
\* exactly 0, which is taken for a failed fetch.  Missing thresholds were read as 0.
CheckHodlerEth(fetched, min, max, address) ==
  LET OrZero(amount) == IF amount = Missing THEN 0 ELSE amount IN
  IF address = Missing \/ fetched \in {Missing, 0} THEN Unread(address)
  ELSE Judge(fetched, OrZero(min), OrZero(max), address)

\* HodlerChecksService.getRewardsPoolTokens takes 0 for a failure as well; a
\* missing threshold throws.
CheckRewardsPool(fetched, min, max, address) ==
  IF Missing \in {address, min, max} \/ fetched \in {Missing, 0} THEN Unread(address)
  ELSE Judge(fetched, min, max, address)

\* TurboCreditsChecksService.checkCredits, for each of the four wallets.
CheckCredits(fetched, min, max, address) ==
  IF address = Missing THEN Unread(Missing)
  ELSE IF Missing \in {min, max, fetched} THEN Unread(address)
  ELSE Judge(fetched, min, max, address)

-----------------------------------------------------------------------------
(* What the constructors keep of the configuration.  `min` and `max` are   *)
(* the thresholds, `process` the AO token's.                               *)

Nothing == [address |-> Missing, process |-> Missing, min |-> Missing, max |-> Missing]

\* RelayRegistryChecksService: an address without the token process has no thresholds.
RelayRegistryConfig(address, process, min, max) ==
  IF address = Missing THEN Nothing
  ELSE IF process = Missing THEN [Nothing EXCEPT !.address = address]
  ELSE [address |-> address, process |-> process, min |-> min, max |-> max]

\* DistributionChecksService: one constructor for two wallets, and each value
\* that is missing ends it before the next is read.  The relay wallet comes first.
DistributionConfig(relay, staking, process) ==
  LET kept(w) == [Nothing EXCEPT !.address = w.address]
      whole(w) == [address |-> w.address, process |-> process, min |-> w.min, max |-> w.max]
  IN IF relay.address = Missing THEN [relay |-> Nothing, staking |-> Nothing]
     ELSE IF staking.address = Missing THEN [relay |-> kept(relay), staking |-> Nothing]
     ELSE IF process = Missing THEN [relay |-> kept(relay), staking |-> kept(staking)]
     ELSE [relay |-> whole(relay), staking |-> whole(staking)]

\* A call to an AO process as it would turn out, with the error it throws.
Attempt == 0..2
CallType == [error : {"none", "500", "other"}, amount : Nat]

\* sendAosDryRun: an error that mentions 500 has the call repeated, up to three
\* times in all; any other is thrown at once.
SendAosDryRun(calls) ==
  LET Last(n) == calls[n].error # "500" /\ \A m \in Attempt : m < n => calls[m].error = "500"
  IN IF \E n \in Attempt : Last(n) /\ calls[n].error = "none"
     THEN calls[CHOOSE n \in Attempt : Last(n)].amount
     ELSE Missing

\* An AO check with what its constructor kept: a dry run without a token
\* process throws.
CheckAoWith(kept, enabled, calls) ==
  CheckAo(enabled, IF kept.process = Missing THEN Missing ELSE SendAosDryRun(calls),
          kept.min, kept.max, kept.address)
=============================================================================
