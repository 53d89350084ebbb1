---------------------------- MODULE RecheckChain ----------------------------
(***************************************************************************)
(* What the check loop promises, abstractly.  A chain is one endless       *)
(* succession "run a check-balances job, queue the next one".  The         *)
(* instance that bootstraps as the one cleans the queue first, if it is    *)
(* told to, and then starts a chain or finds one running and stands down.  *)
(* Two chains may fold into one: the re-queue of one finds the job of the  *)
(* other.  An instance that goes down takes chains with it, and leaves a   *)
(* job behind that BullMQ makes a chain of again, or fails.  Nothing else  *)
(* happens: a handler never makes a second chain, and the last chain ends  *)
(* only when an instance cleans the queue or goes down.                    *)
(***************************************************************************)
EXTENDS Naturals

VARIABLES
  chains,     \* the chains that are running
  orphans,    \* jobs left behind by instances that went down
  cleaners,   \* bootstraps that have the queue still to clean
  seeders,    \* bootstraps that may still start a chain
  downs       \* how often an instance went down

vars == <<chains, orphans, cleaners, seeders, downs>>

Init == chains = 0 /\ orphans = 0 /\ cleaners = 0 /\ seeders = 0 /\ downs = 0

\* An instance bootstraps as the one.
Start ==
  /\ \/ cleaners' = cleaners + 1 /\ UNCHANGED seeders
     \/ seeders' = seeders + 1 /\ UNCHANGED cleaners
  /\ UNCHANGED <<chains, orphans, downs>>

\* It cleans the queue, for the first of two times or for the last.
Clean ==
  /\ cleaners > 0
  /\ chains' \in 0..chains /\ orphans' = 0
  /\ \/ UNCHANGED <<cleaners, seeders>>
     \/ cleaners' = cleaners - 1 /\ seeders' = seeders + 1
  /\ UNCHANGED downs

\* It starts a chain, or stands down.
Seed ==
  /\ seeders > 0 /\ seeders' = seeders - 1
  /\ chains' \in {chains, chains + 1}
  /\ UNCHANGED <<orphans, cleaners, downs>>

Fold ==
  /\ chains > 1 /\ chains' = chains - 1
  /\ UNCHANGED <<orphans, cleaners, seeders, downs>>

\* A job that was left behind is retried, or fails.
TakeBack ==
  /\ orphans > 0 /\ orphans' = orphans - 1
  /\ chains' \in {chains, chains + 1}
  /\ UNCHANGED <<cleaners, seeders, downs>>

GoDown ==
  /\ downs' = downs + 1
  /\ chains' \in 0..chains /\ orphans' \in {orphans, orphans + 1}
  /\ cleaners' \in 0..cleaners /\ seeders' \in 0..seeders

Next == Start \/ Clean \/ Seed \/ Fold \/ TakeBack \/ GoDown

Spec == Init /\ [][Next]_vars
=============================================================================
