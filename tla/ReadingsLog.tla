---------------------------- MODULE ReadingsLog ----------------------------
(***************************************************************************)
(* What a round of balance checks promises, abstractly.  Every check       *)
(* answers once, with a reading or without.  Only when all have answered   *)
(* are the readings written down, in one attempt or, after a failure, in a *)
(* second one; an attempt writes a reading at most once, and nothing but   *)
(* readings.  When each of this happens, and whether an attempt comes to   *)
(* its end, is left open.                                                  *)
(***************************************************************************)
EXTENDS Naturals

CONSTANTS Round, Check,
  Run           \* numbers of attempts

VARIABLES
  answered,     \* the checks that have answered, by round
  readings,     \* the checks that answered with a reading, by round
  begun,        \* how many attempts to write have begun, by round
  documents     \* how often an attempt has written a reading

vars == <<answered, readings, begun, documents>>

Init ==
  /\ answered = [r \in Round |-> {}]
  /\ readings = [r \in Round |-> {}]
  /\ begun = [r \in Round |-> 0]
  /\ documents = [d \in Round \X Check \X Run |-> 0]

Answer(r, c) ==
  /\ c \notin answered[r]
  /\ answered' = [answered EXCEPT ![r] = @ \cup {c}]
  /\ \/ readings' = [readings EXCEPT ![r] = @ \cup {c}]
     \/ UNCHANGED readings
  /\ UNCHANGED <<begun, documents>>

Begin(r) ==
  /\ answered[r] = Check /\ begun[r] < 2
  /\ begun' = [begun EXCEPT ![r] = @ + 1]
  /\ UNCHANGED <<answered, readings, documents>>

Write(r, c, n) ==
  /\ n < begun[r] /\ c \in readings[r]
  /\ documents[<<r, c, n>>] = 0
  /\ documents' = [documents EXCEPT ![<<r, c, n>>] = 1]
  /\ UNCHANGED <<answered, readings, begun>>

Next ==
  \E r \in Round :
    \/ \E c \in Check : Answer(r, c) \/ \E n \in Run : Write(r, c, n)
    \/ Begin(r)

Spec == Init /\ [][Next]_vars
=============================================================================
