--------------------------- MODULE IntakeDialogue ---------------------------
(***************************************************************************)
(* What the intake module promises the requester of one ticket, with no    *)
(* run, lock or agent in sight: the assistant asks only while the budget   *)
(* of questions lasts and only when the last word in the public log is not *)
(* its own.  A question whose charge is lost may be asked again, which is  *)
(* the one way the budget grows.  Once closed, a ticket stays closed.      *)
(***************************************************************************)
EXTENDS Integers

CONSTANT MaxQuestions

VARIABLES budget,   \* questions that may still be asked
          last,     \* whose entry is the last one of the public log
          closed    \* the assistant is done with the ticket

dialogueVars == <<budget, last, closed>>

Init ==
  /\ budget = MaxQuestions
  /\ last \in {"none", "human"}
  /\ closed = FALSE

\* One question to the requester.
Ask ==
  /\ budget > 0
  /\ last # "ai"
  /\ budget' = budget - 1
  /\ last' = "ai"
  /\ UNCHANGED closed

\* The run that asked died before charging its question.
LoseCharge ==
  /\ budget' = budget + 1
  /\ UNCHANGED <<last, closed>>

\* The requester, or an engineer, writes in the public log.
Reply ==
  /\ last' = "human"
  /\ UNCHANGED <<budget, closed>>

Close ==
  /\ closed' = TRUE
  /\ UNCHANGED <<budget, last>>

Next == Ask \/ LoseCharge \/ Reply \/ Close

Spec == Init /\ [][Next]_dialogueVars
=============================================================================
