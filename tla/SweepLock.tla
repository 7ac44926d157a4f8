----------------------------- MODULE SweepLock -----------------------------
(***************************************************************************)
(* The lock of the sweep (vector/state/sync_state.py, sweep_lock and       *)
(* _renew): SET NX with a token of this attempt and a TTL, a task that     *)
(* renews it while the pass runs by reading the token and then extending   *)
(* the TTL, and a release that reads the token and then deletes the key.   *)
(*                                                                         *)
(* Time is counted in renewal intervals (40 s); the TTL is Ttl of them.    *)
(* A renewal is missed when Redis fails it or the process is too busy to   *)
(* run it before the next one is due.                                      *)
(***************************************************************************)
EXTENDS Integers

CONSTANTS
  Contender,    \* replicas and commands that sweep
  Ttl,          \* LOCK_TTL_SECONDS in renewal intervals: 3
  MaxTroubles   \* bound on missed renewals, delays and crashes

\* The processes have names the two strings below are not among.
ASSUME SweepLockAssumption ==
  /\ Ttl \in Nat /\ Ttl >= 2
  /\ MaxTroubles \in Nat
  /\ {"nobody", "dead"} \intersect Contender = {}

Nobody == "nobody"
Dead == "dead"      \* the token of an attempt that no longer runs

VARIABLES
  token,      \* the value of the key
  ttl,        \* what is left of its TTL
  body,       \* where the attempt of each contender is
  renewer,    \* its renewal task
  missed,     \* renewals missed since the TTL was last known to be whole
  delayed,    \* has time passed between the comparison and the DELETE?
  robbed,     \* attempts whose key a delayed DELETE of another has removed
  troubles

lockVars == <<token, ttl, body, renewer, missed, delayed, robbed, troubles>>

SweepLockTypeOK ==
  /\ token \in Contender \union {Nobody, Dead}
  /\ ttl \in 0 .. Ttl
  /\ body \in [Contender -> {"idle", "holding", "leaving", "deleting"}]
  /\ renewer \in [Contender -> {"none", "asleep", "due", "read"}]
  /\ missed \in [Contender -> Nat]
  /\ delayed \in [Contender -> BOOLEAN]
  /\ robbed \subseteq Contender
  /\ troubles \in 0 .. MaxTroubles

SweepLockInit ==
  /\ token = Nobody
  /\ ttl = 0
  /\ body = [p \in Contender |-> "idle"]
  /\ renewer = [p \in Contender |-> "none"]
  /\ missed = [p \in Contender |-> 0]
  /\ delayed = [p \in Contender |-> FALSE]
  /\ robbed = {}
  /\ troubles = 0

-----------------------------------------------------------------------------
(***************************************************************************)
(* The attempt.  One that finds the key taken skips and changes nothing.   *)
(***************************************************************************)

Acquire(p) ==
  /\ body[p] = "idle"
  /\ token = Nobody
  /\ token' = p
  /\ ttl' = Ttl
  /\ body' = [body EXCEPT ![p] = "holding"]
  /\ renewer' = [renewer EXCEPT ![p] = "asleep"]
  /\ missed' = [missed EXCEPT ![p] = 0]
  /\ robbed' = robbed \ {p}
  /\ UNCHANGED <<delayed, troubles>>

\* The pass is over or has failed: the renewer is cancelled.
Leave(p) ==
  /\ body[p] = "holding"
  /\ body' = [body EXCEPT ![p] = "leaving"]
  /\ renewer' = [renewer EXCEPT ![p] = "none"]
  /\ UNCHANGED <<token, ttl, missed, delayed, robbed, troubles>>

\* Compare before deleting.  Mutant: the key is ours as long as we are here.
NoQuestion(p) == TRUE
StillOurs(p) == token = p

Compare(p) ==
  /\ body[p] = "leaving"
  /\ body' = [body EXCEPT ![p] = IF StillOurs(p) THEN "deleting" ELSE "idle"]
  /\ delayed' = [delayed EXCEPT ![p] = FALSE]
  /\ UNCHANGED <<token, ttl, renewer, missed, robbed, troubles>>

\* DELETE asks no more whose the key is.
Delete(p) ==
  /\ body[p] = "deleting"
  /\ token' = Nobody
  /\ ttl' = 0
  /\ body' = [body EXCEPT ![p] = "idle"]
  /\ robbed' = robbed \union ({token} \intersect (Contender \ {p}))
  /\ UNCHANGED <<renewer, missed, delayed, troubles>>

\* The process dies; what it left in Redis is nobody's any more.
Die(p) ==
  /\ troubles < MaxTroubles
  /\ body[p] # "idle"
  /\ troubles' = troubles + 1
  /\ body' = [body EXCEPT ![p] = "idle"]
  /\ renewer' = [renewer EXCEPT ![p] = "none"]
  /\ token' = IF token = p THEN Dead ELSE token
  /\ UNCHANGED <<ttl, missed, delayed, robbed>>

-----------------------------------------------------------------------------
(***************************************************************************)
(* Its renewal.                                                            *)
(***************************************************************************)

\* A renewer that finds another token in the key gives up.
ReadToken(p) ==
  /\ renewer[p] = "due"
  /\ renewer' = [renewer EXCEPT ![p] = IF token = p THEN "read" ELSE "none"]
  /\ UNCHANGED <<token, ttl, body, missed, delayed, robbed, troubles>>

\* What is left of the TTL after EXPIRE.  Mutant: it adds to what was left.
AddsToTheRest == ttl + Ttl
WholeAgain == Ttl

\* EXPIRE extends the key whosoever it has become, and a missing one not.
Extend(p) ==
  /\ renewer[p] = "read"
  /\ ttl' = IF token = Nobody THEN 0 ELSE WholeAgain
  /\ renewer' = [renewer EXCEPT ![p] = "asleep"]
  /\ missed' = [missed EXCEPT ![p] = IF token = p THEN 0 ELSE @]
  /\ UNCHANGED <<token, body, delayed, robbed, troubles>>

\* Redis does not answer: the renewer keeps going, the TTL still has room.
\* Mutant: it ends with its first exception.
GivesUp == "none"
KeepsGoing == "asleep"

RenewalFails(p) ==
  /\ troubles < MaxTroubles
  /\ renewer[p] \in {"due", "read"}
  /\ troubles' = troubles + 1
  /\ renewer' = [renewer EXCEPT ![p] = KeepsGoing]
  /\ missed' = [missed EXCEPT ![p] = @ + 1]
  /\ UNCHANGED <<token, ttl, body, delayed, robbed>>

-----------------------------------------------------------------------------
(***************************************************************************)
(* Time.  A renewal interval passes; whoever has not renewed by then, or   *)
(* is between comparing and deleting, has been held up.                    *)
(***************************************************************************)

Late(p) == renewer[p] \in {"due", "read"}
HeldUp == \E p \in Contender : Late(p) \/ body[p] = "deleting"

IntervalPasses ==
  /\ token # Nobody
  /\ HeldUp => troubles < MaxTroubles
  /\ troubles' = IF HeldUp THEN troubles + 1 ELSE troubles
  /\ ttl' = ttl - 1
  /\ token' = IF ttl = 1 THEN Nobody ELSE token
  /\ renewer' = [p \in Contender |-> IF renewer[p] = "asleep" THEN "due" ELSE renewer[p]]
  /\ missed' = [p \in Contender |-> IF Late(p) THEN missed[p] + 1 ELSE missed[p]]
  /\ delayed' = [p \in Contender |-> delayed[p] \/ body[p] = "deleting"]
  /\ UNCHANGED <<body, robbed>>

Step(p) ==
  \/ Acquire(p) \/ Leave(p) \/ Compare(p) \/ Delete(p) \/ Die(p)
  \/ ReadToken(p) \/ Extend(p) \/ RenewalFails(p)

SweepLockNext == (\E p \in Contender : Step(p)) \/ IntervalPasses

SweepLockSpec == SweepLockInit /\ [][SweepLockNext]_lockVars

-----------------------------------------------------------------------------
(***************************************************************************)
(* What the lock promises.                                                 *)
(***************************************************************************)

\* A pass keeps its lock, however long it takes, unless it misses all but one
\* of the renewals a TTL has room for: one failed or late renewal lets no
\* second sweep in.  (But the release of another pass may, when time passes
\* between its comparison and its DELETE.)
RenewalKeepsLock ==
  \A p \in Contender : body[p] = "holding" /\ missed[p] <= Ttl - 2 =>
    token = p \/ p \in robbed

\* A pass that has lost its lock does not drop the one somebody else has taken
\* since: a DELETE without delay after the comparison removes its own key or
\* none at all, unless the key was itself removed in between by a delayed one.
ReleaseHurtsNobody ==
  [][\A p \in Contender :
       body[p] = "deleting" /\ body'[p] = "idle" /\ token' = Nobody /\ ~delayed[p] =>
         token \in {p, Nobody} \/ p \in robbed]_lockVars
=============================================================================
