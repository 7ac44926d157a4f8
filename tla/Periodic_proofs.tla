--------------------------- MODULE Periodic_proofs ---------------------------
(***************************************************************************)
(* Theorems about what runs by the clock: SweepLock for any number of      *)
(* contenders, any TTL of two renewal intervals or more and any number of  *)
(* troubles; Pacing for any number of processes, any interval and any      *)
(* number of presses, crashes and failed passes; Telemetry for any number  *)
(* of processes, however long they run and however often an answer is      *)
(* lost, a tick dies or somebody changes the settings.                     *)
(***************************************************************************)
EXTENDS SweepLock, Pacing, Telemetry, FiniteSetTheorems, TLAPS

-----------------------------------------------------------------------------
(* The lock. *)

\* Where the renewer of p has got to says how much of the TTL is left.
Warranted(p) ==
  body[p] = "holding" /\ missed[p] <= Ttl - 2 /\ p \notin robbed =>
    /\ token = p
    /\ renewer[p] # "none"
    /\ renewer[p] = "asleep" => ttl >= Ttl - missed[p]
    /\ renewer[p] # "asleep" => ttl >= Ttl - 1 - missed[p]

\* A comparison made just now still holds.
Compared(p) ==
  body[p] = "deleting" /\ ~delayed[p] /\ p \notin robbed => token = p

\* The inductive invariant.
LockInv ==
  /\ SweepLockTypeOK
  /\ token # Nobody => ttl >= 1
  /\ \A p \in Contender : Warranted(p) /\ Compared(p)

USE SweepLockAssumption

LEMMA InitLock == SweepLockInit => LockInv
BY DEF SweepLockInit, LockInv, SweepLockTypeOK, Warranted, Compared, Nobody, Dead

-----------------------------------------------------------------------------
(* Types. *)

LEMMA LockStepTyped ==
  ASSUME LockInv, NEW p \in Contender, Step(p)
  PROVE  SweepLockTypeOK' /\ (token' # Nobody => ttl' >= 1)
<1>. USE DEF LockInv, SweepLockTypeOK, Nobody, Dead
<1>1. CASE Acquire(p)
  BY <1>1 DEF Acquire
<1>2. CASE Leave(p)
  BY <1>2 DEF Leave
<1>3. CASE Compare(p)
  BY <1>3 DEF Compare, StillOurs
<1>4. CASE Delete(p)
  BY <1>4 DEF Delete
<1>5. CASE Die(p)
  BY <1>5 DEF Die
<1>6. CASE ReadToken(p)
  BY <1>6 DEF ReadToken
<1>7. CASE Extend(p)
  BY <1>7 DEF Extend, WholeAgain
<1>8. CASE RenewalFails(p)
  BY <1>8 DEF RenewalFails, KeepsGoing
<1> QED
  BY <1>1, <1>2, <1>3, <1>4, <1>5, <1>6, <1>7, <1>8 DEF Step

LEMMA IntervalTyped ==
  ASSUME LockInv, IntervalPasses
  PROVE  SweepLockTypeOK' /\ (token' # Nobody => ttl' >= 1)
<1>. USE DEF LockInv, SweepLockTypeOK, IntervalPasses, Nobody, Dead
<1>1. ttl' \in 0 .. Ttl /\ token' \in Contender \union {Nobody, Dead}
  OBVIOUS
<1>2. missed' \in [Contender -> Nat] /\ renewer' \in [Contender -> {"none", "asleep", "due", "read"}]
  OBVIOUS
<1>3. \A p \in Contender : (delayed[p] \/ body[p] = "deleting") \in BOOLEAN
  OBVIOUS
<1>4. delayed' \in [Contender -> BOOLEAN]
  BY <1>3
<1>5. troubles' \in 0 .. MaxTroubles
  OBVIOUS
<1> QED
  BY <1>1, <1>2, <1>4, <1>5

-----------------------------------------------------------------------------
(* What a holder relies on. *)

LEMMA StepWarranted ==
  ASSUME LockInv, NEW p \in Contender, Step(p), NEW q \in Contender
  PROVE  Warranted(q)' /\ Compared(q)'
<1>. USE DEF LockInv, SweepLockTypeOK, Warranted, Compared, Nobody, Dead
<1>1. CASE Acquire(p)
  BY <1>1 DEF Acquire
<1>2. CASE Leave(p)
  BY <1>2 DEF Leave
<1>3. CASE Compare(p)
  BY <1>3 DEF Compare, StillOurs
<1>4. CASE Delete(p)
  BY <1>4 DEF Delete
<1>5. CASE Die(p)
  BY <1>5 DEF Die
<1>6. CASE ReadToken(p)
  BY <1>6 DEF ReadToken
<1>7. CASE Extend(p)
  BY <1>7 DEF Extend, WholeAgain
<1>8. CASE RenewalFails(p)
  BY <1>8 DEF RenewalFails, KeepsGoing
<1> QED
  BY <1>1, <1>2, <1>3, <1>4, <1>5, <1>6, <1>7, <1>8 DEF Step

LEMMA IntervalWarranted ==
  ASSUME LockInv, IntervalPasses, NEW q \in Contender
  PROVE  Warranted(q)' /\ Compared(q)'
<1>. USE DEF LockInv, SweepLockTypeOK, IntervalPasses, Late, Nobody, Dead
<1>1. Compared(q)'
  BY DEF Compared
<1>2. Warranted(q)'
  BY DEF Warranted
<1> QED
  BY <1>1, <1>2

LEMMA NextLock == LockInv /\ [SweepLockNext]_lockVars => LockInv'
<1> SUFFICES ASSUME LockInv, [SweepLockNext]_lockVars PROVE LockInv'
  OBVIOUS
<1>1. CASE \E p \in Contender : Step(p)
  BY <1>1, LockStepTyped, StepWarranted DEF LockInv
<1>2. CASE IntervalPasses
  BY <1>2, IntervalTyped, IntervalWarranted DEF LockInv
<1>3. CASE UNCHANGED lockVars
  BY <1>3 DEF LockInv, SweepLockTypeOK, Warranted, Compared, lockVars
<1> QED
  BY <1>1, <1>2, <1>3 DEF SweepLockNext

\* The variables of the lock keep their types: its TTL never runs below zero or
\* past the whole, whatever renewals and lapses it meets.
THEOREM LockTyped == SweepLockSpec => []SweepLockTypeOK
<1>1. LockInv => SweepLockTypeOK
  BY DEF LockInv
<1> QED
  BY <1>1, InitLock, NextLock, PTL DEF SweepLockSpec

\* For any TTL, a pass outlives all but one of the renewals the TTL has room for.
THEOREM RenewalSafe == SweepLockSpec => []RenewalKeepsLock
<1>1. LockInv => RenewalKeepsLock
  BY DEF LockInv, Warranted, RenewalKeepsLock
<1> QED
  BY <1>1, InitLock, NextLock, PTL DEF SweepLockSpec

\* A step that leaves an undelayed comparison behind removes no other's key.
LEMMA ReleaseStep ==
  ASSUME LockInv, [SweepLockNext]_lockVars, NEW p \in Contender,
         body[p] = "deleting", body'[p] = "idle", token' = Nobody, ~delayed[p]
  PROVE  token \in {p, Nobody} \/ p \in robbed
<1>1. token = p \/ p \in robbed
  BY DEF LockInv, Compared
<1> QED
  BY <1>1

\* A pass that has lost its lock does not drop its successor's, unless its
\* DELETE is delayed or its own key fell victim to one that was.
THEOREM ReleaseSafe == SweepLockSpec => ReleaseHurtsNobody
<1>1. LockInv /\ [SweepLockNext]_lockVars =>
        [\A p \in Contender :
           body[p] = "deleting" /\ body'[p] = "idle" /\ token' = Nobody /\ ~delayed[p] =>
             token \in {p, Nobody} \/ p \in robbed]_lockVars
  BY ReleaseStep
<1> QED
  BY <1>1, InitLock, NextLock, PTL DEF SweepLockSpec, ReleaseHurtsNobody

-----------------------------------------------------------------------------
(* The pace. *)

\* A wake nobody has answered is still there in both of its halves.
Heard(l) == l.unserved => l.woken /\ l.wake

\* What a timer tick knows between reading the marker and beginning its pass.
Informed(l) ==
  l.paced /\ ~l.overtaken /\ ~l.excused =>
    /\ l.at = "asked" => started # Never /\ l.seen = started
    /\ l.at \in {"lock", "begin"} => started = Never \/ minute - started >= Cadence

\* A tick that a requested backfill lets pass has looked for one.
Excused(l) == l.excused => l.at \in {"lock", "begin", "pass"}

Sound(l) == Heard(l) /\ Informed(l) /\ Excused(l)

\* The marker in Redis is the start of the last pass, wherever it ran.
MarkerTells == swept = started

\* The inductive invariant.
PacingInv ==
  /\ PacingTypeOK
  /\ MarkerTells
  /\ \A p \in Process : Sound(loop[p])

USE PacingAssumption

LEMMA PacingTimes ==
  /\ Minute \subseteq Nat /\ Never \in Int /\ Never \notin Minute
  /\ \A t \in Minute : t + Cadence \in 0 .. MaxMinute + Cadence
  /\ 0 \in 0 .. MaxMinute + Cadence
BY DEF Minute, Never

LEMMA LoopIs ==
  ASSUME PacingInv, NEW p \in Process
  PROVE  /\ loop \in [Process -> Loop] /\ loop[p] \in Loop
         /\ minute \in Minute /\ started \in Minute \union {Never} /\ swept = started
         /\ Sound(loop[p])
BY DEF PacingInv, PacingTypeOK, MarkerTells

LEMMA OffIs == Off \in Loop /\ Off.at = "off" /\ ~Off.unserved /\ ~Off.excused /\ ~Off.paced
BY PacingTimes DEF Off, Loop, LoopPlaces

\* One loop takes a step that starts no pass.
LEMMA OneLoop ==
  ASSUME PacingInv, NEW p \in Process, NEW l \in Loop, Goes(p, l),
         UNCHANGED <<minute, cli, swept, started>>,
         pending' \in BOOLEAN, sweeper' \in Process \union {Cli, Free}, asks' \in 0 .. MaxAsks,
         Sound(l)
  PROVE  PacingInv'
<1>1. loop' \in [Process -> Loop] /\ loop'[p] = l /\ \A q \in Process : q # p => loop'[q] = loop[q]
  BY LoopIs DEF Goes
<1>2. PacingTypeOK'
  BY <1>1 DEF PacingInv, PacingTypeOK
<1>3. ASSUME NEW q \in Process PROVE Sound(loop[q])'
  <2>1. CASE q = p
    BY <1>1, <2>1 DEF Sound, Heard, Informed, Excused
  <2>2. CASE q # p
    <3>1. loop'[q] = loop[q] /\ Sound(loop[q])
      BY <1>1, <2>2, LoopIs
    <3> QED
      BY <3>1 DEF Sound, Heard, Informed, Excused
  <2> QED
    BY <2>1, <2>2
<1> QED
  BY <1>2, <1>3 DEF PacingInv, MarkerTells

\* What is no part of a loop stays typed.
LEMMA RestIs ==
  ASSUME PacingInv, NEW p \in Process
  PROVE  /\ pending \in BOOLEAN /\ sweeper \in Process \union {Cli, Free}
         /\ asks \in 0 .. MaxAsks /\ (asks < MaxAsks => asks + 1 \in 0 .. MaxAsks)
         /\ Unlocked(p) \in Process \union {Cli, Free}
         /\ SweptAt("end") = swept
BY DEF PacingInv, PacingTypeOK, Unlocked, SweptAt

\* A loop that has answered its tick keeps the wakes that came meanwhile.
LEMMA SleepsIs ==
  ASSUME PacingInv, NEW p \in Process
  PROVE  Sleeps(p) \in Loop /\ Sound(Sleeps(p))
<1>. DEFINE l == Sleeps(p)
<1>1. l = [loop[p] EXCEPT !.at = "delay", !.paced = FALSE, !.seen = Never,
                          !.overtaken = FALSE, !.excused = FALSE]
  BY DEF Sleeps, Answered
<1>. HIDE DEF l
<1>2. l \in Loop /\ l.unserved = loop[p].unserved /\ l.woken = loop[p].woken /\ l.wake = loop[p].wake
      /\ ~l.paced /\ ~l.excused
  BY <1>1, LoopIs DEF Loop, LoopPlaces
<1>3. Sound(l)
  BY <1>2, LoopIs DEF Sound, Heard, Informed, Excused
<1> QED
  BY <1>2, <1>3 DEF l

-----------------------------------------------------------------------------
(* The steps. *)

LEMMA InitPaced == PacingInit => PacingInv
<1> SUFFICES ASSUME PacingInit PROVE PacingInv
  OBVIOUS
<1>1. PacingTypeOK
  <2>1. 0 \in Minute /\ 0 \in 0 .. MaxAsks /\ 0 \in 0 .. MaxTries
    BY DEF Minute, MaxTries
  <2>2. loop \in [Process -> Loop]
    BY OffIs DEF PacingInit
  <2> QED
    BY <2>1, <2>2 DEF PacingInit, PacingTypeOK
<1>2. \A p \in Process : Sound(loop[p])
  BY OffIs DEF PacingInit, Sound, Heard, Informed, Excused
<1> QED
  BY <1>1, <1>2 DEF PacingInit, PacingInv, MarkerTells

\* The loop itself.
LEMMA LoopSafe ==
  ASSUME PacingInv, NEW p \in Process,
         StartLoop(p) \/ Tick(p) \/ Wait(p) \/ WaitEnds(p) \/ TimerFires(p) \/ WaitRanOut(p)
  PROVE  PacingInv'
<1>1. UNCHANGED <<minute, cli, swept, pending, sweeper, started, asks>>
  BY DEF StartLoop, Tick, Wait, WaitEnds, TimerFires, WaitRanOut
<1>2. SUFFICES \E l \in Loop : Goes(p, l) /\ Sound(l)
  BY <1>1, <1>2, OneLoop, RestIs DEF Sound
<1>. DEFINE s == loop[p]
<1>3. s \in Loop /\ Sound(s) /\ minute \in Minute
  BY LoopIs
<1>4. CASE StartLoop(p)
  <2>. DEFINE l == [Off EXCEPT !.at = "top"]
  <2>1. l \in Loop /\ l.at = "top" /\ ~l.unserved /\ ~l.excused
    BY OffIs DEF Loop, LoopPlaces
  <2> QED
    BY <1>4, <2>1 DEF StartLoop, Sound, Heard, Informed, Excused
<1>5. CASE Tick(p)
  <2>. DEFINE l == [s EXCEPT !.at = "gate", !.wake = FALSE, !.paced = ~s.woken,
                             !.unserved = s.unserved /\ ~s.woken]
  <2>1. l \in Loop /\ l.at = "gate" /\ l.excused = s.excused /\ s.at = "top"
    BY <1>3, <1>5 DEF Tick, Loop, LoopPlaces
  <2>2. ~l.unserved
    BY <1>3 DEF Sound, Heard, Loop
  <2> QED
    BY <1>3, <1>5, <2>1, <2>2 DEF Tick, Sound, Heard, Informed, Excused
<1>6. CASE Wait(p)
  <2>. DEFINE l == [s EXCEPT !.at = "wait", !.due = minute + Cadence]
  <2>1. l \in Loop /\ l.at = "wait" /\ l.excused = s.excused /\ l.unserved = s.unserved /\ l.woken = s.woken /\ l.wake = s.wake
    BY <1>3, PacingTimes DEF Loop, LoopPlaces
  <2> QED
    BY <1>3, <1>6, <2>1 DEF Wait, Sound, Heard, Informed, Excused
<1>7. CASE WaitEnds(p) \/ TimerFires(p)
  <2>1. PICK place \in {"top", "expired"} : Goes(p, [s EXCEPT !.at = place, !.due = 0])
    BY <1>7 DEF WaitEnds, TimerFires
  <2>. DEFINE l == [s EXCEPT !.at = place, !.due = 0]
  <2>2. /\ l \in Loop /\ l.at = place /\ l.excused = s.excused
        /\ l.unserved = s.unserved /\ l.woken = s.woken /\ l.wake = s.wake
    BY <1>3, PacingTimes DEF Loop, LoopPlaces
  <2> QED
    BY <1>3, <1>7, <2>1, <2>2 DEF WaitEnds, TimerFires, Sound, Heard, Informed, Excused
<1>8. CASE WaitRanOut(p)
  <2>. DEFINE l == [s EXCEPT !.at = "top", !.woken = FALSE, !.unserved = FALSE]
  <2>1. l \in Loop /\ l.at = "top" /\ ~l.unserved /\ l.excused = s.excused
    BY <1>3 DEF Loop, LoopPlaces
  <2> QED
    BY <1>3, <1>8, <2>1 DEF WaitRanOut, Sound, Heard, Informed, Excused
<1> QED
  BY <1>4, <1>5, <1>6, <1>7, <1>8

\* The gates of a tick, and its lock.
LEMMA GateSafe ==
  ASSUME PacingInv, NEW p \in Process, PassGates(p) \/ CheckInterval(p) \/ TryLock(p)
  PROVE  PacingInv'
<1>. DEFINE s == loop[p]
<1>1. /\ UNCHANGED <<minute, cli, swept, pending, started, asks>>
      /\ sweeper' \in Process \union {Cli, Free}
  BY RestIs DEF PassGates, CheckInterval, TryLock
<1>2. SUFFICES \E l \in Loop : Goes(p, l) /\ Sound(l)
  BY <1>1, <1>2, OneLoop, RestIs DEF Sound
<1>3. /\ s \in Loop /\ Sound(s) /\ swept = started
      /\ minute \in Minute /\ started \in Minute \union {Never}
  BY LoopIs
<1>4. CASE Goes(p, Sleeps(p))
  BY <1>4, SleepsIs
<1>5. CASE PassGates(p) /\ ~s.paced /\ Goes(p, [s EXCEPT !.at = "lock"])
  <2>. DEFINE l == [s EXCEPT !.at = "lock"]
  <2>1. l \in Loop /\ l.at = "lock" /\ ~l.paced /\ l.unserved = s.unserved /\ l.woken = s.woken /\ l.wake = s.wake
    BY <1>3, <1>5 DEF Loop, LoopPlaces
  <2> QED
    BY <1>3, <1>5, <2>1 DEF Sound, Heard, Informed, Excused
<1>6. CASE /\ PassGates(p)
           /\ Goes(p, [s EXCEPT !.at = IF swept = Never THEN "lock" ELSE "asked",
                                !.seen = swept, !.overtaken = FALSE])
  <2>. DEFINE place == IF swept = Never THEN "lock" ELSE "asked"
              l == [s EXCEPT !.at = place, !.seen = swept, !.overtaken = FALSE]
  <2>1. l \in Loop /\ l.at = place /\ l.seen = swept
        /\ l.unserved = s.unserved /\ l.woken = s.woken /\ l.wake = s.wake /\ l.excused = s.excused
    BY <1>3 DEF Loop, LoopPlaces
  <2>2. s.at = "gate" /\ Goes(p, l)
    BY <1>6 DEF PassGates
  <2>. HIDE DEF l
  <2>3. Heard(l) /\ Excused(l)
    BY <1>3, <2>1, <2>2 DEF Sound, Heard, Excused
  <2>4. Informed(l)
    BY <1>3, <2>1 DEF Informed
  <2> QED
    BY <2>1, <2>2, <2>3, <2>4 DEF Sound
<1>7. CASE /\ CheckInterval(p) /\ (pending \/ ~TooSoon(p))
           /\ Goes(p, [s EXCEPT !.at = "lock", !.excused = pending])
  <2>. DEFINE l == [s EXCEPT !.at = "lock", !.excused = pending]
  <2>1. /\ l \in Loop /\ l.at = "lock" /\ l.excused = pending
        /\ l.paced = s.paced /\ l.overtaken = s.overtaken
        /\ l.unserved = s.unserved /\ l.woken = s.woken /\ l.wake = s.wake
    BY <1>3, RestIs DEF Loop, LoopPlaces
  <2>2. Heard(l)
    BY <1>3, <2>1 DEF Sound, Heard
  <2>3. Informed(l)
    <3>1. SUFFICES ASSUME l.paced, ~l.overtaken, ~l.excused PROVE minute - started >= Cadence
      BY <2>1 DEF Informed
    <3>2. s.at = "asked" /\ ~s.excused
      <4>1. s.at = "asked"
        BY <1>7 DEF CheckInterval
      <4>2. s.excused => s.at \in {"lock", "begin", "pass"}
        BY <1>3 DEF Sound, Excused
      <4> QED
        BY <4>1, <4>2
    <3>3. started # Never /\ s.seen = started
      BY <1>3, <2>1, <3>1, <3>2 DEF Sound, Informed
    <3>4. ~(minute - started < Cadence)
      BY <1>7, <2>1, <3>1, <3>3 DEF TooSoon
    <3> QED
      BY <1>3, <3>3, <3>4, PacingTimes
  <2>4. Excused(l)
    BY <2>1 DEF Excused
  <2> QED
    BY <1>7, <2>1, <2>2, <2>3, <2>4 DEF Sound
<1>8. CASE TryLock(p) /\ Goes(p, [s EXCEPT !.at = "begin"])
  <2>. DEFINE l == [s EXCEPT !.at = "begin"]
  <2>1. /\ l \in Loop /\ l.at = "begin" /\ l.paced = s.paced /\ l.overtaken = s.overtaken
        /\ l.excused = s.excused
        /\ l.unserved = s.unserved /\ l.woken = s.woken /\ l.wake = s.wake
    BY <1>3 DEF Loop, LoopPlaces
  <2>2. s.at = "lock"
    BY <1>8 DEF TryLock
  <2> QED
    BY <1>3, <1>8, <2>1, <2>2 DEF Sound, Heard, Informed, Excused
<1> QED
  BY <1>4, <1>5, <1>6, <1>7, <1>8 DEF PassGates, CheckInterval, TryLock

\* Ends of ticks and of loops.
LEMMA EndSafe ==
  ASSUME PacingInv, NEW p \in Process, EndPass(p) \/ FailTick(p) \/ StopLoop(p)
  PROVE  PacingInv'
<1>1. /\ UNCHANGED <<minute, cli, swept, pending, started>>
      /\ sweeper' \in Process \union {Cli, Free} /\ asks' \in 0 .. MaxAsks
  BY RestIs DEF EndPass, FailTick, StopLoop
<1>2. PICK l \in {Sleeps(p), Off} : Goes(p, l)
  BY DEF EndPass, FailTick, StopLoop
<1>3. l \in Loop /\ Sound(l)
  BY SleepsIs, OffIs DEF Sound, Heard, Informed, Excused
<1> QED
  BY <1>1, <1>2, <1>3, OneLoop, RestIs DEF Sound

\* The buttons.
LEMMA PressSafe ==
  ASSUME PacingInv, NEW p \in Process, PressSweep(p) \/ PressReindex(p) \/ WakeAfterReindex(p)
  PROVE  PacingInv'
<1>. DEFINE s == loop[p]
<1>1. /\ UNCHANGED <<minute, cli, swept, started, sweeper>>
      /\ pending' \in BOOLEAN /\ asks' \in 0 .. MaxAsks
  BY RestIs DEF PressSweep, PressReindex, WakeAfterReindex
<1>2. PICK l \in {Woken(s), [Woken(s) EXCEPT !.pressed = FALSE], [s EXCEPT !.pressed = TRUE]} :
        Goes(p, l)
  BY DEF PressSweep, PressReindex, WakeAfterReindex
<1>3. /\ s \in Loop /\ Heard(s) /\ Informed(s) /\ Excused(s)
  BY LoopIs DEF Sound
<1>4. /\ l \in Loop /\ l.at = s.at /\ l.paced = s.paced /\ l.overtaken = s.overtaken
      /\ l.excused = s.excused /\ l.seen = s.seen
      /\ \/ l.woken /\ l.wake
         \/ l.unserved = s.unserved /\ l.woken = s.woken /\ l.wake = s.wake
  BY <1>2, <1>3 DEF Woken, Loop
<1>5. Sound(l)
  BY <1>3, <1>4 DEF Sound, Heard, Informed, Excused
<1> QED
  BY <1>1, <1>2, <1>4, <1>5, OneLoop, RestIs DEF Sound

\* A pass begins, in a loop or in the command: every tick that is on its way to
\* the lock has been overtaken.
LEMMA BeginSafe ==
  ASSUME PacingInv, PassBegins, UNCHANGED <<minute, sweeper, asks>>,
         cli' \in [at : {"idle", "lock", "begin", "pass", "ok", "failed"}, tries : 0 .. MaxTries],
         NEW who,
         loop' = [q \in Process |->
                    IF q = who THEN [loop[q] EXCEPT !.at = "pass"] ELSE Overtaken(loop[q])]
  PROVE  PacingInv'
<1>1. swept' = minute /\ started' = minute /\ pending' = FALSE
  BY DEF PassBegins, SweptAt
<1>2. ASSUME NEW q \in Process
      PROVE  /\ loop'[q] \in Loop
             /\ loop'[q].unserved = loop[q].unserved /\ loop'[q].woken = loop[q].woken
             /\ loop'[q].wake = loop[q].wake /\ loop'[q].excused = loop[q].excused
             /\ loop'[q].paced = loop[q].paced
             /\ \/ loop'[q].at = "pass"
                \/ /\ loop'[q].at = loop[q].at
                   /\ loop'[q].paced /\ loop'[q].at \in {"asked", "lock", "begin"}
                        => loop'[q].overtaken
  <2>1. loop[q] \in Loop
    BY <1>2, LoopIs
  <2>2. CASE loop'[q] = [loop[q] EXCEPT !.at = "pass"]
    BY <2>1, <2>2 DEF Loop, LoopPlaces
  <2>3. CASE loop'[q] = Overtaken(loop[q])
    <3>. DEFINE late == loop[q].paced /\ loop[q].at \in {"asked", "lock", "begin"}
    <3>1. loop'[q] = [loop[q] EXCEPT !.overtaken = late] /\ late \in BOOLEAN
      BY <2>3 DEF Overtaken
    <3>2. loop[q].paced \in BOOLEAN
      BY <2>1 DEF Loop
    <3>3. /\ loop'[q] \in Loop /\ loop'[q].overtaken = late
          /\ loop'[q].unserved = loop[q].unserved /\ loop'[q].woken = loop[q].woken
          /\ loop'[q].wake = loop[q].wake /\ loop'[q].excused = loop[q].excused
          /\ loop'[q].paced = loop[q].paced /\ loop'[q].at = loop[q].at
      <4>. HIDE DEF late
      <4> QED
        BY <2>1, <3>1 DEF Loop
    <3> QED
      BY <3>3
  <2> QED
    BY <2>2, <2>3
<1>3. PacingTypeOK'
  <2>1. loop' \in [Process -> Loop]
    BY <1>2
  <2> QED
    BY <1>1, <2>1 DEF PacingInv, PacingTypeOK
<1>4. ASSUME NEW q \in Process PROVE Sound(loop[q])'
  BY ZenonT(20), <1>2, <1>4, LoopIs DEF Sound, Heard, Informed, Excused
<1> QED
  BY <1>1, <1>3, <1>4 DEF PacingInv, MarkerTells

LEMMA BeginPassSafe ==
  ASSUME PacingInv, CliBeginsPass \/ \E p \in Process : BeginPass(p)
  PROVE  PacingInv'
<1>1. CASE CliBeginsPass
  <2>1. cli' \in [at : {"idle", "lock", "begin", "pass", "ok", "failed"}, tries : 0 .. MaxTries]
    BY <1>1 DEF CliBeginsPass, PacingInv, PacingTypeOK
  <2>2. PICK who : who \notin Process
    BY NoSetContainsEverything
  <2>3. loop' = [q \in Process |->
                   IF q = who THEN [loop[q] EXCEPT !.at = "pass"] ELSE Overtaken(loop[q])]
    BY <1>1, <2>2 DEF CliBeginsPass
  <2> QED
    BY <1>1, <2>1, <2>3, BeginSafe DEF CliBeginsPass
<1>2. CASE \E p \in Process : BeginPass(p)
  <2>1. cli' \in [at : {"idle", "lock", "begin", "pass", "ok", "failed"}, tries : 0 .. MaxTries]
    BY <1>2 DEF BeginPass, PacingInv, PacingTypeOK
  <2> QED
    BY <1>2, <2>1, BeginSafe DEF BeginPass
<1> QED
  BY <1>1, <1>2

\* The command, and a lock that lapses: no loop moves.
LEMMA ElsewhereSafe ==
  ASSUME PacingInv, RunCli \/ CliTakesLock \/ CliEndsPass \/ LockLapses
  PROVE  PacingInv'
<1>. DEFINE Cmd == [at : {"idle", "lock", "begin", "pass", "ok", "failed"}, tries : 0 .. MaxTries]
<1>1. /\ minute' = minute /\ loop' = loop /\ started' = started /\ swept' = swept
  BY DEF RunCli, CliTakesLock, CliEndsPass, LockLapses, SweptAt
<1>0. /\ pending \in BOOLEAN /\ sweeper \in Process \union {Cli, Free} /\ asks \in 0 .. MaxAsks
      /\ cli \in Cmd /\ MaxAsks \in Nat /\ MaxTries = 3
  BY DEF PacingInv, PacingTypeOK, MaxTries
<1>2. /\ pending' \in BOOLEAN /\ sweeper' \in Process \union {Cli, Free} /\ asks' \in 0 .. MaxAsks
      /\ cli' \in Cmd
  <2>1. CASE RunCli
    <3>1. cli' \in Cmd
      BY <1>0, <2>1 DEF RunCli
    <3>2. pending' \in BOOLEAN /\ asks' = asks + 1 /\ asks < MaxAsks /\ sweeper' = sweeper
      BY <1>0, <2>1 DEF RunCli
    <3> QED
      BY <1>0, <3>1, <3>2
  <2>2. CASE CliTakesLock
    BY <1>0, <2>2 DEF CliTakesLock
  <2>3. CASE CliEndsPass
    <3>1. cli' \in Cmd
      BY <1>0, <2>3 DEF CliEndsPass
    <3> QED
      BY <1>0, <2>3, <3>1 DEF CliEndsPass
  <2>4. CASE LockLapses
    BY <1>0, <2>4 DEF LockLapses
  <2> QED
    BY <2>1, <2>2, <2>3, <2>4
<1>3. PacingTypeOK'
  BY <1>1, <1>2 DEF PacingInv, PacingTypeOK
<1>4. ASSUME NEW q \in Process PROVE Sound(loop[q])'
  BY <1>1, LoopIs DEF Sound, Heard, Informed, Excused
<1> QED
  BY <1>1, <1>3, <1>4 DEF PacingInv, MarkerTells

\* The distance to the last pass only grows.
LEMMA MinuteSafe == ASSUME PacingInv, MinutePasses PROVE PacingInv'
<1>1. UNCHANGED <<loop, cli, swept, pending, sweeper, started, asks>>
      /\ minute' = minute + 1 /\ minute' \in Minute /\ minute \in Minute
  BY DEF MinutePasses, PacingInv, PacingTypeOK, Minute
<1>2. PacingTypeOK'
  BY <1>1 DEF PacingInv, PacingTypeOK
<1>3. ASSUME NEW q \in Process PROVE Sound(loop[q])'
  <2>1. Sound(loop[q]) /\ started \in Minute \union {Never}
    BY LoopIs DEF Sound
  <2>2. minute - started >= Cadence => minute' - started >= Cadence
    BY <1>1, <2>1, PacingTimes
  <2> QED
    BY <1>1, <2>1, <2>2 DEF Sound, Heard, Informed, Excused
<1> QED
  BY <1>1, <1>2, <1>3 DEF PacingInv, MarkerTells

LEMMA StepPaced == PacingInv /\ [PacingNext]_pacingVars => PacingInv'
<1> SUFFICES ASSUME PacingInv, [PacingNext]_pacingVars PROVE PacingInv'
  OBVIOUS
<1>1. CASE \E p \in Process : LoopStep(p)
  <2>1. PICK p \in Process : LoopStep(p)
    BY <1>1
  <2>2. CASE StartLoop(p) \/ Tick(p) \/ Wait(p) \/ WaitEnds(p) \/ TimerFires(p) \/ WaitRanOut(p)
    BY <2>2, LoopSafe
  <2>3. CASE PassGates(p) \/ CheckInterval(p) \/ TryLock(p)
    BY <2>3, GateSafe
  <2>4. CASE BeginPass(p)
    BY <2>4, BeginPassSafe
  <2>5. CASE EndPass(p) \/ FailTick(p) \/ StopLoop(p)
    BY <2>5, EndSafe
  <2>6. CASE PressSweep(p) \/ PressReindex(p) \/ WakeAfterReindex(p)
    BY <2>6, PressSafe
  <2> QED
    BY <2>1, <2>2, <2>3, <2>4, <2>5, <2>6 DEF LoopStep
<1>2. CASE RunCli \/ CliTakesLock \/ CliEndsPass \/ LockLapses
  BY <1>2, ElsewhereSafe
<1>3. CASE CliBeginsPass
  BY <1>3, BeginPassSafe
<1>4. CASE MinutePasses
  BY <1>4, MinuteSafe
<1>5. CASE UNCHANGED pacingVars
  <2>1. UNCHANGED <<minute, loop, cli, swept, pending, sweeper, started, asks>>
    BY <1>5 DEF pacingVars
  <2> QED
    BY <2>1 DEF PacingInv, PacingTypeOK, MarkerTells, Sound, Heard, Informed, Excused
<1> QED
  BY <1>1, <1>2, <1>3, <1>4, <1>5 DEF PacingNext

-----------------------------------------------------------------------------
(* The theorems. *)

\* The invariant holds in every state, and with it the types.
THEOREM PacingInvariant == PacingSpec => []PacingInv
<1>1. PacingInv /\ [PacingNext]_pacingVars => PacingInv'
  BY StepPaced
<1> QED
  BY InitPaced, <1>1, PTL DEF PacingSpec

\* The loops, the locks and the marker stay well formed.
THEOREM PacingTyped == PacingSpec => []PacingTypeOK
<1>1. PacingInv => PacingTypeOK
  BY DEF PacingInv
<1> QED
  BY <1>1, PacingInvariant, PTL

\* A request to sweep is never slept on, however it falls between the places of
\* the loop (scheduler.py _run, wake).
THEOREM WakesServed == PacingSpec => []WakesAreServed
<1>1. PacingInv => WakesAreServed
  BY DEF PacingInv, WakesAreServed, Sound, Heard
<1> QED
  BY <1>1, PacingInvariant, PTL

\* Timer passes keep their distance, in any number of processes (indexer.py
\* _too_soon).
THEOREM TimerPassesPaced == PacingSpec => PassesArePaced
<1>1. ASSUME PacingInv, [PacingNext]_pacingVars, NEW p \in Process,
             loop[p].at = "begin", loop'[p].at = "pass", loop[p].paced
      PROVE  \/ started = Never
             \/ minute - started >= Cadence
             \/ loop[p].overtaken
             \/ loop[p].excused
  BY <1>1, LoopIs DEF Sound, Informed
<1>2. PacingInv /\ [PacingNext]_pacingVars =>
        [\A p \in Process :
           loop[p].at = "begin" /\ loop'[p].at = "pass" /\ loop[p].paced =>
             \/ started = Never
             \/ minute - started >= Cadence
             \/ loop[p].overtaken
             \/ loop[p].excused]_pacingVars
  BY <1>1
<1> QED
  BY <1>2, PacingInvariant, PTL DEF PacingSpec, PassesArePaced

-----------------------------------------------------------------------------
(* The documents of a day. *)

Installs == [id : Sender \union {Unset}, firstSeen : Moment \union {Unset},
             setupDay : Day \union {Unset}]
Ticks == [at : {"idle", "due", "age", "build", "number", "reread", "claim", "send"},
          now : Moment, day : Day, first : BOOLEAN, id : Sender \union {Unset},
          tries : 0 .. MaxAttempts - 1]

Switches == [on : BOOLEAN, complete : BOOLEAN, toNote : BOOLEAN]

WellFormed ==
  /\ moment \in Moment
  /\ install \in Installs
  /\ claimed \subseteq Day
  /\ settings \in Switches
  /\ sending \in [Sender -> Ticks]
  /\ received \in [Day -> Nat]
  /\ unanswered \in [Day -> Nat]
  /\ setups \subseteq Day
  /\ named \subseteq Sender \union {Unset}
  /\ incidents \in 0 .. MaxIncidents

\* A claimed day is in the hands of one tick, and what the receiver has of it are
\* the attempts of that tick that had no answer.
Handed ==
  /\ \A p \in Sender : sending[p].at = "send" =>
       /\ sending[p].day \in claimed
       /\ received[sending[p].day] <= unanswered[sending[p].day]
       /\ received[sending[p].day] <= sending[p].tries
  /\ \A p, q \in Sender :
       sending[p].at = "send" /\ sending[q].at = "send" /\ sending[p].day = sending[q].day => p = q
  /\ \A d \in Day : received[d] > 0 => d \in claimed

\* The day of the setup and the id, once recorded, are those of every document.
Recorded ==
  /\ setups \subseteq {install.setupDay}
  /\ named \subseteq {install.id}
  /\ \A p \in Sender :
       /\ sending[p].first =>
            install.setupDay # Unset /\ sending[p].day = install.setupDay
       /\ sending[p].at \in {"due", "age"} => ~sending[p].first
       /\ sending[p].at = "reread" => install.id # Unset
       /\ sending[p].at \in {"claim", "send"} =>
            install.id # Unset /\ sending[p].id = install.id
  /\ setups # {} => install.setupDay # Unset
  /\ named # {} => install.id # Unset

\* The inductive invariant.
TelemetryInv ==
  /\ WellFormed
  /\ Handed
  /\ OneTickSendsADay
  /\ Recorded

USE TelemetryAssumption

LEMMA Days ==
  /\ \A m \in Moment : DayOf(m) \in Day
  /\ 0 \in Day /\ 0 \in Moment /\ Unset \notin Day
  /\ \A m \in Moment : m >= 2 => DayOf(m) - 1 \in Day
  /\ 0 \in 0 .. MaxAttempts - 1
BY DEF Moment, Day, DayOf, Unset, MaxAttempts

LEMMA NoTickIs ==
  /\ NoTick \in Ticks /\ NoTick.at = "idle" /\ ~NoTick.first
BY Days DEF NoTick, Ticks

LEMMA InitTelemetry == TelemetryInit => TelemetryInv
BY Days, NoTickIs DEF TelemetryInit, TelemetryInv, WellFormed, Handed, OneTickSendsADay, Recorded,
                      Installs, Switches, Unset, MaxAttempts

-----------------------------------------------------------------------------
(* The steps of a tick. *)

\* A tick that neither sends nor comes to send.
LEMMA TickMoves ==
  ASSUME TelemetryInv, NEW p \in Sender, NEW t \in Ticks, Sends(p, t),
         t.at # "send",
         UNCHANGED <<moment, install, claimed, settings, receiver>>,
         incidents' \in 0 .. MaxIncidents,
         t.first => install.setupDay # Unset /\ t.day = install.setupDay,
         t.at \in {"due", "age"} => ~t.first,
         t.at = "reread" => install.id # Unset,
         t.at = "claim" => install.id # Unset /\ t.id = install.id
  PROVE  TelemetryInv'
<1>1. /\ WellFormed' /\ sending \in [Sender -> Ticks]
      /\ sending' = [sending EXCEPT ![p] = t]
  BY DEF TelemetryInv, WellFormed, Switches, Sends, receiver, Day, Moment, Installs, Ticks
<1>2. Handed' /\ OneTickSendsADay'
  BY <1>1 DEF TelemetryInv, Handed, OneTickSendsADay, receiver
<1>3. Recorded'
  BY <1>1 DEF TelemetryInv, Recorded, receiver
<1> QED
  BY <1>1, <1>2, <1>3 DEF TelemetryInv

LEMMA SenderIs ==
  ASSUME TelemetryInv, NEW p \in Sender
  PROVE  /\ moment \in Moment /\ install \in Installs /\ incidents \in 0 .. MaxIncidents
         /\ sending \in [Sender -> Ticks] /\ sending[p] \in Ticks
         /\ install.setupDay \in Day \union {Unset}
         /\ install.firstSeen \in Moment \union {Unset}
         /\ install.id \in Sender \union {Unset}
BY DEF TelemetryInv, WellFormed, Installs

LEMMA QuestionsSafe ==
  ASSUME TelemetryInv, NEW p \in Sender,
         AskWhetherToSend(p) \/ AskSetupDay(p) \/ Build(p) \/ RereadId(p) \/ TickFails(p)
  PROVE  TelemetryInv'
<1>. DEFINE s == sending[p]
<1>1. /\ s \in Ticks /\ moment \in Moment /\ incidents' \in 0 .. MaxIncidents
      /\ install.id \in Sender \union {Unset}
  BY SenderIs DEF AskWhetherToSend, AskSetupDay, Build, RereadId, TickFails
<1>2. CASE AskWhetherToSend(p)
  <2>1. /\ [NoTick EXCEPT !.at = "due", !.now = moment] \in Ticks
        /\ [NoTick EXCEPT !.at = "due", !.now = moment].at = "due"
        /\ ~[NoTick EXCEPT !.at = "due", !.now = moment].first
    BY <1>1, NoTickIs DEF Ticks
  <2> QED
    BY <1>1, <1>2, <2>1, TickMoves DEF AskWhetherToSend
<1>3. CASE AskSetupDay(p)
  <2>1. DayOf(s.now) \in Day /\ Unset \notin Day
    BY <1>1, Days DEF Ticks
  <2>. DEFINE t == [s EXCEPT !.at = "build", !.day = DayOf(s.now), !.first = TRUE]
              u == [s EXCEPT !.at = "age"]
  <2>2. t \in Ticks /\ t.at = "build" /\ t.day = DayOf(s.now)
    BY <1>1, <2>1 DEF Ticks
  <2>3. u \in Ticks /\ u.at = "age" /\ u.day = s.day /\ u.first = s.first
    BY <1>1 DEF Ticks
  <2>4. ~s.first
    BY <1>3 DEF AskSetupDay, TelemetryInv, Recorded
  <2>5. \/ Sends(p, t) /\ install.setupDay = DayOf(s.now)
        \/ Sends(p, u)
    BY <1>3 DEF AskSetupDay
  <2>6. UNCHANGED <<moment, install, claimed, settings, receiver>>
    BY <1>3 DEF AskSetupDay
  <2>. HIDE DEF t, u, s
  <2>7. CASE Sends(p, t) /\ install.setupDay = DayOf(s.now)
    BY <1>1, <2>1, <2>2, <2>6, <2>7, TickMoves
  <2>8. CASE Sends(p, u)
    BY <1>1, <2>3, <2>4, <2>6, <2>8, TickMoves
  <2> QED
    BY <2>5, <2>7, <2>8
<1>4. CASE Build(p) \/ RereadId(p)
  <2>. DEFINE t == [s EXCEPT !.at = "claim", !.id = install.id]
              u == [s EXCEPT !.at = "number"]
  <2>1. /\ t \in Ticks /\ t.at = "claim" /\ t.id = install.id
        /\ t.day = s.day /\ t.first = s.first
    BY <1>1 DEF Ticks
  <2>2. u \in Ticks /\ u.at = "number" /\ u.day = s.day /\ u.first = s.first
    BY <1>1 DEF Ticks
  <2>3. s.first => install.setupDay # Unset /\ s.day = install.setupDay
    BY DEF TelemetryInv, Recorded
  <2>4. \/ Sends(p, t) /\ install.id # Unset
        \/ Sends(p, u)
    BY <1>4 DEF Build, RereadId, TelemetryInv, Recorded
  <2>5. UNCHANGED <<moment, install, claimed, settings, receiver>>
    BY <1>4 DEF Build, RereadId
  <2>. HIDE DEF t, u, s
  <2>6. CASE Sends(p, t) /\ install.id # Unset
    BY <1>1, <2>1, <2>3, <2>5, <2>6, TickMoves
  <2>7. CASE Sends(p, u)
    BY <1>1, <2>2, <2>3, <2>5, <2>7, TickMoves
  <2> QED
    BY <2>4, <2>6, <2>7
<1>5. CASE TickFails(p)
  BY <1>1, <1>5, NoTickIs, TickMoves DEF TickFails
<1> QED
  BY <1>2, <1>3, <1>4, <1>5

\* Recording when the installation was first seen, or its id, changes nothing
\* that was recorded before.
LEMMA InstallSafe ==
  ASSUME TelemetryInv, NEW p \in Sender, AskFirstSeen(p) \/ ProposeId(p) \/ Register(p)
  PROVE  TelemetryInv'
<1>. DEFINE s == sending[p]
<1>1. /\ s \in Ticks /\ sending \in [Sender -> Ticks] /\ install \in Installs
      /\ moment \in Moment /\ p \in Sender \union {Unset}
  BY SenderIs
<1>2. /\ SeenNow \in Moment /\ SeenNow >= 0
      /\ s.now \in Moment
  BY <1>1 DEF SeenNow, Installs, Ticks, Moment
<1>3. /\ install' \in Installs /\ install'.setupDay = install.setupDay
      /\ install.id # Unset => install'.id = install.id
  BY <1>1, <1>2 DEF AskFirstSeen, ProposeId, Register, NamesIt, Installs
<1>4. UNCHANGED <<moment, claimed, settings, received, unanswered, setups, named, incidents>>
  BY DEF AskFirstSeen, ProposeId, Register, receiver
<1>5. SUFFICES \E t \in Ticks :
        /\ sending' = [sending EXCEPT ![p] = t]
        /\ t.at = "send" => t = s
        /\ t.first => install.setupDay # Unset /\ t.day = install.setupDay
        /\ t.at \in {"due", "age"} => ~t.first
        /\ t.at = "reread" => install'.id # Unset
        /\ t.at = "claim" => install'.id # Unset /\ t.id = install'.id
  <2>1. PICK t \in Ticks :
        /\ sending' = [sending EXCEPT ![p] = t]
        /\ t.at = "send" => t = s
        /\ t.first => install.setupDay # Unset /\ t.day = install.setupDay
        /\ t.at \in {"due", "age"} => ~t.first
        /\ t.at = "reread" => install'.id # Unset
        /\ t.at = "claim" => install'.id # Unset /\ t.id = install'.id
    BY <1>5
  <2>2. WellFormed'
    BY <1>1, <1>3, <1>4, <2>1 DEF TelemetryInv, WellFormed, Installs, Ticks
  <2>3. Handed' /\ OneTickSendsADay'
    BY <1>1, <1>4, <2>1 DEF TelemetryInv, Handed, OneTickSendsADay
  <2>4. Recorded'
    BY <1>1, <1>3, <1>4, <2>1 DEF TelemetryInv, Recorded
  <2> QED
    BY <2>2, <2>3, <2>4 DEF TelemetryInv
<1>6. s.first => install.setupDay # Unset /\ s.day = install.setupDay
  BY DEF TelemetryInv, Recorded
<1>7. CASE AskFirstSeen(p)
  <2>. DEFINE t == [s EXCEPT !.at = "build", !.day = DayOf(s.now) - 1]
  <2>1. s.now - SeenNow >= 2 => DayOf(s.now) - 1 \in Day
    BY <1>2, Days DEF Moment
  <2>2. s.now - SeenNow >= 2 =>
          t \in Ticks /\ t.at = "build" /\ t.first = s.first
    BY <1>1, <2>1 DEF Ticks
  <2>3. ~s.first
    BY <1>7 DEF AskFirstSeen, TelemetryInv, Recorded
  <2> QED
    BY <1>7, <2>2, <2>3, NoTickIs DEF AskFirstSeen, Sends
<1>8. CASE ProposeId(p)
  <2>. DEFINE t == [s EXCEPT !.at = "claim", !.id = p]
              u == [s EXCEPT !.at = "reread"]
  <2>1. /\ t \in Ticks /\ t.at = "claim" /\ t.id = p /\ t.first = s.first /\ t.day = s.day
        /\ u \in Ticks /\ u.at = "reread" /\ u.first = s.first /\ u.day = s.day
    BY <1>1 DEF Ticks
  <2>2. \/ /\ sending' = [sending EXCEPT ![p] = t] /\ install'.id = p /\ p # Unset
        \/ /\ sending' = [sending EXCEPT ![p] = u] /\ install'.id # Unset
    BY <1>1, <1>8 DEF ProposeId, NamesIt, Sends, Installs
  <2>. HIDE DEF t, u, s
  <2> QED
    BY <1>6, <2>1, <2>2
<1>9. CASE Register(p)
  BY <1>1, <1>6, <1>9 DEF Register
<1> QED
  BY <1>7, <1>8, <1>9

LEMMA ClaimSafe == ASSUME TelemetryInv, NEW p \in Sender, Claim(p) PROVE TelemetryInv'
<1>. DEFINE s == sending[p]
            t == [s EXCEPT !.at = "send"]
<1>1. /\ s \in Ticks /\ s.at = "claim" /\ s.day \in Day
      /\ sending \in [Sender -> Ticks]
      /\ claimed' = claimed \union {s.day}
      /\ UNCHANGED <<moment, install, settings, received, unanswered, setups, named, incidents>>
  BY SenderIs DEF Claim, receiver, Ticks
<1>2. /\ t \in Ticks /\ t.at = "send" /\ t.day = s.day /\ t.first = s.first /\ t.id = s.id
      /\ t.tries = s.tries
  BY <1>1 DEF Ticks
<1>3. CASE s.day \notin claimed
  <2>1. sending' = [sending EXCEPT ![p] = t]
    BY <1>3 DEF Claim, DayIsFree, Sends
  <2>2. WellFormed'
    BY <1>1, <1>2, <2>1 DEF TelemetryInv, WellFormed, Installs, Ticks
  <2>3. received[s.day] = 0 /\ unanswered[s.day] \in Nat /\ s.tries \in Nat
    BY <1>1, <1>3 DEF TelemetryInv, WellFormed, Handed, Ticks, MaxAttempts
  <2>4. \A q \in Sender : sending[q].at = "send" => sending[q].day # s.day
    BY <1>3 DEF TelemetryInv, Handed
  <2>. HIDE DEF t
  <2>5. Handed' /\ OneTickSendsADay'
    BY <1>1, <1>2, <2>1, <2>3, <2>4 DEF TelemetryInv, Handed, OneTickSendsADay
  <2>6. Recorded'
    BY <1>1, <1>2, <2>1 DEF TelemetryInv, Recorded
  <2> QED
    BY <2>2, <2>5, <2>6 DEF TelemetryInv
<1>4. CASE s.day \in claimed
  <2>1. sending' = [sending EXCEPT ![p] = NoTick] /\ claimed' = claimed
    BY <1>1, <1>4 DEF Claim, DayIsFree, Sends
  <2> QED
    BY <1>1, <2>1, NoTickIs, SenderIs, TickMoves DEF Sends, receiver
<1> QED
  BY <1>3, <1>4

\* An attempt that reached the receiver or did not, and what the tick does next.
LEMMA AttemptSafe ==
  ASSUME TelemetryInv, NEW p \in Sender, Deliver(p) \/ NoAnswer(p)
  PROVE  TelemetryInv'
<1>. DEFINE s == sending[p]
<1>1. /\ s \in Ticks /\ s.at = "send" /\ s.day \in Day /\ s.tries \in 0 .. MaxAttempts - 1
      /\ sending \in [Sender -> Ticks] /\ install \in Installs
      /\ incidents' \in 0 .. MaxIncidents
      /\ UNCHANGED <<moment, install, claimed, settings>>
  BY SenderIs DEF Deliver, NoAnswer, Ticks
<1>2. PICK t \in {NoTick, [s EXCEPT !.tries = @ + 1]} :
        /\ sending' = [sending EXCEPT ![p] = t]
        /\ t # NoTick => NoAnswer(p) /\ s.tries + 1 < MaxAttempts
  BY DEF Deliver, NoAnswer, TriesAgain, Sends
<1>3. /\ t \in Ticks
      /\ t = NoTick \/ (/\ t.at = "send" /\ t.day = s.day /\ t.first = s.first
                        /\ t.id = s.id /\ t.tries = s.tries + 1 /\ NoAnswer(p))
  BY <1>1, <1>2, NoTickIs DEF Ticks, MaxAttempts
<1>4. sending' \in [Sender -> Ticks]
  BY <1>1, <1>2, <1>3
<1>5. /\ s.day \in claimed
      /\ received[s.day] <= unanswered[s.day] /\ received[s.day] <= s.tries
      /\ received \in [Day -> Nat] /\ unanswered \in [Day -> Nat]
      /\ s.first => install.setupDay # Unset /\ s.day = install.setupDay
      /\ install.id # Unset /\ s.id = install.id /\ s.id \in Sender \union {Unset}
  BY <1>1 DEF TelemetryInv, WellFormed, Handed, Recorded, Ticks
<1>6. \A q \in Sender : sending'[q].at = "send" =>
        /\ sending[q].at = "send" /\ sending'[q].day = sending[q].day
        /\ q = p => NoAnswer(p) /\ sending'[q].tries = s.tries + 1
        /\ q # p => sending'[q].tries = sending[q].tries
  BY <1>1, <1>2, <1>3, NoTickIs
<1>7. CASE UNCHANGED receiver
  <2>1. WellFormed'
    BY <1>1, <1>4, <1>7 DEF TelemetryInv, WellFormed, Installs, receiver
  <2>2. \A q \in Sender : sending'[q].at = "send" =>
          /\ sending'[q].day \in claimed'
          /\ received'[sending'[q].day] <= unanswered'[sending'[q].day]
          /\ received'[sending'[q].day] <= sending'[q].tries
    <3>1. SUFFICES ASSUME NEW q \in Sender, sending'[q].at = "send"
                   PROVE  /\ sending[q].day \in claimed
                          /\ received[sending[q].day] <= unanswered[sending[q].day]
                          /\ received[sending[q].day] <= sending'[q].tries
      BY <1>1, <1>6, <1>7 DEF receiver
    <3>2. CASE q = p
      <4>1. sending'[q].tries = s.tries + 1 /\ received[s.day] \in Nat /\ s.tries \in Nat
        BY <1>1, <1>5, <1>6, <3>1, <3>2 DEF MaxAttempts
      <4> QED
        BY <1>5, <3>2, <4>1
    <3>3. CASE q # p
      BY <1>6, <3>1, <3>3 DEF TelemetryInv, Handed
    <3> QED
      BY <3>2, <3>3
  <2>3. Handed' /\ OneTickSendsADay'
    BY <1>1, <1>6, <1>7, <2>2 DEF TelemetryInv, Handed, OneTickSendsADay, receiver
  <2>4. Recorded'
    BY <1>1, <1>2, <1>3, <1>7, NoTickIs DEF TelemetryInv, Recorded, receiver
  <2> QED
    BY <2>1, <2>3, <2>4 DEF TelemetryInv
<1>8. CASE /\ Stored(p)
           /\ \/ unanswered' = unanswered /\ ~NoAnswer(p)
              \/ unanswered' = [unanswered EXCEPT ![s.day] = @ + 1]
  <2>1. /\ received' = [received EXCEPT ![s.day] = @ + 1]
        /\ setups' = IF s.first THEN setups \union {s.day} ELSE setups
        /\ named' = named \union {s.id}
    BY <1>8 DEF Stored
  <2>2. /\ received' \in [Day -> Nat] /\ unanswered' \in [Day -> Nat]
        /\ received'[s.day] = received[s.day] + 1
        /\ unanswered'[s.day] \in {unanswered[s.day], unanswered[s.day] + 1}
        /\ NoAnswer(p) => unanswered'[s.day] = unanswered[s.day] + 1
        /\ received[s.day] \in Nat /\ unanswered[s.day] \in Nat
    BY <1>1, <1>5, <1>8, <2>1
  <2>3. WellFormed'
    BY <1>1, <1>4, <1>5, <2>1, <2>2 DEF TelemetryInv, WellFormed, Installs
  <2>4. \A d \in Day : d # s.day => received'[d] = received[d] /\ unanswered'[d] = unanswered[d]
    BY <1>1, <1>5, <1>8, <2>1
  <2>5. received'[s.day] <= 1 + unanswered'[s.day] /\ received'[s.day] <= MaxAttempts
    BY <1>1, <1>5, <2>2 DEF MaxAttempts
  <2>6. OneTickSendsADay'
    BY <2>4, <2>5 DEF TelemetryInv, OneTickSendsADay
  <2>7. \A q \in Sender : q # p /\ sending[q].at = "send" => sending[q].day # s.day
    BY <1>1 DEF TelemetryInv, Handed
  <2>8. \A q \in Sender : sending[q].day \in Day
    BY <1>1 DEF Ticks
  <2>9. \A q \in Sender : sending'[q].at = "send" =>
          /\ sending'[q].day \in claimed'
          /\ received'[sending'[q].day] <= unanswered'[sending'[q].day]
          /\ received'[sending'[q].day] <= sending'[q].tries
    <3>1. SUFFICES ASSUME NEW q \in Sender, sending'[q].at = "send"
                   PROVE  /\ sending[q].day \in claimed
                          /\ received'[sending[q].day] <= unanswered'[sending[q].day]
                          /\ received'[sending[q].day] <= sending'[q].tries
      BY <1>1, <1>6
    <3>2. CASE q = p
      <4>1. /\ unanswered'[s.day] = unanswered[s.day] + 1
            /\ sending'[q].tries = s.tries + 1 /\ s.tries \in Nat
        BY <1>1, <1>6, <2>2, <3>1, <3>2 DEF MaxAttempts
      <4> QED
        BY <1>5, <2>2, <3>2, <4>1
    <3>3. CASE q # p
      BY <1>6, <2>4, <2>7, <2>8, <3>1, <3>3 DEF TelemetryInv, Handed
    <3> QED
      BY <3>2, <3>3
  <2>10. Handed'
    BY <1>1, <1>5, <1>6, <2>1, <2>4, <2>9 DEF TelemetryInv, Handed
  <2>11. Recorded'
    BY <1>1, <1>2, <1>3, <1>5, <2>1, NoTickIs DEF TelemetryInv, Recorded
  <2> QED
    BY <2>3, <2>6, <2>10, <2>11 DEF TelemetryInv
<1>9. UNCHANGED receiver \/ (/\ Stored(p)
                           /\ \/ unanswered' = unanswered /\ ~NoAnswer(p)
                              \/ unanswered' = [unanswered EXCEPT ![s.day] = @ + 1])
  <2>1. CASE Deliver(p) /\ ~NoAnswer(p)
    BY <2>1 DEF Deliver
  <2>2. CASE NoAnswer(p)
    BY <2>2 DEF NoAnswer
  <2> QED
    BY <2>1, <2>2
<1> QED
  BY <1>7, <1>8, <1>9

-----------------------------------------------------------------------------
(* The installation, and the theorems. *)

LEMMA SurroundingsSafe ==
  ASSUME TelemetryInv,
         \/ FinishSetup \/ NoteSetup \/ SetupGoesUnnoted \/ ChangeSettings \/ HalfADayPasses
         \/ UNCHANGED telemetryVars
  PROVE  TelemetryInv'
<1>1. /\ moment \in Moment /\ install \in Installs /\ DayOf(moment) \in Day
  BY Days DEF TelemetryInv, WellFormed
<1>2. UNCHANGED <<claimed, sending, received, unanswered, setups, named>>
  BY DEF FinishSetup, NoteSetup, SetupGoesUnnoted, ChangeSettings, HalfADayPasses, telemetryVars,
         receiver
<1>3. /\ install' \in Installs /\ install'.id = install.id
      /\ install.setupDay # Unset => install'.setupDay = install.setupDay
  BY <1>1 DEF FinishSetup, NoteSetup, SetupGoesUnnoted, SetupDay, ChangeSettings, HalfADayPasses,
              telemetryVars, Installs
<1>4. moment' \in Moment /\ settings' \in Switches /\ incidents' \in 0 .. MaxIncidents
  <2>1. settings \in Switches
    BY DEF TelemetryInv, WellFormed
  <2>2. settings' \in {settings, [settings EXCEPT !.complete = TRUE, !.toNote = TRUE],
                      [settings EXCEPT !.toNote = FALSE],
                      [settings EXCEPT !.on = ~@], [settings EXCEPT !.complete = ~@]}
    BY DEF FinishSetup, NoteSetup, SetupGoesUnnoted, ChangeSettings, HalfADayPasses, telemetryVars
  <2>3. settings' \in Switches
    BY <2>1, <2>2 DEF Switches
  <2>4. moment' \in Moment /\ incidents' \in 0 .. MaxIncidents
    BY DEF FinishSetup, NoteSetup, SetupGoesUnnoted, ChangeSettings, HalfADayPasses, telemetryVars,
           TelemetryInv, WellFormed, Moment
  <2> QED
    BY <2>3, <2>4
<1>5. WellFormed'
  BY <1>2, <1>3, <1>4 DEF TelemetryInv, WellFormed, Installs, Ticks
<1>6. Handed' /\ OneTickSendsADay'
  BY <1>2 DEF TelemetryInv, Handed, OneTickSendsADay
<1>7. Recorded'
  BY <1>2, <1>3 DEF TelemetryInv, Recorded
<1> QED
  BY <1>5, <1>6, <1>7 DEF TelemetryInv

\* The inductive invariant holds in every reachable state.
THEOREM TelemetryInvariant == TelemetrySpec => []TelemetryInv
<1>1. TelemetryInv /\ [TelemetryNext]_telemetryVars => TelemetryInv'
  BY QuestionsSafe, InstallSafe, ClaimSafe, AttemptSafe, SurroundingsSafe
     DEF TelemetryNext, SenderStep
<1> QED
  BY <1>1, InitTelemetry, PTL DEF TelemetrySpec

\* The types of the daily document's sender hold.
THEOREM TelemetryTyped == TelemetrySpec => []TelemetryTypeOK
<1>1. TelemetryInv => TelemetryTypeOK
  BY DEF TelemetryInv, WellFormed, TelemetryTypeOK, Installs, Ticks, Switches
<1> QED
  BY <1>1, TelemetryInvariant, PTL

\* Beyond one document of a day the receiver has only repetitions of unanswered
\* attempts of the tick that claimed it, at most as many as there are attempts,
\* however many processes tick (claim_day in state/install.py, send in
\* telemetry/telemetrydeck.py).
THEOREM DaysClaimedOnce == TelemetrySpec => []OneTickSendsADay
<1>1. TelemetryInv => OneTickSendsADay
  BY DEF TelemetryInv
<1> QED
  BY <1>1, TelemetryInvariant, PTL

\* A set within a singleton has at most one element.
LEMMA AtMostOne ==
  ASSUME NEW e, NEW S \in SUBSET {e}
  PROVE  Cardinality(S) <= 1
<1>1. IsFiniteSet({e}) /\ Cardinality({e}) = 1
  BY FS_Singleton
<1> QED
  BY <1>1, FS_Subset

\* However often the setup is finished, one day's document says so
\* (note_setup_complete in state/install.py).
THEOREM SetupOnce == TelemetrySpec => []OneSetupDocument
<1>1. TelemetryInv => OneSetupDocument
  BY AtMostOne DEF TelemetryInv, Recorded, OneSetupDocument
<1> QED
  BY <1>1, TelemetryInvariant, PTL

\* All documents name one installation, also when several processes start on an
\* empty Redis (install_id in state/install.py).
THEOREM NamedOnce == TelemetrySpec => []OneIdentity
<1>1. TelemetryInv => OneIdentity
  BY AtMostOne DEF TelemetryInv, Recorded, OneIdentity
<1> QED
  BY <1>1, TelemetryInvariant, PTL
=============================================================================
