------------------------------ MODULE Pacing ------------------------------
(***************************************************************************)
(* When the sweep runs: the periodic loop of each process                  *)
(* (pipelines/scheduler.py), the gate that spaces timer passes over the    *)
(* whole deployment (vector/use_cases/indexer.py, sweep_once and           *)
(* _too_soon), the two buttons of the admin screen (vector/router.py) and  *)
(* the backfill command (vector/use_cases/reindex.py).  What a pass does   *)
(* is Sweep; what its lock is made of is SweepLock.                        *)
(*                                                                         *)
(* A loop is its place in PeriodicTasks._run, the flag and the event that  *)
(* wake() sets, and what the tick under way has read.                      *)
(***************************************************************************)
EXTENDS Integers

CONSTANTS
  Process,     \* the processes of the service
  Cadence,     \* sweep_interval_seconds
  MaxMinute,   \* bound on the clock
  MaxAsks      \* bound on presses of a button, crashes and failed passes

ASSUME PacingAssumption ==
  /\ Cadence \in Nat \ {0}
  /\ {MaxMinute, MaxAsks} \subseteq Nat

Never == -1
Free == "free"
Cli == "cli"
MaxTries == 3

VARIABLES
  minute,    \* the clock
  loop,      \* the sweep's loop in each process
  cli,       \* the backfill command: where it is and how often it has tried
  swept,     \* Redis: when a pass last started
  pending,   \* Redis: the requested backfill
  sweeper,   \* Redis: whose the sweep lock is
  started,   \* when a pass last started, whatever Redis says
  asks       \* presses, crashes and failures so far

pacingVars == <<minute, loop, cli, swept, pending, sweeper, started, asks>>

LoopPlaces == {"off", "top", "gate", "asked", "lock", "begin", "pass", "delay", "wait", "expired"}
Minute == 0 .. MaxMinute

Loop == [at : LoopPlaces,
         woken : BOOLEAN,      \* entry.woken
         wake : BOOLEAN,       \* entry.wake is set
         paced : BOOLEAN,      \* the tick under way came from the timer
         seen : Minute \union {Never},   \* the marker _too_soon has read
         due : 0 .. MaxMinute + Cadence, \* when the wait runs out
         pressed : BOOLEAN,    \* a /reindex handler has stored its flag, not woken the loop yet
         unserved : BOOLEAN,   \* a wake no tick has answered
         overtaken : BOOLEAN,  \* a pass has started since this tick read the marker
         excused : BOOLEAN]    \* this tick has seen a requested backfill

Off == [at |-> "off", woken |-> FALSE, wake |-> FALSE, paced |-> FALSE, seen |-> Never,
        due |-> 0, pressed |-> FALSE, unserved |-> FALSE, overtaken |-> FALSE, excused |-> FALSE]

PacingTypeOK ==
  /\ minute \in Minute
  /\ loop \in [Process -> Loop]
  /\ cli \in [at : {"idle", "lock", "begin", "pass", "ok", "failed"}, tries : 0 .. MaxTries]
  /\ swept \in Minute \union {Never}
  /\ pending \in BOOLEAN
  /\ sweeper \in Process \union {Cli, Free}
  /\ started \in Minute \union {Never}
  /\ asks \in 0 .. MaxAsks

PacingInit ==
  /\ minute = 0
  /\ loop = [p \in Process |-> Off]
  /\ cli = [at |-> "idle", tries |-> 0]
  /\ swept = Never
  /\ pending = FALSE
  /\ sweeper = Free
  /\ started = Never
  /\ asks = 0

Goes(p, change) == loop' = [loop EXCEPT ![p] = change]

-----------------------------------------------------------------------------
(***************************************************************************)
(* The loop.                                                               *)
(***************************************************************************)

\* start(), then the first lines of _run: a wake of an earlier life is not
\* carried into this one.
StartLoop(p) ==
  /\ loop[p].at = "off"
  /\ Goes(p, [Off EXCEPT !.at = "top"])
  /\ UNCHANGED <<minute, cli, swept, pending, sweeper, started, asks>>

\* The event is cleared, and the tick asks at once whether it was woken; a
\* request that left the flag up is being served from here on.
Tick(p) ==
  /\ loop[p].at = "top"
  /\ Goes(p, [loop[p] EXCEPT !.at = "gate", !.wake = FALSE, !.paced = ~loop[p].woken,
                             !.unserved = loop[p].unserved /\ ~loop[p].woken])
  /\ UNCHANGED <<minute, cli, swept, pending, sweeper, started, asks>>

\* The tick is over, whether it swept, skipped or failed: the loop looks its
\* interval up.  Mutant: the event is cleared here and not before the tick.
Answered(l) == [l EXCEPT !.at = "delay", !.paced = FALSE, !.seen = Never,
                         !.overtaken = FALSE, !.excused = FALSE]
SleepsForgetting(p) == [Answered(loop[p]) EXCEPT !.wake = FALSE]
Sleeps(p) == Answered(loop[p])

\* _delay has answered and the wait begins.
Wait(p) ==
  /\ loop[p].at = "delay"
  /\ Goes(p, [loop[p] EXCEPT !.at = "wait", !.due = minute + Cadence])
  /\ UNCHANGED <<minute, cli, swept, pending, sweeper, started, asks>>

\* The event is set: the next tick starts, and entry.woken stays as it is.
WaitEnds(p) ==
  /\ loop[p].at = "wait"
  /\ loop[p].wake
  /\ Goes(p, [loop[p] EXCEPT !.at = "top", !.due = 0])
  /\ UNCHANGED <<minute, cli, swept, pending, sweeper, started, asks>>

\* The timer of wait_for fires and cancels the wait; the task sees the
\* TimeoutError only when it next runs, and a wake in between goes with it.
TimerFires(p) ==
  /\ loop[p].at = "wait"
  /\ minute >= loop[p].due
  /\ Goes(p, [loop[p] EXCEPT !.at = "expired", !.due = 0])
  /\ UNCHANGED <<minute, cli, swept, pending, sweeper, started, asks>>

WaitRanOut(p) ==
  /\ loop[p].at = "expired"
  /\ Goes(p, [loop[p] EXCEPT !.at = "top", !.woken = FALSE, !.unserved = FALSE])
  /\ UNCHANGED <<minute, cli, swept, pending, sweeper, started, asks>>

\* wake(): sets the flag and the event.
Woken(l) == [l EXCEPT !.woken = TRUE, !.wake = TRUE, !.unserved = TRUE]

-----------------------------------------------------------------------------
(***************************************************************************)
(* The tick: sweep_once.                                                   *)
(***************************************************************************)

\* The settings allow a pass, or the tick skips; one that was asked for goes
\* straight to the lock, a timer tick reads the marker first.
PassGates(p) ==
  /\ loop[p].at = "gate"
  /\ \/ Goes(p, Sleeps(p))
     \/ ~loop[p].paced /\ Goes(p, [loop[p] EXCEPT !.at = "lock"])
     \/ /\ loop[p].paced
        /\ Goes(p, [loop[p] EXCEPT !.at = IF swept = Never THEN "lock" ELSE "asked",
                                   !.seen = swept, !.overtaken = FALSE])
  /\ UNCHANGED <<minute, cli, swept, pending, sweeper, started, asks>>

\* The interval counted from the last pass, wherever it ran, has not passed.
TooSoon(p) == minute - loop[p].seen < Cadence

\* The rest of _too_soon: a requested backfill is never held back.
CheckInterval(p) ==
  /\ loop[p].at = "asked"
  /\ Goes(p, IF pending \/ ~TooSoon(p)
             THEN [loop[p] EXCEPT !.at = "lock", !.excused = pending]
             ELSE Sleeps(p))
  /\ UNCHANGED <<minute, cli, swept, pending, sweeper, started, asks>>

TryLock(p) ==
  /\ loop[p].at = "lock"
  /\ IF sweeper = Free
     THEN sweeper' = p /\ Goes(p, [loop[p] EXCEPT !.at = "begin"])
     ELSE UNCHANGED sweeper /\ Goes(p, Sleeps(p))
  /\ UNCHANGED <<minute, cli, swept, pending, started, asks>>

\* set_swept is called when a pass begins, so that one killed halfway counts.
\* Mutant: it is called when the pass has completed.
SweptAtEnd(moment) == IF moment = "end" THEN minute ELSE swept
SweptAt(moment) == IF moment = "begin" THEN minute ELSE swept

\* The pass stamps the marker, and serves a requested backfill if one stands.
PassBegins ==
  /\ swept' = SweptAt("begin")
  /\ pending' = FALSE
  /\ started' = minute

\* A tick between its reading of the marker and its own pass.
Overtaken(l) == [l EXCEPT !.overtaken = l.paced /\ l.at \in {"asked", "lock", "begin"}]

BeginPass(p) ==
  /\ loop[p].at = "begin"
  /\ PassBegins
  /\ loop' = [q \in Process |->
                IF q = p THEN [loop[q] EXCEPT !.at = "pass"]
                         ELSE Overtaken(loop[q])]
  /\ UNCHANGED <<minute, cli, sweeper, asks>>

\* The lock goes whatever became of the pass.
Unlocked(p) == IF sweeper = p THEN Free ELSE sweeper

EndPass(p) ==
  /\ loop[p].at = "pass"
  /\ swept' = SweptAt("end")
  /\ sweeper' = Unlocked(p)
  /\ Goes(p, Sleeps(p))
  /\ UNCHANGED <<minute, cli, pending, started, asks>>

\* An exception ends the tick, never the loop.
FailTick(p) ==
  /\ asks < MaxAsks
  /\ loop[p].at \in {"gate", "asked", "lock", "begin", "pass"}
  /\ asks' = asks + 1
  /\ sweeper' = Unlocked(p)
  /\ Goes(p, Sleeps(p))
  /\ UNCHANGED <<minute, cli, swept, pending, started>>

\* The process dies, or stop() cancels its loop; a dead one leaves its lock.
StopLoop(p) ==
  /\ asks < MaxAsks
  /\ loop[p].at # "off"
  /\ asks' = asks + 1
  /\ \/ sweeper' = sweeper
     \/ sweeper' = Unlocked(p)
  /\ Goes(p, Off)
  /\ UNCHANGED <<minute, cli, swept, pending, started>>

\* A lock nobody renews expires.
LockLapses ==
  /\ sweeper \in Process
  /\ loop[sweeper].at \notin {"begin", "pass"}
  /\ sweeper' = Free
  /\ UNCHANGED <<minute, loop, cli, swept, pending, started, asks>>

-----------------------------------------------------------------------------
(***************************************************************************)
(* The buttons and the command.                                            *)
(***************************************************************************)

\* POST /sweep: the gates are open and this process has the loop.
PressSweep(p) ==
  /\ asks < MaxAsks
  /\ loop[p].at # "off"
  /\ asks' = asks + 1
  /\ Goes(p, Woken(loop[p]))
  /\ UNCHANGED <<minute, cli, swept, pending, sweeper, started>>

\* POST /reindex: the flag goes to Redis ...
PressReindex(p) ==
  /\ asks < MaxAsks
  /\ loop[p].at # "off"
  /\ ~loop[p].pressed
  /\ asks' = asks + 1
  /\ pending' = TRUE
  /\ Goes(p, [loop[p] EXCEPT !.pressed = TRUE])
  /\ UNCHANGED <<minute, cli, swept, sweeper, started>>

\* ... and then the loop of this process is woken.
WakeAfterReindex(p) ==
  /\ loop[p].pressed
  /\ Goes(p, [Woken(loop[p]) EXCEPT !.pressed = FALSE])
  /\ UNCHANGED <<minute, cli, swept, pending, sweeper, started, asks>>

\* The command sweeps at once, with --full after asking for a backfill.
RunCli ==
  /\ asks < MaxAsks
  /\ cli.at = "idle"
  /\ asks' = asks + 1
  /\ cli' = [at |-> "lock", tries |-> 1]
  /\ pending' \in {TRUE, pending}
  /\ UNCHANGED <<minute, loop, swept, sweeper, started>>

\* A pass that is skipped is not tried again.
CliTakesLock ==
  /\ cli.at = "lock"
  /\ IF sweeper = Free
     THEN sweeper' = Cli /\ cli' = [cli EXCEPT !.at = "begin"]
     ELSE UNCHANGED sweeper /\ cli' = [cli EXCEPT !.at = "failed"]
  /\ UNCHANGED <<minute, loop, swept, pending, started, asks>>

CliBeginsPass ==
  /\ cli.at = "begin"
  /\ PassBegins
  /\ cli' = [cli EXCEPT !.at = "pass"]
  /\ loop' = [q \in Process |-> Overtaken(loop[q])]
  /\ UNCHANGED <<minute, sweeper, asks>>

\* A clean pass ends the command; one with errors is repeated, three in all.
CliEndsPass ==
  /\ cli.at = "pass"
  /\ sweeper' = Free
  /\ swept' = SweptAt("end")
  /\ \/ cli' = [cli EXCEPT !.at = "ok"]
     \/ cli.tries < MaxTries /\ cli' = [at |-> "lock", tries |-> cli.tries + 1]
     \/ cli.tries = MaxTries /\ cli' = [cli EXCEPT !.at = "failed"]
  /\ UNCHANGED <<minute, loop, pending, started, asks>>

MinutePasses ==
  /\ minute < MaxMinute
  /\ minute' = minute + 1
  /\ UNCHANGED <<loop, cli, swept, pending, sweeper, started, asks>>

LoopStep(p) ==
  \/ StartLoop(p) \/ Tick(p) \/ PassGates(p) \/ CheckInterval(p) \/ TryLock(p)
  \/ BeginPass(p) \/ EndPass(p) \/ FailTick(p) \/ StopLoop(p)
  \/ Wait(p) \/ WaitEnds(p) \/ TimerFires(p) \/ WaitRanOut(p)
  \/ PressSweep(p) \/ PressReindex(p) \/ WakeAfterReindex(p)

PacingNext ==
  \/ \E p \in Process : LoopStep(p)
  \/ RunCli \/ CliTakesLock \/ CliBeginsPass \/ CliEndsPass
  \/ LockLapses
  \/ MinutePasses

PacingSpec == PacingInit /\ [][PacingNext]_pacingVars

-----------------------------------------------------------------------------
(***************************************************************************)
(* What the loops promise.                                                 *)
(***************************************************************************)

\* A request to sweep is answered: a loop never goes to sleep on one, and the
\* next tick knows it was asked for, even if the request came while a tick
\* was running, asking for its interval or failing.  The one that is lost
\* falls on the very moment the wait runs out (WaitRanOut).
WakesAreServed ==
  \A p \in Process : loop[p].unserved =>
    /\ loop[p].woken
    /\ loop[p].at \in {"delay", "wait"} => loop[p].wake

\* Timer passes keep their distance over restarts and processes: one begins
\* inside the interval of the pass before it only when that pass began after
\* it had read the marker, or when a backfill had been asked for.
PassesArePaced ==
  [][\A p \in Process :
       loop[p].at = "begin" /\ loop'[p].at = "pass" /\ loop[p].paced =>
         \/ started = Never
         \/ minute - started >= Cadence
         \/ loop[p].overtaken
         \/ loop[p].excused]_pacingVars
=============================================================================
