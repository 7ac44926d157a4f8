------------------------------ MODULE Triggers ------------------------------
(***************************************************************************)
(* What starts a run and what is recorded of it: the three entry points    *)
(* (webhook/router.py, request/router.py, schedule/runner.py), the frame   *)
(* every run gets (pipelines/runner.py), the run journal with its capped   *)
(* index (state/journal.py, util/redis_capped_index.py), the daily         *)
(* counters (state/counters.py), and the life of the processes (main.py).  *)
(*                                                                         *)
(* What a run does on its ticket is IntakeRun's; here it takes the lock,   *)
(* reads the ticket, works and lets go.  A ticket is its revision: a       *)
(* change in iTop sends one webhook, which may get lost, and nothing sends *)
(* it again.                                                               *)
(***************************************************************************)
EXTENDS Integers, FiniteSetsExt

CONSTANTS
  Trigger,    \* runs, and the webhooks that may become one
  Host,       \* processes
  Object,     \* tickets
  NoOne,      \* nobody holds the lock; a run without replica or ticket
  MaxListed,  \* RUN_INDEX_MAX_ENTRIES, and the window of a listing
  MaxOthers,  \* bound on runs asked for by hand or started by the clock
  MaxFaults   \* bound on lost or failed calls, crashes and restarts

ASSUME TriggersAssumption ==
  /\ NoOne \notin Trigger \union Host \union Object
  /\ IsFiniteSet(Trigger)
  /\ MaxListed \in Nat \ {0}
  /\ {MaxOthers, MaxFaults} \subseteq Nat

VARIABLES
  up,        \* the processes: "up", "closing" or "down"
  run,       \* the runs
  locks,     \* per ticket: the run that holds it
  revision,  \* per ticket: its changes so far
  settled,   \* per ticket: the newest change that a run has dealt with, or whose
             \* trigger has come to nothing
  journal,   \* the records of the journal
  index,     \* its index, a sorted set: the score of every run, 0 if not there
  reader,    \* the Runs screen reading it
  counters,  \* what was counted, over all days
  unrecorded, \* what failed to be recorded
  faults

triggerVars == <<up, run, locks, revision, settled, journal, index, reader, counters,
                 unrecorded, faults>>
tickets == <<locks, revision, settled>>
records == <<journal, index>>

Kind == {"webhook", "request", "schedule"}
Counter == {"started", "failed", "skipped"}
Status == {"none", "running", "done", "failed"}
Ended == {"over", "killed", "rejected"}
Place == {"unused", "sent", "count", "start", "acquire", "fetch", "work", "release",
          "tally", "finish"} \union Ended

\* A record: written by start (whole), by finish alone (not), or not there.
NoRecord == [status |-> "none", whole |-> FALSE]

Unused == [pc |-> "unused", kind |-> "webhook", object |-> NoOne, replica |-> NoOne,
           outcome |-> "none", at |-> 0, covers |-> 0, left |-> FALSE]

Quiet == [pc |-> "idle", ids |-> {}]

\* The runs a sorted set holds.
Listed(scores) == {x \in Trigger : scores[x] # 0}

TriggersTypeOK ==
  /\ up \in [Host -> {"up", "closing", "down"}]
  /\ \A x \in Trigger :
       /\ run[x].pc \in Place
       /\ run[x].kind \in Kind
       /\ run[x].replica \in Host \union {NoOne}
       /\ run[x].object \in Object \union {NoOne}
       /\ run[x].outcome \in {"none", "done", "skipped", "failed"}
       /\ run[x].object # NoOne => run[x].at <= revision[run[x].object]
  /\ locks \in [Object -> Trigger \union {NoOne}]
  /\ {revision, settled} \subseteq [Object -> 0 .. Cardinality(Trigger)]
  /\ journal \in [Trigger -> [status : Status, whole : BOOLEAN]]
  /\ index \in [Trigger -> 0 .. Cardinality(Trigger)] /\ Cardinality(Listed(index)) <= MaxListed
  /\ \A x, y \in Listed(index) : index[x] = index[y] => x = y
  /\ reader.pc \in {"idle", "reading", "pruning", "raised"} /\ reader.ids \subseteq Trigger
  /\ counters \in [Counter -> 0 .. Cardinality(Trigger)]
  /\ unrecorded \subseteq Trigger \X (Counter \union {"start", "finish"})
  /\ faults \in 0 .. MaxFaults

TriggersInit ==
  /\ up = [r \in Host |-> "up"]
  /\ run = [x \in Trigger |-> Unused]
  /\ locks = [o \in Object |-> NoOne]
  /\ revision = [o \in Object |-> 0]
  /\ settled = revision
  /\ journal = [x \in Trigger |-> NoRecord]
  /\ index = [x \in Trigger |-> 0]
  /\ reader = Quiet
  /\ counters = [c \in Counter |-> 0]
  /\ unrecorded = {}
  /\ faults = 0

IsAt(x, place) == run[x].pc = place
GoesTo(x, place) == run' = [run EXCEPT ![x].pc = place]
End(x, outcome, place) ==
  run' = [run EXCEPT ![x].outcome = outcome, ![x].pc = place]

\* What is kept of a run that is no more.
Remains(x, place) ==
  [Unused EXCEPT !.pc = place, !.kind = run[x].kind, !.outcome = run[x].outcome,
                 !.left = run[x].left]

\* Something fails: the bound on faults.
Fault ==
  /\ faults < MaxFaults
  /\ faults' = faults + 1

Newer(a, b) == Max({a, b})

\* The changes run x answers for are looked at by nobody.
MissedBy(x) ==
  settled' = IF run[x].object = NoOne THEN settled
             ELSE [settled EXCEPT ![run[x].object] = Newer(@, run[x].covers)]

-----------------------------------------------------------------------------
(* The entry points. *)

\* Somebody changes a ticket; iTop sends its webhook.
Change(o) ==
  /\ revision' = [revision EXCEPT ![o] = @ + 1]
  /\ \E x \in Trigger :
       /\ IsAt(x, "unused")
       /\ run' = [run EXCEPT ![x] = [Unused EXCEPT !.pc = "sent", !.object = o,
                                                   !.covers = revision'[o]]]
  /\ UNCHANGED <<up, locks, settled, records, reader, counters, unrecorded, faults>>

\* receive_webhook: the answer is given at once, the run goes on in the background.
ReceiveWebhook(x, r) ==
  /\ IsAt(x, "sent")
  /\ up[r] = "up"
  /\ run' = [run EXCEPT ![x].pc = "count", ![x].replica = r]
  /\ UNCHANGED <<up, tickets, records, reader, counters, unrecorded, faults>>

\* The webhook gets lost or is refused: a wrong token (401), the setup incomplete
\* (503), a class or event no module has claimed (400), a replica going down.
RefuseWebhook(x) ==
  /\ IsAt(x, "sent")
  /\ Fault
  /\ run' = [run EXCEPT ![x] = Remains(x, "rejected")]
  /\ MissedBy(x)
  /\ UNCHANGED <<up, locks, revision, records, reader, counters, unrecorded>>

\* No run but those of webhooks beyond MaxOthers.
OthersLeft == Cardinality({x \in Trigger : run[x].kind # "webhook"}) < MaxOthers

\* run_request: somebody asks for a run and waits for its outcome.
RunRequest(x, o, r) ==
  /\ IsAt(x, "unused")
  /\ OthersLeft
  /\ up[r] = "up"
  /\ run' = [run EXCEPT ![x] = [Unused EXCEPT !.pc = "count", !.kind = "request",
                                              !.object = o, !.replica = r]]
  /\ UNCHANGED <<up, tickets, records, reader, counters, unrecorded, faults>>

\* run_schedule: the clock of a replica starts a run, on no ticket.
RunSchedule(x, r) ==
  /\ IsAt(x, "unused")
  /\ OthersLeft
  /\ up[r] = "up"
  /\ \A y \in Trigger : run[y].kind = "schedule" /\ run[y].replica = r =>
       run[y].pc \in Ended
  /\ run' = [run EXCEPT ![x] = [Unused EXCEPT !.pc = "count", !.kind = "schedule",
                                              !.replica = r]]
  /\ UNCHANGED <<up, tickets, records, reader, counters, unrecorded, faults>>

-----------------------------------------------------------------------------
(* The frame of a run. *)

\* DailyCounters.bump never raises.
Bump(x, counter) ==
  \/ /\ counters' = [counters EXCEPT ![counter] = @ + 1]
     /\ UNCHANGED <<unrecorded, faults>>
  \/ /\ Fault
     /\ unrecorded' = unrecorded \union {<<x, counter>>}
     /\ UNCHANGED counters

CountTrigger(x) ==
  /\ IsAt(x, "count")
  /\ Bump(x, "started")
  /\ GoesTo(x, "start")
  /\ UNCHANGED <<up, tickets, records, reader>>

\* A run gets the newest score (zadd).
Scored(x) == [index EXCEPT ![x] = 1 + Max({index[y] : y \in Trigger})]

\* A sorted set without all but its newest (zremrangebyrank).
NewestOf(scores, number) ==
  [x \in Trigger |-> IF Cardinality({y \in Trigger : scores[y] > scores[x]}) < number
                   THEN scores[x] ELSE 0]

\* Mutant: nothing leaves the index.
RecordedForGood(x) == Scored(x)

\* Mutant: the index is kept one entry short.
RecordedShort(x) == NewestOf(Scored(x), MaxListed - 1)

\* CappedIndex.record: the newest MaxListed entries stay.
Recorded(x) == NewestOf(Scored(x), MaxListed)

\* Mutant: record and index are not written in one transaction.
JournalStartInTwo(x) ==
  /\ IsAt(x, "start")
  /\ \/ /\ journal' = [journal EXCEPT ![x] = [status |-> "running", whole |-> TRUE]]
        /\ UNCHANGED <<unrecorded, faults>>
     \/ /\ Fault
        /\ unrecorded' = unrecorded \union {<<x, "start">>}
        /\ UNCHANGED journal
  /\ index' = Recorded(x)
  /\ GoesTo(x, IF run[x].kind = "schedule" THEN "work" ELSE "acquire")
  /\ UNCHANGED <<up, tickets, reader, counters>>

\* RunJournal.start: the record, its TTL and the index in one transaction, which
\* may fail as a whole.
JournalStart(x) ==
  /\ IsAt(x, "start")
  /\ \/ /\ journal' = [journal EXCEPT ![x] = [status |-> "running", whole |-> TRUE]]
        /\ index' = Recorded(x)
        /\ UNCHANGED <<unrecorded, faults>>
     \/ /\ Fault
        /\ unrecorded' = unrecorded \union {<<x, "start">>}
        /\ UNCHANGED records
  /\ GoesTo(x, IF run[x].kind = "schedule" THEN "work" ELSE "acquire")
  /\ UNCHANGED <<up, tickets, reader, counters>>

\* acquire_lock
Acquire(x) ==
  /\ IsAt(x, "acquire")
  /\ locks[run[x].object] = NoOne
  /\ locks' = [locks EXCEPT ![run[x].object] = x]
  /\ GoesTo(x, "fetch")
  /\ UNCHANGED <<up, revision, settled, records, reader, counters, unrecorded, faults>>

\* The key is set and the answer lost: the run fails before its try block, and
\* nobody lets go.
AcquireUnanswered(x) ==
  /\ IsAt(x, "acquire")
  /\ locks[run[x].object] = NoOne
  /\ Fault
  /\ locks' = [locks EXCEPT ![run[x].object] = x]
  /\ run' = [run EXCEPT ![x].outcome = "failed", ![x].left = TRUE, ![x].pc = "tally"]
  /\ MissedBy(x)
  /\ UNCHANGED <<up, revision, records, reader, counters, unrecorded>>

\* The lock is taken: the run is skipped.  Its change is looked at by the holder
\* if that has yet to read the ticket, and by nobody if it has read it, is dead,
\* or could not let go.
TicketLockHeld(x) ==
  /\ IsAt(x, "acquire")
  /\ LET o == run[x].object
         holder == locks[o]
         covered == Newer(run[holder].covers, run[x].covers)
     IN /\ holder # NoOne
        /\ \/ /\ IsAt(holder, "fetch")
              /\ run' = [run EXCEPT ![x].outcome = "skipped", ![x].pc = "tally",
                                    ![holder].covers = covered]
              /\ UNCHANGED settled
           \/ /\ ~IsAt(holder, "fetch")
              /\ End(x, "skipped", "tally")
              /\ IF run[holder].pc \in {"work", "release", "killed"} \/ run[holder].left
                   THEN MissedBy(x) ELSE UNCHANGED settled
  /\ UNCHANGED <<up, locks, revision, records, reader, counters, unrecorded, faults>>

\* The ticket is read.
FetchTicket(x) ==
  /\ IsAt(x, "fetch")
  /\ run' = [run EXCEPT ![x].pc = "work", ![x].at = revision[run[x].object]]
  /\ UNCHANGED <<up, tickets, records, reader, counters, unrecorded, faults>>

\* The guard turns the run away, or the body is done.
Done(x) ==
  /\ IsAt(x, "work")
  /\ run[x].kind # "schedule"
  /\ \E outcome \in {"done", "skipped"} : End(x, outcome, "release")
  /\ settled' = [settled EXCEPT ![run[x].object] = Newer(@, run[x].at)]
  /\ UNCHANGED <<up, locks, revision, records, reader, counters, unrecorded, faults>>

\* run_selfcheck: a scheduled run writes nothing and holds no lock; it is skipped
\* if the setup is incomplete.
CheckDone(x) ==
  /\ IsAt(x, "work")
  /\ run[x].kind = "schedule"
  /\ \E outcome \in {"done", "skipped"} : End(x, outcome, "tally")
  /\ UNCHANGED <<up, tickets, records, reader, counters, unrecorded, faults>>

\* Mutant: a failing run keeps its lock.
FailsLocked(x) ==
  /\ run[x].pc \in {"acquire", "fetch", "work"}
  /\ Fault
  /\ End(x, "failed", "tally")
  /\ MissedBy(x)
  /\ UNCHANGED <<up, locks, revision, records, reader, counters, unrecorded>>

\* An exception: the finally clause lets go of the lock, the frame goes on with it.
Fails(x) ==
  /\ run[x].pc \in {"acquire", "fetch", "work"}
  /\ Fault
  /\ End(x, "failed", IF \E o \in Object : locks[o] = x THEN "release" ELSE "tally")
  /\ MissedBy(x)
  /\ UNCHANGED <<up, locks, revision, records, reader, counters, unrecorded>>

\* release_lock never raises: if it fails the key stays, and the run is none the
\* worse for it.
Release(x) ==
  /\ IsAt(x, "release")
  /\ \/ /\ locks' = [locks EXCEPT ![run[x].object] = NoOne]
        /\ GoesTo(x, "tally")
        /\ UNCHANGED faults
     \/ /\ Fault
        /\ run' = [run EXCEPT ![x].left = TRUE, ![x].pc = "tally"]
        /\ UNCHANGED locks
  /\ UNCHANGED <<up, revision, settled, records, reader, counters, unrecorded>>

\* Mutant: a skipped run is not told apart from one that did its work.
CountFailureOnly(x) ==
  /\ IsAt(x, "tally")
  /\ IF run[x].outcome # "failed" THEN UNCHANGED <<counters, unrecorded, faults>>
                                  ELSE Bump(x, run[x].outcome)
  /\ GoesTo(x, "finish")
  /\ UNCHANGED <<up, tickets, records, reader>>

\* A failed and a skipped run are counted.
CountOutcome(x) ==
  /\ IsAt(x, "tally")
  /\ IF run[x].outcome = "done" THEN UNCHANGED <<counters, unrecorded, faults>>
                                ELSE Bump(x, run[x].outcome)
  /\ GoesTo(x, "finish")
  /\ UNCHANGED <<up, tickets, records, reader>>

\* Mutant: whatever the run ended as, it is done.
StatusIsDone(outcome) == "done"

\* What the journal calls it: a skipped run is done.
StatusOf(outcome) == IF outcome = "failed" THEN "failed" ELSE "done"

\* RunJournal.finish: a plain HSET, on a record that may not be there.
JournalFinish(x) ==
  /\ IsAt(x, "finish")
  /\ \/ /\ journal' = [journal EXCEPT ![x].status = StatusOf(run[x].outcome)]
        /\ UNCHANGED <<unrecorded, faults>>
     \/ /\ Fault
        /\ unrecorded' = unrecorded \union {<<x, "finish">>}
        /\ UNCHANGED journal
  /\ run' = [run EXCEPT ![x] = Remains(x, "over")]
  /\ UNCHANGED <<up, tickets, index, reader, counters>>

-----------------------------------------------------------------------------
(* The journal is read. *)

\* RunJournal.list: the newest ids.
ListRuns ==
  /\ reader.pc = "idle"
  /\ Listed(index) # {}
  /\ reader' = [pc |-> "reading", ids |-> Listed(index)]
  /\ UNCHANGED <<up, run, tickets, records, counters, unrecorded, faults>>

\* Their records: those that are not there are stale, and one without its start
\* cannot be parsed.
ReadRecords ==
  /\ reader.pc = "reading"
  /\ reader' = IF \E x \in reader.ids : journal[x] # NoRecord /\ ~journal[x].whole
                 THEN [pc |-> "raised", ids |-> {}]
                 ELSE [pc |-> "pruning", ids |-> {x \in reader.ids : journal[x] = NoRecord}]
  /\ UNCHANGED <<up, run, tickets, records, counters, unrecorded, faults>>

\* CappedIndex.prune
Prune ==
  /\ reader.pc = "pruning"
  /\ index' = [x \in Trigger |-> IF x \in reader.ids THEN 0 ELSE index[x]]
  /\ reader' = Quiet
  /\ UNCHANGED <<up, run, tickets, journal, counters, unrecorded, faults>>

\* The TTL of a record, which outlives every run; the records expire in the order
\* they were started, and one without its start never.
RecordExpires(x) ==
  /\ run[x].pc \in Ended
  /\ journal[x].whole
  /\ \A y \in Listed(index) : index[y] < index[x] => journal[y] = NoRecord
  /\ journal' = [journal EXCEPT ![x] = NoRecord]
  /\ UNCHANGED <<up, run, tickets, index, reader, counters, unrecorded, faults>>

-----------------------------------------------------------------------------
(* Processes. *)

RunsOf(r) == {x \in Trigger : run[x].replica = r /\ run[x].pc \notin Ended}

\* The runs are gone: CancelledError is no Exception, so nothing is counted and
\* nothing is written to the journal; the locks of `letGo` are freed.
Kill(some, letGo) ==
  /\ run' = [x \in Trigger |-> IF x \in some THEN Remains(x, "killed") ELSE run[x]]
  /\ locks' = [o \in Object |-> IF locks[o] \in some \intersect letGo THEN NoOne ELSE locks[o]]
  /\ settled' = [o \in Object |->
       Max({settled[o]} \union {run[x].covers : x \in {y \in some : run[y].object = o}})]

\* A shutdown stops the loops first: PeriodicTasks.stop cancels their runs.
StopLoops(r) ==
  /\ up[r] = "up"
  /\ Fault
  /\ up' = [up EXCEPT ![r] = "closing"]
  /\ Kill({x \in RunsOf(r) : run[x].kind = "schedule"}, {})
  /\ UNCHANGED <<revision, records, reader, counters, unrecorded>>

\* AppDeps.aclose and the end of the process: nobody waits for background runs.
\* Cancelled, they may still reach Redis to let go of their locks.
Exit(r) ==
  /\ up[r] = "closing"
  /\ \A x \in RunsOf(r) : run[x].kind # "request"
  /\ up' = [up EXCEPT ![r] = "down"]
  /\ \E letGo \in SUBSET RunsOf(r) : Kill(RunsOf(r), letGo)
  /\ UNCHANGED <<revision, records, reader, counters, unrecorded, faults>>

ReplicaDies(r) ==
  /\ up[r] # "down"
  /\ Fault
  /\ up' = [up EXCEPT ![r] = "down"]
  /\ Kill(RunsOf(r), {})
  /\ UNCHANGED <<revision, records, reader, counters, unrecorded>>

Boot(r) ==
  /\ up[r] = "down"
  /\ up' = [up EXCEPT ![r] = "up"]
  /\ UNCHANGED <<run, tickets, records, reader, counters, unrecorded, faults>>

\* The TTL of a lock whose run is dead or could not let go.
TicketLockExpires(o) ==
  /\ locks[o] # NoOne
  /\ run[locks[o]].pc = "killed" \/ run[locks[o]].left
  /\ locks' = [locks EXCEPT ![o] = NoOne]
  /\ UNCHANGED <<up, run, revision, settled, records, reader, counters, unrecorded, faults>>

FrameStep(x) ==
  \/ CountTrigger(x)
  \/ JournalStart(x)
  \/ Acquire(x)
  \/ TicketLockHeld(x)
  \/ FetchTicket(x)
  \/ Done(x)
  \/ CheckDone(x)
  \/ Release(x)
  \/ CountOutcome(x)
  \/ JournalFinish(x)

TriggersNext ==
  \/ \E o \in Object : Change(o) \/ TicketLockExpires(o)
  \/ \E x \in Trigger : RefuseWebhook(x) \/ FrameStep(x) \/ Fails(x) \/ AcquireUnanswered(x)
                     \/ RecordExpires(x)
  \/ \E x \in Trigger, r \in Host :
       ReceiveWebhook(x, r) \/ RunSchedule(x, r) \/ \E o \in Object : RunRequest(x, o, r)
  \/ ListRuns \/ ReadRecords \/ Prune
  \/ \E r \in Host : StopLoops(r) \/ Exit(r) \/ ReplicaDies(r) \/ Boot(r)

TriggersSpec == TriggersInit /\ [][TriggersNext]_triggerVars

-----------------------------------------------------------------------------
(* Properties. *)

\* The latest change of a ticket nobody is working on was dealt with, or its
\* trigger is known to have come to nothing: lost, refused, failed, killed, or
\* skipped behind a run that had read the ticket before (pipelines/shell.py 109).
NothingIgnored ==
  \A o \in Object :
    (\A x \in Trigger : run[x].object = o => run[x].pc \in Ended) =>
      revision[o] = settled[o]

\* The journal says of a run that is over how it ended, unless the write was lost;
\* a run it calls running is under way or was killed (pipelines/runner.py 97).
JournalTellsTruth ==
  \A x \in Trigger :
    /\ journal[x].status \in {"done", "failed"} =>
         IsAt(x, "over") /\ (journal[x].status = "failed") = (run[x].outcome = "failed")
    /\ journal[x].status = "running" /\ IsAt(x, "over") => <<x, "finish">> \in unrecorded

\* The Runs screen never meets a record without its start, although finish writes
\* whatever it finds (state/journal.py list).
ListingWorks == reader.pc # "raised"

\* The index names the newest of the runs that were started and whose record is
\* there, whatever is pruned, capped or expires (util/redis_capped_index.py).
RecentListed ==
  \A x \in Trigger :
    journal[x].whole /\ x \notin Listed(index) =>
      Cardinality({y \in Trigger \ {x} : run[y].pc \notin {"unused", "sent"}}) >= MaxListed

Outcomes(outcome) == {x \in Trigger : IsAt(x, "over") /\ run[x].outcome = outcome}
Killed == {x \in Trigger : IsAt(x, "killed")}

\* What is read off the counters as runs done - started, less failed and skipped -
\* is, over all days and once nothing is under way, the runs that did their work,
\* and at most the killed ones besides, provided every bump arrived
\* (state/counters.py, where runs_done is "absent on purpose").
CountsAgree ==
  (/\ unrecorded \intersect (Trigger \X Counter) = {}
   /\ \A x \in Trigger : run[x].pc \in {"unused", "sent"} \union Ended) =>
    LET done == counters["started"] - counters["failed"] - counters["skipped"]
    IN  done - Cardinality(Outcomes("done")) \in 0 .. Cardinality(Killed)
=============================================================================
