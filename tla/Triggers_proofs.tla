--------------------------- MODULE Triggers_proofs ---------------------------
(***************************************************************************)
(* Theorems about Triggers, for any number of runs, processes and tickets, *)
(* any cap of the index and any number of faults: what becomes of a        *)
(* change, the records of the journal, its index, its listing, and the     *)
(* counters.                                                               *)
(***************************************************************************)
EXTENDS Triggers, FiniteSetTheorems, WellFoundedInduction, TLAPS

-----------------------------------------------------------------------------
(* What the provers are told of Max. *)

\* A set of natural numbers that is not empty has a least element.
LEMMA HasMin ==
  ASSUME NEW T, T \subseteq Nat, T # {}
  PROVE  \E t \in T : \A u \in T : ~(u < t)
<1>1. PICK t \in T : \A u \in T : ~(<<u, t>> \in OpToRel(<, Nat))
  BY NatLessThanWellFounded, WFMin
<1> QED
  BY <1>1 DEF OpToRel

\* Max returns the greatest element of a bounded set that is not empty.
LEMMA HasMax ==
  ASSUME NEW N \in Nat, NEW S \in SUBSET (0 .. N), S # {}
  PROVE  Max(S) \in S /\ \A y \in S : y <= Max(S)
<1>. DEFINE T == {N - x : x \in S}
<1>1. \A x \in S : x \in Int /\ N - x \in Nat
  OBVIOUS
<1>2. T \subseteq Nat
  BY <1>1
<1>3. T # {}
  OBVIOUS
<1>4. PICK t \in T : \A u \in T : ~(u < t)
  <2>. HIDE DEF T
  <2> QED
    BY <1>2, <1>3, HasMin
<1>5. PICK x \in S : t = N - x
  BY <1>4
<1>6. \A y \in S : x >= y
  <2>1. SUFFICES ASSUME NEW y \in S PROVE x >= y
    OBVIOUS
  <2>2. ~(N - y < N - x)
    BY <1>4, <1>5
  <2> QED
    BY <1>1, <2>2
<1>7. Max(S) \in S /\ \A y \in S : Max(S) >= y
  BY <1>6 DEF Max
<1> QED
  BY <1>1, <1>7

LEMMA NewerIs ==
  ASSUME NEW a \in Nat, NEW b \in Nat
  PROVE  Newer(a, b) = IF a < b THEN b ELSE a
<1>1. CASE a < b
  <2>1. Max({a, b}) \in {a, b} /\ \A y \in {a, b} : y <= Max({a, b})
    BY <1>1, HasMax, {a, b} \in SUBSET (0 .. b)
  <2> QED
    BY <1>1, <2>1 DEF Newer
<1>2. CASE ~(a < b)
  <2>1. Max({a, b}) \in {a, b} /\ \A y \in {a, b} : y <= Max({a, b})
    BY <1>2, HasMax, {a, b} \in SUBSET (0 .. a)
  <2> QED
    BY <1>2, <2>1 DEF Newer
<1> QED
  BY <1>1, <1>2

-----------------------------------------------------------------------------
(* The invariant. *)

Outcome == {"none", "done", "skipped", "failed"}
Runs == [pc : Place, kind : Kind, object : Object \union {NoOne},
         replica : Host \union {NoOne}, outcome : Outcome, at : Nat, covers : Nat,
         left : BOOLEAN]
Records == [status : Status, whole : BOOLEAN]

\* A run that may still look at the change that started it.
Awake == {"sent", "count", "start", "acquire", "fetch", "work"}
Held == {"fetch", "work", "release"}

\* What a run r knows of its ticket, when the changes so far are counted in `now`.
Knows(r, now) ==
  /\ r.object \in Object => r.at <= now[r.object] /\ r.covers <= now[r.object]
  /\ r.kind # "schedule" /\ r.pc \notin Ended \union {"unused"} => r.object \in Object
  /\ r.kind = "schedule" \/ r.pc \in Ended \union {"unused"} => r.object = NoOne
  /\ r.kind = "schedule" => r.pc \notin {"acquire", "fetch", "release"}
  /\ r.pc = "work" \/ r.kind = "schedule" => r.covers <= r.at
  /\ r.left => r.pc \in {"tally", "finish"} \union Ended

\* A lock is held by a run on its ticket, or by what has died or failed with it.
Keeps(r, o) ==
  \/ r.object = o /\ r.pc \in Held
  \/ r.pc = "killed" \/ r.left

\* The latest change has been dealt with, or a run is to look at it.
LooksAt(r, o, now) == r.object = o /\ r.pc \in Awake /\ r.covers = now[o]
Dealt ==
  \A o \in Object : settled[o] = revision[o] \/ \E x \in Trigger : LooksAt(run[x], o, revision)

\* The journal and the run itself tell the same.
Tells(record, r, failure) ==
  /\ record.status \in {"done", "failed"} =>
       r.pc = "over" /\ (record.status = "failed" <=> r.outcome = "failed")
  /\ record.status = "running" =>
       r.pc \notin {"unused", "sent", "count", "start"} /\ (r.pc = "over" => failure)

TriggersInv ==
  /\ run \in [Trigger -> Runs] /\ journal \in [Trigger -> Records]
  /\ locks \in [Object -> Trigger \union {NoOne}]
  /\ revision \in [Object -> Nat] /\ settled \in [Object -> Nat]
  /\ \A x \in Trigger : Knows(run[x], revision)
  /\ \A o \in Object : locks[o] # NoOne => Keeps(run[locks[o]], o)
  /\ \A o \in Object : settled[o] <= revision[o]
  /\ Dealt
  /\ \A x \in Trigger : Tells(journal[x], run[x], <<x, "finish">> \in unrecorded)

USE TriggersAssumption

LEMMA UnusedIs ==
  /\ Unused \in Runs /\ Unused.pc = "unused" /\ Unused.kind = "webhook" /\ Unused.object = NoOne
  /\ Unused.outcome = "none" /\ Unused.at = 0 /\ Unused.covers = 0 /\ ~Unused.left
  /\ Unused.replica = NoOne
BY DEF Unused, Runs, Place, Kind, Ended, Outcome

LEMMA NoRecordIs == NoRecord \in Records /\ NoRecord.status = "none"
BY DEF NoRecord, Records, Status

LEMMA InitTriggers == TriggersInit => TriggersInv
<1> SUFFICES ASSUME TriggersInit PROVE TriggersInv
  OBVIOUS
<1>1. /\ \A x \in Trigger : run[x] = Unused /\ journal[x] = NoRecord
      /\ run \in [Trigger -> Runs] /\ journal \in [Trigger -> Records]
  BY UnusedIs, NoRecordIs DEF TriggersInit
<1>2. \A x \in Trigger : Knows(run[x], revision)
  BY <1>1, UnusedIs DEF Knows, Ended
<1>3. \A x \in Trigger : Tells(journal[x], run[x], <<x, "finish">> \in unrecorded)
  BY <1>1, NoRecordIs DEF Tells
<1>4. /\ locks \in [Object -> Trigger \union {NoOne}] /\ \A o \in Object : locks[o] = NoOne
      /\ revision \in [Object -> Nat] /\ settled \in [Object -> Nat]
      /\ \A o \in Object : settled[o] = 0 /\ revision[o] = 0
  BY DEF TriggersInit
<1> QED
  BY <1>1, <1>2, <1>3, <1>4 DEF TriggersInv, Dealt

\* One run becomes r; what it has had to look at, it still has, or it is settled.
LEMMA OneRun ==
  ASSUME TriggersInv, NEW x \in Trigger, NEW r \in Runs, run' = [run EXCEPT ![x] = r],
         UNCHANGED revision, Knows(r, revision),
         locks' \in [Object -> Trigger \union {NoOne}],
         \A o \in Object : locks'[o] \in {locks[o], NoOne, x},
         \A o \in Object : locks'[o] = x => Keeps(r, o),
         settled' \in [Object -> Nat],
         \A o \in Object : settled[o] <= settled'[o] /\ settled'[o] <= revision[o],
         \A o \in Object : LooksAt(run[x], o, revision) =>
           settled'[o] = revision[o] \/ LooksAt(r, o, revision),
         journal' \in [Trigger -> Records],
         \A y \in Trigger : y # x => journal'[y] = journal[y],
         unrecorded \subseteq unrecorded',
         Tells(journal'[x], r, <<x, "finish">> \in unrecorded')
  PROVE  TriggersInv'
<1>1. /\ run' \in [Trigger -> Runs]
      /\ run'[x] = r /\ \A y \in Trigger : y # x => run'[y] = run[y]
  BY DEF TriggersInv
<1>2. \A y \in Trigger : Knows(run[y], revision)'
  BY <1>1 DEF TriggersInv, Knows
<1>3. \A o \in Object : locks'[o] # NoOne => Keeps(run'[locks'[o]], o)
  BY <1>1 DEF TriggersInv
<1>4. Dealt'
  <2>1. SUFFICES ASSUME NEW o \in Object, settled'[o] # revision[o]
                 PROVE  \E y \in Trigger : LooksAt(run'[y], o, revision)
    BY DEF Dealt, LooksAt
  <2>2. settled[o] # revision[o]
    BY <2>1 DEF TriggersInv
  <2>3. PICK y \in Trigger : LooksAt(run[y], o, revision)
    BY <2>2 DEF TriggersInv, Dealt
  <2> QED
    BY <1>1, <2>1, <2>3
<1>5. \A y \in Trigger : Tells(journal'[y], run'[y], <<y, "finish">> \in unrecorded')
  BY <1>1 DEF TriggersInv, Tells
<1>6. \A y \in Trigger : Tells(journal[y], run[y], <<y, "finish">> \in unrecorded)'
  BY <1>5 DEF Tells
<1>7. \A o \in Object : locks'[o] # NoOne => Keeps(run[locks[o]], o)'
  BY <1>3 DEF Keeps
<1> QED
  BY <1>1, <1>2, <1>4, <1>6, <1>7 DEF TriggersInv

-----------------------------------------------------------------------------
(* Steps of one run. *)

LEMMA RunIs ==
  ASSUME TriggersInv, NEW x \in Trigger
  PROVE  /\ run[x] \in Runs /\ Knows(run[x], revision)
         /\ Tells(journal[x], run[x], <<x, "finish">> \in unrecorded)
         /\ \A o \in Object : locks[o] = x => Keeps(run[x], o)
<1>1. x # NoOne
  BY TriggersAssumption
<1> QED
  BY <1>1 DEF TriggersInv

\* The changes a run answers for are looked at by nobody, and it is known.
LEMMA Missed ==
  ASSUME TriggersInv, NEW x \in Trigger, MissedBy(x)
  PROVE  /\ settled' \in [Object -> Nat]
         /\ \A o \in Object : settled[o] <= settled'[o] /\ settled'[o] <= revision[o]
         /\ \A o \in Object : LooksAt(run[x], o, revision) => settled'[o] = revision[o]
<1>1. /\ settled \in [Object -> Nat] /\ revision \in [Object -> Nat]
      /\ \A o \in Object : settled[o] <= revision[o]
  BY DEF TriggersInv
<1>2. run[x].object \in Object \union {NoOne} /\ run[x].covers \in Nat
      /\ (run[x].object \in Object => run[x].covers <= revision[run[x].object])
  BY RunIs DEF Runs, Knows
<1>3. CASE run[x].object = NoOne
  BY <1>1, <1>3, TriggersAssumption DEF MissedBy, LooksAt
<1>4. CASE run[x].object # NoOne
  <2>. DEFINE o == run[x].object
              newer == Newer(settled[o], run[x].covers)
  <2>1. o \in Object /\ settled' = [settled EXCEPT ![o] = newer]
    BY <1>2, <1>4 DEF MissedBy
  <2>2. newer = IF settled[o] < run[x].covers THEN run[x].covers ELSE settled[o]
    BY <1>1, <1>2, <2>1, NewerIs
  <2>. HIDE DEF newer
  <2> QED
    BY <1>1, <1>2, <2>1, <2>2 DEF LooksAt
<1> QED
  BY <1>3, <1>4

\* A run goes on: tickets and locks stay, and so does what it has to look at.
LEMMA GoesOn ==
  ASSUME TriggersInv, NEW x \in Trigger, NEW r \in Runs, run' = [run EXCEPT ![x] = r],
         UNCHANGED <<tickets, journal>>, unrecorded \subseteq unrecorded',
         Knows(r, revision), \A o \in Object : locks[o] = x => Keeps(r, o),
         \A o \in Object : LooksAt(run[x], o, revision) => LooksAt(r, o, revision),
         Tells(journal[x], r, <<x, "finish">> \in unrecorded')
  PROVE  TriggersInv'
<1>1. /\ locks' = locks /\ settled' = settled /\ revision' = revision /\ journal' = journal
      /\ locks \in [Object -> Trigger \union {NoOne}] /\ settled \in [Object -> Nat]
      /\ \A o \in Object : settled[o] <= settled[o] /\ settled[o] <= revision[o]
      /\ journal \in [Trigger -> Records]
  BY DEF tickets, TriggersInv
<1> QED
  BY <1>1, OneRun

LEMMA EntrySafe ==
  ASSUME TriggersInv, NEW x \in Trigger, NEW a \in Host,
         ReceiveWebhook(x, a) \/ RunSchedule(x, a) \/ \E o \in Object : RunRequest(x, o, a)
  PROVE  TriggersInv'
<1>1. \E r \in Runs :
        /\ run' = [run EXCEPT ![x] = r] /\ Knows(r, revision)
        /\ run[x].pc \in {"sent", "unused"} /\ r.pc = "count"
        /\ r.left = run[x].left \/ ~r.left
        /\ run[x].pc = "sent" => r.object = run[x].object /\ r.covers = run[x].covers
  <2>1. CASE ReceiveWebhook(x, a)
    <3>. DEFINE r == [run[x] EXCEPT !.pc = "count", !.replica = a]
    <3>1. run' = [run EXCEPT ![x] = r] /\ run[x].pc = "sent"
      BY <2>1, RunIs DEF ReceiveWebhook, IsAt, Runs, TriggersInv
    <3>2. /\ r \in Runs /\ r.pc = "count" /\ r.object = run[x].object /\ r.covers = run[x].covers
          /\ r.at = run[x].at /\ r.kind = run[x].kind /\ r.left = run[x].left
      BY RunIs DEF Runs, Place
    <3>. HIDE DEF r
    <3>3. Knows(r, revision)
      BY <3>1, <3>2, RunIs DEF Knows, Ended
    <3> QED
      BY <3>1, <3>2, <3>3
  <2>2. ASSUME NEW o \in Object, RunRequest(x, o, a)
        PROVE  \E r \in Runs :
                 /\ run' = [run EXCEPT ![x] = r] /\ Knows(r, revision)
                 /\ run[x].pc \in {"sent", "unused"} /\ r.pc = "count"
                 /\ r.left = run[x].left \/ ~r.left
                 /\ run[x].pc = "sent" => r.object = run[x].object /\ r.covers = run[x].covers
    <3>. DEFINE r == [Unused EXCEPT !.pc = "count", !.kind = "request", !.object = o, !.replica = a]
    <3>1. run' = [run EXCEPT ![x] = r] /\ run[x].pc = "unused"
      BY <2>2 DEF RunRequest, IsAt
    <3>2. /\ r \in Runs /\ r.pc = "count" /\ r.object = o /\ r.covers = 0
          /\ r.at = 0 /\ r.kind = "request" /\ ~r.left
      BY UnusedIs DEF Runs, Place, Kind
    <3>. HIDE DEF r
    <3>3. Knows(r, revision)
      BY <3>2 DEF Knows, Ended, TriggersInv
    <3> QED
      BY <3>1, <3>2, <3>3
  <2>3. CASE RunSchedule(x, a)
    <3>. DEFINE r == [Unused EXCEPT !.pc = "count", !.kind = "schedule", !.replica = a]
    <3>1. run' = [run EXCEPT ![x] = r] /\ run[x].pc = "unused"
      BY <2>3 DEF RunSchedule, IsAt
    <3>2. /\ r \in Runs /\ r.pc = "count" /\ r.object = NoOne /\ r.covers = 0
          /\ r.at = 0 /\ r.kind = "schedule" /\ ~r.left
      BY UnusedIs DEF Runs, Place, Kind
    <3>. HIDE DEF r
    <3>3. Knows(r, revision)
      BY <3>2, TriggersAssumption DEF Knows, Ended
    <3> QED
      BY <3>1, <3>2, <3>3
  <2> QED
    BY <2>1, <2>2, <2>3
<1>2. PICK r \in Runs :
        /\ run' = [run EXCEPT ![x] = r] /\ Knows(r, revision)
        /\ run[x].pc \in {"sent", "unused"} /\ r.pc = "count"
        /\ r.left = run[x].left \/ ~r.left
        /\ run[x].pc = "sent" => r.object = run[x].object /\ r.covers = run[x].covers
  BY <1>1
<1>3. UNCHANGED <<tickets, journal, unrecorded>>
  BY DEF ReceiveWebhook, RunRequest, RunSchedule, records
<1>4. \A o1 \in Object : locks[o1] # x
  BY <1>2, RunIs DEF Keeps, Held, Knows, Ended
<1>5. \A o1 \in Object : LooksAt(run[x], o1, revision) => LooksAt(r, o1, revision)
  BY <1>2 DEF LooksAt, Awake
<1>6. Tells(journal[x], r, <<x, "finish">> \in unrecorded)
  BY <1>2, RunIs DEF Tells
<1> QED
  BY <1>2, <1>3, <1>4, <1>5, <1>6, GoesOn

LEMMA FrameSafe ==
  ASSUME TriggersInv, NEW x \in Trigger, CountTrigger(x) \/ FetchTicket(x) \/ CheckDone(x) \/ CountOutcome(x)
  PROVE  TriggersInv'
<1>. DEFINE q == run[x]
<1>1. /\ q \in Runs /\ Knows(q, revision) /\ Tells(journal[x], q, <<x, "finish">> \in unrecorded)
      /\ \A o \in Object : locks[o] = x => Keeps(q, o)
      /\ run \in [Trigger -> Runs] /\ revision \in [Object -> Nat]
  BY RunIs DEF TriggersInv
<1>2. UNCHANGED <<tickets, journal>> /\ unrecorded \subseteq unrecorded'
  BY DEF CountTrigger, FetchTicket, CheckDone, CountOutcome, records, Bump
<1>3. CASE CountTrigger(x)
  <2>. DEFINE r == [q EXCEPT !.pc = "start"]
  <2>1. run' = [run EXCEPT ![x] = r] /\ q.pc = "count"
    BY <1>1, <1>3 DEF CountTrigger, IsAt, GoesTo
  <2>2. /\ r \in Runs /\ r.pc = "start" /\ r.object = q.object /\ r.covers = q.covers
        /\ r.at = q.at /\ r.kind = q.kind /\ r.left = q.left /\ r.outcome = q.outcome
    BY <1>1 DEF Runs, Place
  <2>. HIDE DEF r, q
  <2>3. Knows(r, revision) /\ \A o \in Object : locks[o] # x
    BY <1>1, <2>1, <2>2 DEF Knows, Ended, Keeps, Held
  <2>4. \A o \in Object : LooksAt(q, o, revision) => LooksAt(r, o, revision)
    BY <2>2 DEF LooksAt, Awake
  <2>5. Tells(journal[x], r, <<x, "finish">> \in unrecorded')
    BY <1>1, <2>1, <2>2 DEF Tells
  <2> QED
    BY <1>2, <2>1, <2>2, <2>3, <2>4, <2>5, GoesOn DEF q
<1>4. CASE FetchTicket(x)
  <2>. DEFINE r == [q EXCEPT !.pc = "work", !.at = revision[q.object]]
  <2>1. run' = [run EXCEPT ![x] = r] /\ q.pc = "fetch"
    BY <1>1, <1>4 DEF FetchTicket, IsAt
  <2>2. q.object \in Object /\ q.kind # "schedule"
    BY <1>1, <2>1 DEF Knows, Ended
  <2>3. /\ r \in Runs /\ r.pc = "work" /\ r.object = q.object /\ r.covers = q.covers
        /\ r.at = revision[q.object] /\ r.kind = q.kind /\ r.left = q.left /\ r.outcome = q.outcome
    BY <1>1, <2>2 DEF Runs, Place
  <2>. HIDE DEF r, q
  <2>4. Knows(r, revision) /\ \A o \in Object : locks[o] = x => Keeps(r, o)
    BY <1>1, <2>1, <2>2, <2>3 DEF Knows, Ended, Keeps, Held
  <2>5. \A o \in Object : LooksAt(q, o, revision) => LooksAt(r, o, revision)
    BY <2>3 DEF LooksAt, Awake
  <2>6. Tells(journal[x], r, <<x, "finish">> \in unrecorded')
    BY <1>1, <2>1, <2>3 DEF Tells
  <2> QED
    BY <1>2, <2>1, <2>3, <2>4, <2>5, <2>6, GoesOn DEF q
<1>5. CASE CheckDone(x)
  <2>1. PICK outcome \in {"done", "skipped"} :
          run' = [run EXCEPT ![x].outcome = outcome, ![x].pc = "tally"]
    BY <1>5 DEF CheckDone, End
  <2>. DEFINE r == [q EXCEPT !.outcome = outcome, !.pc = "tally"]
  <2>2. run' = [run EXCEPT ![x] = r] /\ q.pc = "work" /\ q.kind = "schedule"
    BY <1>1, <1>5, <2>1 DEF CheckDone, IsAt
  <2>3. /\ r \in Runs /\ r.pc = "tally" /\ r.object = q.object /\ r.covers = q.covers
        /\ r.at = q.at /\ r.kind = q.kind /\ r.left = q.left
    BY <1>1 DEF Runs, Place, Outcome
  <2>. HIDE DEF r, q
  <2>4. q.object = NoOne
    BY <1>1, <2>2 DEF Knows
  <2>5. Knows(r, revision) /\ \A o \in Object : locks[o] = x => Keeps(r, o)
    BY <1>1, <2>2, <2>3, <2>4, TriggersAssumption DEF Knows, Ended, Keeps
  <2>6. \A o \in Object : ~LooksAt(q, o, revision)
    BY <2>4, TriggersAssumption DEF LooksAt
  <2>7. Tells(journal[x], r, <<x, "finish">> \in unrecorded')
    BY <1>1, <2>2, <2>3 DEF Tells
  <2> QED
    BY <1>2, <2>2, <2>3, <2>5, <2>6, <2>7, GoesOn DEF q
<1>6. CASE CountOutcome(x)
  <2>. DEFINE r == [q EXCEPT !.pc = "finish"]
  <2>1. run' = [run EXCEPT ![x] = r] /\ q.pc = "tally"
    BY <1>1, <1>6 DEF CountOutcome, IsAt, GoesTo
  <2>2. /\ r \in Runs /\ r.pc = "finish" /\ r.object = q.object /\ r.covers = q.covers
        /\ r.at = q.at /\ r.kind = q.kind /\ r.left = q.left /\ r.outcome = q.outcome
    BY <1>1 DEF Runs, Place
  <2>. HIDE DEF r, q
  <2>3. Knows(r, revision) /\ \A o \in Object : locks[o] = x => Keeps(r, o)
    BY <1>1, <2>1, <2>2 DEF Knows, Ended, Keeps, Held
  <2>4. \A o \in Object : ~LooksAt(q, o, revision)
    BY <2>1 DEF LooksAt, Awake
  <2>5. Tells(journal[x], r, <<x, "finish">> \in unrecorded')
    BY <1>1, <2>1, <2>2 DEF Tells
  <2> QED
    BY <1>2, <2>1, <2>2, <2>3, <2>4, <2>5, GoesOn DEF q
<1> QED
  BY <1>3, <1>4, <1>5, <1>6

LEMMA StartSafe ==
  ASSUME TriggersInv, NEW x \in Trigger, JournalStart(x) PROVE TriggersInv'
<1>. DEFINE q == run[x]
            place == IF q.kind = "schedule" THEN "work" ELSE "acquire"
            r == [q EXCEPT !.pc = place]
<1>1. /\ q \in Runs /\ Knows(q, revision) /\ Tells(journal[x], q, <<x, "finish">> \in unrecorded)
      /\ \A o \in Object : locks[o] = x => Keeps(q, o)
      /\ run \in [Trigger -> Runs] /\ journal \in [Trigger -> Records]
      /\ locks \in [Object -> Trigger \union {NoOne}] /\ settled \in [Object -> Nat]
      /\ \A o \in Object : settled[o] <= settled[o] /\ settled[o] <= revision[o]
  BY RunIs DEF TriggersInv
<1>2. /\ run' = [run EXCEPT ![x] = r] /\ q.pc = "start" /\ UNCHANGED tickets
  BY <1>1 DEF JournalStart, IsAt, GoesTo
<1>3. /\ r \in Runs /\ r.pc = place /\ r.object = q.object /\ r.covers = q.covers
      /\ r.at = q.at /\ r.kind = q.kind /\ r.left = q.left /\ r.outcome = q.outcome
      /\ place \in {"work", "acquire"} /\ (place = "work" <=> q.kind = "schedule")
  BY <1>1 DEF Runs, Place
<1>4. /\ unrecorded \subseteq unrecorded'
      /\ journal' = journal \/ journal' = [journal EXCEPT ![x] = [status |-> "running", whole |-> TRUE]]
  BY DEF JournalStart, records
<1>. HIDE DEF r, place, q
<1>5. Knows(r, revision) /\ \A o \in Object : locks[o] # x
  BY <1>1, <1>2, <1>3 DEF Knows, Ended, Keeps, Held
<1>6. \A o \in Object : LooksAt(q, o, revision) => LooksAt(r, o, revision)
  BY <1>3 DEF LooksAt, Awake
<1>7. /\ journal' \in [Trigger -> Records] /\ \A y \in Trigger : y # x => journal'[y] = journal[y]
      /\ journal'[x] = journal[x] \/ journal'[x].status = "running"
  <2>. DEFINE begun == [status |-> "running", whole |-> TRUE]
  <2>1. begun \in Records /\ begun.status = "running"
    BY DEF Records, Status
  <2>2. journal' = journal \/ journal' = [journal EXCEPT ![x] = begun]
    BY <1>4
  <2>. HIDE DEF begun
  <2> QED
    BY <1>1, <2>1, <2>2
<1>8. Tells(journal'[x], r, <<x, "finish">> \in unrecorded')
  BY <1>1, <1>2, <1>3, <1>7 DEF Tells
<1>9. locks' = locks /\ revision' = revision /\ settled' = settled
  BY <1>2 DEF tickets
<1> QED
  BY <1>1, <1>2, <1>3, <1>4, <1>5, <1>6, <1>7, <1>8, <1>9, OneRun DEF q

LEMMA AcquireSafe ==
  ASSUME TriggersInv, NEW x \in Trigger, Acquire(x) PROVE TriggersInv'
<1>. DEFINE q == run[x]
            r == [q EXCEPT !.pc = "fetch"]
<1>1. /\ q \in Runs /\ Knows(q, revision) /\ Tells(journal[x], q, <<x, "finish">> \in unrecorded)
      /\ \A o \in Object : locks[o] = x => Keeps(q, o)
      /\ run \in [Trigger -> Runs] /\ journal \in [Trigger -> Records]
      /\ locks \in [Object -> Trigger \union {NoOne}] /\ settled \in [Object -> Nat]
      /\ \A o \in Object : settled[o] <= settled[o] /\ settled[o] <= revision[o]
  BY RunIs DEF TriggersInv
<1>2. /\ run' = [run EXCEPT ![x] = r] /\ q.pc = "acquire"
      /\ locks' = [locks EXCEPT ![q.object] = x]
      /\ revision' = revision /\ settled' = settled /\ journal' = journal /\ unrecorded' = unrecorded
  BY <1>1 DEF Acquire, IsAt, GoesTo, records
<1>3. /\ r \in Runs /\ r.pc = "fetch" /\ r.object = q.object /\ r.covers = q.covers
      /\ r.at = q.at /\ r.kind = q.kind /\ r.left = q.left /\ r.outcome = q.outcome
  BY <1>1 DEF Runs, Place
<1>. HIDE DEF r, q
<1>4. q.object \in Object /\ Knows(r, revision) /\ \A o \in Object : locks[o] # x
  BY <1>1, <1>2, <1>3 DEF Knows, Ended, Keeps, Held
<1>5. /\ locks' \in [Object -> Trigger \union {NoOne}]
      /\ \A o \in Object : locks'[o] \in {locks[o], NoOne, x}
      /\ \A o \in Object : locks'[o] = x => o = q.object
  BY <1>1, <1>2, <1>4
<1>6. \A o \in Object : locks'[o] = x => Keeps(r, o)
  BY <1>3, <1>5 DEF Keeps, Held
<1>7. \A o \in Object : LooksAt(q, o, revision) => LooksAt(r, o, revision)
  BY <1>3 DEF LooksAt, Awake
<1>8. Tells(journal'[x], r, <<x, "finish">> \in unrecorded')
  BY <1>1, <1>2, <1>3 DEF Tells
<1> QED
  BY <1>1, <1>2, <1>3, <1>4, <1>5, <1>6, <1>7, <1>8, OneRun DEF q

\* A run that has looked at its ticket has looked at the latest change.
LEMMA DoneSafe ==
  ASSUME TriggersInv, NEW x \in Trigger, Done(x) PROVE TriggersInv'
<1>. DEFINE q == run[x]
<1>1. /\ q \in Runs /\ Knows(q, revision) /\ Tells(journal[x], q, <<x, "finish">> \in unrecorded)
      /\ \A o \in Object : locks[o] = x => Keeps(q, o)
      /\ run \in [Trigger -> Runs] /\ journal \in [Trigger -> Records]
      /\ locks \in [Object -> Trigger \union {NoOne}] /\ settled \in [Object -> Nat]
      /\ revision \in [Object -> Nat]
      /\ \A o \in Object : settled[o] <= settled[o] /\ settled[o] <= revision[o]
  BY RunIs DEF TriggersInv
<1>2. PICK outcome \in {"done", "skipped"} :
        run' = [run EXCEPT ![x].outcome = outcome, ![x].pc = "release"]
  BY DEF Done, End
<1>. DEFINE r == [q EXCEPT !.outcome = outcome, !.pc = "release"]
<1>3. /\ run' = [run EXCEPT ![x] = r] /\ q.pc = "work" /\ q.kind # "schedule"
      /\ settled' = [settled EXCEPT ![q.object] = Newer(@, q.at)]
      /\ locks' = locks /\ revision' = revision /\ journal' = journal /\ unrecorded' = unrecorded
  BY <1>1, <1>2 DEF Done, IsAt, records
<1>4. /\ r \in Runs /\ r.pc = "release" /\ r.object = q.object /\ r.covers = q.covers
      /\ r.at = q.at /\ r.kind = q.kind /\ r.left = q.left
  BY <1>1 DEF Runs, Place, Outcome
<1>. HIDE DEF r, q
<1>5. /\ q.object \in Object /\ q.at \in Nat /\ q.covers \in Nat
      /\ q.covers <= q.at /\ q.at <= revision[q.object]
  BY <1>1, <1>3 DEF Knows, Ended, Runs
<1>6. Knows(r, revision) /\ \A o \in Object : locks[o] = x => Keeps(r, o)
  BY <1>1, <1>3, <1>4, <1>5 DEF Knows, Ended, Keeps, Held
<1>7. /\ settled'[q.object] = IF settled[q.object] < q.at THEN q.at ELSE settled[q.object]
      /\ \A o \in Object : o # q.object => settled'[o] = settled[o]
      /\ settled' \in [Object -> Nat]
  <2>1. Newer(settled[q.object], q.at) = IF settled[q.object] < q.at THEN q.at ELSE settled[q.object]
    BY <1>1, <1>5, NewerIs
  <2> QED
    BY <1>1, <1>3, <1>5, <2>1
<1>8. /\ \A o \in Object : settled[o] <= settled'[o] /\ settled'[o] <= revision[o]
      /\ \A o \in Object : LooksAt(q, o, revision) => settled'[o] = revision[o]
  BY <1>1, <1>5, <1>7 DEF LooksAt
<1>9. Tells(journal'[x], r, <<x, "finish">> \in unrecorded')
  BY <1>1, <1>3, <1>4 DEF Tells
<1>10. /\ locks' \in [Object -> Trigger \union {NoOne}] /\ \A o \in Object : locks'[o] = locks[o]
       /\ journal' \in [Trigger -> Records] /\ journal' = journal /\ unrecorded' = unrecorded /\ revision' = revision
       /\ run' = [run EXCEPT ![x] = r]
  BY <1>1, <1>3
<1>11. \A o \in Object : locks'[o] = x => Keeps(r, o)
  BY <1>6, <1>10
<1>12. \A o \in Object : LooksAt(run[x], o, revision) =>
         settled'[o] = revision[o] \/ LooksAt(r, o, revision)
  BY <1>8 DEF q
<1>13. unrecorded \subseteq unrecorded' /\ \A o \in Object : locks'[o] \in {locks[o], NoOne, x}
  BY <1>10
<1> QED
  BY <1>4, <1>6, <1>7, <1>8, <1>9, <1>10, <1>11, <1>12, <1>13, OneRun

LEMMA FailsSafe ==
  ASSUME TriggersInv, NEW x \in Trigger, Fails(x) PROVE TriggersInv'
<1>. DEFINE q == run[x]
            holds == \E o \in Object : locks[o] = x
            place == IF holds THEN "release" ELSE "tally"
            r == [q EXCEPT !.outcome = "failed", !.pc = place]
<1>1. /\ q \in Runs /\ Knows(q, revision) /\ Tells(journal[x], q, <<x, "finish">> \in unrecorded)
      /\ \A o \in Object : locks[o] = x => Keeps(q, o)
      /\ run \in [Trigger -> Runs] /\ journal \in [Trigger -> Records]
      /\ locks \in [Object -> Trigger \union {NoOne}]
  BY RunIs DEF TriggersInv
<1>2. /\ run' = [run EXCEPT ![x] = r] /\ q.pc \in {"acquire", "fetch", "work"} /\ MissedBy(x)
      /\ locks' = locks /\ revision' = revision /\ journal' = journal /\ unrecorded' = unrecorded
  BY <1>1 DEF Fails, IsAt, End, records
<1>3. /\ r \in Runs /\ r.pc = place /\ r.object = q.object /\ r.covers = q.covers
      /\ r.at = q.at /\ r.kind = q.kind /\ r.left = q.left
      /\ place \in {"release", "tally"} /\ (place = "release" <=> holds)
  BY <1>1 DEF Runs, Place, Outcome
<1>. HIDE DEF r, place, q
<1>4. holds => q.object \in Object
  BY <1>1, <1>2 DEF Keeps, Knows, Ended
<1>5. Knows(r, revision)
  BY <1>1, <1>2, <1>3, <1>4, TriggersAssumption DEF Knows, Ended
<1>6. \A o \in Object : locks[o] = x => Keeps(r, o)
  BY <1>1, <1>2, <1>3 DEF Keeps, Held, Knows, Ended
<1>7. /\ settled' \in [Object -> Nat]
      /\ \A o \in Object : settled[o] <= settled'[o] /\ settled'[o] <= revision[o]
      /\ \A o \in Object : LooksAt(q, o, revision) => settled'[o] = revision[o]
  BY <1>2, Missed DEF q
<1>8. Tells(journal'[x], r, <<x, "finish">> \in unrecorded')
  BY <1>1, <1>2, <1>3 DEF Tells
<1> QED
  BY ZenonT(30), <1>1, <1>2, <1>3, <1>5, <1>6, <1>7, <1>8, OneRun DEF q

LEMMA UnansweredSafe ==
  ASSUME TriggersInv, NEW x \in Trigger, AcquireUnanswered(x) PROVE TriggersInv'
<1>. DEFINE q == run[x]
            r == [q EXCEPT !.outcome = "failed", !.left = TRUE, !.pc = "tally"]
<1>1. /\ q \in Runs /\ Knows(q, revision) /\ Tells(journal[x], q, <<x, "finish">> \in unrecorded)
      /\ run \in [Trigger -> Runs] /\ journal \in [Trigger -> Records]
      /\ locks \in [Object -> Trigger \union {NoOne}]
  BY RunIs DEF TriggersInv
<1>2. /\ run' = [run EXCEPT ![x] = r] /\ q.pc = "acquire" /\ MissedBy(x)
      /\ locks' = [locks EXCEPT ![q.object] = x]
      /\ revision' = revision /\ journal' = journal /\ unrecorded' = unrecorded
  BY <1>1 DEF AcquireUnanswered, IsAt, records
<1>3. /\ r \in Runs /\ r.pc = "tally" /\ r.object = q.object /\ r.covers = q.covers
      /\ r.at = q.at /\ r.kind = q.kind /\ r.left
  BY <1>1 DEF Runs, Place, Outcome
<1>. HIDE DEF r, q
<1>4. q.object \in Object /\ Knows(r, revision) /\ \A o \in Object : Keeps(r, o)
  BY <1>1, <1>2, <1>3 DEF Keeps, Knows, Ended
<1>5. locks' \in [Object -> Trigger \union {NoOne}] /\ \A o \in Object : locks'[o] \in {locks[o], NoOne, x}
  BY <1>1, <1>2, <1>4
<1>6. /\ settled' \in [Object -> Nat]
      /\ \A o \in Object : settled[o] <= settled'[o] /\ settled'[o] <= revision[o]
      /\ \A o \in Object : LooksAt(q, o, revision) => settled'[o] = revision[o]
  BY <1>2, Missed DEF q
<1>7. Tells(journal'[x], r, <<x, "finish">> \in unrecorded')
  BY <1>1, <1>2, <1>3 DEF Tells
<1>8. /\ \A o \in Object : locks'[o] = x => Keeps(r, o)
      /\ journal' \in [Trigger -> Records] /\ \A y \in Trigger : y # x => journal'[y] = journal[y]
      /\ unrecorded \subseteq unrecorded' /\ revision' = revision
  BY <1>1, <1>2, <1>4
<1>9. \A o \in Object : LooksAt(run[x], o, revision) =>
        settled'[o] = revision[o] \/ LooksAt(r, o, revision)
  BY <1>6 DEF q
<1> QED
  BY <1>2, <1>3, <1>4, <1>5, <1>6, <1>7, <1>8, <1>9, OneRun

\* What remains of a run at its end.
LEMMA RemainsIs ==
  ASSUME TriggersInv, NEW x \in Trigger, NEW place \in Ended
  PROVE  /\ Remains(x, place) \in Runs
         /\ Remains(x, place).pc = place /\ Remains(x, place).object = NoOne
         /\ Remains(x, place).kind = run[x].kind /\ Remains(x, place).outcome = run[x].outcome
         /\ Remains(x, place).left = run[x].left
         /\ Knows(Remains(x, place), revision)
<1>1. run[x] \in Runs
  BY RunIs
<1>2. /\ Remains(x, place) \in Runs
      /\ Remains(x, place).pc = place /\ Remains(x, place).object = NoOne
      /\ Remains(x, place).kind = run[x].kind /\ Remains(x, place).outcome = run[x].outcome
      /\ Remains(x, place).left = run[x].left
      /\ Remains(x, place).covers = 0 /\ Remains(x, place).at = 0
  BY <1>1, UnusedIs DEF Remains, Runs, Place
<1> QED
  BY <1>2, TriggersAssumption DEF Knows, Ended

LEMMA RefusedSafe ==
  ASSUME TriggersInv, NEW x \in Trigger, RefuseWebhook(x) PROVE TriggersInv'
<1>. DEFINE q == run[x]
            r == Remains(x, "rejected")
<1>1. /\ q \in Runs /\ Knows(q, revision) /\ Tells(journal[x], q, <<x, "finish">> \in unrecorded)
      /\ \A o \in Object : locks[o] = x => Keeps(q, o)
      /\ journal \in [Trigger -> Records]
      /\ locks \in [Object -> Trigger \union {NoOne}]
  BY RunIs DEF TriggersInv
<1>2. /\ run' = [run EXCEPT ![x] = r] /\ q.pc = "sent" /\ MissedBy(x)
      /\ locks' = locks /\ revision' = revision /\ journal' = journal /\ unrecorded' = unrecorded
  BY DEF RefuseWebhook, IsAt, records
<1>3. r \in Runs /\ r.pc = "rejected" /\ Knows(r, revision)
  BY RemainsIs DEF Ended
<1>. HIDE DEF r, q
<1>4. \A o \in Object : locks[o] # x
  BY <1>1, <1>2 DEF Keeps, Held, Knows, Ended
<1>5. /\ settled' \in [Object -> Nat]
      /\ \A o \in Object : settled[o] <= settled'[o] /\ settled'[o] <= revision[o]
      /\ \A o \in Object : LooksAt(q, o, revision) => settled'[o] = revision[o]
  BY <1>2, Missed DEF q
<1>6. Tells(journal'[x], r, <<x, "finish">> \in unrecorded')
  BY <1>1, <1>2, <1>3 DEF Tells
<1> QED
  BY ZenonT(30), <1>1, <1>2, <1>3, <1>4, <1>5, <1>6, OneRun DEF q

LEMMA ReleaseSafe ==
  ASSUME TriggersInv, NEW x \in Trigger, Release(x) PROVE TriggersInv'
<1>. DEFINE q == run[x]
<1>1. /\ q \in Runs /\ Knows(q, revision) /\ Tells(journal[x], q, <<x, "finish">> \in unrecorded)
      /\ \A o \in Object : locks[o] = x => Keeps(q, o)
      /\ run \in [Trigger -> Runs] /\ journal \in [Trigger -> Records]
      /\ locks \in [Object -> Trigger \union {NoOne}] /\ settled \in [Object -> Nat]
      /\ \A o \in Object : settled[o] <= settled[o] /\ settled[o] <= revision[o]
  BY RunIs DEF TriggersInv
<1>2. q.pc = "release" /\ revision' = revision /\ settled' = settled /\ journal' = journal /\ unrecorded' = unrecorded
  BY DEF Release, IsAt, records
<1>3. q.object \in Object /\ \A o \in Object : ~LooksAt(q, o, revision)
  BY <1>1, <1>2 DEF Knows, Ended, LooksAt, Awake
<1>4. CASE locks' = [locks EXCEPT ![q.object] = NoOne] /\ GoesTo(x, "tally")
  <2>. DEFINE r == [q EXCEPT !.pc = "tally"]
  <2>1. run' = [run EXCEPT ![x] = r]
    BY <1>1, <1>4 DEF GoesTo
  <2>2. /\ r \in Runs /\ r.pc = "tally" /\ r.object = q.object /\ r.covers = q.covers
        /\ r.at = q.at /\ r.kind = q.kind /\ r.left = q.left /\ r.outcome = q.outcome
    BY <1>1 DEF Runs, Place
  <2>. HIDE DEF r, q
  <2>3. /\ locks' \in [Object -> Trigger \union {NoOne}]
        /\ \A o \in Object : locks'[o] \in {locks[o], NoOne, x}
        /\ \A o \in Object : locks'[o] = x => locks[o] = x /\ o # q.object
    BY <1>1, <1>3, <1>4, TriggersAssumption
  <2>4. \A o \in Object : locks'[o] = x => Keeps(r, o)
    BY <1>1, <1>2, <2>2, <2>3 DEF Keeps
  <2>5. Knows(r, revision) /\ Tells(journal'[x], r, <<x, "finish">> \in unrecorded')
    BY <1>1, <1>2, <1>3, <2>2 DEF Knows, Ended, Tells
  <2> QED
    BY <1>1, <1>2, <1>3, <2>1, <2>2, <2>3, <2>4, <2>5, OneRun DEF q
<1>5. CASE /\ run' = [run EXCEPT ![x].left = TRUE, ![x].pc = "tally"]
           /\ UNCHANGED locks
  <2>. DEFINE r == [q EXCEPT !.left = TRUE, !.pc = "tally"]
  <2>1. run' = [run EXCEPT ![x] = r] /\ locks' = locks
    BY <1>1, <1>5
  <2>2. /\ r \in Runs /\ r.pc = "tally" /\ r.object = q.object /\ r.covers = q.covers
        /\ r.at = q.at /\ r.kind = q.kind /\ r.left
    BY <1>1 DEF Runs, Place, Outcome
  <2>. HIDE DEF r, q
  <2>3. Knows(r, revision) /\ Tells(journal'[x], r, <<x, "finish">> \in unrecorded')
    BY <1>1, <1>2, <1>3, <2>2 DEF Knows, Ended, Tells
  <2>4. \A o \in Object : Keeps(r, o)
    BY <2>2 DEF Keeps
  <2> QED
    BY <1>1, <1>2, <1>3, <2>1, <2>2, <2>3, <2>4, OneRun DEF q
<1> QED
  BY <1>4, <1>5 DEF Release

\* The outcome is written, or the write is on record as lost.
LEMMA FinishSafe ==
  ASSUME TriggersInv, NEW x \in Trigger, JournalFinish(x) PROVE TriggersInv'
<1>. DEFINE q == run[x]
            r == Remains(x, "over")
            written == [journal[x] EXCEPT !.status = StatusOf(q.outcome)]
<1>1. /\ q \in Runs /\ Knows(q, revision) /\ Tells(journal[x], q, <<x, "finish">> \in unrecorded)
      /\ \A o \in Object : locks[o] = x => Keeps(q, o)
      /\ run \in [Trigger -> Runs] /\ journal \in [Trigger -> Records] /\ journal[x] \in Records
      /\ locks \in [Object -> Trigger \union {NoOne}] /\ settled \in [Object -> Nat]
      /\ \A o \in Object : settled[o] <= settled[o] /\ settled[o] <= revision[o]
  BY RunIs DEF TriggersInv
<1>2. /\ run' = [run EXCEPT ![x] = r] /\ q.pc = "finish" /\ unrecorded \subseteq unrecorded'
      /\ locks' = locks /\ revision' = revision /\ settled' = settled
  BY DEF JournalFinish, IsAt, tickets
<1>3. \/ journal' = [journal EXCEPT ![x] = written]
      \/ journal' = journal /\ <<x, "finish">> \in unrecorded'
  BY <1>1 DEF JournalFinish
<1>4. /\ r \in Runs /\ r.pc = "over" /\ Knows(r, revision) /\ r.left = q.left /\ r.outcome = q.outcome
  BY RemainsIs DEF Ended
<1>5. /\ written \in Records /\ written.status = StatusOf(q.outcome)
      /\ StatusOf(q.outcome) \in {"failed", "done"}
      /\ StatusOf(q.outcome) = "failed" <=> q.outcome = "failed"
  BY <1>1 DEF Records, Status, StatusOf
<1>. HIDE DEF r, q, written
<1>6. \A o \in Object : locks[o] = x => Keeps(r, o)
  BY <1>1, <1>2, <1>4 DEF Keeps, Held
<1>7. \A o \in Object : ~LooksAt(q, o, revision)
  BY <1>2 DEF LooksAt, Awake
<1>8. /\ journal' \in [Trigger -> Records] /\ \A y \in Trigger : y # x => journal'[y] = journal[y]
      /\ journal'[x] = written \/ (journal'[x] = journal[x] /\ <<x, "finish">> \in unrecorded')
  BY <1>1, <1>3, <1>5
<1>9. Tells(journal'[x], r, <<x, "finish">> \in unrecorded')
  BY <1>1, <1>2, <1>4, <1>5, <1>8 DEF Tells
<1> QED
  BY <1>1, <1>2, <1>4, <1>6, <1>7, <1>8, <1>9, OneRun DEF q

-----------------------------------------------------------------------------
(* Steps of several runs, and of none. *)

\* Behind a lock whose run has yet to read the ticket, a change will be read with
\* it; behind any other it is known to be missed.
LEMMA HeldSafe ==
  ASSUME TriggersInv, NEW x \in Trigger, TicketLockHeld(x) PROVE TriggersInv'
<1>. DEFINE q == run[x]
            o == q.object
            holder == locks[o]
            h == run[holder]
            covered == Newer(h.covers, q.covers)
            r == [q EXCEPT !.outcome = "skipped", !.pc = "tally"]
<1>1. /\ q \in Runs /\ Knows(q, revision) /\ Tells(journal[x], q, <<x, "finish">> \in unrecorded)
      /\ \A a \in Object : locks[a] = x => Keeps(q, a)
      /\ run \in [Trigger -> Runs] /\ journal \in [Trigger -> Records]
      /\ locks \in [Object -> Trigger \union {NoOne}] /\ settled \in [Object -> Nat]
      /\ \A a \in Object : settled[a] <= settled[a] /\ settled[a] <= revision[a]
  BY RunIs DEF TriggersInv
<1>2. /\ q.pc = "acquire" /\ holder # NoOne
      /\ locks' = locks /\ revision' = revision /\ journal' = journal /\ unrecorded' = unrecorded
  BY DEF TicketLockHeld, IsAt, records
<1>3. o \in Object /\ holder \in Trigger /\ \A a \in Object : locks[a] # x
  BY <1>1, <1>2 DEF Knows, Ended, Keeps, Held
<1>4. /\ h \in Runs /\ Knows(h, revision) /\ Keeps(h, o)
      /\ Tells(journal[holder], h, <<holder, "finish">> \in unrecorded)
      /\ \A a \in Object : locks[a] = holder => Keeps(h, a)
  BY <1>2, <1>3, RunIs DEF TriggersInv
<1>5. /\ r \in Runs /\ r.pc = "tally" /\ r.object = q.object /\ r.covers = q.covers
      /\ r.at = q.at /\ r.kind = q.kind /\ r.left = q.left
  BY <1>1 DEF Runs, Place, Outcome
<1>6. Knows(r, revision) /\ Tells(journal[x], r, <<x, "finish">> \in unrecorded)
  <2>. HIDE DEF q, o, holder, h, covered, r
  <2>1. Knows(r, revision)
    BY <1>1, <1>2, <1>5 DEF Knows, Ended
  <2> QED
    BY <1>1, <1>2, <1>5, <2>1 DEF Tells
<1>7. CASE h.pc = "fetch"
  <2>. DEFINE t == [h EXCEPT !.covers = covered]
  <2>1. x # holder
    BY <1>2, <1>7
  <2>2. run' = [run EXCEPT ![x].outcome = "skipped", ![x].pc = "tally", ![holder].covers = covered]
        /\ settled' = settled
    BY <1>7 DEF TicketLockHeld, IsAt
  <2>3. h.object = o
    BY <1>4, <1>7 DEF Keeps, Knows, Ended
  <2>4. covered = IF h.covers < q.covers THEN q.covers ELSE h.covers
    BY <1>1, <1>4, NewerIs DEF Runs
  <2>5. /\ covered \in Nat /\ covered <= revision[o] /\ h.covers <= covered /\ q.covers <= covered
        /\ q.covers <= revision[o] /\ revision[o] \in Nat /\ h.covers \in Nat /\ q.covers \in Nat
    <3>1. h.covers \in Nat /\ q.covers \in Nat
      BY <1>1, <1>4 DEF Runs
    <3>2. revision[o] \in Nat
      BY <1>3 DEF TriggersInv
    <3>3. h.covers <= revision[o] /\ q.covers <= revision[o]
      BY <1>1, <1>3, <1>4, <2>3 DEF Knows
    <3>. HIDE DEF h, q, o, covered
    <3> QED
      BY <2>4, <3>1, <3>2, <3>3
  <2>6. /\ run' \in [Trigger -> Runs] /\ run'[x] = r /\ run'[holder] = t
        /\ \A y \in Trigger : y # x /\ y # holder => run'[y] = run[y]
        /\ t \in Runs /\ t.pc = h.pc /\ t.object = h.object /\ t.covers = covered
        /\ t.at = h.at /\ t.kind = h.kind /\ t.left = h.left /\ t.outcome = h.outcome
    <3>1. /\ t \in Runs /\ t.pc = h.pc /\ t.object = h.object /\ t.covers = covered
          /\ t.at = h.at /\ t.kind = h.kind /\ t.left = h.left /\ t.outcome = h.outcome
      BY <1>4, <2>5 DEF Runs
    <3>2. run' = [[run EXCEPT ![x] = r] EXCEPT ![holder] = t]
      BY <1>1, <1>3, <2>1, <2>2
    <3>. HIDE DEF r, t
    <3> QED
      BY <1>1, <1>3, <1>5, <2>1, <3>1, <3>2
  <2>. HIDE DEF t, r, covered, h, holder, o, q
  <2>7. \A y \in Trigger : Knows(run'[y], revision)
    <3>1. Knows(t, revision)
      BY <1>4, <1>7, <2>3, <2>5, <2>6 DEF Knows, Ended
    <3> QED
      BY <1>6, <2>6, <3>1 DEF TriggersInv
  <2>8. \A a \in Object : locks[a] # NoOne => Keeps(run'[locks[a]], a)
    <3>1. \A a \in Object : locks[a] = holder => Keeps(t, a)
      BY <1>4, <2>6 DEF Keeps
    <3> QED
      BY <1>3, <2>6, <3>1 DEF TriggersInv
  <2>9. \A a \in Object : settled[a] = revision[a] \/ \E y \in Trigger : LooksAt(run'[y], a, revision)
    <3>1. SUFFICES ASSUME NEW a \in Object, settled[a] # revision[a]
                   PROVE  \E y \in Trigger : LooksAt(run'[y], a, revision)
      OBVIOUS
    <3>2. PICK y \in Trigger : LooksAt(run[y], a, revision)
      BY <3>1 DEF TriggersInv, Dealt
    <3>3. CASE y = x \/ y = holder
      <4>1. a = o /\ (q.covers = revision[o] \/ h.covers = revision[o])
        BY <2>3, <3>2, <3>3 DEF LooksAt, q, h, o
      <4>2. covered = revision[o]
        BY <2>5, <4>1
      <4>3. LooksAt(t, a, revision)
        BY <1>7, <2>3, <2>6, <4>1, <4>2 DEF LooksAt, Awake
      <4> QED
        BY <1>3, <2>6, <4>3
    <3>4. CASE y # x /\ y # holder
      BY <2>6, <3>2, <3>4
    <3> QED
      BY <3>3, <3>4
  <2>10. \A y \in Trigger : Tells(journal[y], run'[y], <<y, "finish">> \in unrecorded)
    <3>1. Tells(journal[holder], t, <<holder, "finish">> \in unrecorded)
      BY <1>4, <2>6 DEF Tells
    <3> QED
      BY <1>6, <2>6, <3>1 DEF TriggersInv
  <2>11. /\ \A y \in Trigger : Knows(run[y], revision)'
         /\ \A a \in Object : locks'[a] # NoOne => Keeps(run[locks[a]], a)'
         /\ Dealt'
         /\ \A y \in Trigger : Tells(journal[y], run[y], <<y, "finish">> \in unrecorded)'
    <3>1. \A y \in Trigger : Knows(run[y], revision)'
      BY <1>2, <2>7 DEF Knows
    <3>2. \A a \in Object : locks'[a] # NoOne => Keeps(run[locks[a]], a)'
      BY <1>2, <2>8 DEF Keeps
    <3>3. Dealt'
      <4>1. \A a \in Object : settled'[a] = revision'[a]
              \/ \E y \in Trigger : LooksAt(run'[y], a, revision')
        <5>1. settled' = settled /\ revision' = revision
          BY <1>2, <2>2
        <5> QED
          BY <2>9, <5>1
      <4> QED
        BY <4>1 DEF Dealt, LooksAt
    <3>4. \A y \in Trigger : Tells(journal[y], run[y], <<y, "finish">> \in unrecorded)'
      BY <1>2, <2>10 DEF Tells
    <3> QED
      BY <3>1, <3>2, <3>3, <3>4
  <2> QED
    BY <1>2, <2>2, <2>6, <2>11 DEF TriggersInv
<1>8. CASE h.pc # "fetch"
  <2>1. h.pc \in {"work", "release", "killed"} \/ h.left
    BY <1>4, <1>8 DEF Keeps, Held
  <2>2. End(x, "skipped", "tally") /\ MissedBy(x)
    BY <1>8, <2>1 DEF TicketLockHeld, IsAt
  <2>3. run' = [run EXCEPT ![x] = r]
    BY <1>1, <2>2 DEF End
  <2>4. /\ settled' \in [Object -> Nat]
        /\ \A a \in Object : settled[a] <= settled'[a] /\ settled'[a] <= revision[a]
        /\ \A a \in Object : LooksAt(q, a, revision) => settled'[a] = revision[a]
    BY <2>2, Missed
  <2>5. /\ locks' \in [Object -> Trigger \union {NoOne}] /\ \A a \in Object : locks'[a] = locks[a]
        /\ journal' \in [Trigger -> Records] /\ journal' = journal /\ unrecorded \subseteq unrecorded'
    BY <1>1, <1>2
  <2>. HIDE DEF o, holder, h, covered, r
  <2>6. /\ \A a \in Object : locks'[a] \in {locks[a], NoOne, x}
        /\ \A a \in Object : locks'[a] = x => Keeps(r, a)
    BY <1>3, <2>5
  <2>7. \A a \in Object : LooksAt(run[x], a, revision) =>
          settled'[a] = revision[a] \/ LooksAt(r, a, revision)
    BY <2>4 DEF q
  <2>8. Tells(journal'[x], r, <<x, "finish">> \in unrecorded') /\ revision' = revision
    BY <1>2, <1>6
  <2>9. \A y \in Trigger : y # x => journal'[y] = journal[y]
    BY <2>5
  <2>. HIDE DEF q
  <2> QED
    BY <1>5, <1>6, <2>3, <2>4, <2>5, <2>6, <2>7, <2>8, <2>9, OneRun
<1> QED
  BY <1>7, <1>8

LEMMA ChangeSafe ==
  ASSUME TriggersInv, NEW o \in Object, Change(o) PROVE TriggersInv'
<1>1. /\ run \in [Trigger -> Runs] /\ journal \in [Trigger -> Records]
      /\ locks \in [Object -> Trigger \union {NoOne}] /\ settled \in [Object -> Nat]
      /\ revision \in [Object -> Nat]
      /\ \A a \in Object : settled[a] <= revision[a]
  BY DEF TriggersInv
<1>2. /\ revision' \in [Object -> Nat] /\ revision'[o] = revision[o] + 1
      /\ \A a \in Object : a # o => revision'[a] = revision[a]
      /\ \A a \in Object : revision[a] <= revision'[a]
  BY <1>1 DEF Change
<1>3. locks' = locks /\ settled' = settled /\ journal' = journal /\ unrecorded' = unrecorded
  BY DEF Change, records
<1>4. PICK x \in Trigger :
        /\ run[x].pc = "unused"
        /\ run' = [run EXCEPT ![x] = [Unused EXCEPT !.pc = "sent", !.object = o,
                                                    !.covers = revision'[o]]]
  BY DEF Change, IsAt
<1>. DEFINE n == revision'[o]
            r == [Unused EXCEPT !.pc = "sent", !.object = o, !.covers = n]
<1>5. n \in Nat
  BY <1>2
<1>. HIDE DEF n
<1>6. /\ r \in Runs /\ r.pc = "sent" /\ r.object = o /\ r.covers = n /\ r.at = 0
      /\ r.kind = "webhook" /\ ~r.left /\ r.outcome = "none"
  BY <1>5, UnusedIs DEF Runs, Place
<1>7. run' = [run EXCEPT ![x] = r]
  BY <1>4 DEF n
<1>. HIDE DEF r
<1>8. /\ run' \in [Trigger -> Runs] /\ run'[x] = r /\ \A y \in Trigger : y # x => run'[y] = run[y]
  BY <1>1, <1>6, <1>7
<1>9. \A y \in Trigger : Knows(run[y], revision)'
  <2>1. Knows(r, revision')
    BY <1>2, <1>6 DEF Knows, Ended, n
  <2>2. \A y \in Trigger : Knows(run[y], revision')
    <3>1. SUFFICES ASSUME NEW y \in Trigger PROVE Knows(run[y], revision')
      OBVIOUS
    <3>2. Knows(run[y], revision) /\ run[y] \in Runs
      BY RunIs
    <3>3. run[y].at \in Nat /\ run[y].covers \in Nat
      BY <3>2 DEF Runs
    <3>4. run[y].object \in Object => run[y].at <= revision'[run[y].object]
                                      /\ run[y].covers <= revision'[run[y].object]
      <4>1. SUFFICES ASSUME run[y].object \in Object
                     PROVE  run[y].at <= revision'[run[y].object]
                            /\ run[y].covers <= revision'[run[y].object]
        OBVIOUS
      <4>2. PICK a \in Object : a = run[y].object
        BY <4>1
      <4>3. run[y].at <= revision[a] /\ run[y].covers <= revision[a]
        BY <3>2, <4>2 DEF Knows
      <4>4. revision[a] \in Nat /\ revision'[a] \in Nat /\ revision[a] <= revision'[a]
        BY <1>1, <1>2
      <4> QED
        BY <3>3, <4>2, <4>3, <4>4
    <3> QED
      BY <3>2, <3>4 DEF Knows
  <2>3. \A y \in Trigger : Knows(run'[y], revision')
    BY <1>8, <2>1, <2>2
  <2> QED
    BY <2>3 DEF Knows
<1>10. \A a \in Object : locks'[a] # NoOne => Keeps(run[locks[a]], a)'
  <2>1. \A a \in Object : locks[a] # x
    BY <1>4, RunIs DEF Keeps, Held, Knows, Ended
  <2>2. \A a \in Object : locks[a] # NoOne => Keeps(run'[locks[a]], a)
    BY <1>1, <1>8, <2>1 DEF TriggersInv
  <2> QED
    BY <1>3, <2>2 DEF Keeps
<1>11. Dealt'
  <2>1. SUFFICES ASSUME NEW a \in Object, settled[a] # revision'[a]
                 PROVE  \E y \in Trigger : LooksAt(run'[y], a, revision')
    BY <1>3 DEF Dealt, LooksAt
  <2>2. CASE a = o
    BY <1>6, <1>8, <2>2 DEF LooksAt, Awake, n
  <2>3. CASE a # o
    <3>1. PICK y \in Trigger : LooksAt(run[y], a, revision)
      BY <1>2, <2>1, <2>3 DEF TriggersInv, Dealt
    <3>2. y # x
      BY <1>4, <3>1 DEF LooksAt, Awake
    <3> QED
      BY <1>2, <1>8, <2>3, <3>1, <3>2 DEF LooksAt
  <2> QED
    BY <2>2, <2>3
<1>12. \A y \in Trigger : Tells(journal[y], run[y], <<y, "finish">> \in unrecorded)'
  <2>1. Tells(journal[x], r, <<x, "finish">> \in unrecorded)
    BY <1>4, <1>6, RunIs DEF Tells
  <2>2. \A y \in Trigger : Tells(journal[y], run'[y], <<y, "finish">> \in unrecorded)
    BY <1>8, <2>1 DEF TriggersInv
  <2> QED
    BY <1>3, <2>2 DEF Tells
<1>13. \A a \in Object : settled[a] <= revision'[a]
  BY <1>1, <1>2
<1> QED
  BY <1>1, <1>2, <1>3, <1>8, <1>9, <1>10, <1>11, <1>12, <1>13 DEF TriggersInv

\* The changes of killed runs are known to be missed; their locks are free or
\* held by the dead, and what the journal says of them stays.
LEMMA KillSafe ==
  ASSUME TriggersInv, NEW some, some \subseteq {y \in Trigger : run[y].pc \notin Ended},
         NEW letGo, Kill(some, letGo), UNCHANGED <<revision, journal, unrecorded>>
  PROVE  TriggersInv'
<1>1. /\ run \in [Trigger -> Runs] /\ journal \in [Trigger -> Records]
      /\ locks \in [Object -> Trigger \union {NoOne}] /\ settled \in [Object -> Nat]
      /\ revision \in [Object -> Nat]
      /\ \A a \in Object : settled[a] <= revision[a]
  BY DEF TriggersInv
<1>2. /\ some \subseteq Trigger /\ \A y \in some : run[y].pc \notin Ended
      /\ revision' = revision /\ journal' = journal /\ unrecorded' = unrecorded
  OBVIOUS
<1>3. /\ run' = [y \in Trigger |-> IF y \in some THEN Remains(y, "killed") ELSE run[y]]
      /\ locks' = [o \in Object |-> IF locks[o] \in some \intersect letGo THEN NoOne ELSE locks[o]]
      /\ settled' = [o \in Object |->
           Max({settled[o]} \union {run[y].covers : y \in {z \in some : run[z].object = o}})]
  BY DEF Kill
<1>4. \A y \in some : /\ Remains(y, "killed") \in Runs
                      /\ Remains(y, "killed").pc = "killed"
                      /\ Knows(Remains(y, "killed"), revision)
  BY <1>2, RemainsIs DEF Ended
<1>5. /\ run' \in [Trigger -> Runs]
      /\ \A y \in some : run'[y].pc = "killed" /\ Knows(run'[y], revision)
      /\ \A y \in Trigger : y \notin some => run'[y] = run[y]
  <2>. DEFINE new(y) == IF y \in some THEN Remains(y, "killed") ELSE run[y]
  <2>1. \A y \in Trigger : new(y) \in Runs /\ (y \in some => new(y).pc = "killed" /\ Knows(new(y), revision))
                           /\ (y \notin some => new(y) = run[y])
    BY <1>1, <1>4
  <2>2. run' = [y \in Trigger |-> new(y)]
    BY <1>3
  <2>. HIDE DEF new
  <2> QED
    BY <1>2, <2>1, <2>2
<1>6. locks' \in [Object -> Trigger \union {NoOne}] /\ \A o \in Object : locks'[o] \in {locks[o], NoOne}
  BY <1>1, <1>3
<1>7. ASSUME NEW o \in Object
      PROVE  /\ settled'[o] \in Nat /\ settled[o] <= settled'[o] /\ settled'[o] <= revision[o]
             /\ \A y \in some : run[y].object = o => run[y].covers <= settled'[o]
  <2>. DEFINE S == {settled[o]} \union {run[y].covers : y \in {z \in some : run[z].object = o}}
  <2>1. \A y \in some : run[y].object = o => run[y].covers \in 0 .. revision[o]
    <3>1. SUFFICES ASSUME NEW y \in some, run[y].object = o
                   PROVE  run[y].covers \in 0 .. revision[o]
      OBVIOUS
    <3>2. run[y].covers \in Nat /\ run[y].covers <= revision[o]
      BY <1>2, <3>1, RunIs DEF Runs, Knows
    <3> QED
      BY <1>1, <3>2
  <2>2. S \in SUBSET (0 .. revision[o]) /\ S # {} /\ settled[o] \in S
        /\ \A y \in some : run[y].object = o => run[y].covers \in S
    BY <1>1, <2>1
  <2>3. settled'[o] = Max(S)
    BY <1>3
  <2>. HIDE DEF S
  <2>4. Max(S) \in S /\ \A n \in S : n <= Max(S)
    BY <1>1, <2>2, HasMax
  <2>5. Max(S) \in 0 .. revision[o] /\ settled[o] <= Max(S)
        /\ \A y \in some : run[y].object = o => run[y].covers <= Max(S)
    BY <2>2, <2>4
  <2> QED
    BY <1>1, <2>3, <2>5
<1>8. settled' \in [Object -> Nat]
  <2>. DEFINE top(o) == Max({settled[o]} \union {run[y].covers : y \in {z \in some : run[z].object = o}})
  <2>1. settled' = [o \in Object |-> top(o)]
    BY <1>3
  <2>. HIDE DEF top
  <2> QED
    BY <1>7, <2>1
<1>9. \A y \in Trigger : Knows(run[y], revision)'
  <2>1. \A y \in Trigger : Knows(run'[y], revision)
    BY <1>5 DEF TriggersInv
  <2> QED
    BY <1>2, <2>1 DEF Knows
<1>10. \A o \in Object : locks'[o] # NoOne => Keeps(run[locks[o]], o)'
  <2>1. SUFFICES ASSUME NEW o \in Object, locks'[o] # NoOne PROVE Keeps(run'[locks'[o]], o)
    BY DEF Keeps
  <2>2. locks'[o] = locks[o] /\ locks[o] \in Trigger /\ Keeps(run[locks[o]], o)
    BY <1>6, <2>1 DEF TriggersInv
  <2>3. run'[locks[o]].pc = "killed" \/ run'[locks[o]] = run[locks[o]]
    BY <1>5, <2>2
  <2> QED
    BY <2>2, <2>3 DEF Keeps
<1>11. Dealt'
  <2>1. SUFFICES ASSUME NEW o \in Object, settled'[o] # revision[o]
                 PROVE  \E y \in Trigger : LooksAt(run'[y], o, revision)
    BY <1>2 DEF Dealt, LooksAt
  <2>2. settled[o] # revision[o]
    BY <1>1, <1>7, <2>1
  <2>3. PICK y \in Trigger : LooksAt(run[y], o, revision)
    BY <2>2 DEF TriggersInv, Dealt
  <2>4. y \notin some
    <3>1. SUFFICES ASSUME y \in some PROVE FALSE
      OBVIOUS
    <3>2. revision[o] <= settled'[o]
      BY <1>7, <2>3, <3>1 DEF LooksAt
    <3> QED
      BY <1>1, <1>7, <2>1, <3>2
  <2> QED
    BY <1>5, <2>3, <2>4
<1>12. \A y \in Trigger : Tells(journal[y], run[y], <<y, "finish">> \in unrecorded)'
  <2>1. \A y \in Trigger : Tells(journal[y], run'[y], <<y, "finish">> \in unrecorded)
    <3>1. SUFFICES ASSUME NEW y \in Trigger, y \in some
                   PROVE  Tells(journal[y], run'[y], <<y, "finish">> \in unrecorded)
      BY <1>5 DEF TriggersInv
    <3>2. Tells(journal[y], run[y], <<y, "finish">> \in unrecorded) /\ run[y].pc # "over"
      BY <1>2, <3>1 DEF TriggersInv, Ended
    <3> QED
      BY <1>5, <3>1, <3>2 DEF Tells
  <2> QED
    BY <1>2, <2>1 DEF Tells
<1>13. \A o \in Object : settled'[o] <= revision[o]
  BY <1>7
<1> QED
  BY <1>1, <1>2, <1>5, <1>6, <1>8, <1>9, <1>10, <1>11, <1>12, <1>13 DEF TriggersInv

\* Records and locks expire.
LEMMA ExpirySafe ==
  ASSUME TriggersInv, \/ \E x \in Trigger : RecordExpires(x)
                      \/ \E o \in Object : TicketLockExpires(o)
  PROVE  TriggersInv'
<1>1. /\ journal \in [Trigger -> Records] /\ locks \in [Object -> Trigger \union {NoOne}]
      /\ run' = run /\ revision' = revision /\ settled' = settled /\ unrecorded' = unrecorded
  BY DEF TriggersInv, RecordExpires, TicketLockExpires, tickets, records
<1>2. journal' \in [Trigger -> Records] /\ \A y \in Trigger : journal'[y] = journal[y] \/ journal'[y].status = "none"
  <2>1. CASE journal' = journal
    BY <1>1, <2>1
  <2>2. CASE \E x \in Trigger : journal' = [journal EXCEPT ![x] = NoRecord]
    BY <1>1, <2>2, NoRecordIs
  <2> QED
    BY <2>1, <2>2 DEF RecordExpires, TicketLockExpires, records
<1>3. /\ locks' \in [Object -> Trigger \union {NoOne}]
      /\ \A o \in Object : locks'[o] = locks[o] \/ locks'[o] = NoOne
  BY <1>1 DEF RecordExpires, TicketLockExpires, tickets
<1>4. \A y \in Trigger : Tells(journal[y], run[y], <<y, "finish">> \in unrecorded)'
  <2>1. \A y \in Trigger : Tells(journal'[y], run[y], <<y, "finish">> \in unrecorded)
    BY <1>2 DEF TriggersInv, Tells
  <2> QED
    BY <1>1, <2>1 DEF Tells
<1>5. \A o \in Object : locks'[o] # NoOne => Keeps(run[locks[o]], o)'
  <2>1. \A o \in Object : locks'[o] # NoOne => Keeps(run[locks'[o]], o)
    BY <1>3 DEF TriggersInv
  <2> QED
    BY <1>1, <2>1 DEF Keeps
<1>6. Dealt' /\ \A y \in Trigger : Knows(run[y], revision)'
  BY <1>1 DEF TriggersInv, Dealt, LooksAt, Knows
<1> QED
  BY <1>1, <1>2, <1>3, <1>4, <1>5, <1>6 DEF TriggersInv

\* Steps that leave the runs, the tickets and the records alone.
LEMMA StillSafe ==
  ASSUME TriggersInv, UNCHANGED <<run, tickets, journal, unrecorded>>
  PROVE  TriggersInv'
<1>1. /\ run' = run /\ locks' = locks /\ revision' = revision /\ settled' = settled
      /\ journal' = journal /\ unrecorded' = unrecorded
  BY DEF tickets
<1>2. Dealt' /\ \A y \in Trigger : Knows(run[y], revision)'
  BY <1>1 DEF TriggersInv, Dealt, LooksAt, Knows
<1>3. /\ \A o \in Object : locks'[o] # NoOne => Keeps(run[locks[o]], o)'
      /\ \A y \in Trigger : Tells(journal[y], run[y], <<y, "finish">> \in unrecorded)'
  BY <1>1 DEF TriggersInv, Keeps, Tells
<1> QED
  BY <1>1, <1>2, <1>3 DEF TriggersInv

\* A shutdown in its two steps, and a crash.
LEMMA ProcessSafe ==
  ASSUME TriggersInv, NEW a \in Host, StopLoops(a) \/ Exit(a) \/ ReplicaDies(a)
  PROVE  TriggersInv'
<1>1. PICK some \in SUBSET RunsOf(a), letGo \in SUBSET Trigger : Kill(some, letGo)
  <2>1. CASE StopLoops(a)
    BY <2>1 DEF StopLoops, RunsOf
  <2>2. CASE Exit(a)
    BY <2>2 DEF Exit, RunsOf
  <2>3. CASE ReplicaDies(a)
    BY <2>3 DEF ReplicaDies, RunsOf
  <2> QED
    BY <2>1, <2>2, <2>3
<1>2. some \subseteq {y \in Trigger : run[y].pc \notin Ended}
  BY DEF RunsOf
<1>3. UNCHANGED <<revision, journal, unrecorded>>
  BY DEF StopLoops, Exit, ReplicaDies, records
<1> QED
  BY <1>1, <1>2, <1>3, KillSafe

-----------------------------------------------------------------------------
(* Theorems. *)

\* Whatever entry points, frame, journal and processes do, what is recorded of the
\* runs, the tickets and the locks stays consistent (pipelines/runner.py, shell.py).
THEOREM TriggersInvariant == TriggersSpec => []TriggersInv
<1>1. TriggersInv /\ [TriggersNext]_triggerVars => TriggersInv'
  <2> SUFFICES ASSUME TriggersInv, [TriggersNext]_triggerVars PROVE TriggersInv'
    OBVIOUS
  <2>1. ASSUME NEW o \in Object, Change(o) \/ TicketLockExpires(o) PROVE TriggersInv'
    BY <2>1, ChangeSafe, ExpirySafe
  <2>2. ASSUME NEW x \in Trigger, RefuseWebhook(x) \/ Fails(x) \/ AcquireUnanswered(x) \/ RecordExpires(x)
        PROVE  TriggersInv'
    BY <2>2, RefusedSafe, FailsSafe, UnansweredSafe, ExpirySafe
  <2>3. ASSUME NEW x \in Trigger, FrameStep(x) PROVE TriggersInv'
    BY <2>3, FrameSafe, StartSafe, AcquireSafe, HeldSafe, DoneSafe, ReleaseSafe, FinishSafe
       DEF FrameStep
  <2>4. ASSUME NEW x \in Trigger, NEW a \in Host,
               ReceiveWebhook(x, a) \/ RunSchedule(x, a) \/ \E o \in Object : RunRequest(x, o, a)
        PROVE  TriggersInv'
    BY <2>4, EntrySafe
  <2>5. CASE ListRuns \/ ReadRecords \/ Prune
    BY <2>5, StillSafe DEF ListRuns, ReadRecords, Prune, records
  <2>6. ASSUME NEW a \in Host, StopLoops(a) \/ Exit(a) \/ ReplicaDies(a) \/ Boot(a)
        PROVE  TriggersInv'
    <3>1. CASE Boot(a)
      BY <3>1, StillSafe DEF Boot, records
    <3>2. CASE StopLoops(a) \/ Exit(a) \/ ReplicaDies(a)
      BY <3>2, ProcessSafe
    <3> QED
      BY <2>6, <3>1, <3>2
  <2>7. CASE UNCHANGED triggerVars
    BY <2>7, StillSafe DEF triggerVars, records, tickets
  <2> QED
    BY <2>1, <2>2, <2>3, <2>4, <2>5, <2>6, <2>7 DEF TriggersNext
<1> QED
  BY <1>1, InitTriggers, PTL DEF TriggersSpec

\* The latest change of a ticket nobody works on was dealt with, or its trigger is
\* known to have come to nothing (pipelines/shell.py 109, webhook/router.py).
THEOREM ChangesAreAccountedFor == TriggersSpec => []NothingIgnored
<1>1. TriggersInv => NothingIgnored
  <2>1. SUFFICES ASSUME TriggersInv, NEW o \in Object,
                        \A x \in Trigger : run[x].object = o => run[x].pc \in Ended
                 PROVE  settled[o] = revision[o]
    BY DEF NothingIgnored
  <2> QED
    BY <2>1 DEF TriggersInv, Dealt, LooksAt, Awake, Ended
<1> QED
  BY <1>1, TriggersInvariant, PTL

\* The journal and the run tell the same, unless the write of the outcome was lost
\* (pipelines/runner.py 97, state/journal.py).
THEOREM JournalIsTrue == TriggersSpec => []JournalTellsTruth
<1>1. TriggersInv => JournalTellsTruth
  BY DEF TriggersInv, JournalTellsTruth, Tells, IsAt
<1> QED
  BY <1>1, TriggersInvariant, PTL

-----------------------------------------------------------------------------
(* How a run gets on. *)

\* Where a run has not been counted yet, or not started in the journal.
Uncounted == {"unused", "sent", "count", "rejected"}
Unbegun == Uncounted \union {"start"}
Closed == {"finish", "over", "killed"}
Decided == {"release", "tally", "finish", "over"}

\* A run goes from r to q, and never back.
Advances(r, q) ==
  /\ r.pc # "unused" => q.pc # "unused"
  /\ r.pc \in Ended => q.pc = r.pc
  /\ r.pc \notin Unbegun => q.pc \notin Unbegun

\* It does so with nothing counted on the way.
Steady(r, q) ==
  /\ Advances(r, q)
  /\ r.pc \notin Uncounted => q.pc \notin Uncounted
  /\ q.pc \notin Uncounted \union {"killed"} => r.pc \notin Uncounted
  /\ q.pc \in {"finish", "over"} => r.pc \in {"finish", "over"}
  /\ r.pc \in Closed => q.pc \in Closed /\ q.outcome = r.outcome
  /\ q.pc \in Decided => q.outcome # "none" \/ (r.pc \in Decided /\ q.outcome = r.outcome)

LEMMA SteadyStep ==
  ASSUME TriggersInv, NEW x \in Trigger, NEW y \in Trigger,
         \/ RefuseWebhook(x) \/ Fails(x) \/ AcquireUnanswered(x) \/ RecordExpires(x)
         \/ JournalStart(x) \/ Acquire(x) \/ TicketLockHeld(x) \/ FetchTicket(x) \/ Done(x) \/ CheckDone(x)
         \/ Release(x) \/ JournalFinish(x)
  PROVE  Steady(run[y], run'[y])
<1>1. run \in [Trigger -> Runs] /\ run[x] \in Runs /\ run[y] \in Runs
  BY RunIs DEF TriggersInv
<1>. USE DEF Steady, Advances, Uncounted, Unbegun, Closed, Decided, Ended, IsAt, GoesTo, End
<1>2. CASE RefuseWebhook(x)
  BY <1>1, <1>2, RemainsIs DEF RefuseWebhook
<1>3. CASE Fails(x)
  BY <1>1, <1>3 DEF Fails, Runs
<1>4. CASE AcquireUnanswered(x)
  BY <1>1, <1>4 DEF AcquireUnanswered, Runs
<1>5. CASE RecordExpires(x)
  BY <1>1, <1>5 DEF RecordExpires
<1>6. CASE JournalStart(x)
  BY <1>1, <1>6 DEF JournalStart, Runs
<1>7. CASE Acquire(x)
  BY <1>1, <1>7 DEF Acquire, Runs
<1>8. CASE TicketLockHeld(x)
  BY <1>1, <1>8 DEF TicketLockHeld, Runs
<1>9. CASE FetchTicket(x)
  BY <1>1, <1>9 DEF FetchTicket, Runs
<1>10. CASE Done(x)
  BY <1>1, <1>10 DEF Done, Runs
<1>11. CASE CheckDone(x)
  BY <1>1, <1>11 DEF CheckDone, Runs
<1>12. CASE Release(x)
  BY <1>1, <1>12 DEF Release, Runs
<1>13. CASE JournalFinish(x)
  BY <1>1, <1>13, RemainsIs DEF JournalFinish
<1> QED
  BY <1>2, <1>3, <1>4, <1>5, <1>6, <1>7, <1>8, <1>9, <1>10, <1>11, <1>12, <1>13

LEMMA SteadyAround ==
  ASSUME TriggersInv, NEW y \in Trigger,
         \/ \E o \in Object : Change(o) \/ TicketLockExpires(o)
         \/ \E x \in Trigger, a \in Host :
              ReceiveWebhook(x, a) \/ RunSchedule(x, a) \/ \E o \in Object : RunRequest(x, o, a)
         \/ \E a \in Host : StopLoops(a) \/ Exit(a) \/ ReplicaDies(a) \/ Boot(a)
         \/ ListRuns \/ ReadRecords \/ Prune \/ UNCHANGED triggerVars
  PROVE  Steady(run[y], run'[y])
<1>1. run \in [Trigger -> Runs] /\ run[y] \in Runs
  BY RunIs DEF TriggersInv
<1>. USE DEF Steady, Advances, Uncounted, Unbegun, Closed, Decided, Ended, IsAt
<1>2. ASSUME NEW o \in Object, Change(o) PROVE Steady(run[y], run'[y])
  <2>. DEFINE r(n) == [Unused EXCEPT !.pc = "sent", !.object = o, !.covers = n]
  <2>1. PICK x \in Trigger : run[x].pc = "unused" /\ run' = [run EXCEPT ![x] = r(revision'[o])]
    BY <1>2 DEF Change
  <2>2. \A n : r(n).pc = "sent" /\ r(n).outcome = "none"
    BY DEF Unused
  <2>. HIDE DEF r
  <2>3. run'[y] = IF y = x THEN r(revision'[o]) ELSE run[y]
    BY <1>1, <2>1
  <2> QED
    BY <1>1, <2>1, <2>2, <2>3
<1>3. ASSUME NEW x \in Trigger, NEW a \in Host, ReceiveWebhook(x, a)
      PROVE  Steady(run[y], run'[y])
  BY <1>1, <1>3, RunIs DEF ReceiveWebhook, Runs
<1>4. ASSUME NEW x \in Trigger, NEW a \in Host, RunSchedule(x, a) \/ \E o \in Object : RunRequest(x, o, a)
      PROVE  Steady(run[y], run'[y])
  <2>1. PICK q \in {[Unused EXCEPT !.pc = "count", !.kind = "schedule", !.replica = a]}
                  \union {[Unused EXCEPT !.pc = "count", !.kind = "request", !.object = o,
                                        !.replica = a] : o \in Object} :
          run' = [run EXCEPT ![x] = q]
    BY <1>4 DEF RunSchedule, RunRequest
  <2>2. q.pc = "count" /\ q.outcome = "none" /\ run[x].pc = "unused"
    BY <1>4, <2>1 DEF RunSchedule, RunRequest, Unused
  <2>3. run'[y] = IF y = x THEN q ELSE run[y]
    BY <1>1, <2>1
  <2>. HIDE DEF IsAt
  <2> QED
    BY <1>1, <2>2, <2>3
<1>5. ASSUME NEW some \in SUBSET {x \in Trigger : run[x].pc \notin Ended}, NEW letGo, Kill(some, letGo)
      PROVE  Steady(run[y], run'[y])
  <2>1. run'[y] = IF y \in some THEN Remains(y, "killed") ELSE run[y]
    BY <1>5 DEF Kill
  <2>2. CASE y \in some
    BY <2>1, <2>2, RemainsIs
  <2>3. CASE y \notin some
    BY <2>1, <2>3
  <2> QED
    BY <2>2, <2>3
<1>6. ASSUME NEW a \in Host, StopLoops(a) \/ Exit(a) \/ ReplicaDies(a)
      PROVE  Steady(run[y], run'[y])
  <2>1. PICK some \in SUBSET RunsOf(a), letGo \in SUBSET Trigger : Kill(some, letGo)
    <3>1. CASE StopLoops(a)
      BY <3>1 DEF StopLoops, RunsOf
    <3>2. CASE Exit(a)
      BY <3>2 DEF Exit, RunsOf
    <3>3. CASE ReplicaDies(a)
      BY <3>3 DEF ReplicaDies, RunsOf
    <3> QED
      BY <1>6, <3>1, <3>2, <3>3
  <2> QED
    BY <1>5, <2>1 DEF RunsOf
<1>7. CASE run' = run
  BY <1>1, <1>7
<1>8. ASSUME \/ \E o \in Object : TicketLockExpires(o)
             \/ \E a \in Host : Boot(a)
             \/ ListRuns \/ ReadRecords \/ Prune \/ UNCHANGED triggerVars
      PROVE  run' = run
  BY <1>8 DEF TicketLockExpires, Boot, ListRuns, ReadRecords, Prune, triggerVars
<1> QED
  BY <1>2, <1>3, <1>4, <1>6, <1>7, <1>8

-----------------------------------------------------------------------------
(* The counters. *)

\* S, F and K are the runs counted as started, as failed and as skipped.
CountedIn(r, x, S, F, K, losses) ==
  /\ x \in S => r.pc \notin Uncounted
  /\ r.pc \notin Uncounted \union {"killed"} => x \in S \/ <<x, "started">> \in losses
  /\ x \in F => r.outcome = "failed"
  /\ x \in K => r.outcome = "skipped"
  /\ x \in F \union K => r.pc \in Closed /\ (x \in S \/ <<x, "started">> \in losses)
  /\ r.pc \in {"finish", "over"} =>
       /\ r.outcome = "failed" => x \in F \/ <<x, "failed">> \in losses
       /\ r.outcome = "skipped" => x \in K \/ <<x, "skipped">> \in losses
  /\ r.pc \in Decided => r.outcome # "none"

Tally(S, F, K, tally) ==
  /\ tally["started"] = Cardinality(S)
  /\ tally["failed"] = Cardinality(F)
  /\ tally["skipped"] = Cardinality(K)

Counted ==
  /\ counters \in [Counter -> Nat]
  /\ \E S, F, K \in SUBSET Trigger :
       /\ Tally(S, F, K, counters)
       /\ \A x \in Trigger : CountedIn(run[x], x, S, F, K, unrecorded)

LEMMA InitCounted == TriggersInit => Counted
<1>1. SUFFICES ASSUME TriggersInit PROVE Counted
  OBVIOUS
<1>2. Tally({}, {}, {}, counters) /\ counters \in [Counter -> Nat]
  BY <1>1, FS_EmptySet DEF TriggersInit, Tally, Counter
<1>3. \A x \in Trigger : CountedIn(run[x], x, {}, {}, {}, unrecorded)
  BY <1>1, UnusedIs DEF TriggersInit, CountedIn, Uncounted, Decided
<1>4. {} \in SUBSET Trigger
  OBVIOUS
<1> QED
  BY <1>2, <1>3, <1>4 DEF Counted

LEMMA CountedStays ==
  ASSUME Counted, UNCHANGED counters, unrecorded \subseteq unrecorded',
         \A x \in Trigger : Steady(run[x], run'[x])
  PROVE  Counted'
<1>1. PICK S \in SUBSET Trigger, F \in SUBSET Trigger, K \in SUBSET Trigger :
        /\ Tally(S, F, K, counters)
        /\ \A x \in Trigger : CountedIn(run[x], x, S, F, K, unrecorded)
  BY DEF Counted
<1>2. ASSUME NEW x \in Trigger PROVE CountedIn(run'[x], x, S, F, K, unrecorded')
  <2>1. CountedIn(run[x], x, S, F, K, unrecorded) /\ Steady(run[x], run'[x])
    BY <1>1
  <2> QED
    BY <2>1 DEF CountedIn, Steady, Advances, Uncounted, Closed, Decided, Ended
<1>3. Tally(S, F, K, counters') /\ counters' \in [Counter -> Nat]
  BY <1>1 DEF Counted
<1>4. \E S1, F1, K1 \in SUBSET Trigger :
        /\ Tally(S1, F1, K1, counters')
        /\ \A x \in Trigger : CountedIn(run'[x], x, S1, F1, K1, unrecorded')
  BY <1>1, <1>2, <1>3
<1> QED
  BY <1>3, <1>4 DEF Counted, CountedIn, Tally

\* One more run is counted.
LEMMA OneMore ==
  ASSUME NEW S \in SUBSET Trigger, NEW x \in Trigger, x \notin S
  PROVE  /\ S \union {x} \in SUBSET Trigger
         /\ Cardinality(S \union {x}) = Cardinality(S) + 1
<1>1. IsFiniteSet(S)
  BY FS_Subset
<1> QED
  BY <1>1, FS_AddElement

LEMMA TriggerCounted ==
  ASSUME TriggersInv, Counted, NEW x \in Trigger, CountTrigger(x) PROVE Counted'
<1>1. PICK S \in SUBSET Trigger, F \in SUBSET Trigger, K \in SUBSET Trigger :
        /\ Tally(S, F, K, counters)
        /\ \A y \in Trigger : CountedIn(run[y], y, S, F, K, unrecorded)
  BY DEF Counted
<1>2. counters \in [Counter -> Nat]
  BY DEF Counted
<1>3. /\ run' = [run EXCEPT ![x].pc = "start"] /\ run[x].pc = "count"
      /\ run \in [Trigger -> Runs] /\ run[x] \in Runs
  BY RunIs DEF CountTrigger, IsAt, GoesTo, TriggersInv
<1>4. /\ run'[x].pc = "start" /\ run'[x].outcome = run[x].outcome
      /\ \A y \in Trigger : y # x => run'[y] = run[y]
  BY <1>3 DEF Runs
<1>5. CountedIn(run[x], x, S, F, K, unrecorded)
  BY <1>1
<1>6. x \notin S /\ x \notin F /\ x \notin K
  BY <1>3, <1>5 DEF CountedIn, Uncounted, Closed
<1>7. CASE counters' = [counters EXCEPT !["started"] = @ + 1] /\ unrecorded' = unrecorded
  <2>. DEFINE T == S \union {x}
  <2>1. T \in SUBSET Trigger /\ Cardinality(T) = Cardinality(S) + 1
    BY <1>6, OneMore
  <2>2. Tally(T, F, K, counters') /\ counters' \in [Counter -> Nat]
    BY <1>1, <1>2, <1>7, <2>1 DEF Tally, Counter
  <2>3. \A y \in Trigger : CountedIn(run'[y], y, T, F, K, unrecorded')
    <3>1. CountedIn(run'[x], x, T, F, K, unrecorded')
      BY <1>4, <1>6 DEF CountedIn, Uncounted, Decided
    <3>2. ASSUME NEW y \in Trigger, y # x PROVE CountedIn(run'[y], y, T, F, K, unrecorded')
      BY <1>1, <1>4, <1>7, <3>2 DEF CountedIn
    <3> QED
      BY <3>1, <3>2
  <2>4. \E S1, F1, K1 \in SUBSET Trigger :
          /\ Tally(S1, F1, K1, counters')
          /\ \A y \in Trigger : CountedIn(run'[y], y, S1, F1, K1, unrecorded')
    BY <1>1, <2>1, <2>2, <2>3
  <2> QED
    BY <2>2, <2>4 DEF Counted, CountedIn, Tally
<1>8. CASE counters' = counters /\ unrecorded' = unrecorded \union {<<x, "started">>}
  <2>1. \A y \in Trigger : CountedIn(run'[y], y, S, F, K, unrecorded')
    <3>1. CountedIn(run'[x], x, S, F, K, unrecorded')
      BY <1>4, <1>6, <1>8 DEF CountedIn, Uncounted, Decided
    <3>2. ASSUME NEW y \in Trigger, y # x PROVE CountedIn(run'[y], y, S, F, K, unrecorded')
      BY <1>1, <1>4, <1>8, <3>2 DEF CountedIn
    <3> QED
      BY <3>1, <3>2
  <2>2. \E S1, F1, K1 \in SUBSET Trigger :
          /\ Tally(S1, F1, K1, counters')
          /\ \A y \in Trigger : CountedIn(run'[y], y, S1, F1, K1, unrecorded')
    BY <1>1, <1>8, <2>1
  <2> QED
    BY <1>2, <1>8, <2>2 DEF Counted, CountedIn, Tally
<1> QED
  BY <1>7, <1>8 DEF CountTrigger, Bump

LEMMA OutcomeCounted ==
  ASSUME TriggersInv, Counted, NEW x \in Trigger, CountOutcome(x) PROVE Counted'
<1>1. PICK S \in SUBSET Trigger, F \in SUBSET Trigger, K \in SUBSET Trigger :
        /\ Tally(S, F, K, counters)
        /\ \A y \in Trigger : CountedIn(run[y], y, S, F, K, unrecorded)
  BY DEF Counted
<1>2. counters \in [Counter -> Nat]
  BY DEF Counted
<1>3. /\ run' = [run EXCEPT ![x].pc = "finish"] /\ run[x].pc = "tally"
      /\ run \in [Trigger -> Runs] /\ run[x] \in Runs
  BY RunIs DEF CountOutcome, IsAt, GoesTo, TriggersInv
<1>. DEFINE c == run[x].outcome
<1>4. /\ run'[x].pc = "finish" /\ run'[x].outcome = c
      /\ \A y \in Trigger : y # x => run'[y] = run[y]
  BY <1>3 DEF Runs
<1>5. CountedIn(run[x], x, S, F, K, unrecorded)
  BY <1>1
<1>6. x \notin F /\ x \notin K /\ (x \in S \/ <<x, "started">> \in unrecorded)
  BY <1>3, <1>5 DEF CountedIn, Uncounted, Closed
<1>7. c \in {"done", "failed", "skipped"}
  BY <1>3, <1>5 DEF CountedIn, Decided, Runs, Outcome
<1>. HIDE DEF c
\* F1 and K1 count x as it ended, or the count is lost.
<1>8. \E F1, K1 \in SUBSET Trigger :
        /\ Tally(S, F1, K1, counters') /\ counters' \in [Counter -> Nat]
        /\ unrecorded \subseteq unrecorded'
        /\ \A y \in Trigger : y # x => (y \in F1 <=> y \in F) /\ (y \in K1 <=> y \in K)
        /\ x \in F1 => c = "failed"
        /\ x \in K1 => c = "skipped"
        /\ c = "failed" => x \in F1 \/ <<x, "failed">> \in unrecorded'
        /\ c = "skipped" => x \in K1 \/ <<x, "skipped">> \in unrecorded'
  <2>1. CASE c = "done"
    <3>1. counters' = counters /\ unrecorded' = unrecorded
      BY <2>1 DEF CountOutcome, c
    <3> QED
      BY <1>1, <1>2, <1>6, <2>1, <3>1
  <2>2. CASE c = "failed"
    <3>1. Bump(x, "failed")
      BY <2>2 DEF CountOutcome, c
    <3>2. CASE counters' = counters /\ unrecorded' = unrecorded \union {<<x, "failed">>}
      BY <1>1, <1>2, <1>6, <2>2, <3>2
    <3>3. CASE counters' = [counters EXCEPT !["failed"] = @ + 1] /\ unrecorded' = unrecorded
      <4>. DEFINE T == F \union {x}
      <4>1. T \in SUBSET Trigger /\ Cardinality(T) = Cardinality(F) + 1
        BY <1>6, OneMore
      <4>2. Tally(S, T, K, counters') /\ counters' \in [Counter -> Nat]
        BY <1>1, <1>2, <3>3, <4>1 DEF Tally, Counter
      <4>3. x \in T /\ \A y \in Trigger : y # x => (y \in T <=> y \in F)
        OBVIOUS
      <4>. HIDE DEF T
      <4> QED
        BY <1>1, <1>6, <2>2, <3>3, <4>1, <4>2, <4>3
    <3> QED
      BY <3>1, <3>2, <3>3 DEF Bump
  <2>3. CASE c = "skipped"
    <3>1. Bump(x, "skipped")
      BY <2>3 DEF CountOutcome, c
    <3>2. CASE counters' = counters /\ unrecorded' = unrecorded \union {<<x, "skipped">>}
      BY <1>1, <1>2, <1>6, <2>3, <3>2
    <3>3. CASE counters' = [counters EXCEPT !["skipped"] = @ + 1] /\ unrecorded' = unrecorded
      <4>. DEFINE T == K \union {x}
      <4>1. T \in SUBSET Trigger /\ Cardinality(T) = Cardinality(K) + 1
        BY <1>6, OneMore
      <4>2. Tally(S, F, T, counters') /\ counters' \in [Counter -> Nat]
        BY <1>1, <1>2, <3>3, <4>1 DEF Tally, Counter
      <4>3. x \in T /\ \A y \in Trigger : y # x => (y \in T <=> y \in K)
        OBVIOUS
      <4>. HIDE DEF T
      <4> QED
        BY <1>1, <1>6, <2>3, <3>3, <4>1, <4>2, <4>3
    <3> QED
      BY <3>1, <3>2, <3>3 DEF Bump
  <2> QED
    BY <1>7, <2>1, <2>2, <2>3
<1>9. PICK F1 \in SUBSET Trigger, K1 \in SUBSET Trigger :
        /\ Tally(S, F1, K1, counters') /\ counters' \in [Counter -> Nat]
        /\ unrecorded \subseteq unrecorded'
        /\ \A y \in Trigger : y # x => (y \in F1 <=> y \in F) /\ (y \in K1 <=> y \in K)
        /\ x \in F1 => c = "failed"
        /\ x \in K1 => c = "skipped"
        /\ c = "failed" => x \in F1 \/ <<x, "failed">> \in unrecorded'
        /\ c = "skipped" => x \in K1 \/ <<x, "skipped">> \in unrecorded'
  BY <1>8
<1>10. ASSUME NEW y \in Trigger PROVE CountedIn(run'[y], y, S, F1, K1, unrecorded')
  <2>1. CASE y = x
    BY <1>4, <1>6, <1>7, <1>9, <2>1 DEF CountedIn, Uncounted, Closed, Decided
  <2>2. CASE y # x
    <3>1. CountedIn(run[y], y, S, F, K, unrecorded) /\ run'[y] = run[y]
      BY <1>1, <1>4, <2>2
    <3> QED
      BY <1>9, <2>2, <3>1 DEF CountedIn
  <2> QED
    BY <2>1, <2>2
<1>11. \E S2, F2, K2 \in SUBSET Trigger :
         /\ Tally(S2, F2, K2, counters')
         /\ \A y \in Trigger : CountedIn(run'[y], y, S2, F2, K2, unrecorded')
  BY <1>1, <1>9, <1>10
<1> QED
  BY <1>9, <1>11 DEF Counted, CountedIn, Tally

\* What the counters say once nothing is under way.
LEMMA CountedAgrees == ASSUME TriggersInv, Counted PROVE CountsAgree
<1>1. SUFFICES ASSUME unrecorded \intersect (Trigger \X Counter) = {},
                      \A x \in Trigger : run[x].pc \in {"unused", "sent"} \union Ended
               PROVE  counters["started"] - counters["failed"] - counters["skipped"]
                        - Cardinality(Outcomes("done")) \in 0 .. Cardinality(Killed)
  BY DEF CountsAgree
<1>2. PICK S \in SUBSET Trigger, F \in SUBSET Trigger, K \in SUBSET Trigger :
        /\ Tally(S, F, K, counters)
        /\ \A x \in Trigger : CountedIn(run[x], x, S, F, K, unrecorded)
  BY DEF Counted
<1>3. \A x \in Trigger : run[x] \in Runs /\ CountedIn(run[x], x, S, F, K, unrecorded)
                         /\ \A c \in Counter : <<x, c>> \notin unrecorded
  <2>1. \A x \in Trigger : run[x] \in Runs
    BY RunIs
  <2>2. \A x \in Trigger, c \in Counter : <<x, c>> \notin unrecorded
    <3>1. ASSUME NEW x \in Trigger, NEW c \in Counter, <<x, c>> \in unrecorded PROVE FALSE
      <4>1. <<x, c>> \in unrecorded \intersect (Trigger \X Counter)
        BY <3>1
      <4> QED
        BY <1>1, <4>1
    <3> QED
      BY <3>1
  <2> QED
    BY <1>2, <2>1, <2>2
<1>. DEFINE D == Outcomes("done")
            rest == S \ (F \union K)
            more == rest \ D
<1>4. F \subseteq S /\ K \subseteq S /\ F \intersect K = {}
  BY <1>3 DEF CountedIn, Counter
<1>5. D \subseteq rest
  BY <1>3 DEF CountedIn, Counter, Outcomes, IsAt, Uncounted
<1>6. more \subseteq Killed
  <2>1. SUFFICES ASSUME NEW x \in Trigger, x \in S, x \notin F, x \notin K, x \notin D
                 PROVE  run[x].pc = "killed"
    BY DEF Killed, IsAt
  <2>2. run[x].pc \in {"over", "killed"}
    BY <1>1, <1>3, <2>1 DEF CountedIn, Uncounted, Ended
  <2>3. CASE run[x].pc = "over"
    <3>1. run[x].outcome \in {"done", "failed", "skipped"}
      BY <1>3, <2>3 DEF CountedIn, Decided, Runs, Outcome
    <3> QED
      BY <1>3, <2>1, <2>3, <3>1 DEF CountedIn, Counter, Outcomes, IsAt
  <2> QED
    BY <2>2, <2>3
<1>7. IsFiniteSet(S) /\ IsFiniteSet(F) /\ IsFiniteSet(K) /\ IsFiniteSet(Killed)
  BY FS_Subset DEF Killed
<1>8. IsFiniteSet(rest) /\ IsFiniteSet(F \union K) /\ IsFiniteSet(D) /\ IsFiniteSet(more)
  <2>1. rest \subseteq S /\ more \subseteq S /\ F \union K \subseteq S /\ D \subseteq S
    BY <1>4, <1>5
  <2>. HIDE DEF rest, more, D
  <2> QED
    BY <1>7, <2>1, FS_Subset
<1>9. Cardinality(F \union K) = Cardinality(F) + Cardinality(K)
  <2>1. Cardinality(F \intersect K) = 0
    BY <1>4, FS_EmptySet
  <2>2. Cardinality(F \union K) = Cardinality(F) + Cardinality(K) - Cardinality(F \intersect K)
    BY <1>7, FS_Union
  <2>3. Cardinality(F) \in Nat /\ Cardinality(K) \in Nat
    BY <1>7, FS_CardinalityType
  <2> QED
    BY <2>1, <2>2, <2>3
<1>10. Cardinality(rest) = Cardinality(S) - Cardinality(F \union K)
  <2>1. S \intersect (F \union K) = F \union K
    BY <1>4
  <2> QED
    BY <1>7, <2>1, FS_Difference
<1>11. Cardinality(more) = Cardinality(rest) - Cardinality(D)
  <2>1. rest \intersect D = D
    BY <1>5
  <2>. HIDE DEF rest, D
  <2> QED
    BY <1>8, <2>1, FS_Difference
<1>12. Cardinality(more) <= Cardinality(Killed)
  <2>. HIDE DEF more
  <2> QED
    BY <1>6, <1>7, FS_Subset
<1>. HIDE DEF more, rest, D
<1>13. /\ Cardinality(S) \in Nat /\ Cardinality(F) \in Nat /\ Cardinality(K) \in Nat
       /\ Cardinality(rest) \in Nat /\ Cardinality(D) \in Nat /\ Cardinality(more) \in Nat
       /\ Cardinality(Killed) \in Nat /\ Cardinality(F \union K) \in Nat
  BY <1>7, <1>8, FS_CardinalityType
<1>14. counters["started"] - counters["failed"] - counters["skipped"] - Cardinality(D)
         = Cardinality(more)
  BY <1>2, <1>9, <1>10, <1>11, <1>13 DEF Tally
<1> QED
  BY <1>12, <1>13, <1>14 DEF D

-----------------------------------------------------------------------------
(* The index of the journal. *)

Begun == {x \in Trigger : run[x].pc \notin Unbegun}
Used == {x \in Trigger : run[x].pc # "unused"}

\* What the index or a reader holds was started, with a whole record that is there
\* until the run is over.
Filed(r, record) ==
  /\ r.pc \notin Unbegun
  /\ r.pc \in Ended \/ record.whole
  /\ record.status = "none" \/ record.whole

Readers == [pc : {"idle", "reading", "pruning"}, ids : SUBSET Trigger]

Indexed ==
  /\ index \in [Trigger -> Nat]
  /\ \A x \in Trigger : index[x] <= Cardinality(Begun)
  /\ \A x, y \in Listed(index) : index[x] = index[y] => x = y
  /\ Cardinality(Listed(index)) <= MaxListed
  /\ reader \in Readers
  /\ \A x \in Listed(index) \union reader.ids : Filed(run[x], journal[x])
  /\ reader.pc = "pruning" => \A x \in reader.ids : ~journal[x].whole
  /\ \A x \in Trigger : journal[x].status = "none" => ~journal[x].whole
  /\ \A x \in Trigger : journal[x].whole /\ index[x] = 0 => Cardinality(Begun \ {x}) >= MaxListed

LEMMA Sizes ==
  ASSUME NEW S \in SUBSET Trigger, NEW T \in SUBSET S
  PROVE  /\ Cardinality(S) \in Nat /\ Cardinality(T) \in Nat
         /\ Cardinality(T) <= Cardinality(S)
<1>1. IsFiniteSet(S)
  BY FS_Subset
<1>2. IsFiniteSet(T) /\ Cardinality(T) <= Cardinality(S)
  BY <1>1, FS_Subset
<1> QED
  BY <1>1, <1>2, FS_CardinalityType

\* Of a sorted set whose scores differ, the newest k are k or fewer.
LEMMA NewestAreFew ==
  ASSUME NEW scores \in [Trigger -> Nat], NEW k \in Nat,
         \A x, y \in Listed(scores) : scores[x] = scores[y] => x = y
  PROVE  Cardinality(Listed(NewestOf(scores, k))) <= k
<1>. DEFINE above(x) == {y \in Trigger : scores[y] > scores[x]}
            L == Listed(NewestOf(scores, k))
<1>1. \A x \in L : x \in Trigger /\ x \in Listed(scores) /\ Cardinality(above(x)) < k
  <2>1. SUFFICES ASSUME NEW x \in Trigger, NewestOf(scores, k)[x] # 0
                 PROVE  scores[x] # 0 /\ Cardinality(above(x)) < k
    BY DEF Listed
  <2>2. NewestOf(scores, k)[x] = IF Cardinality(above(x)) < k THEN scores[x] ELSE 0
    BY DEF NewestOf
  <2> QED
    BY <2>1, <2>2
<1>2. CASE L = {}
  BY <1>2, FS_EmptySet
<1>3. CASE L # {}
  <2>. DEFINE T == {scores[x] : x \in L}
  <2>0. L # {} /\ \A x \in L : scores[x] \in Nat
    BY <1>1, <1>3
  <2>. HIDE DEF L
  <2>1. T \subseteq Nat /\ T # {}
    BY <2>0
  <2>2. PICK t \in T : \A u \in T : ~(u < t)
    <3>. HIDE DEF T
    <3> QED
      BY <2>1, HasMin
  <2>3. PICK x \in L : scores[x] = t
    BY <2>2
  <2>4. L \ {x} \subseteq above(x)
    <3>1. SUFFICES ASSUME NEW y \in L, y # x PROVE scores[y] > scores[x]
      BY <1>1
    <3>2. ~(scores[y] < scores[x])
      BY <2>2, <2>3
    <3>3. scores[y] # scores[x] /\ scores[x] \in Nat /\ scores[y] \in Nat
      BY <1>1, <2>3, <3>1
    <3> QED
      BY <3>2, <3>3
  <2>5. Cardinality(above(x)) < k /\ above(x) \in SUBSET Trigger /\ L \in SUBSET Trigger
    BY <1>1
  <2>. HIDE DEF above
  <2>6. Cardinality(L \ {x}) <= Cardinality(above(x)) /\ Cardinality(above(x)) \in Nat
    BY <2>4, <2>5, Sizes
  <2>7. Cardinality(L \ {x}) = Cardinality(L) - 1 /\ Cardinality(L) \in Nat
    <3>1. IsFiniteSet(L)
      BY <2>5, FS_Subset
    <3> QED
      BY <3>1, FS_RemoveElement, FS_CardinalityType
  <2> QED
    BY <2>5, <2>6, <2>7 DEF L
<1> QED
  BY <1>2, <1>3

LEMMA InitIndexed == TriggersInit => Indexed
<1>1. SUFFICES ASSUME TriggersInit PROVE Indexed
  OBVIOUS
<1>2. /\ index \in [Trigger -> Nat] /\ \A x \in Trigger : index[x] = 0
      /\ \A x \in Trigger : journal[x] = NoRecord
      /\ reader = Quiet
  BY <1>1 DEF TriggersInit
<1>3. Listed(index) = {} /\ Cardinality(Listed(index)) = 0 /\ reader.ids = {}
  BY <1>2, FS_EmptySet DEF Listed, Quiet
<1>4. Cardinality(Begun) \in Nat
  BY Sizes DEF Begun
<1>5. ~NoRecord.whole
  BY DEF NoRecord
<1> QED
  BY <1>2, <1>3, <1>4, <1>5 DEF Indexed, Readers, Quiet

\* What was begun stays begun.
LEMMA BegunStays ==
  ASSUME TriggersInv, \A x \in Trigger : Advances(run[x], run'[x]), NEW x \in Trigger
  PROVE  /\ Begun \subseteq Begun' /\ Cardinality(Begun) <= Cardinality(Begun')
         /\ Cardinality(Begun) \in Nat /\ Cardinality(Begun') \in Nat
         /\ Cardinality(Begun \ {x}) <= Cardinality(Begun' \ {x})
         /\ Cardinality(Begun \ {x}) \in Nat /\ Cardinality(Begun' \ {x}) \in Nat
<1>1. Begun \subseteq Begun' /\ Begun' \subseteq Trigger
  BY DEF Begun, Advances
<1>2. Begun \ {x} \subseteq Begun' \ {x} /\ Begun' \ {x} \subseteq Trigger
  BY <1>1
<1> QED
  BY <1>1, <1>2, Sizes

\* Steps that leave index and reader alone; records change but do not become whole.
LEMMA IndexedStays ==
  ASSUME TriggersInv, Indexed, UNCHANGED <<index, reader>>,
         \A x \in Trigger : Advances(run[x], run'[x]),
         \A x \in Trigger : journal'[x].whole => journal[x].whole,
         \A x \in Trigger : journal[x].whole /\ run'[x].pc \notin Ended => journal'[x].whole,
         \A x \in Trigger : journal'[x].status = "none" => ~journal'[x].whole,
         \A x \in Trigger : Filed(run[x], journal[x]) =>
           journal'[x].status = "none" \/ journal'[x].whole
  PROVE  Indexed'
<1>1. index' = index /\ reader' = reader /\ index \in [Trigger -> Nat] /\ reader \in Readers
  BY DEF Indexed
<1>2. \A x \in Trigger : index[x] <= Cardinality(Begun)'
  <2>1. SUFFICES ASSUME NEW x \in Trigger PROVE index[x] <= Cardinality(Begun')
    OBVIOUS
  <2>2. index[x] <= Cardinality(Begun) /\ index[x] \in Nat
    BY DEF Indexed
  <2>3. /\ Cardinality(Begun) <= Cardinality(Begun')
        /\ Cardinality(Begun) \in Nat /\ Cardinality(Begun') \in Nat
    BY BegunStays
  <2> QED
    BY <2>2, <2>3
<1>3. ASSUME NEW x \in Trigger, Filed(run[x], journal[x]) PROVE Filed(run'[x], journal'[x])
  <2>1. Advances(run[x], run'[x])
    OBVIOUS
  <2> QED
    BY <1>3, <2>1 DEF Filed, Advances, Ended
<1>4. \A x \in Trigger : journal'[x].whole /\ index[x] = 0 => Cardinality(Begun' \ {x}) >= MaxListed
  <2>1. SUFFICES ASSUME NEW x \in Trigger, journal'[x].whole, index[x] = 0
                 PROVE  Cardinality(Begun' \ {x}) >= MaxListed
    OBVIOUS
  <2>2. Cardinality(Begun \ {x}) >= MaxListed
    BY <2>1 DEF Indexed
  <2>3. /\ Cardinality(Begun \ {x}) <= Cardinality(Begun' \ {x})
        /\ Cardinality(Begun \ {x}) \in Nat /\ Cardinality(Begun' \ {x}) \in Nat
    BY BegunStays
  <2> QED
    BY <2>2, <2>3, TriggersAssumption
<1>5. \A x \in Listed(index) \union reader.ids : x \in Trigger /\ Filed(run'[x], journal'[x])
  BY <1>1, <1>3 DEF Indexed, Listed, Readers
<1>6. reader.pc = "pruning" => \A x \in reader.ids : ~journal'[x].whole
  BY <1>1 DEF Indexed, Readers
<1> QED
  BY <1>1, <1>2, <1>4, <1>5, <1>6 DEF Indexed, Filed, Begun, Listed, Readers

LEMMA RecordedIndexed ==
  ASSUME TriggersInv, Indexed, NEW x \in Trigger, JournalStart(x), index' = Recorded(x),
         journal' = [journal EXCEPT ![x] = [status |-> "running", whole |-> TRUE]],
         \A y \in Trigger : Advances(run[y], run'[y])
  PROVE  Indexed'
<1>1. /\ index \in [Trigger -> Nat] /\ journal \in [Trigger -> Records] /\ run \in [Trigger -> Runs]
      /\ run[x] \in Runs /\ reader \in Readers /\ reader' = reader
  BY RunIs DEF Indexed, TriggersInv, JournalStart
<1>2. run[x].pc = "start" /\ run'[x].pc \in {"work", "acquire"} /\ \A y \in Trigger : y # x => run'[y] = run[y]
  BY <1>1 DEF JournalStart, IsAt, GoesTo, Runs
<1>3. /\ journal'[x].whole /\ journal'[x].status = "running"
      /\ \A y \in Trigger : y # x => journal'[y] = journal[y]
  BY <1>1
<1>4. x \notin Listed(index) \union reader.ids /\ index[x] = 0
  BY <1>2 DEF Indexed, Filed, Unbegun, Listed
<1>. DEFINE m == Max({index[y] : y \in Trigger})
            s == Scored(x)
<1>5. m \in Nat /\ m <= Cardinality(Begun) /\ \A y \in Trigger : index[y] <= m
  <2>. DEFINE V == {index[y] : y \in Trigger}
  <2>1. Cardinality(Begun) \in Nat
    BY Sizes DEF Begun
  <2>2. \A y \in Trigger : index[y] \in 0 .. Cardinality(Begun)
    BY <1>1, <2>1 DEF Indexed
  <2>3. V \in SUBSET (0 .. Cardinality(Begun)) /\ V # {}
    BY <2>2
  <2>4. Max(V) \in V /\ \A v \in V : v <= Max(V)
    <3>. HIDE DEF V
    <3> QED
      BY <2>1, <2>3, HasMax
  <2>5. Max(V) \in 0 .. Cardinality(Begun)
    BY <2>3, <2>4
  <2> QED
    BY <2>1, <2>4, <2>5
<1>. HIDE DEF m
<1>6. /\ s \in [Trigger -> Nat] /\ s[x] = 1 + m
      /\ \A y \in Trigger : y # x => s[y] = index[y]
  BY <1>1, <1>5 DEF Scored, m
<1>7. \A y, z \in Listed(s) : s[y] = s[z] => y = z
  <2>1. SUFFICES ASSUME NEW y \in Trigger, NEW z \in Trigger, s[y] # 0, s[y] = s[z], y # z PROVE FALSE
    BY DEF Listed
  <2>2. y # x /\ z # x
    BY <1>1, <1>5, <1>6, <2>1
  <2> QED
    BY <1>6, <2>1, <2>2 DEF Indexed, Listed
<1>. HIDE DEF s
<1>. DEFINE above(y) == {z \in Trigger : s[z] > s[y]}
<1>8. index' = [y \in Trigger |-> IF Cardinality(above(y)) < MaxListed THEN s[y] ELSE 0]
  BY DEF Recorded, NewestOf, s
<1>9. Cardinality(Listed(index')) <= MaxListed
  BY <1>6, <1>7, NewestAreFew DEF Recorded, s
<1>10. above(x) = {} /\ Cardinality(above(x)) = 0
  <2>1. ASSUME NEW z \in Trigger, s[z] > s[x] PROVE FALSE
    BY <1>1, <1>5, <1>6, <2>1
  <2> QED
    BY <2>1, FS_EmptySet
<1>11. \A y \in Trigger : (index'[y] = s[y] \/ index'[y] = 0) /\ (index'[y] # s[y] => Cardinality(above(y)) >= MaxListed)
  <2>1. SUFFICES ASSUME NEW y \in Trigger
                 PROVE  /\ index'[y] = s[y] \/ index'[y] = 0
                        /\ index'[y] # s[y] => Cardinality(above(y)) >= MaxListed
    OBVIOUS
  <2>2. Cardinality(above(y)) \in Nat
    BY Sizes
  <2>3. index'[y] = IF Cardinality(above(y)) < MaxListed THEN s[y] ELSE 0
    BY <1>8
  <2>. HIDE DEF above
  <2> QED
    BY <2>2, <2>3
<1>12. index'[x] = 1 + m
  <2>1. index'[x] = IF Cardinality(above(x)) < MaxListed THEN s[x] ELSE 0
    BY <1>8
  <2>2. Cardinality(above(x)) < MaxListed
    BY <1>10
  <2>. HIDE DEF above
  <2> QED
    BY <1>6, <2>1, <2>2
<1>13. index' \in [Trigger -> Nat]
  <2>1. ASSUME NEW y \in Trigger PROVE index'[y] \in Nat
    <3>1. s[y] \in Nat /\ (index'[y] = s[y] \/ index'[y] = 0)
      BY <1>6, <1>11
    <3> QED
      BY <3>1
  <2>2. index' = [y \in Trigger |-> index'[y]]
    <3>. DEFINE e(y) == IF Cardinality(above(y)) < MaxListed THEN s[y] ELSE 0
    <3>1. index' = [y \in Trigger |-> e(y)]
      BY <1>8
    <3>. HIDE DEF e
    <3> QED
      BY <3>1
  <2> QED
    BY <2>1, <2>2
<1>. HIDE DEF above
<1>14. /\ Cardinality(Begun') \in Nat /\ Cardinality(Begun') >= 1 + Cardinality(Begun)
       /\ Cardinality(Begun) \in Nat
  <2>1. Begun \union {x} \subseteq Begun' /\ Begun' \subseteq Trigger /\ Begun \subseteq Trigger
    BY <1>2, BegunStays DEF Begun, Unbegun, Uncounted
  <2>2. x \notin Begun
    BY <1>2 DEF Begun, Unbegun
  <2>3. Cardinality(Begun \union {x}) = Cardinality(Begun) + 1
    BY <2>1, <2>2, OneMore
  <2> QED
    BY <2>1, <2>3, Sizes
<1>15. \A y \in Trigger : index'[y] <= Cardinality(Begun')
  <2>1. SUFFICES ASSUME NEW y \in Trigger PROVE index'[y] <= Cardinality(Begun')
    OBVIOUS
  <2>2. index[y] \in Nat /\ index[y] <= Cardinality(Begun)
    BY <1>1 DEF Indexed
  <2>3. s[y] = 1 + m \/ s[y] = index[y]
    BY <1>6
  <2>4. index'[y] = s[y] \/ index'[y] = 0
    BY <1>11
  <2> QED
    BY <1>5, <1>14, <2>2, <2>3, <2>4
<1>16. \A y, z \in Listed(index') : index'[y] = index'[z] => y = z
  BY <1>7, <1>11 DEF Listed
<1>17. \A y \in Listed(index') \union reader.ids : y \in Trigger /\ Filed(run'[y], journal'[y])
  <2>1. SUFFICES ASSUME NEW y \in Listed(index') \union reader.ids
                 PROVE  y \in Trigger /\ Filed(run'[y], journal'[y])
    OBVIOUS
  <2>2. y \in Trigger
    BY <1>1 DEF Listed, Readers
  <2>3. CASE y = x
    BY <1>2, <1>3, <2>2, <2>3 DEF Filed, Unbegun, Uncounted
  <2>4. CASE y # x
    <3>1. y \in Listed(index) \union reader.ids
      BY <1>6, <1>11, <2>1, <2>2, <2>4 DEF Listed
    <3>2. Filed(run[y], journal[y]) /\ run'[y] = run[y] /\ journal'[y] = journal[y]
      BY <1>2, <1>3, <2>2, <2>4, <3>1 DEF Indexed
    <3> QED
      BY <2>2, <3>2
  <2> QED
    BY <2>3, <2>4
<1>18. reader.pc = "pruning" => \A y \in reader.ids : ~journal'[y].whole
  BY <1>1, <1>3, <1>4 DEF Indexed, Readers
<1>19. \A y \in Trigger : journal'[y].status = "none" => ~journal'[y].whole
  BY <1>3 DEF Indexed
<1>20. \A y \in Trigger : journal'[y].whole /\ index'[y] = 0 => Cardinality(Begun' \ {y}) >= MaxListed
  <2>1. SUFFICES ASSUME NEW y \in Trigger, journal'[y].whole, index'[y] = 0
                 PROVE  Cardinality(Begun' \ {y}) >= MaxListed
    OBVIOUS
  <2>2. y # x
    BY <1>5, <1>12, <2>1
  <2>3. CASE index[y] = 0
    <3>1. Cardinality(Begun \ {y}) >= MaxListed
      BY <1>3, <2>1, <2>2, <2>3 DEF Indexed
    <3>2. /\ Cardinality(Begun \ {y}) <= Cardinality(Begun' \ {y})
          /\ Cardinality(Begun \ {y}) \in Nat /\ Cardinality(Begun' \ {y}) \in Nat
      BY BegunStays
    <3> QED
      BY <3>1, <3>2
  <2>4. CASE index[y] # 0
    <3>1. Cardinality(above(y)) >= MaxListed
      BY <1>6, <1>11, <2>1, <2>2, <2>4
    <3>2. above(y) \subseteq Begun' \ {y}
      <4>1. SUFFICES ASSUME NEW z \in Trigger, s[z] > s[y] PROVE z \in Begun' /\ z # y
        BY DEF above
      <4>2. s[z] \in Nat /\ s[y] \in Nat /\ s[z] # 0
        BY <1>6, <4>1
      <4>3. z = x \/ index[z] # 0
        BY <1>6, <4>2
      <4>4. run'[z].pc \notin Unbegun
        <5>1. CASE z = x
          BY <1>2, <5>1 DEF Unbegun, Uncounted
        <5>2. CASE z # x
          <6>1. Filed(run[z], journal[z])
            BY <4>3, <5>2 DEF Indexed, Listed
          <6> QED
            BY <1>2, <5>2, <6>1 DEF Filed
        <5> QED
          BY <5>1, <5>2
      <4> QED
        BY <4>1, <4>2, <4>4 DEF Begun
    <3>3. Cardinality(above(y)) <= Cardinality(Begun' \ {y})
          /\ Cardinality(above(y)) \in Nat /\ Cardinality(Begun' \ {y}) \in Nat
      <4>1. Begun' \ {y} \subseteq Trigger
        BY DEF Begun
      <4> QED
        BY <3>2, <4>1, Sizes
    <3> QED
      BY <3>1, <3>3
  <2> QED
    BY <2>3, <2>4
<1> QED
  BY <1>1, <1>9, <1>13, <1>15, <1>16, <1>17, <1>18, <1>19, <1>20
     DEF Indexed, Filed, Begun, Listed, Readers

\* The reader: it lists, it looks at the records, it prunes.
LEMMA ReaderIndexed ==
  ASSUME TriggersInv, Indexed, ListRuns \/ ReadRecords \/ Prune
  PROVE  Indexed'
<1>1. /\ run' = run /\ journal' = journal /\ index \in [Trigger -> Nat] /\ reader \in Readers
      /\ journal \in [Trigger -> Records]
  BY DEF ListRuns, ReadRecords, Prune, records, Indexed, TriggersInv
<1>2. Listed(index) \subseteq Trigger
  BY DEF Listed
<1>3. CASE ListRuns
  <2>1. index' = index /\ reader' = [pc |-> "reading", ids |-> Listed(index)]
    BY <1>3 DEF ListRuns, records
  <2> QED
    BY <1>1, <1>2, <2>1 DEF Indexed, Readers, Filed, Begun, Listed
<1>4. CASE ReadRecords
  <2>1. index' = index /\ reader.pc = "reading"
    BY <1>4 DEF ReadRecords, records
  <2>2. \A x \in reader.ids : journal[x] = NoRecord \/ journal[x].whole
    <3>1. SUFFICES ASSUME NEW x \in reader.ids, ~journal[x].whole PROVE journal[x] = NoRecord
      OBVIOUS
    <3>2. x \in Trigger /\ Filed(run[x], journal[x]) /\ journal[x] \in Records
      BY <1>1 DEF Readers, Indexed
    <3>3. journal[x].status = "none" /\ journal[x].whole = FALSE
      BY <3>1, <3>2 DEF Filed, Records
    <3> QED
      BY <3>2, <3>3 DEF Records, NoRecord
  <2>3. reader' = [pc |-> "pruning", ids |-> {x \in reader.ids : journal[x] = NoRecord}]
    BY <1>4, <2>2 DEF ReadRecords
  <2>4. reader'.pc = "pruning" /\ reader'.ids \subseteq reader.ids /\ reader' \in Readers
        /\ \A x \in reader'.ids : ~journal[x].whole
    BY <1>1, <2>3 DEF Readers, NoRecord
  <2> QED
    BY <1>1, <2>1, <2>4 DEF Indexed, Filed, Begun, Listed
<1>5. CASE Prune
  <2>1. /\ index' = [x \in Trigger |-> IF x \in reader.ids THEN 0 ELSE index[x]]
        /\ reader' = Quiet /\ reader.pc = "pruning"
    BY <1>5 DEF Prune
  <2>2. /\ index' \in [Trigger -> Nat]
        /\ \A x \in Trigger : index'[x] = IF x \in reader.ids THEN 0 ELSE index[x]
    BY <1>1, <2>1
  <2>3. reader' \in Readers /\ reader'.ids = {} /\ reader'.pc = "idle"
    BY <2>1 DEF Quiet, Readers
  <2>4. Listed(index') \subseteq Listed(index) /\ Cardinality(Listed(index')) <= MaxListed
    <3>1. Listed(index') \subseteq Listed(index)
      BY <2>2 DEF Listed
    <3>2. /\ Cardinality(Listed(index')) <= Cardinality(Listed(index))
          /\ Cardinality(Listed(index')) \in Nat /\ Cardinality(Listed(index)) \in Nat
          /\ Cardinality(Listed(index)) <= MaxListed
      BY <1>2, <3>1, Sizes DEF Indexed
    <3> QED
      BY <3>1, <3>2
  <2>5. \A x \in Trigger : index'[x] <= Cardinality(Begun)
    <3>1. Cardinality(Begun) \in Nat
      BY Sizes DEF Begun
    <3> QED
      BY <2>2, <3>1 DEF Indexed
  <2>6. \A x, y \in Listed(index') : index'[x] = index'[y] => x = y
    BY <2>2, <2>4 DEF Indexed, Listed
  <2>7. \A x \in Trigger : journal[x].whole /\ index'[x] = 0 => Cardinality(Begun \ {x}) >= MaxListed
    BY <2>1, <2>2 DEF Indexed
  <2> QED
    BY <1>1, <2>2, <2>3, <2>4, <2>5, <2>6, <2>7 DEF Indexed, Filed, Begun, Listed
<1> QED
  BY <1>3, <1>4, <1>5

\* What a step does to the records, when it is not one that starts one.
LEMMA RecordIndexed ==
  ASSUME TriggersInv, Indexed, NEW x \in Trigger,
         JournalFinish(x) \/ RecordExpires(x) \/ (JournalStart(x) /\ UNCHANGED records),
         \A y \in Trigger : Advances(run[y], run'[y])
  PROVE  Indexed'
<1>1. index' = index /\ reader' = reader /\ journal \in [Trigger -> Records]
  BY DEF JournalFinish, RecordExpires, JournalStart, records, TriggersInv
<1>2. \A y \in Trigger : journal[y].status = "none" => ~journal[y].whole
  BY DEF Indexed
<1>3. CASE JournalFinish(x)
  <2>1. journal' = journal \/ journal' = [journal EXCEPT ![x].status = StatusOf(run[x].outcome)]
    BY <1>3 DEF JournalFinish
  <2>2. StatusOf(run[x].outcome) # "none"
    BY DEF StatusOf
  <2>3. \A y \in Trigger : /\ journal'[y].whole = journal[y].whole
                           /\ journal'[y] = journal[y] \/ journal'[y].status # "none"
                           /\ y # x => journal'[y] = journal[y]
    BY <1>1, <2>1, <2>2 DEF Records
  <2>4. run[x].pc = "finish"
    BY <1>3 DEF JournalFinish, IsAt
  <2>5. \A y \in Trigger : Filed(run[y], journal[y]) => journal'[y].status = "none" \/ journal'[y].whole
    BY <2>3, <2>4 DEF Filed, Ended
  <2> QED
    BY <1>1, <1>2, <2>3, <2>5, IndexedStays
<1>4. CASE RecordExpires(x)
  <2>1. journal' = [journal EXCEPT ![x] = NoRecord] /\ run[x].pc \in Ended /\ run' = run
    BY <1>4 DEF RecordExpires
  <2>2. /\ ~journal'[x].whole /\ journal'[x].status = "none"
        /\ \A y \in Trigger : y # x => journal'[y] = journal[y]
    BY <1>1, <2>1 DEF NoRecord
  <2>3. \A y \in Trigger : Filed(run[y], journal[y]) => journal'[y].status = "none" \/ journal'[y].whole
    BY <2>2 DEF Filed
  <2> QED
    BY <1>1, <1>2, <2>1, <2>2, <2>3, IndexedStays
<1>5. CASE JournalStart(x) /\ UNCHANGED records
  <2>1. journal' = journal
    BY <1>5 DEF records
  <2> QED
    BY <1>1, <1>2, <2>1, IndexedStays DEF Filed
<1> QED
  BY <1>3, <1>4, <1>5

-----------------------------------------------------------------------------
(* Ranges. *)

Losses == Trigger \X (Counter \union {"start", "finish"})

Bounded ==
  /\ up \in [Host -> {"up", "closing", "down"}]
  /\ faults \in 0 .. MaxFaults
  /\ unrecorded \subseteq Losses

Ranges ==
  /\ Bounded
  /\ \A o \in Object : revision[o] <= Cardinality(Used)

LEMMA InitRanges == TriggersInit => Ranges
<1>1. SUFFICES ASSUME TriggersInit PROVE Ranges
  OBVIOUS
<1>2. Cardinality(Used) \in Nat
  BY Sizes DEF Used
<1> QED
  BY <1>1, <1>2 DEF TriggersInit, Ranges, Bounded

LEMMA BoundedStep == ASSUME TriggersInv, Counted, Bounded, [TriggersNext]_triggerVars PROVE Bounded'
<1>. USE DEF Bounded, Losses, Counter, Fault
<1>1. ASSUME NEW x \in Trigger, FrameStep(x) PROVE Bounded'
  <2>1. CASE CountTrigger(x)
    BY <2>1 DEF CountTrigger, Bump
  <2>2. CASE JournalStart(x)
    BY <2>2 DEF JournalStart
  <2>3. CASE Release(x)
    BY <2>3 DEF Release
  <2>4. CASE CountOutcome(x)
    <3>1. CASE run[x].outcome = "done"
      BY <2>4, <3>1 DEF CountOutcome
    <3>2. CASE run[x].outcome # "done" /\ run[x].outcome \in Counter
      BY <2>4, <3>2 DEF CountOutcome, Bump
    <3>3. run[x].outcome \in {"done", "failed", "skipped"}
      BY <2>4, RunIs DEF CountOutcome, IsAt, Counted, CountedIn, Decided, Runs, Outcome
    <3> QED
      BY <3>1, <3>2, <3>3
  <2>5. CASE JournalFinish(x)
    BY <2>5 DEF JournalFinish
  <2>6. CASE Acquire(x) \/ TicketLockHeld(x) \/ FetchTicket(x) \/ Done(x) \/ CheckDone(x)
    BY <2>6 DEF Acquire, TicketLockHeld, FetchTicket, Done, CheckDone
  <2> QED
    BY <1>1, <2>1, <2>2, <2>3, <2>4, <2>5, <2>6 DEF FrameStep
<1>2. ASSUME NEW x \in Trigger, RefuseWebhook(x) \/ Fails(x) \/ AcquireUnanswered(x) \/ RecordExpires(x)
      PROVE  Bounded'
  BY <1>2 DEF RefuseWebhook, Fails, AcquireUnanswered, RecordExpires
<1>3. ASSUME NEW o \in Object, Change(o) \/ TicketLockExpires(o) PROVE Bounded'
  BY <1>3 DEF Change, TicketLockExpires
<1>4. ASSUME NEW x \in Trigger, NEW a \in Host,
             ReceiveWebhook(x, a) \/ RunSchedule(x, a) \/ \E o \in Object : RunRequest(x, o, a)
      PROVE  Bounded'
  BY <1>4 DEF ReceiveWebhook, RunSchedule, RunRequest
<1>5. CASE ListRuns \/ ReadRecords \/ Prune \/ UNCHANGED triggerVars
  BY <1>5 DEF ListRuns, ReadRecords, Prune, triggerVars
<1>6. ASSUME NEW a \in Host, StopLoops(a) \/ Exit(a) \/ ReplicaDies(a) \/ Boot(a) PROVE Bounded'
  BY <1>6 DEF StopLoops, Exit, ReplicaDies, Boot
<1> QED
  BY <1>1, <1>2, <1>3, <1>4, <1>5, <1>6 DEF TriggersNext

\* A ticket has not changed more often than there are runs that its changes, or
\* somebody, asked for.
LEMMA ChangesCounted ==
  ASSUME TriggersInv, Ranges, [TriggersNext]_triggerVars, \A x \in Trigger : Advances(run[x], run'[x])
  PROVE  \A o \in Object : revision'[o] <= Cardinality(Used')
<1>1. Used \subseteq Used' /\ Used' \subseteq Trigger
  BY DEF Used, Advances
<1>2. /\ Cardinality(Used) <= Cardinality(Used')
      /\ Cardinality(Used) \in Nat /\ Cardinality(Used') \in Nat
  BY <1>1, Sizes
<1>3. \A o \in Object : revision[o] \in Nat /\ revision[o] <= Cardinality(Used)
  BY DEF TriggersInv, Ranges
<1>4. CASE revision' = revision
  BY <1>2, <1>3, <1>4
<1>5. ASSUME NEW o \in Object, Change(o) PROVE \A a \in Object : revision'[a] <= Cardinality(Used')
  <2>. DEFINE r(n) == [Unused EXCEPT !.pc = "sent", !.object = o, !.covers = n]
  <2>1. PICK x \in Trigger : run[x].pc = "unused" /\ run' = [run EXCEPT ![x] = r(revision'[o])]
    BY <1>5 DEF Change, IsAt
  <2>2. \A n : r(n).pc = "sent"
    BY DEF Unused
  <2>. HIDE DEF r
  <2>3. x \notin Used /\ x \in Used'
    BY <2>1, <2>2 DEF Used, TriggersInv
  <2>4. Used \union {x} \subseteq Used' /\ Cardinality(Used \union {x}) = Cardinality(Used) + 1
    BY <1>1, <2>3, OneMore
  <2>5. Cardinality(Used) + 1 <= Cardinality(Used')
    BY <1>1, <1>2, <2>4, Sizes
  <2>6. \A a \in Object : revision'[a] = revision[a] \/ revision'[a] = revision[a] + 1
    BY <1>5 DEF Change, TriggersInv
  <2>7. SUFFICES ASSUME NEW a \in Object PROVE revision'[a] <= Cardinality(Used')
    OBVIOUS
  <2> QED
    BY <1>2, <1>3, <2>5, <2>6
<1>6. revision' = revision \/ \E o \in Object : Change(o)
  <2>1. ASSUME NEW x \in Trigger, FrameStep(x) PROVE revision' = revision
    BY <2>1 DEF FrameStep, CountTrigger, JournalStart, Acquire, TicketLockHeld, FetchTicket, Done, CheckDone,
                Release, CountOutcome, JournalFinish, tickets
  <2>2. ASSUME NEW x \in Trigger, RefuseWebhook(x) \/ Fails(x) \/ AcquireUnanswered(x) \/ RecordExpires(x)
        PROVE  revision' = revision
    BY <2>2 DEF RefuseWebhook, Fails, AcquireUnanswered, RecordExpires, tickets
  <2>3. ASSUME NEW o \in Object, TicketLockExpires(o) PROVE revision' = revision
    BY <2>3 DEF TicketLockExpires
  <2>4. ASSUME NEW x \in Trigger, NEW a \in Host,
               ReceiveWebhook(x, a) \/ RunSchedule(x, a) \/ \E o \in Object : RunRequest(x, o, a)
        PROVE  revision' = revision
    BY <2>4 DEF ReceiveWebhook, RunSchedule, RunRequest, tickets
  <2>5. CASE ListRuns \/ ReadRecords \/ Prune \/ UNCHANGED triggerVars
    BY <2>5 DEF ListRuns, ReadRecords, Prune, triggerVars, tickets
  <2>6. ASSUME NEW a \in Host, StopLoops(a) \/ Exit(a) \/ ReplicaDies(a) \/ Boot(a)
        PROVE  revision' = revision
    BY <2>6 DEF StopLoops, Exit, ReplicaDies, Boot, tickets
  <2> QED
    BY <2>1, <2>2, <2>3, <2>4, <2>5, <2>6 DEF TriggersNext
<1> QED
  BY <1>4, <1>5, <1>6

RecordsInv == Counted /\ Indexed /\ Ranges

LEMMA CountAdvances ==
  ASSUME TriggersInv, NEW x \in Trigger, CountTrigger(x) \/ CountOutcome(x), NEW y \in Trigger
  PROVE  Advances(run[y], run'[y])
<1>1. run \in [Trigger -> Runs] /\ run[x] \in Runs /\ run[y] \in Runs
  BY RunIs DEF TriggersInv
<1> QED
  BY <1>1 DEF CountTrigger, CountOutcome, IsAt, GoesTo, Advances, Unbegun, Uncounted, Ended, Runs

LEMMA RecordsSafe == ASSUME TriggersInv, RecordsInv, [TriggersNext]_triggerVars PROVE RecordsInv'
<1>1. Bounded'
  BY BoundedStep DEF RecordsInv, Ranges
<1>2. \A x \in Trigger : journal[x].status = "none" => ~journal[x].whole
  BY DEF RecordsInv, Indexed
<1>3. ASSUME NEW x \in Trigger, CountTrigger(x) \/ CountOutcome(x) PROVE RecordsInv'
  <2>1. \A y \in Trigger : Advances(run[y], run'[y])
    BY <1>3, CountAdvances
  <2>2. Counted'
    BY <1>3, TriggerCounted, OutcomeCounted DEF RecordsInv
  <2>3. journal' = journal /\ index' = index /\ reader' = reader
    BY <1>3 DEF CountTrigger, CountOutcome, records
  <2>4. Indexed'
    BY <1>2, <2>1, <2>3, IndexedStays DEF RecordsInv, Filed
  <2>5. \A o \in Object : revision'[o] <= Cardinality(Used')
    BY <2>1, ChangesCounted DEF RecordsInv
  <2> QED
    BY <1>1, <2>2, <2>4, <2>5 DEF RecordsInv, Ranges, Used
<1>4. ASSUME \A y \in Trigger : Steady(run[y], run'[y]), UNCHANGED counters, unrecorded \subseteq unrecorded', Indexed'
      PROVE  RecordsInv'
  <2>1. \A y \in Trigger : Advances(run[y], run'[y])
    BY <1>4 DEF Steady
  <2>2. Counted'
    BY <1>4, CountedStays DEF RecordsInv
  <2>3. \A o \in Object : revision'[o] <= Cardinality(Used')
    BY <2>1, ChangesCounted DEF RecordsInv
  <2> QED
    BY <1>1, <1>4, <2>2, <2>3 DEF RecordsInv, Ranges, Used
<1>5. ASSUME \A y \in Trigger : Steady(run[y], run'[y]), UNCHANGED <<index, reader, journal>>
      PROVE  Indexed'
  <2>1. \A y \in Trigger : Advances(run[y], run'[y])
    BY <1>5 DEF Steady
  <2> QED
    BY <1>2, <1>5, <2>1, IndexedStays DEF RecordsInv, Filed
<1>6. ASSUME NEW x \in Trigger, JournalStart(x) \/ JournalFinish(x) \/ RecordExpires(x)
      PROVE  RecordsInv'
  <2>1. \A y \in Trigger : Steady(run[y], run'[y])
    BY <1>6, SteadyStep
  <2>2. \A y \in Trigger : Advances(run[y], run'[y])
    BY <2>1 DEF Steady
  <2>3. UNCHANGED counters /\ unrecorded \subseteq unrecorded'
    BY <1>6 DEF JournalStart, JournalFinish, RecordExpires
  <2>4. CASE JournalStart(x) /\ index' = Recorded(x)
             /\ journal' = [journal EXCEPT ![x] = [status |-> "running", whole |-> TRUE]]
    BY <1>4, <2>1, <2>2, <2>3, <2>4, RecordedIndexed DEF RecordsInv
  <2>5. CASE JournalFinish(x) \/ RecordExpires(x) \/ (JournalStart(x) /\ UNCHANGED records)
    BY <1>4, <2>1, <2>2, <2>3, <2>5, RecordIndexed DEF RecordsInv
  <2> QED
    BY <1>6, <2>4, <2>5 DEF JournalStart
<1>7. ASSUME NEW x \in Trigger,
             \/ Acquire(x) \/ TicketLockHeld(x) \/ FetchTicket(x) \/ Done(x) \/ CheckDone(x) \/ Release(x)
             \/ RefuseWebhook(x) \/ Fails(x) \/ AcquireUnanswered(x)
      PROVE  RecordsInv'
  <2>1. \A y \in Trigger : Steady(run[y], run'[y])
    BY <1>7, SteadyStep
  <2>2. UNCHANGED <<counters, unrecorded, index, reader, journal>>
    BY <1>7 DEF Acquire, TicketLockHeld, FetchTicket, Done, CheckDone, Release, RefuseWebhook, Fails,
                AcquireUnanswered, records
  <2> QED
    BY <1>4, <1>5, <2>1, <2>2
<1>8. ASSUME \/ \E o \in Object : Change(o) \/ TicketLockExpires(o)
             \/ \E x \in Trigger, a \in Host :
                  ReceiveWebhook(x, a) \/ RunSchedule(x, a) \/ \E o \in Object : RunRequest(x, o, a)
             \/ \E a \in Host : StopLoops(a) \/ Exit(a) \/ ReplicaDies(a) \/ Boot(a)
             \/ UNCHANGED triggerVars
      PROVE  RecordsInv'
  <2>1. \A y \in Trigger : Steady(run[y], run'[y])
    BY <1>8, SteadyAround
  <2>2. UNCHANGED <<counters, unrecorded, index, reader, journal>>
    BY <1>8 DEF Change, TicketLockExpires, ReceiveWebhook, RunSchedule, RunRequest, StopLoops, Exit,
                ReplicaDies, Boot, triggerVars, records
  <2> QED
    BY <1>4, <1>5, <2>1, <2>2
<1>9. CASE ListRuns \/ ReadRecords \/ Prune
  <2>1. \A y \in Trigger : Steady(run[y], run'[y])
    BY <1>9, SteadyAround
  <2>2. UNCHANGED <<counters, unrecorded>>
    BY <1>9 DEF ListRuns, ReadRecords, Prune
  <2> QED
    BY <1>4, <1>9, <2>1, <2>2, ReaderIndexed DEF RecordsInv
<1>10. ASSUME NEW x \in Trigger, FrameStep(x) PROVE RecordsInv'
  BY <1>3, <1>6, <1>7, <1>10 DEF FrameStep
<1> QED
  BY <1>6, <1>7, <1>8, <1>9, <1>10 DEF TriggersNext

\* What is recorded beside the runs - the index, the counters, the losses - stays
\* consistent with them (state/journal.py, state/counters.py).
THEOREM RecordsInvariant == TriggersSpec => []RecordsInv
<1>1. TriggersInit => RecordsInv
  BY InitCounted, InitIndexed, InitRanges DEF RecordsInv
<1> QED
  BY <1>1, RecordsSafe, TriggersInvariant, PTL DEF TriggersSpec

\* Every variable keeps its type; the index never holds more than its cap, and no
\* two of its entries share a score (util/redis_capped_index.py).
THEOREM TriggersTyped == TriggersSpec => []TriggersTypeOK
<1>1. ASSUME TriggersInv, RecordsInv PROVE TriggersTypeOK
  <2>1. /\ up \in [Host -> {"up", "closing", "down"}]
        /\ faults \in 0 .. MaxFaults
        /\ unrecorded \subseteq Trigger \X (Counter \union {"start", "finish"})
    BY <1>1 DEF RecordsInv, Ranges, Bounded, Losses
  <2>2. \A x \in Trigger : run[x] \in Runs /\ Knows(run[x], revision)
    BY <1>1, RunIs
  <2>3. /\ locks \in [Object -> Trigger \union {NoOne}]
        /\ journal \in [Trigger -> [status : Status, whole : BOOLEAN]]
    BY <1>1 DEF TriggersInv, Records
  <2>4. {revision, settled} \subseteq [Object -> 0 .. Cardinality(Trigger)]
    <3>1. Cardinality(Trigger) \in Nat /\ Cardinality(Used) <= Cardinality(Trigger) /\ Cardinality(Used) \in Nat
      BY Sizes DEF Used
    <3>2. /\ revision \in [Object -> Nat] /\ settled \in [Object -> Nat]
          /\ \A o \in Object : settled[o] <= revision[o] /\ revision[o] <= Cardinality(Used)
      BY <1>1 DEF TriggersInv, RecordsInv, Ranges
    <3>3. \A o \in Object : revision[o] \in 0 .. Cardinality(Trigger) /\ settled[o] \in 0 .. Cardinality(Trigger)
      BY <3>1, <3>2
    <3> QED
      BY <3>2, <3>3
  <2>5. /\ index \in [Trigger -> 0 .. Cardinality(Trigger)] /\ Cardinality(Listed(index)) <= MaxListed
        /\ \A x, y \in Listed(index) : index[x] = index[y] => x = y
        /\ reader.pc \in {"idle", "reading", "pruning", "raised"} /\ reader.ids \subseteq Trigger
    <3>1. Cardinality(Trigger) \in Nat /\ Cardinality(Begun) <= Cardinality(Trigger) /\ Cardinality(Begun) \in Nat
      BY Sizes DEF Begun
    <3>2. index \in [Trigger -> Nat] /\ \A x \in Trigger : index[x] <= Cardinality(Begun)
      BY <1>1 DEF RecordsInv, Indexed
    <3>3. \A x \in Trigger : index[x] \in 0 .. Cardinality(Trigger)
      BY <3>1, <3>2
    <3>4. index \in [Trigger -> 0 .. Cardinality(Trigger)]
      BY <3>2, <3>3
    <3> QED
      BY <1>1, <3>4 DEF RecordsInv, Indexed, Readers
  <2>6. counters \in [Counter -> 0 .. Cardinality(Trigger)]
    <3>1. PICK S \in SUBSET Trigger, F \in SUBSET Trigger, K \in SUBSET Trigger : Tally(S, F, K, counters)
      BY <1>1 DEF RecordsInv, Counted
    <3>2. counters \in [Counter -> Nat] /\ Cardinality(Trigger) \in Nat
      BY <1>1, Sizes DEF RecordsInv, Counted
    <3>3. Cardinality(S) <= Cardinality(Trigger) /\ Cardinality(F) <= Cardinality(Trigger)
          /\ Cardinality(K) <= Cardinality(Trigger)
      BY Sizes
    <3>4. \A c \in Counter : counters[c] \in 0 .. Cardinality(Trigger)
      BY <3>1, <3>2, <3>3 DEF Tally, Counter
    <3> QED
      BY <3>2, <3>4
  <2>7. ASSUME NEW x \in Trigger
        PROVE  /\ run[x].pc \in Place
               /\ run[x].kind \in Kind
               /\ run[x].replica \in Host \union {NoOne}
               /\ run[x].object \in Object \union {NoOne}
               /\ run[x].outcome \in {"none", "done", "skipped", "failed"}
               /\ run[x].object # NoOne => run[x].at <= revision[run[x].object]
    BY <2>2 DEF Runs, Knows, Outcome
  <2> QED
    BY <2>1, <2>3, <2>4, <2>5, <2>6, <2>7 DEF TriggersTypeOK
<1> QED
  BY <1>1, TriggersInvariant, RecordsInvariant, PTL

\* The Runs screen never meets a record without its start (state/journal.py list).
THEOREM ListingNeverRaises == TriggersSpec => []ListingWorks
<1>1. RecordsInv => ListingWorks
  BY DEF RecordsInv, Indexed, Readers, ListingWorks
<1> QED
  BY <1>1, RecordsInvariant, PTL

\* A run that was started and whose record is there is in the index, unless as many
\* as it holds were started besides (util/redis_capped_index.py).
THEOREM RecentRunsListed == TriggersSpec => []RecentListed
<1>1. ASSUME RecordsInv PROVE RecentListed
  <2>1. SUFFICES ASSUME NEW x \in Trigger, journal[x].whole, x \notin Listed(index)
                 PROVE  Cardinality({y \in Trigger \ {x} : run[y].pc \notin {"unused", "sent"}}) >= MaxListed
    BY DEF RecentListed
  <2>. DEFINE others == {y \in Trigger \ {x} : run[y].pc \notin {"unused", "sent"}}
  <2>2. Cardinality(Begun \ {x}) >= MaxListed
    BY <1>1, <2>1 DEF RecordsInv, Indexed, Listed
  <2>3. Begun \ {x} \subseteq others /\ others \subseteq Trigger
    BY DEF Begun, Unbegun, Uncounted
  <2>. HIDE DEF others
  <2>4. /\ Cardinality(Begun \ {x}) <= Cardinality(others)
        /\ Cardinality(Begun \ {x}) \in Nat /\ Cardinality(others) \in Nat
    BY <2>3, Sizes
  <2>5. Cardinality(others) >= MaxListed
    BY <2>2, <2>4
  <2> QED
    BY <2>5 DEF others
<1> QED
  BY <1>1, RecordsInvariant, PTL

\* The runs that did their work can be read off the counters, but for the killed ones
\* and the bumps that were lost (state/counters.py).
THEOREM CountersAgree == TriggersSpec => []CountsAgree
<1>1. TriggersInv /\ RecordsInv => CountsAgree
  BY CountedAgrees DEF RecordsInv
<1> QED
  BY <1>1, TriggersInvariant, RecordsInvariant, PTL
=============================================================================
