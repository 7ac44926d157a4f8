----------------------------- MODULE Telemetry -----------------------------
(***************************************************************************)
(* The daily document: the hourly tick of every process                    *)
(* (telemetry/sender.py), what is remembered of the installation in Redis  *)
(* (state/install.py), the building of the document (telemetry/builder.py) *)
(* and its three attempts to reach the receiver                            *)
(* (telemetry/telemetrydeck.py).                                           *)
(*                                                                         *)
(* Time is counted in half days, so that a day can be partly over.  A      *)
(* document is the day it is about, the installation it names and whether  *)
(* it is the one of the setup; its counts are those of Triggers.  What the *)
(* receiver has stored is per day the number of documents.                 *)
(*                                                                         *)
(* Left out: the claim of a day lapses after three days, when every tick   *)
(* that asks for that day has long ended.                                  *)
(***************************************************************************)
EXTENDS Integers, FiniteSets

CONSTANTS
  Sender,        \* processes of the service
  Published,     \* is this a build that may send?
  MaxMoment,     \* bound on the clock
  MaxIncidents   \* bound on switches, setups, lost answers and deaths

Unset == -1

ASSUME TelemetryAssumption ==
  /\ Unset \notin Sender
  /\ Published \in BOOLEAN
  /\ {MaxMoment, MaxIncidents} \subseteq Nat

DayOf(m) == m \div 2
Moment == 0 .. MaxMoment
Day == 0 .. DayOf(MaxMoment)
MaxAttempts == 3

VARIABLES
  moment,      \* the clock
  install,     \* Redis: id, when first seen, the day of the setup
  claimed,     \* Redis: the days taken for sending
  settings,    \* is telemetry on, is the setup complete, is that still to be noted?
  sending,     \* the tick of each process
  received,    \* the receiver: documents stored per day
  unanswered,  \* documents per day that were stored and whose answer was lost
  setups,      \* days whose document was that of the setup
  named,       \* installation ids the stored documents name
  incidents

telemetryVars == <<moment, install, claimed, settings, sending, received, unanswered,
                   setups, named, incidents>>

NoTick == [at |-> "idle", now |-> 0, day |-> 0, first |-> FALSE, id |-> Unset, tries |-> 0]

TelemetryTypeOK ==
  /\ moment \in Moment
  /\ install \in [id : Sender \union {Unset}, firstSeen : Moment \union {Unset},
                  setupDay : Day \union {Unset}]
  /\ claimed \subseteq Day
  /\ settings \in [on : BOOLEAN, complete : BOOLEAN, toNote : BOOLEAN]
  /\ \A p \in Sender :
       /\ sending[p].at \in {"idle", "due", "age", "build", "number", "reread", "claim", "send"}
       /\ sending[p].day \in Day
       /\ sending[p].tries \in 0 .. MaxAttempts - 1
  /\ received \in [Day -> Nat]
  /\ unanswered \in [Day -> Nat]
  /\ setups \subseteq Day
  /\ named \subseteq Sender \union {Unset}
  /\ incidents \in 0 .. MaxIncidents

TelemetryInit ==
  /\ moment = 0
  /\ install = [id |-> Unset, firstSeen |-> Unset, setupDay |-> Unset]
  /\ claimed = {}
  /\ settings = [on |-> TRUE, complete |-> FALSE, toNote |-> FALSE]
  /\ sending = [p \in Sender |-> NoTick]
  /\ received = [d \in Day |-> 0]
  /\ unanswered = [d \in Day |-> 0]
  /\ setups = {}
  /\ named = {}
  /\ incidents = 0

receiver == <<received, unanswered, setups, named>>
Sends(p, tick) == sending' = [sending EXCEPT ![p] = tick]

-----------------------------------------------------------------------------
(***************************************************************************)
(* A tick.                                                                 *)
(***************************************************************************)

\* A build of ours, switched on, with the setup complete: the tick takes the
\* time and asks what is due.
AskWhetherToSend(p) ==
  /\ sending[p].at = "idle"
  /\ Published
  /\ settings.on /\ settings.complete
  /\ Sends(p, [NoTick EXCEPT !.at = "due", !.now = moment])
  /\ UNCHANGED <<moment, install, claimed, settings, receiver, incidents>>

\* The day the wizard was finished is sent the same day, as the first document.
AskSetupDay(p) ==
  /\ sending[p].at = "due"
  /\ LET today == DayOf(sending[p].now) IN
     Sends(p, IF install.setupDay = today
              THEN [sending[p] EXCEPT !.at = "build", !.day = today, !.first = TRUE]
              ELSE [sending[p] EXCEPT !.at = "age"])
  /\ UNCHANGED <<moment, install, claimed, settings, receiver, incidents>>

\* first_seen: recorded on first ask, with the time of the asking.
SeenNow == IF install.firstSeen = Unset THEN moment ELSE install.firstSeen

\* Any other day is sent when it is over, by an installation a day old.
AskFirstSeen(p) ==
  /\ sending[p].at = "age"
  /\ install' = [install EXCEPT !.firstSeen = SeenNow]
  /\ Sends(p, IF sending[p].now - SeenNow >= 2
              THEN [sending[p] EXCEPT !.at = "build", !.day = DayOf(sending[p].now) - 1]
              ELSE NoTick)
  /\ UNCHANGED <<moment, claimed, settings, receiver, incidents>>

\* The document is assembled; the installation's id is read ...
Build(p) ==
  /\ sending[p].at = "build"
  /\ Sends(p, IF install.id # Unset
              THEN [sending[p] EXCEPT !.at = "claim", !.id = install.id]
              ELSE [sending[p] EXCEPT !.at = "number"])
  /\ UNCHANGED <<moment, install, claimed, settings, receiver, incidents>>

\* ... or proposed: HSETNX, so that the first of two replicas names it.
NamesIt == install.id = Unset

ProposeId(p) ==
  /\ sending[p].at = "number"
  /\ IF NamesIt
     THEN /\ install' = [install EXCEPT !.id = p]
          /\ Sends(p, [sending[p] EXCEPT !.at = "claim", !.id = p])
     ELSE /\ UNCHANGED install
          /\ Sends(p, [sending[p] EXCEPT !.at = "reread"])
  /\ UNCHANGED <<moment, claimed, settings, receiver, incidents>>

RereadId(p) ==
  /\ sending[p].at = "reread"
  /\ Sends(p, [sending[p] EXCEPT !.at = "claim", !.id = install.id])
  /\ UNCHANGED <<moment, install, claimed, settings, receiver, incidents>>

\* claim_day: SET NX, once per installation.  Mutant: SET.
DayIsAlwaysFree(d) == TRUE
DayIsFree(d) == d \notin claimed

Claim(p) ==
  /\ sending[p].at = "claim"
  /\ claimed' = claimed \union {sending[p].day}
  /\ Sends(p, IF DayIsFree(sending[p].day) THEN [sending[p] EXCEPT !.at = "send"] ELSE NoTick)
  /\ UNCHANGED <<moment, install, settings, receiver, incidents>>

\* The receiver has the document.
Stored(p) ==
  /\ received' = [received EXCEPT ![sending[p].day] = @ + 1]
  /\ setups' = IF sending[p].first THEN setups \union {sending[p].day} ELSE setups
  /\ named' = named \union {sending[p].id}

\* One more attempt, if there is one left; the day stays claimed either way.
TriesAgain(p) == Sends(p, IF sending[p].tries + 1 < MaxAttempts
                          THEN [sending[p] EXCEPT !.tries = @ + 1] ELSE NoTick)

\* Stored and answered, or refused for good: the tick is over.
Deliver(p) ==
  /\ sending[p].at = "send"
  /\ Sends(p, NoTick)
  /\ \/ Stored(p) /\ UNCHANGED unanswered
     \/ UNCHANGED receiver
  /\ UNCHANGED <<moment, install, claimed, settings, incidents>>

\* A timeout, a broken connection or a 5xx: worth another try, whether or not
\* the receiver had stored the document before its answer was lost.
NoAnswer(p) ==
  /\ incidents < MaxIncidents
  /\ sending[p].at = "send"
  /\ incidents' = incidents + 1
  /\ TriesAgain(p)
  /\ \/ Stored(p) /\ unanswered' = [unanswered EXCEPT ![sending[p].day] = @ + 1]
     \/ UNCHANGED receiver
  /\ UNCHANGED <<moment, install, claimed, settings>>

\* Redis fails the tick, or the process dies: the claim, if taken, stands.
TickFails(p) ==
  /\ incidents < MaxIncidents
  /\ sending[p].at # "idle"
  /\ incidents' = incidents + 1
  /\ Sends(p, NoTick)
  /\ UNCHANGED <<moment, install, claimed, settings, receiver>>

-----------------------------------------------------------------------------
(***************************************************************************)
(* What is recorded of the installation, and who changes it.               *)
(***************************************************************************)

\* A process starts: the id and the first sight of the installation.  The id
\* is proposed as ProposeId does.
Register(p) ==
  /\ sending[p].at = "idle"
  /\ install' = [install EXCEPT !.id = IF NamesIt THEN p ELSE @,
                                !.firstSeen = SeenNow]
  /\ UNCHANGED <<moment, claimed, settings, sending, receiver, incidents>>

\* The wizard's last section is saved, perhaps again: the setup is complete ...
FinishSetup ==
  /\ incidents < MaxIncidents
  /\ ~settings.complete
  /\ incidents' = incidents + 1
  /\ settings' = [settings EXCEPT !.complete = TRUE, !.toNote = TRUE]
  /\ UNCHANGED <<moment, install, claimed, sending, receiver>>

\* note_setup_complete, HSETNX.  Mutant: HSET.
SetupDayAnew == DayOf(moment)
SetupDay == IF install.setupDay = Unset THEN DayOf(moment) ELSE install.setupDay

\* ... and then the day is noted, ...
NoteSetup ==
  /\ settings.toNote
  /\ settings' = [settings EXCEPT !.toNote = FALSE]
  /\ install' = [install EXCEPT !.setupDay = SetupDay]
  /\ UNCHANGED <<moment, claimed, sending, receiver, incidents>>

\* ... unless Redis refuses or the process dies.
SetupGoesUnnoted ==
  /\ settings.toNote
  /\ settings' = [settings EXCEPT !.toNote = FALSE]
  /\ UNCHANGED <<moment, install, claimed, sending, receiver, incidents>>

\* The settings are complete by other means than the wizard: an upgrade, the
\* environment; or no longer complete.
ChangeSettings ==
  /\ incidents < MaxIncidents
  /\ incidents' = incidents + 1
  /\ \/ settings' = [settings EXCEPT !.on = ~@]
     \/ settings' = [settings EXCEPT !.complete = ~@]
  /\ UNCHANGED <<moment, install, claimed, sending, receiver>>

HalfADayPasses ==
  /\ moment < MaxMoment
  /\ moment' = moment + 1
  /\ UNCHANGED <<install, claimed, settings, sending, receiver, incidents>>

SenderStep(p) ==
  \/ AskWhetherToSend(p) \/ AskSetupDay(p) \/ AskFirstSeen(p)
  \/ Build(p) \/ ProposeId(p) \/ RereadId(p) \/ Claim(p)
  \/ Deliver(p) \/ NoAnswer(p) \/ TickFails(p) \/ Register(p)

TelemetryNext ==
  \/ \E p \in Sender : SenderStep(p)
  \/ FinishSetup \/ NoteSetup \/ SetupGoesUnnoted \/ ChangeSettings \/ HalfADayPasses

TelemetrySpec == TelemetryInit /\ [][TelemetryNext]_telemetryVars

-----------------------------------------------------------------------------
(***************************************************************************)
(* What the document promises.                                             *)
(***************************************************************************)

\* What the claim is worth: one tick sends a day, however many processes and
\* ticks there are.  All the receiver has of a day beyond one document are the
\* repetitions of that tick's attempts that it stored and did not get to answer,
\* never more than there are attempts (claim_day in state/install.py, send in
\* telemetry/telemetrydeck.py).
OneTickSendsADay ==
  \A d \in Day : received[d] <= 1 + unanswered[d] /\ received[d] <= MaxAttempts

\* "One document per installation per UTC day" (docs/telemetry.md); "a day counted
\* twice is not [allowed]" (claim_day).  Does not hold: the attempts of one tick
\* carry nothing by which the receiver could tell a repetition.
OneDocumentPerDay == \A d \in Day : received[d] <= 1

\* An installation says once in its life that it has been set up, also when
\* it is set up again on a later day.
OneSetupDocument == Cardinality(setups) <= 1

\* All documents of an installation name the same one, also when two replicas
\* start on an empty Redis.
OneIdentity == Cardinality(named) <= 1
=============================================================================
