------------------------------ MODULE IntakeRun ------------------------------
(***************************************************************************)
(* The runs of the intake module over ONE ticket: the run shell            *)
(* (pipelines/shell.py), its Redis lock and state (state/ticket_state.py), *)
(* the agent loop with its tools (agents/intake) and the people who write  *)
(* on the same ticket meanwhile.  Every action is the code between two     *)
(* awaits that touch shared state: Redis, iTop, or another run.            *)
(*                                                                         *)
(* Text, prompts, catalogues and search results are abstracted away; a     *)
(* tool call keeps only what it does to the ticket and to the AI's state.  *)
(***************************************************************************)
EXTENDS Integers, FiniteSets

CONSTANTS
  Run,                   \* triggers accepted for this ticket, one run each
  NoRun,                 \* the lock key is absent
  Slot,                  \* positions of the tool calls of one model turn
  Scopes,                \* the action switches a run may be composed with
  MaxQuestions,          \* intake.max_questions
  MaxClassifyQuestions,  \* intake.max_classify_questions
  MaxIterations,         \* intake.max_iterations
  OutlivesTtl            \* may a run still be at work when its lock expires?

ASSUME IntakeAssumption ==
  /\ NoRun \notin Run
  /\ IsFiniteSet(Slot)
  /\ Scopes \subseteq [classify : BOOLEAN, clarify : BOOLEAN, note : BOOLEAN]
  /\ MaxQuestions \in Nat \ {0}
  /\ MaxClassifyQuestions \in Nat \ {0}
  /\ MaxIterations \in Nat \ {0}
  /\ OutlivesTtl \in BOOLEAN

VARIABLES
  lock,      \* the run whose SET NX created the lock key (Redis holds only "1")
  ai,        \* the Redis hash: questions_asked, classify_questions_asked, ai_done
  ticket,    \* the ticket in iTop: status active, author of the last public entry
  pc,        \* where each run is
  outcome,   \* how each run ended
  seen,      \* the run's snapshot of the ticket
  tools,     \* the run's tool set
  turns,     \* model calls the run has made
  calls,     \* the tool calls of the run's current turn
  (* history, read by no action *)
  asked,     \* questions posted on the ticket
  lost,      \* of them, those that will never be counted
  asks,      \* questions posted by each run
  notes,     \* private notes written by each run
  late       \* log entries written when ai_done was already set

localVars == <<seen, tools, turns, calls>>
historyVars == <<asked, lost, asks, notes, late>>
vars == <<lock, ai, ticket, pc, outcome, localVars, historyVars>>

Author == {"none", "human", "ai"}
Ticket == [active : BOOLEAN, last : Author, classified : BOOLEAN]
TicketState == [asked : Nat, classifyAsked : Nat, done : BOOLEAN]

Tool == {"post_public_question", "finish_handoff", "finish_processing",
         "set_classification"}

\* What a tool call does next; "ask" and "askClassify" are
\* post_public_question charged to one budget or to both.
Step == {"none", "ask", "askClassify", "post", "postClassify", "count",
         "countBoth", "countClassify", "note", "mark", "set", "success",
         "returned"}

Dead == {"end", "crashed"}
Locked == {"fetch", "guard", "model", "tools", "epilogue", "fallback", "close",
           "release"}

NoCalls == [s \in Slot |-> "none"]
NoTicket == [active |-> FALSE, last |-> "none", classified |-> FALSE]

TypeOK ==
  /\ lock \in Run \union {NoRun}
  /\ ai \in TicketState
  /\ ticket \in Ticket
  /\ pc \in [Run -> {"idle"} \union Locked \union Dead]
  /\ outcome \in [Run -> {"none", "skipped", "done", "failed"}]
  /\ seen \in [Run -> Ticket]
  /\ tools \in [Run -> SUBSET Tool]
  /\ turns \in [Run -> 0 .. MaxIterations]
  /\ calls \in [Run -> [Slot -> Step]]
  /\ asked \in Nat
  /\ lost \in Nat
  /\ asks \in [Run -> Nat]
  /\ notes \in [Run -> Nat]
  /\ late \in Nat

Init ==
  /\ lock = NoRun
  /\ ai = [asked |-> 0, classifyAsked |-> 0, done |-> FALSE]
  /\ ticket \in [active : {TRUE}, last : {"none", "human"}, classified : BOOLEAN]
  /\ pc = [r \in Run |-> "idle"]
  /\ outcome = [r \in Run |-> "none"]
  /\ seen = [r \in Run |-> NoTicket]
  /\ tools = [r \in Run |-> {}]
  /\ turns = [r \in Run |-> 0]
  /\ calls = [r \in Run |-> NoCalls]
  /\ asked = 0
  /\ lost = 0
  /\ asks = [r \in Run |-> 0]
  /\ notes = [r \in Run |-> 0]
  /\ late = 0

-----------------------------------------------------------------------------
(* The shell: lock, fetch, guard, release. *)

Goto(r, place) == pc' = [pc EXCEPT ![r] = place]

\* The run's body is over: its objects are gone, only its outcome remains.
Finish(r, place, result) ==
  /\ Goto(r, place)
  /\ outcome' = [outcome EXCEPT ![r] = result]
  /\ seen' = [seen EXCEPT ![r] = NoTicket]
  /\ tools' = [tools EXCEPT ![r] = {}]
  /\ turns' = [turns EXCEPT ![r] = 0]
  /\ calls' = [calls EXCEPT ![r] = NoCalls]

\* SET key "1" NX EX: the run that creates the key holds the lock.
AcquireLock(r) ==
  /\ pc[r] = "idle"
  /\ lock = NoRun
  /\ lock' = r
  /\ Goto(r, "fetch")
  /\ UNCHANGED <<ai, ticket, outcome, localVars, historyVars>>

\* Mutant: the acquisition is inside the try, so a skipped run releases too.
LockHeldInsideTry(r) ==
  /\ pc[r] = "idle"
  /\ lock # NoRun
  /\ Finish(r, "release", "skipped")
  /\ UNCHANGED <<lock, ai, ticket, historyVars>>

\* The key exists: the run is skipped, and releases nothing.
LockHeld(r) ==
  /\ pc[r] = "idle"
  /\ lock # NoRun
  /\ Finish(r, "end", "skipped")
  /\ UNCHANGED <<lock, ai, ticket, historyVars>>

\* Redis fails, before or after it has done the SET: either way nobody
\* deletes the key, since the call is outside the try block.
AcquireFails(r) ==
  /\ pc[r] = "idle"
  /\ lock' \in {lock} \union (IF lock = NoRun THEN {r} ELSE {})
  /\ Finish(r, "end", "failed")
  /\ UNCHANGED <<ai, ticket, historyVars>>

\* The class lacks a mapped field, or the ticket is not in iTop.
NothingToRunOn(r) ==
  /\ pc[r] = "fetch"
  /\ Finish(r, "release", "skipped")
  /\ UNCHANGED <<lock, ai, ticket, historyVars>>

Fetch(r) ==
  /\ pc[r] = "fetch"
  /\ seen' = [seen EXCEPT ![r] = ticket]
  /\ Goto(r, "guard")
  /\ UNCHANGED <<lock, ai, ticket, outcome, tools, turns, calls, historyVars>>

\* Mutant: the loop guard is left to iTop's trigger filter.
MustStopWithoutLoopGuard(r) == ai.done \/ ~seen[r].active

\* Mutant: the guard trusts the ticket's status alone.
MustStopWithoutDone(r) == ~seen[r].active \/ seen[r].last = "ai"

\* domain.stop_reason: the snapshot is the one fetched, the state is read now.
MustStop(r) ==
  \/ ai.done
  \/ ~seen[r].active
  \/ seen[r].last = "ai"

GuardStops(r) ==
  /\ pc[r] = "guard"
  /\ MustStop(r)
  /\ Finish(r, "release", "skipped")
  /\ UNCHANGED <<lock, ai, ticket, historyVars>>

\* tools_for: what is switched off, or no longer needed, is not handed over.
ToolsFor(scope, classified) ==
  UNION {IF scope.classify /\ ~classified THEN {"set_classification"} ELSE {},
         IF scope.clarify THEN {"post_public_question"} ELSE {},
         IF scope.note THEN {"finish_handoff"} ELSE {"finish_processing"}}

\* The guard lets the run through and the agent is composed.
Compose(r) ==
  /\ pc[r] = "guard"
  /\ ~MustStop(r)
  /\ \E scope \in Scopes :
       tools' = [tools EXCEPT ![r] = ToolsFor(scope, seen[r].classified)]
  /\ Goto(r, "model")
  /\ UNCHANGED <<lock, ai, ticket, outcome, seen, turns, calls, historyVars>>

\* DELETE key, whoever created it.  A Redis error leaves the key to its TTL.
ReleaseLock(r) ==
  /\ pc[r] = "release"
  /\ lock' \in {NoRun, lock}
  /\ Goto(r, "end")
  /\ UNCHANGED <<ai, ticket, outcome, localVars, historyVars>>

-----------------------------------------------------------------------------
(* The agent loop. *)

\* needs_classification, from what the run was given and what it has set.
NeedsClassification(r) ==
  "set_classification" \in tools[r] /\ ~seen[r].classified

\* Where a requested call starts.  "returned" stands for every call that
\* changes nothing: reading the catalogue, searching, or being refused for
\* blank text, unknown ids, bad arguments or an exact repeat.
FirstStep(r, tool) ==
  CASE tool = "post_public_question" ->
         IF NeedsClassification(r) THEN "askClassify" ELSE "ask"
    [] tool = "finish_handoff" -> "note"
    [] tool = "finish_processing" -> "mark"
    [] tool = "set_classification" -> "set"
    [] tool \in {"none", "returned"} -> tool

\* Mutant: the limit is off by one.
TurnsLeftOffByOne(r) == turns[r] <= MaxIterations

\* ModelCallLimitMiddleware, run_limit = max_iterations.
TurnsLeft(r) == turns[r] < MaxIterations

\* Mutant: a turn that only reads is not charged.
CountedOnlyIfActing(r) ==
  [turns EXCEPT ![r] = IF \A s \in Slot : calls'[r][s] \in {"none", "returned"}
                         THEN @ ELSE @ + 1]

\* The model calls of the run, this one included.
Counted(r) == [turns EXCEPT ![r] = @ + 1]

\* One model call that asks for tools: a set of calls, started together.
ModelTurn(r) ==
  /\ pc[r] = "model"
  /\ TurnsLeft(r)
  /\ \E chosen \in [Slot -> tools[r] \union {"none", "returned"}] :
       /\ \E s \in Slot : chosen[s] # "none"
       /\ calls' = [calls EXCEPT ![r] = [s \in Slot |-> FirstStep(r, chosen[s])]]
  /\ turns' = Counted(r)
  /\ Goto(r, "tools")
  /\ UNCHANGED <<lock, ai, ticket, outcome, seen, tools, historyVars>>

\* Prose even after the nudge, or no model call left.
AgentGivesUp(r) ==
  /\ pc[r] = "model"
  /\ Goto(r, "epilogue")
  /\ UNCHANGED <<lock, ai, ticket, outcome, localVars, historyVars>>

\* Mutant: without _stop_after_terminal the model is asked to go on.
TurnEndsWithoutStop(r) ==
  /\ pc[r] = "tools"
  /\ \A s \in Slot : calls[r][s] \in {"none", "returned", "success"}
  /\ Goto(r, "model")
  /\ calls' = [calls EXCEPT ![r] = NoCalls]
  /\ UNCHANGED <<lock, ai, ticket, outcome, seen, tools, turns, historyVars>>

\* All calls of the turn have returned: a closing tool that succeeded ends the
\* run, anything else goes back to the model.
TurnEnds(r) ==
  /\ pc[r] = "tools"
  /\ \A s \in Slot : calls[r][s] \in {"none", "returned", "success"}
  /\ \/ /\ \E s \in Slot : calls[r][s] = "success"
        /\ Finish(r, "release", "done")
     \/ /\ \A s \in Slot : calls[r][s] # "success"
        /\ Goto(r, "model")
        /\ calls' = [calls EXCEPT ![r] = NoCalls]
        /\ UNCHANGED <<outcome, seen, tools, turns>>
  /\ UNCHANGED <<lock, ai, ticket, historyVars>>

-----------------------------------------------------------------------------
(* The tools.  At(r, s, step) is call s of run r being about to do step. *)

At(r, s, step) == pc[r] = "tools" /\ calls[r][s] = step

Advance(r, s, step) == calls' = [calls EXCEPT ![r][s] = step]

\* Mutant: the phase share is spent instead of the overall budget.
MayAskFromEither(classifying) ==
  IF classifying THEN ai.classifyAsked < MaxClassifyQuestions
                 ELSE ai.asked < MaxQuestions

\* Mutant: the ceiling is compared with one question too late.
MayAskOneMore(classifying) ==
  /\ classifying => ai.classifyAsked < MaxClassifyQuestions
  /\ ai.asked <= MaxQuestions

\* check_question_budget
MayAsk(classifying) ==
  /\ classifying => ai.classifyAsked < MaxClassifyQuestions
  /\ ai.asked < MaxQuestions

\* post_public_question, up to its budget: read the state, post or refuse.
CheckBudget(r, s) ==
  /\ \/ /\ At(r, s, "ask")
        /\ Advance(r, s, IF MayAsk(FALSE) THEN "post" ELSE "returned")
     \/ /\ At(r, s, "askClassify")
        /\ Advance(r, s, IF MayAsk(TRUE) THEN "postClassify" ELSE "returned")
  /\ UNCHANGED <<lock, ai, ticket, pc, outcome, seen, tools, turns, historyVars>>

\* append_public_log
PostQuestion(r, s) ==
  /\ \/ At(r, s, "post") /\ Advance(r, s, "count")
     \/ At(r, s, "postClassify") /\ Advance(r, s, "countBoth")
  /\ ticket' = [ticket EXCEPT !.last = "ai"]
  /\ asked' = asked + 1
  /\ asks' = [asks EXCEPT ![r] = @ + 1]
  /\ late' = IF ai.done THEN late + 1 ELSE late
  /\ UNCHANGED <<lock, ai, pc, outcome, seen, tools, turns, lost, notes>>

\* record_question, first increment: the overall budget.
CountQuestion(r, s) ==
  /\ \/ At(r, s, "count") /\ Advance(r, s, "success")
     \/ At(r, s, "countBoth") /\ Advance(r, s, "countClassify")
  /\ ai' = [ai EXCEPT !.asked = @ + 1]
  /\ UNCHANGED <<lock, ticket, pc, outcome, seen, tools, turns, historyVars>>

\* record_question, second increment: the share of the classification phase.
CountClassifyQuestion(r, s) ==
  /\ At(r, s, "countClassify")
  /\ Advance(r, s, "success")
  /\ ai' = [ai EXCEPT !.classifyAsked = @ + 1]
  /\ UNCHANGED <<lock, ticket, pc, outcome, seen, tools, turns, historyVars>>

\* Mutant: the note is taken for the closing itself, and nothing marks it.
WriteNoteOnly(r, s) ==
  /\ At(r, s, "note")
  /\ Advance(r, s, "success")
  /\ notes' = [notes EXCEPT ![r] = @ + 1]
  /\ late' = IF ai.done THEN late + 1 ELSE late
  /\ UNCHANGED <<lock, ai, ticket, pc, outcome, seen, tools, turns, asked, lost, asks>>

\* finish_handoff: append_private_log, then mark_done.
WriteNote(r, s) ==
  /\ At(r, s, "note")
  /\ Advance(r, s, "mark")
  /\ notes' = [notes EXCEPT ![r] = @ + 1]
  /\ late' = IF ai.done THEN late + 1 ELSE late
  /\ UNCHANGED <<lock, ai, ticket, pc, outcome, seen, tools, turns, asked, lost, asks>>

\* mark_done, of finish_handoff and of finish_processing.
MarkDone(r, s) ==
  /\ At(r, s, "mark")
  /\ Advance(r, s, "success")
  /\ ai' = [ai EXCEPT !.done = TRUE]
  /\ UNCHANGED <<lock, ticket, pc, outcome, seen, tools, turns, historyVars>>

\* set_classification accepted: iTop and the run's snapshot change together.
SetClassification(r, s) ==
  /\ At(r, s, "set")
  /\ Advance(r, s, "returned")
  /\ ticket' = [ticket EXCEPT !.classified = TRUE]
  /\ seen' = [seen EXCEPT ![r].classified = TRUE]
  /\ UNCHANGED <<lock, ai, pc, outcome, tools, turns, historyVars>>

ToolStep(r) ==
  \E s \in Slot :
    \/ CheckBudget(r, s)
    \/ PostQuestion(r, s)
    \/ CountQuestion(r, s)
    \/ CountClassifyQuestion(r, s)
    \/ WriteNote(r, s)
    \/ MarkDone(r, s)
    \/ SetClassification(r, s)

-----------------------------------------------------------------------------
(* IntakeAgentRun.epilogue: closing what the agent did not close. *)

\* ai_done is read again, for the engineer who came meanwhile.
ReadBeforeClosing(r) ==
  /\ pc[r] = "epilogue"
  /\ \/ ai.done /\ Finish(r, "release", "done")
     \/ /\ ~ai.done
        /\ Goto(r, IF "finish_handoff" \in tools[r] THEN "fallback" ELSE "close")
        /\ UNCHANGED <<outcome, localVars>>
  /\ UNCHANGED <<lock, ai, ticket, historyVars>>

WriteFallbackNote(r) ==
  /\ pc[r] = "fallback"
  /\ Goto(r, "close")
  /\ notes' = [notes EXCEPT ![r] = @ + 1]
  /\ late' = IF ai.done THEN late + 1 ELSE late
  /\ UNCHANGED <<lock, ai, ticket, outcome, localVars, asked, lost, asks>>

\* Mutant: the epilogue writes its note and forgets the flag.
CloseTicketSilently(r) ==
  /\ pc[r] = "close"
  /\ Finish(r, "release", "done")
  /\ UNCHANGED <<lock, ai, ticket, historyVars>>

CloseTicket(r) ==
  /\ pc[r] = "close"
  /\ ai' = [ai EXCEPT !.done = TRUE]
  /\ Finish(r, "release", "done")
  /\ UNCHANGED <<lock, ticket, historyVars>>

-----------------------------------------------------------------------------
(* What goes wrong, and who else is there. *)

\* Questions posted by r that its end leaves uncounted.
Uncounted(r) == Cardinality({s \in Slot : calls[r][s] \in {"count", "countBoth"}})

StopsWorking(r, place) ==
  /\ Finish(r, place, IF outcome[r] = "none" THEN "failed" ELSE outcome[r])
  /\ lost' = lost + Uncounted(r)
  /\ UNCHANGED <<lock, ai, ticket, asked, asks, notes, late>>

\* iTop, Redis or the model fails: the exception cancels the calls still
\* under way and reaches the shell's finally.
Fail(r) ==
  /\ pc[r] \in Locked \ {"release"}
  /\ StopsWorking(r, "release")

\* The process dies: the lock stays.
Crash(r) ==
  /\ pc[r] \in Locked
  /\ StopsWorking(r, "crashed")

\* Mutant: the key is set without EX.
LockNeverExpires == FALSE

\* The TTL of the key, never renewed.
LockExpires ==
  /\ lock # NoRun
  /\ OutlivesTtl \/ pc[lock] \in Dead
  /\ lock' = NoRun
  /\ UNCHANGED <<ai, ticket, pc, outcome, localVars, historyVars>>

\* The requester or an engineer comments, or somebody edits the classification.
PeopleWrite ==
  /\ \E edited \in BOOLEAN :
       ticket' = [ticket EXCEPT !.last = "human", !.classified = edited]
  /\ UNCHANGED <<lock, ai, pc, outcome, localVars, historyVars>>

\* An engineer takes the ticket out of the active statuses.
EngineerTakes ==
  /\ ticket' = [ticket EXCEPT !.active = FALSE]
  /\ UNCHANGED <<lock, ai, pc, outcome, localVars, historyVars>>

\* A webhook of an assignment, whenever it arrives: no lock, and no read of the
\* ticket, which may be back in the queue by then.
HandleAssigned ==
  /\ ai' = [ai EXCEPT !.done = TRUE]
  /\ UNCHANGED <<lock, ticket, pc, outcome, localVars, historyVars>>

-----------------------------------------------------------------------------
RunStep(r) ==
  \/ NothingToRunOn(r)
  \/ Fetch(r)
  \/ GuardStops(r)
  \/ Compose(r)
  \/ ModelTurn(r)
  \/ AgentGivesUp(r)
  \/ ToolStep(r)
  \/ TurnEnds(r)
  \/ ReadBeforeClosing(r)
  \/ WriteFallbackNote(r)
  \/ CloseTicket(r)
  \/ ReleaseLock(r)

Next ==
  \/ \E r \in Run :
       \/ AcquireLock(r)
       \/ LockHeld(r)
       \/ AcquireFails(r)
       \/ RunStep(r)
       \/ Fail(r)
       \/ Crash(r)
  \/ LockExpires
  \/ PeopleWrite
  \/ EngineerTakes
  \/ HandleAssigned

\* A run under way keeps going: every await of it returns or raises.  The clients
\* of iTop and of the models have timeouts; the one of Redis (core/deps.py) sets
\* none and relies on the connection to break.  Redis expires keys.  Nobody has to
\* write.
Fairness ==
  /\ \A r \in Run : WF_vars(RunStep(r))
  /\ WF_vars(LockExpires)

Spec == Init /\ [][Next]_vars /\ Fairness

-----------------------------------------------------------------------------
(* Properties *)

\* "One run over one iTop object, under a per-object lock": of the runs
\* accepted for a ticket, no two are between acquiring and releasing the lock,
\* whatever fails, is delivered twice or is never released.
OneRunAtATime ==
  \A r1, r2 \in Run : pc[r1] \in Locked /\ pc[r2] \in Locked => r1 = r2

\* The question ceiling: the requester never gets more questions than the
\* budget plus those whose charge a failure lost; the counters themselves
\* never pass their limits, and the phase share is spent inside the budget.
QuestionCeiling ==
  /\ asked <= MaxQuestions + lost
  /\ ai.asked <= MaxQuestions
  /\ ai.classifyAsked <= MaxClassifyQuestions
  /\ ai.classifyAsked <= ai.asked

\* "One question or one handoff, never both": whatever the model calls, in
\* whatever order, one run writes at most one entry to the ticket's logs.
OneClosingAction ==
  \A r \in Run : asks[r] + notes[r] <= 1

\* The loop guard: the assistant never speaks in the public log right after
\* itself, so duplicate webhooks and its own comment cannot make it ask again.
NeverAsksTwiceInARow ==
  [][asked' # asked => ticket.last # "ai"]_vars

\* An engineer takes the ticket while a run is thinking: that run may still
\* finish its sentence, and nothing is written after it.
AtMostOneLateWrite == late <= 1

\* The shell's guarantee: a run that ended normally either asked the requester
\* something or left the ticket closed, so the next event does not replay it.
DoneRunsLeaveNothingOpen ==
  \A r \in Run : outcome[r] = "done" => ai.done \/ asks[r] > 0

\* An engineer finds two notes of the assistant on a ticket only if a run
\* failed between writing one and marking the ticket done.
OneNotePerTicket ==
  \A r1, r2 \in Run :
    r1 # r2 /\ notes[r1] > 0 /\ notes[r2] > 0 =>
      outcome[r1] = "failed" \/ outcome[r2] = "failed"

\* The budget of model calls ends every run that took the lock.
EveryRunEnds ==
  \A r \in Run : pc[r] \in Locked ~> pc[r] \in Dead

\* A ticket is never locked for good, not even by a run that died or by a
\* release that Redis lost.
LockIsFreed ==
  \A r \in Run : lock = r ~> lock # r

\* The requester's side of it all: a question costs one unit of the budget the
\* moment it is posted.
Dialogue == INSTANCE IntakeDialogue
  WITH budget <- MaxQuestions + lost - asked, last <- ticket.last, closed <- ai.done

RefinesDialogue == Dialogue!Spec
=============================================================================
