-------------------------- MODULE IntakeRun_proofs --------------------------
(***************************************************************************)
(* Theorems about IntakeRun, for any number of runs, any budgets and any   *)
(* set of action switches: types, mutual exclusion, what a finished run    *)
(* leaves, closing actions and notes, the limits over all runs, and the    *)
(* dialogue they implement.                                                *)
(***************************************************************************)
EXTENDS IntakeRun, FiniteSetTheorems, TLAPS

-----------------------------------------------------------------------------
(* Type correctness. *)

\* The end of a run's body leaves its working state well typed.
LEMMA FinishTyped ==
  ASSUME TypeOK, NEW r \in Run, NEW place \in Locked \union Dead,
         NEW result \in {"none", "skipped", "done", "failed"},
         Finish(r, place, result)
  PROVE  /\ pc' \in [Run -> {"idle"} \union Locked \union Dead]
         /\ outcome' \in [Run -> {"none", "skipped", "done", "failed"}]
         /\ seen' \in [Run -> Ticket]
         /\ tools' \in [Run -> SUBSET Tool]
         /\ turns' \in [Run -> 0 .. MaxIterations]
         /\ calls' \in [Run -> [Slot -> Step]]
<1>1. NoTicket \in Ticket
  BY DEF NoTicket, Ticket, Author
<1>2. NoCalls \in [Slot -> Step]
  BY DEF NoCalls, Step
<1>3. 0 \in 0 .. MaxIterations
  BY IntakeAssumption
<1> QED
  BY <1>1, <1>2, <1>3 DEF TypeOK, Finish, Goto

\* A requested call starts at one of the steps of a tool.
LEMMA FirstStepTyped ==
  ASSUME NEW r \in Run, NEW tool \in Tool \union {"none", "returned"}
  PROVE  FirstStep(r, tool) \in Step
BY DEF FirstStep, Tool, Step

\* The questions a failure leaves uncounted are finitely many.
LEMMA UncountedTyped ==
  ASSUME NEW r \in Run
  PROVE  Uncounted(r) \in Nat
<1>. DEFINE S == {s \in Slot : calls[r][s] \in {"count", "countBoth"}}
<1>1. IsFiniteSet(S)
  BY IntakeAssumption, FS_Subset
<1> QED
  BY <1>1, FS_CardinalityType DEF Uncounted

LEMMA InitTyped == Init => TypeOK
<1> SUFFICES ASSUME Init PROVE TypeOK
  OBVIOUS
<1>1. calls \in [Run -> [Slot -> Step]]
  BY DEF Init, NoCalls, Step
<1>2. NoTicket \in Ticket /\ ticket \in Ticket
  BY DEF Init, NoTicket, Ticket, Author
<1>3. turns \in [Run -> 0 .. MaxIterations]
  BY IntakeAssumption DEF Init
<1>4. ai \in TicketState
  BY DEF Init, TicketState
<1> QED
  BY <1>1, <1>2, <1>3, <1>4 DEF Init, TypeOK

LEMMA NextTyped == TypeOK /\ [Next]_vars => TypeOK'
<1> SUFFICES ASSUME TypeOK, [Next]_vars PROVE TypeOK'
  OBVIOUS
<1>1. ASSUME NEW r \in Run, AcquireLock(r) PROVE TypeOK'
  BY <1>1 DEF TypeOK, AcquireLock, Goto, Locked, localVars, historyVars
<1>2. ASSUME NEW r \in Run, LockHeld(r) \/ NothingToRunOn(r) \/ GuardStops(r)
      PROVE  TypeOK'
  <2>1. \E place \in Locked \union Dead : Finish(r, place, "skipped")
    BY <1>2 DEF LockHeld, NothingToRunOn, GuardStops, Locked, Dead
  <2>2. UNCHANGED <<lock, ai, ticket, historyVars>>
    BY <1>2 DEF LockHeld, NothingToRunOn, GuardStops
  <2> QED
    BY <2>1, <2>2, FinishTyped DEF TypeOK, historyVars
<1>3. ASSUME NEW r \in Run, AcquireFails(r) PROVE TypeOK'
  <2>1. Finish(r, "end", "failed") /\ "end" \in Locked \union Dead
    BY <1>3 DEF AcquireFails, Dead
  <2> QED
    BY <1>3, <2>1, FinishTyped DEF TypeOK, AcquireFails, historyVars
<1>4. ASSUME NEW r \in Run, Fetch(r) PROVE TypeOK'
  BY <1>4 DEF TypeOK, Fetch, Goto, Locked, historyVars
<1>5. ASSUME NEW r \in Run, Compose(r) PROVE TypeOK'
  <2>1. ASSUME NEW scope, NEW classified PROVE ToolsFor(scope, classified) \in SUBSET Tool
    BY DEF ToolsFor, Tool
  <2> QED
    BY <1>5, <2>1 DEF TypeOK, Compose, Goto, Locked, historyVars
<1>6. ASSUME NEW r \in Run, ModelTurn(r) PROVE TypeOK'
  <2>1. PICK chosen \in [Slot -> tools[r] \union {"none", "returned"}] :
          calls' = [calls EXCEPT ![r] = [s \in Slot |-> FirstStep(r, chosen[s])]]
    BY <1>6 DEF ModelTurn
  <2>2. \A s \in Slot : chosen[s] \in Tool \union {"none", "returned"}
    BY <2>1 DEF TypeOK
  <2>3. [s \in Slot |-> FirstStep(r, chosen[s])] \in [Slot -> Step]
    BY <2>2, FirstStepTyped
  <2>4. calls' \in [Run -> [Slot -> Step]]
    BY <2>1, <2>3 DEF TypeOK
  <2>5. turns' \in [Run -> 0 .. MaxIterations]
    BY <1>6, IntakeAssumption DEF TypeOK, ModelTurn, TurnsLeft, Counted
  <2> QED
    BY <1>6, <2>4, <2>5 DEF TypeOK, ModelTurn, Goto, Locked, historyVars
<1>7. ASSUME NEW r \in Run, AgentGivesUp(r) PROVE TypeOK'
  BY <1>7 DEF TypeOK, AgentGivesUp, Goto, Locked, localVars, historyVars
<1>8. ASSUME NEW r \in Run, TurnEnds(r) PROVE TypeOK'
  <2>1. CASE Finish(r, "release", "done")
    <3>1. "release" \in Locked \union Dead
      BY DEF Locked
    <3> QED
      BY <1>8, <2>1, <3>1, FinishTyped DEF TypeOK, TurnEnds, historyVars
  <2>2. CASE /\ Goto(r, "model")
             /\ calls' = [calls EXCEPT ![r] = NoCalls]
             /\ UNCHANGED <<outcome, seen, tools, turns>>
    <3>1. NoCalls \in [Slot -> Step]
      BY DEF NoCalls, Step
    <3> QED
      BY <1>8, <2>2, <3>1 DEF TypeOK, TurnEnds, Goto, Locked, historyVars
  <2> QED
    BY <1>8, <2>1, <2>2 DEF TurnEnds
<1>9. ASSUME NEW r \in Run, ToolStep(r) PROVE TypeOK'
  <2> PICK s \in Slot : \/ CheckBudget(r, s)
                        \/ PostQuestion(r, s)
                        \/ CountQuestion(r, s)
                        \/ CountClassifyQuestion(r, s)
                        \/ WriteNote(r, s)
                        \/ MarkDone(r, s)
                        \/ SetClassification(r, s)
    BY <1>9 DEF ToolStep
  <2>1. ASSUME NEW step \in Step, Advance(r, s, step)
        PROVE  calls' \in [Run -> [Slot -> Step]]
    BY <2>1 DEF TypeOK, Advance
  <2>2. CASE CheckBudget(r, s)
    <3>1. \E step \in Step : Advance(r, s, step)
      BY <2>2 DEF CheckBudget, Step
    <3> QED
      BY <2>1, <2>2, <3>1 DEF TypeOK, CheckBudget, historyVars
  <2>3. CASE PostQuestion(r, s)
    <3>1. \E step \in Step : Advance(r, s, step)
      BY <2>3 DEF PostQuestion, Step
    <3>2. calls' \in [Run -> [Slot -> Step]]
      BY <2>1, <3>1
    <3>3. ticket' \in Ticket
      BY <2>3 DEF TypeOK, PostQuestion, Ticket, Author
    <3>4. asks' \in [Run -> Nat] /\ late' \in Nat
      BY <2>3 DEF TypeOK, PostQuestion
    <3> QED
      BY <2>3, <3>2, <3>3, <3>4 DEF TypeOK, PostQuestion
  <2>4. CASE CountQuestion(r, s)
    <3>1. \E step \in Step : Advance(r, s, step)
      BY <2>4 DEF CountQuestion, Step
    <3>2. calls' \in [Run -> [Slot -> Step]]
      BY <2>1, <3>1
    <3>3. ai' \in TicketState
      <4>1. ai \in TicketState
        BY DEF TypeOK
      <4> QED
        BY <2>4, <4>1 DEF CountQuestion, TicketState
    <3> QED
      BY <2>4, <3>2, <3>3 DEF TypeOK, CountQuestion, historyVars
  <2>5. CASE CountClassifyQuestion(r, s)
    <3>1. \E step \in Step : Advance(r, s, step)
      BY <2>5 DEF CountClassifyQuestion, Step
    <3>2. calls' \in [Run -> [Slot -> Step]]
      BY <2>1, <3>1
    <3>3. ai' \in TicketState
      <4>1. ai \in TicketState
        BY DEF TypeOK
      <4> QED
        BY <2>5, <4>1 DEF CountClassifyQuestion, TicketState
    <3> QED
      BY <2>5, <3>2, <3>3 DEF TypeOK, CountClassifyQuestion, historyVars
  <2>6. CASE WriteNote(r, s)
    <3>1. \E step \in Step : Advance(r, s, step)
      BY <2>6 DEF WriteNote, Step
    <3> QED
      BY <2>1, <2>6, <3>1 DEF TypeOK, WriteNote
  <2>7. CASE MarkDone(r, s)
    <3>1. \E step \in Step : Advance(r, s, step)
      BY <2>7 DEF MarkDone, Step
    <3> QED
      BY <2>1, <2>7, <3>1 DEF TypeOK, MarkDone, TicketState, historyVars
  <2>8. CASE SetClassification(r, s)
    <3>1. \E step \in Step : Advance(r, s, step)
      BY <2>8 DEF SetClassification, Step
    <3> QED
      BY <2>1, <2>8, <3>1 DEF TypeOK, SetClassification, Ticket, historyVars
  <2> QED
    BY <2>2, <2>3, <2>4, <2>5, <2>6, <2>7, <2>8
<1>10. ASSUME NEW r \in Run, ReadBeforeClosing(r) PROVE TypeOK'
  <2>1. CASE Finish(r, "release", "done")
    <3>1. "release" \in Locked \union Dead
      BY DEF Locked
    <3> QED
      BY <1>10, <2>1, <3>1, FinishTyped DEF TypeOK, ReadBeforeClosing, historyVars
  <2>2. CASE /\ Goto(r, IF "finish_handoff" \in tools[r] THEN "fallback" ELSE "close")
             /\ UNCHANGED <<outcome, localVars>>
    BY <1>10, <2>2 DEF TypeOK, ReadBeforeClosing, Goto, Locked, localVars, historyVars
  <2> QED
    BY <1>10, <2>1, <2>2 DEF ReadBeforeClosing
<1>11. ASSUME NEW r \in Run, WriteFallbackNote(r) PROVE TypeOK'
  BY <1>11 DEF TypeOK, WriteFallbackNote, Goto, Locked, localVars
<1>12. ASSUME NEW r \in Run, CloseTicket(r) PROVE TypeOK'
  <2>1. Finish(r, "release", "done") /\ "release" \in Locked \union Dead
    BY <1>12 DEF CloseTicket, Locked
  <2> QED
    BY <1>12, <2>1, FinishTyped DEF TypeOK, CloseTicket, TicketState, historyVars
<1>13. ASSUME NEW r \in Run, ReleaseLock(r) PROVE TypeOK'
  BY <1>13 DEF TypeOK, ReleaseLock, Goto, Dead, localVars, historyVars
<1>14. ASSUME NEW r \in Run, Fail(r) \/ Crash(r) PROVE TypeOK'
  <2>1. PICK place \in Locked \union Dead : StopsWorking(r, place)
    BY <1>14 DEF Fail, Crash, Locked, Dead
  <2>2. (IF outcome[r] = "none" THEN "failed" ELSE outcome[r])
          \in {"none", "skipped", "done", "failed"}
    BY DEF TypeOK
  <2>3. lost' \in Nat
    BY <2>1, UncountedTyped DEF TypeOK, StopsWorking
  <2> QED
    BY <2>1, <2>2, <2>3, FinishTyped DEF TypeOK, StopsWorking
<1>15. CASE LockExpires
  BY <1>15 DEF TypeOK, LockExpires, localVars, historyVars
<1>16. CASE PeopleWrite
  BY <1>16 DEF TypeOK, PeopleWrite, Ticket, Author, localVars, historyVars
<1>17. CASE EngineerTakes
  BY <1>17 DEF TypeOK, EngineerTakes, Ticket, localVars, historyVars
<1>18. CASE HandleAssigned
  BY <1>18 DEF TypeOK, HandleAssigned, TicketState, localVars, historyVars
<1>19. CASE UNCHANGED vars
  BY <1>19 DEF TypeOK, vars, localVars, historyVars
<1> QED
  BY <1>1, <1>2, <1>3, <1>4, <1>5, <1>6, <1>7, <1>8, <1>9, <1>10, <1>11, <1>12,
     <1>13, <1>14, <1>15, <1>16, <1>17, <1>18, <1>19 DEF Next, RunStep

\* Every variable keeps its type; in particular no run makes more model calls
\* than intake.max_iterations.
THEOREM TypeCorrect == Spec => []TypeOK
BY InitTyped, NextTyped, PTL DEF Spec

-----------------------------------------------------------------------------
(* Mutual exclusion, when no run outlives the TTL of its lock. *)

\* Where a run stands within the lock, the key is the one it created: the
\* strengthening of OneRunAtATime that the steps preserve.  "DELETE, whoever
\* created it" and the expiry keep it only because nobody else's run is alive
\* under that key.
HoldersHold == \A r \in Run : pc[r] \in Locked => lock = r

\* A step that leaves the lock alone and lets nobody in.
LEMMA LeavesLock ==
  ASSUME TypeOK, HoldersHold, lock' = lock,
         \A q \in Run : pc'[q] \in Locked => pc[q] \in Locked
  PROVE  HoldersHold'
BY DEF HoldersHold

LEMMA InitHolders == Init => HoldersHold
BY DEF Init, HoldersHold, Locked

LEMMA NextHolders ==
  ASSUME OutlivesTtl = FALSE, TypeOK, HoldersHold, [Next]_vars
  PROVE  HoldersHold'
<1>1. ASSUME NEW r \in Run, AcquireLock(r) PROVE HoldersHold'
  <2>1. \A q \in Run : pc[q] \notin Locked
    BY <1>1, IntakeAssumption DEF HoldersHold, AcquireLock
  <2>2. \A q \in Run \ {r} : pc'[q] = pc[q]
    BY <1>1 DEF TypeOK, AcquireLock, Goto
  <2> QED
    BY <1>1, <2>1, <2>2 DEF HoldersHold, AcquireLock
<1>2. ASSUME NEW r \in Run, LockHeld(r) PROVE HoldersHold'
  <2>1. \A q \in Run : pc'[q] \in Locked => pc[q] \in Locked
    BY <1>2 DEF TypeOK, LockHeld, Finish, Goto, Locked
  <2> QED
    BY <1>2, <2>1, LeavesLock DEF LockHeld
<1>3. ASSUME NEW r \in Run, AcquireFails(r) PROVE HoldersHold'
  <2>1. \A q \in Run : pc'[q] \in Locked => pc[q] \in Locked
    BY <1>3 DEF TypeOK, AcquireFails, Finish, Goto, Locked
  <2>2. CASE lock' = lock
    BY <2>1, <2>2, LeavesLock
  <2>3. CASE lock = NoRun
    BY <2>1, <2>3, IntakeAssumption DEF HoldersHold
  <2> QED
    BY <1>3, <2>2, <2>3 DEF AcquireFails
<1>4. ASSUME NEW r \in Run, RunStep(r), ~ReleaseLock(r) PROVE HoldersHold'
  <2>1. pc[r] \in Locked
    BY <1>4 DEF RunStep, NothingToRunOn, Fetch, GuardStops, Compose, ModelTurn,
       AgentGivesUp, ToolStep, CheckBudget, PostQuestion, CountQuestion,
       CountClassifyQuestion, WriteNote, MarkDone, SetClassification, At,
       TurnEnds, ReadBeforeClosing, WriteFallbackNote, CloseTicket, Locked
  <2>2. /\ lock' = lock
        /\ \/ pc' = pc
           \/ \E place \in Locked : Goto(r, place)
    BY <1>4 DEF RunStep, NothingToRunOn, Fetch, GuardStops, Compose, ModelTurn,
       AgentGivesUp, ToolStep, CheckBudget, PostQuestion, CountQuestion,
       CountClassifyQuestion, WriteNote, MarkDone, SetClassification,
       TurnEnds, ReadBeforeClosing, WriteFallbackNote, CloseTicket, Locked, Finish
  <2>3. \A q \in Run : pc'[q] \in Locked => pc[q] \in Locked
    BY <2>1, <2>2 DEF TypeOK, Goto
  <2> QED
    BY <2>2, <2>3, LeavesLock
<1>5. ASSUME NEW r \in Run, ReleaseLock(r) PROVE HoldersHold'
  <2>1. \A q \in Run : pc'[q] \in Locked => pc[q] \in Locked /\ q # r
    BY <1>5 DEF TypeOK, ReleaseLock, Goto, Locked
  <2>2. lock = r
    BY <1>5 DEF HoldersHold, ReleaseLock, Locked
  <2> QED
    BY <2>1, <2>2 DEF HoldersHold
<1>6. ASSUME NEW r \in Run, Fail(r) \/ Crash(r) PROVE HoldersHold'
  <2>1. /\ pc[r] \in Locked
        /\ lock' = lock
        /\ \E place \in {"release", "crashed"} : Goto(r, place)
    BY <1>6 DEF Fail, Crash, StopsWorking, Finish
  <2>2. \A q \in Run : pc'[q] \in Locked => pc[q] \in Locked
    BY <2>1 DEF TypeOK, Goto
  <2> QED
    BY <2>1, <2>2, LeavesLock
<1>7. CASE LockExpires
  <2>1. pc' = pc /\ lock \in Run /\ pc[lock] \in Dead
    BY <1>7 DEF LockExpires, TypeOK
  <2>2. pc[lock] \notin Locked
    BY <2>1 DEF Locked, Dead
  <2> QED
    BY <2>1, <2>2 DEF HoldersHold
<1>8. CASE PeopleWrite \/ EngineerTakes \/ HandleAssigned \/ UNCHANGED vars
  <2>1. lock' = lock /\ pc' = pc
    BY <1>8 DEF PeopleWrite, EngineerTakes, HandleAssigned, vars
  <2> QED
    BY <2>1, LeavesLock
<1> QED
  BY <1>1, <1>2, <1>3, <1>4, <1>5, <1>6, <1>7, <1>8 DEF Next

LEMMA HoldersExclude == HoldersHold => OneRunAtATime
BY DEF HoldersHold, OneRunAtATime

\* "One run over one iTop object, under a per-object lock" holds for any number
\* of triggers, whatever fails, as long as no run is still at work when the TTL
\* of its lock runs out.
THEOREM LockExcludes ==
  ASSUME OutlivesTtl = FALSE
  PROVE  Spec => []OneRunAtATime
<1>1. Init => TypeOK /\ HoldersHold
  BY InitTyped, InitHolders
<1>2. (TypeOK /\ HoldersHold) /\ [Next]_vars => (TypeOK /\ HoldersHold)'
  BY NextTyped, NextHolders
<1>3. TypeOK /\ HoldersHold => OneRunAtATime
  BY HoldersExclude
<1> QED
  BY <1>1, <1>2, <1>3, PTL DEF Spec

-----------------------------------------------------------------------------
(* Frame lemmas: what a step of one run leaves to the others. *)

ActionOf(r) ==
  AcquireLock(r) \/ LockHeld(r) \/ AcquireFails(r) \/ RunStep(r) \/ Fail(r) \/ Crash(r)

\* Steps that are no run's.
Outside == LockExpires \/ PeopleWrite \/ EngineerTakes \/ HandleAssigned \/ UNCHANGED vars

LEMMA WhoSteps == [Next]_vars <=> Outside \/ \E r \in Run : ActionOf(r)
BY DEF Next, Outside, ActionOf

\* A run changes nothing another run holds.
LEMMA OthersKeep ==
  ASSUME TypeOK, NEW r \in Run, ActionOf(r), NEW q \in Run \ {r}
  PROVE  /\ pc'[q] = pc[q] /\ outcome'[q] = outcome[q] /\ seen'[q] = seen[q]
         /\ tools'[q] = tools[q] /\ calls'[q] = calls[q]
         /\ asks'[q] = asks[q] /\ notes'[q] = notes[q]
<1>1. ASSUME NEW place, NEW result, Finish(r, place, result), asks' = asks, notes' = notes
      PROVE  /\ pc'[q] = pc[q] /\ outcome'[q] = outcome[q] /\ seen'[q] = seen[q]
             /\ tools'[q] = tools[q] /\ calls'[q] = calls[q]
             /\ asks'[q] = asks[q] /\ notes'[q] = notes[q]
  BY <1>1 DEF TypeOK, Finish, Goto
<1>2. CASE LockHeld(r) \/ AcquireFails(r) \/ NothingToRunOn(r) \/ GuardStops(r) \/ CloseTicket(r)
  BY <1>1, <1>2 DEF LockHeld, AcquireFails, NothingToRunOn, GuardStops, CloseTicket, historyVars
<1>3. CASE Fail(r) \/ Crash(r)
  BY <1>1, <1>3 DEF Fail, Crash, StopsWorking
<1>4. CASE TurnEnds(r) \/ ReadBeforeClosing(r)
  BY <1>1, <1>4 DEF TypeOK, TurnEnds, ReadBeforeClosing, Goto, historyVars, localVars
<1>5. CASE AcquireLock(r) \/ Fetch(r) \/ Compose(r) \/ AgentGivesUp(r) \/ ReleaseLock(r)
  BY <1>5 DEF TypeOK, AcquireLock, Fetch, Compose, AgentGivesUp, ReleaseLock, Goto,
     historyVars, localVars
<1>6. CASE ModelTurn(r)
  BY <1>6 DEF TypeOK, ModelTurn, Goto, historyVars
<1>7. CASE WriteFallbackNote(r)
  BY <1>7 DEF TypeOK, WriteFallbackNote, Goto, localVars
<1>8. CASE ToolStep(r)
  <2>1. PICK s \in Slot : \/ CheckBudget(r, s) \/ PostQuestion(r, s) \/ CountQuestion(r, s)
                          \/ CountClassifyQuestion(r, s) \/ WriteNote(r, s)
                          \/ MarkDone(r, s) \/ SetClassification(r, s)
    BY <1>8 DEF ToolStep
  <2>2. /\ pc' = pc /\ outcome' = outcome /\ tools' = tools
        /\ \E step : calls' = [calls EXCEPT ![r][s] = step]
    BY <2>1 DEF CheckBudget, PostQuestion, CountQuestion, CountClassifyQuestion,
       WriteNote, MarkDone, SetClassification, Advance
  <2>3. asks'[q] = asks[q] /\ notes'[q] = notes[q]
    BY <2>1 DEF TypeOK, CheckBudget, PostQuestion, CountQuestion, CountClassifyQuestion,
       WriteNote, MarkDone, SetClassification, historyVars
  <2>4. seen'[q] = seen[q]
    BY <2>1 DEF TypeOK, CheckBudget, PostQuestion, CountQuestion, CountClassifyQuestion,
       WriteNote, MarkDone, SetClassification
  <2> QED
    BY <2>2, <2>3, <2>4 DEF TypeOK
<1> QED
  BY <1>2, <1>3, <1>4, <1>5, <1>6, <1>7, <1>8 DEF ActionOf, RunStep

\* What happens outside the runs changes no run, and closes at most the ticket.
LEMMA OutsideKeeps ==
  ASSUME TypeOK, Outside
  PROVE  /\ UNCHANGED <<pc, outcome, localVars, historyVars>>
         /\ ai' = ai \/ ai' = [ai EXCEPT !.done = TRUE]
BY DEF Outside, LockExpires, PeopleWrite, EngineerTakes, HandleAssigned, vars

\* The flag ai_done is never reset.
LEMMA StaysDone ==
  ASSUME TypeOK, [Next]_vars, ai.done
  PROVE  ai'.done
<1>1. CASE Outside
  BY <1>1, OutsideKeeps DEF TypeOK, TicketState
<1>2. ASSUME NEW r \in Run, ActionOf(r) PROVE ai'.done
  <2>1. CASE ToolStep(r)
    BY <2>1 DEF TypeOK, TicketState, ToolStep, CheckBudget, PostQuestion, CountQuestion,
       CountClassifyQuestion, WriteNote, MarkDone, SetClassification
  <2>2. CASE CloseTicket(r)
    BY <2>2 DEF TypeOK, TicketState, CloseTicket
  <2>3. CASE ai' = ai
    BY <2>3
  <2> QED
    BY <1>2, <2>1, <2>2, <2>3 DEF ActionOf, RunStep, AcquireLock, LockHeld, AcquireFails,
       Fail, Crash, StopsWorking, NothingToRunOn, Fetch, GuardStops, Compose, ModelTurn,
       AgentGivesUp, TurnEnds, ReadBeforeClosing, WriteFallbackNote, ReleaseLock
<1> QED
  BY <1>1, <1>2, WhoSteps

-----------------------------------------------------------------------------
(* A run that ended normally asked something or left the ticket closed. *)

\* Why it is so: a closing call that is past its write has asked or is about to
\* mark, and counts as success only afterwards.
Answered(r) ==
  /\ \A s \in Slot : calls[r][s] \in {"count", "countBoth", "countClassify"} => asks[r] > 0
  /\ \A s \in Slot : calls[r][s] = "success" => ai.done \/ asks[r] > 0
  /\ outcome[r] = "done" => ai.done \/ asks[r] > 0

LEMMA InitAnswered == Init => \A r \in Run : Answered(r)
BY DEF Init, NoCalls, Answered

LEMMA NextAnswered ==
  ASSUME TypeOK, [Next]_vars, NEW q \in Run, Answered(q)
  PROVE  Answered(q)'
<1>1. CASE Outside
  BY <1>1, OutsideKeeps, StaysDone DEF Answered, localVars, historyVars
<1>2. ASSUME NEW r \in Run, ActionOf(r), r # q PROVE Answered(q)'
  BY <1>2, OthersKeep, StaysDone DEF Answered
<1>3. CASE ActionOf(q)
  <2>1. ASSUME NEW place, NEW result, Finish(q, place, result), asks' = asks,
               result = "done" => ai'.done \/ asks[q] > 0
        PROVE  Answered(q)'
    <3>1. calls'[q] = NoCalls /\ outcome'[q] = result
      BY <2>1 DEF TypeOK, Finish
    <3> QED
      BY <2>1, <3>1 DEF Answered, NoCalls
  <2>2. CASE LockHeld(q) \/ AcquireFails(q) \/ NothingToRunOn(q) \/ GuardStops(q)
    BY <2>1, <2>2 DEF LockHeld, AcquireFails, NothingToRunOn, GuardStops, historyVars
  <2>3. CASE Fail(q) \/ Crash(q)
    <3>1. PICK place : StopsWorking(q, place)
      BY <2>3 DEF Fail, Crash
    <3> QED
      BY <2>1, <3>1 DEF StopsWorking, Answered
  <2>4. CASE CloseTicket(q)
    BY <2>1, <2>4 DEF TypeOK, TicketState, CloseTicket, historyVars
  <2>5. CASE ReadBeforeClosing(q)
    BY <2>1, <2>5 DEF ReadBeforeClosing, Answered, localVars, historyVars
  <2>6. CASE TurnEnds(q)
    <3>1. CASE Finish(q, "release", "done") /\ \E s \in Slot : calls[q][s] = "success"
      BY <2>1, <2>6, <3>1 DEF TurnEnds, Answered, historyVars
    <3>2. CASE calls' = [calls EXCEPT ![q] = NoCalls] /\ outcome' = outcome
      BY <2>6, <3>2 DEF TypeOK, TurnEnds, Answered, NoCalls, historyVars
    <3> QED
      BY <2>6, <3>1, <3>2 DEF TurnEnds
  <2>7. CASE AcquireLock(q) \/ Fetch(q) \/ Compose(q) \/ AgentGivesUp(q) \/ ReleaseLock(q)
             \/ WriteFallbackNote(q)
    BY <2>7 DEF AcquireLock, Fetch, Compose, AgentGivesUp, ReleaseLock,
       WriteFallbackNote, Answered, historyVars, localVars
  <2>8. CASE ModelTurn(q)
    <3>1. \A s \in Slot : calls'[q][s] \notin {"count", "countBoth", "countClassify", "success"}
      <4>1. PICK chosen \in [Slot -> tools[q] \union {"none", "returned"}] :
              calls' = [calls EXCEPT ![q] = [s \in Slot |-> FirstStep(q, chosen[s])]]
        BY <2>8 DEF ModelTurn
      <4>2. \A s \in Slot : calls'[q][s] = FirstStep(q, chosen[s])
        BY <4>1 DEF TypeOK
      <4>3. \A s \in Slot : chosen[s] \in Tool \union {"none", "returned"}
        BY <4>1 DEF TypeOK
      <4> QED
        BY <4>2, <4>3 DEF FirstStep, Tool
    <3> QED
      BY <2>8, <3>1 DEF ModelTurn, Answered, historyVars
  <2>9. CASE ToolStep(q)
    <3> PICK s \in Slot : \/ CheckBudget(q, s) \/ PostQuestion(q, s) \/ CountQuestion(q, s)
                          \/ CountClassifyQuestion(q, s) \/ WriteNote(q, s)
                          \/ MarkDone(q, s) \/ SetClassification(q, s)
      BY <2>9 DEF ToolStep
    <3>1. ASSUME NEW step, Advance(q, s, step)
          PROVE  \A t \in Slot : calls'[q][t] = IF t = s THEN step ELSE calls[q][t]
      BY <3>1 DEF TypeOK, Advance
    <3>2. CASE CheckBudget(q, s) \/ SetClassification(q, s)
      <4>1. /\ \E step \in {"post", "postClassify", "returned"} : Advance(q, s, step)
            /\ UNCHANGED <<ai, outcome, asks>>
        BY <3>2 DEF CheckBudget, SetClassification, historyVars
      <4> QED
        BY <3>1, <4>1 DEF Answered
    <3>3. CASE PostQuestion(q, s)
      <4>1. asks'[q] > 0
        BY <3>3 DEF TypeOK, PostQuestion
      <4> QED
        BY <4>1 DEF Answered
    <3>4. CASE CountQuestion(q, s) \/ CountClassifyQuestion(q, s)
      <4>1. /\ asks[q] > 0
            /\ \E step \in {"success", "countClassify"} : Advance(q, s, step)
            /\ outcome' = outcome /\ asks' = asks
        BY <3>4 DEF CountQuestion, CountClassifyQuestion, Answered, At, historyVars
      <4> QED
        BY <3>1, <4>1, StaysDone DEF Answered
    <3>5. CASE WriteNote(q, s)
      <4>1. Advance(q, s, "mark") /\ UNCHANGED <<ai, outcome, asks>>
        BY <3>5 DEF WriteNote
      <4> QED
        BY <3>1, <4>1 DEF Answered
    <3>6. CASE MarkDone(q, s)
      <4>1. /\ ai'.done /\ asks' = asks /\ outcome' = outcome
            /\ Advance(q, s, "success")
        BY <3>6 DEF TypeOK, TicketState, MarkDone, historyVars
      <4> QED
        BY <3>1, <4>1 DEF Answered
    <3> QED
      BY <3>2, <3>3, <3>4, <3>5, <3>6
  <2> QED
    BY <1>3, <2>2, <2>3, <2>4, <2>5, <2>6, <2>7, <2>8, <2>9 DEF ActionOf, RunStep
<1> QED
  BY <1>1, <1>2, <1>3, WhoSteps

\* A run that ended normally has asked the requester or closed the ticket:
\* whatever the model does, however its calls interleave, and even when two
\* runs are at work at once.
THEOREM NothingLeftOpen == Spec => []DoneRunsLeaveNothingOpen
<1>. DEFINE AllAnswered == \A r \in Run : Answered(r)
<1>1. Init => TypeOK /\ AllAnswered
  BY InitTyped, InitAnswered
<1>2. (TypeOK /\ AllAnswered) /\ [Next]_vars => (TypeOK /\ AllAnswered)'
  BY NextTyped, NextAnswered
<1>3. AllAnswered => DoneRunsLeaveNothingOpen
  BY DEF Answered, DoneRunsLeaveNothingOpen
<1> QED
  BY <1>1, <1>2, <1>3, PTL DEF Spec

-----------------------------------------------------------------------------
(* At most one run in good health leaves a note. *)

Working == {"model", "tools", "epilogue", "fallback", "close"}

Closed(r) == notes[r] > 0 /\ outcome[r] = "done"

\* Where a run may be once it has written its note.  A run that is done with a
\* note has left ai_done set, so that nobody else is at work after it.
NoteTraced(r) ==
  /\ outcome[r] # "none" => pc[r] \in {"release"} \union Dead
  /\ outcome[r] = "skipped" => notes[r] = 0
  /\ notes[r] > 0 /\ outcome[r] = "none" => pc[r] \in {"tools", "close"}
  /\ notes[r] > 0 /\ pc[r] = "tools" =>
       \E s \in Slot : calls[r][s] = "mark" \/ (calls[r][s] = "success" /\ ai.done)
  /\ Closed(r) => ai.done /\ \A q \in Run \ {r} : pc[q] \notin Working /\ ~Closed(q)

\* Nobody starts to work on a ticket that is done.
LEMMA StartsOpen ==
  ASSUME TypeOK, NEW r \in Run, ActionOf(r), pc'[r] \in Working
  PROVE  pc[r] \in Working \/ ~ai.done
<1>1. CASE ToolStep(r)
  BY <1>1 DEF ToolStep, CheckBudget, PostQuestion, CountQuestion,
     CountClassifyQuestion, WriteNote, MarkDone, SetClassification, At, Working
<1>2. CASE AcquireLock(r) \/ Fetch(r) \/ ReleaseLock(r)
  BY <1>2 DEF TypeOK, AcquireLock, Fetch, ReleaseLock, Goto, Working
<1>3. CASE Compose(r)
  BY <1>3 DEF Compose, MustStop
<1>4. CASE pc[r] \in Working
  BY <1>4
<1>5. CASE \E place \in {"end", "release", "crashed"} : \E result : Finish(r, place, result)
  BY <1>5 DEF TypeOK, Finish, Goto, Working
<1> QED
  BY <1>1, <1>2, <1>3, <1>4, <1>5 DEF ActionOf, RunStep, LockHeld, AcquireFails, Fail,
     Crash, StopsWorking, NothingToRunOn, GuardStops, ModelTurn, AgentGivesUp,
     TurnEnds, ReadBeforeClosing, WriteFallbackNote, CloseTicket, Working

\* What a run's own step does to its outcome and its notes.
LEMMA OwnNotes ==
  ASSUME TypeOK, NEW r \in Run, NoteTraced(r), ActionOf(r)
  PROVE  /\ outcome'[r] # "none" => pc'[r] \in {"release"} \union Dead
         /\ outcome'[r] = "skipped" => notes'[r] = 0
         /\ notes'[r] > 0 /\ outcome'[r] = "none" => pc'[r] \in {"tools", "close"}
         /\ notes'[r] > 0 /\ pc'[r] = "tools" =>
              \E s \in Slot : calls'[r][s] = "mark" \/ (calls'[r][s] = "success" /\ ai'.done)
         /\ Closed(r)' => Closed(r) \/ (ai'.done /\ pc[r] \in Working)
<1>1. ASSUME NEW place \in {"release"} \union Dead,
             NEW result \in {"skipped", "done", "failed"},
             Finish(r, place, result), notes' = notes,
             result = "skipped" => notes[r] = 0,
             result = "done" /\ notes[r] > 0 =>
               Closed(r) \/ (ai'.done /\ pc[r] \in Working)
      PROVE  /\ outcome'[r] # "none" => pc'[r] \in {"release"} \union Dead
             /\ outcome'[r] = "skipped" => notes'[r] = 0
             /\ notes'[r] > 0 /\ outcome'[r] = "none" => pc'[r] \in {"tools", "close"}
             /\ notes'[r] > 0 /\ pc'[r] = "tools" =>
                  \E s \in Slot : calls'[r][s] = "mark" \/ (calls'[r][s] = "success" /\ ai'.done)
             /\ Closed(r)' => Closed(r) \/ (ai'.done /\ pc[r] \in Working)
  <2>1. pc'[r] = place /\ outcome'[r] = result /\ place # "tools"
    BY <1>1 DEF TypeOK, Finish, Goto, Dead
  <2> QED
    BY <1>1, <2>1 DEF Closed
<1>2. pc[r] \notin {"release"} \union Dead => outcome[r] = "none"
  BY DEF NoteTraced
<1>3. pc[r] \in {"idle", "fetch", "guard", "model", "epilogue", "fallback"} => notes[r] = 0
  BY <1>2 DEF TypeOK, NoteTraced, Dead
<1>4. CASE LockHeld(r) \/ AcquireFails(r) \/ NothingToRunOn(r) \/ GuardStops(r)
  BY <1>1, <1>3, <1>4 DEF LockHeld, AcquireFails, NothingToRunOn, GuardStops, Dead, historyVars
<1>5. CASE Fail(r) \/ Crash(r)
  <2>1. PICK place \in {"release"} \union Dead : StopsWorking(r, place)
    BY <1>5 DEF Fail, Crash, Dead
  <2>2. (IF outcome[r] = "none" THEN "failed" ELSE outcome[r]) \in {"skipped", "done", "failed"}
    BY DEF TypeOK
  <2>3. outcome[r] = "skipped" => notes[r] = 0
    BY DEF NoteTraced
  <2> QED
    BY <1>1, <2>1, <2>2, <2>3 DEF StopsWorking, Closed
<1>6. CASE CloseTicket(r)
  BY <1>1, <1>6 DEF TypeOK, TicketState, CloseTicket, Working, historyVars
<1>7. CASE ReadBeforeClosing(r)
  <2>1. notes' = notes /\ notes[r] = 0 /\ outcome[r] = "none"
    BY <1>2, <1>3, <1>7 DEF ReadBeforeClosing, historyVars, Dead
  <2>2. CASE Finish(r, "release", "done")
    BY <1>1, <2>1, <2>2
  <2>3. CASE outcome' = outcome
    BY <2>1, <2>3 DEF Closed
  <2> QED
    BY <1>7, <2>2, <2>3 DEF ReadBeforeClosing
<1>8. CASE TurnEnds(r)
  <2>1. notes[r] > 0 => ai.done /\ \E s \in Slot : calls[r][s] = "success"
    BY <1>8 DEF TurnEnds, NoteTraced
  <2>2. notes' = notes /\ ai' = ai /\ outcome[r] = "none" /\ pc[r] \in Working
    BY <1>2, <1>8 DEF TurnEnds, historyVars, Dead, Working
  <2>3. CASE Finish(r, "release", "done")
    BY <1>1, <2>1, <2>2, <2>3
  <2>4. CASE (\A s \in Slot : calls[r][s] # "success") /\ outcome' = outcome
    BY <2>1, <2>2, <2>4 DEF TypeOK, Closed
  <2> QED
    BY <1>8, <2>3, <2>4 DEF TurnEnds
<1>9. CASE AcquireLock(r) \/ Fetch(r) \/ Compose(r) \/ AgentGivesUp(r) \/ ModelTurn(r)
  <2>1. notes' = notes /\ outcome' = outcome /\ notes[r] = 0 /\ outcome[r] = "none"
    BY <1>2, <1>3, <1>9 DEF AcquireLock, Fetch, Compose, AgentGivesUp, ModelTurn,
       localVars, historyVars, Dead
  <2> QED
    BY <2>1 DEF Closed
<1>10. CASE ReleaseLock(r)
  <2>1. notes' = notes /\ outcome' = outcome /\ pc[r] = "release" /\ pc'[r] = "end"
    BY <1>10 DEF TypeOK, ReleaseLock, Goto, localVars, historyVars
  <2> QED
    BY <2>1 DEF NoteTraced, Closed, Dead
<1>11. CASE WriteFallbackNote(r)
  <2>1. pc'[r] = "close" /\ outcome'[r] = "none"
    BY <1>2, <1>11 DEF TypeOK, WriteFallbackNote, Goto, localVars, Dead
  <2> QED
    BY <2>1 DEF Closed
<1>12. CASE ToolStep(r)
  <2> PICK s \in Slot : \/ CheckBudget(r, s) \/ PostQuestion(r, s) \/ CountQuestion(r, s)
                        \/ CountClassifyQuestion(r, s) \/ WriteNote(r, s)
                        \/ MarkDone(r, s) \/ SetClassification(r, s)
    BY <1>12 DEF ToolStep
  <2>1. pc[r] = "tools" /\ pc' = pc /\ outcome' = outcome
    BY DEF CheckBudget, PostQuestion, CountQuestion, CountClassifyQuestion,
       WriteNote, MarkDone, SetClassification, At
  <2>2. outcome[r] = "none"
    BY <1>2, <2>1 DEF Dead
  <2>3. notes'[r] > 0 =>
          \E t \in Slot : calls'[r][t] = "mark" \/ (calls'[r][t] = "success" /\ ai'.done)
    <3>1. ASSUME NEW step, Advance(r, s, step)
          PROVE  \A t \in Slot : calls'[r][t] = IF t = s THEN step ELSE calls[r][t]
      BY <3>1 DEF TypeOK, Advance
    <3>2. CASE WriteNote(r, s)
      BY <3>1, <3>2 DEF WriteNote
    <3>3. CASE MarkDone(r, s)
      BY <3>1, <3>3 DEF TypeOK, TicketState, MarkDone
    <3>4. CASE \/ CheckBudget(r, s) \/ PostQuestion(r, s) \/ CountQuestion(r, s)
               \/ CountClassifyQuestion(r, s) \/ SetClassification(r, s)
      <4>1. /\ \E step : Advance(r, s, step)
            /\ calls[r][s] \notin {"mark", "success"}
            /\ notes' = notes
        BY <3>4 DEF CheckBudget, PostQuestion, CountQuestion, CountClassifyQuestion,
           SetClassification, At, historyVars
      <4>2. ai.done => ai'.done
        BY <3>4 DEF TypeOK, TicketState, CheckBudget, PostQuestion, CountQuestion,
           CountClassifyQuestion, SetClassification
      <4> QED
        BY <2>1, <3>1, <4>1, <4>2 DEF NoteTraced
    <3> QED
      BY <3>2, <3>3, <3>4
  <2> QED
    BY <2>1, <2>2, <2>3 DEF Closed
<1> QED
  BY <1>4, <1>5, <1>6, <1>7, <1>8, <1>9, <1>10, <1>11, <1>12 DEF ActionOf, RunStep

LEMMA InitTraced == Init => \A r \in Run : NoteTraced(r)
BY DEF Init, NoteTraced, Closed

LEMMA NextTraced ==
  ASSUME TypeOK, HoldersHold, \A r \in Run : NoteTraced(r), [Next]_vars
  PROVE  \A r \in Run : NoteTraced(r)'
<1>1. CASE Outside
  <2>1. UNCHANGED <<pc, outcome, calls, notes>> /\ (ai.done => ai'.done)
    BY <1>1, OutsideKeeps, StaysDone DEF localVars, historyVars
  <2> QED
    BY <2>1 DEF NoteTraced, Closed
<1>2. ASSUME NEW r \in Run, ActionOf(r) PROVE \A q \in Run : NoteTraced(q)'
  <2>1. \A q \in Run \ {r} : /\ pc'[q] = pc[q] /\ outcome'[q] = outcome[q]
                             /\ calls'[q] = calls[q] /\ notes'[q] = notes[q]
    BY <1>2, OthersKeep
  <2>2. \A q \in Run \ {r} : Closed(q)' <=> Closed(q)
    BY <2>1 DEF Closed
  <2>3. ai.done => ai'.done
    BY StaysDone
  <2>4. /\ outcome'[r] # "none" => pc'[r] \in {"release"} \union Dead
        /\ outcome'[r] = "skipped" => notes'[r] = 0
        /\ notes'[r] > 0 /\ outcome'[r] = "none" => pc'[r] \in {"tools", "close"}
        /\ notes'[r] > 0 /\ pc'[r] = "tools" =>
             \E s \in Slot : calls'[r][s] = "mark" \/ (calls'[r][s] = "success" /\ ai'.done)
        /\ Closed(r)' => Closed(r) \/ (ai'.done /\ pc[r] \in Working)
    BY <1>2, OwnNotes
  <2>5. Closed(r)' => ai'.done /\ \A q \in Run \ {r} : pc[q] \notin Working /\ ~Closed(q)
    <3>1. CASE Closed(r)
      BY <2>3, <3>1 DEF NoteTraced
    <3>2. CASE ai'.done /\ pc[r] \in Working
      <4>1. lock = r /\ Working \subseteq Locked
        BY <3>2 DEF HoldersHold, Working, Locked
      <4>2. \A q \in Run \ {r} : pc[q] \notin Working
        BY <4>1 DEF HoldersHold
      <4>3. \A q \in Run \ {r} : ~Closed(q)
        BY <3>2 DEF NoteTraced
      <4> QED
        BY <3>2, <4>2, <4>3
    <3> QED
      BY <2>4, <3>1, <3>2
  <2>6. NoteTraced(r)'
    BY <2>1, <2>2, <2>4, <2>5 DEF NoteTraced
  <2>7. ASSUME NEW q \in Run \ {r} PROVE NoteTraced(q)'
    <3>1. Closed(q) => ai.done /\ pc[r] \notin Working /\ ~Closed(r)
      BY DEF NoteTraced
    <3>2. Closed(q) => pc'[r] \notin Working /\ ~Closed(r)'
      BY <1>2, <2>4, <3>1, StartsOpen
    <3> QED
      BY <2>1, <2>2, <2>3, <3>2 DEF NoteTraced
  <2> QED
    BY <2>6, <2>7
<1> QED
  BY <1>1, <1>2, WhoSteps

\* Of all the runs of a ticket, at most one in good health leaves a note: two
\* notes take a run that failed between writing its own and setting ai_done.
THEOREM NotesOnce ==
  ASSUME OutlivesTtl = FALSE
  PROVE  Spec => []OneNotePerTicket
<1>. DEFINE Traced == \A r \in Run : NoteTraced(r)
<1>1. Init => TypeOK /\ HoldersHold /\ Traced
  BY InitTyped, InitHolders, InitTraced
<1>2. (TypeOK /\ HoldersHold /\ Traced) /\ [Next]_vars => (TypeOK /\ HoldersHold /\ Traced)'
  BY NextTyped, NextHolders, NextTraced
<1>3. TypeOK /\ HoldersHold /\ Traced => OneNotePerTicket
  <2> SUFFICES ASSUME TypeOK, HoldersHold, Traced,
                      NEW r1 \in Run, NEW r2 \in Run, r1 # r2,
                      notes[r1] > 0, notes[r2] > 0,
                      outcome[r1] # "failed", outcome[r2] # "failed"
               PROVE  FALSE
    BY DEF OneNotePerTicket
  <2>1. \A r \in {r1, r2} : Closed(r) \/ pc[r] \in {"tools", "close"}
    BY DEF TypeOK, NoteTraced, Closed
  <2>2. CASE Closed(r1) \/ Closed(r2)
    BY <2>1, <2>2 DEF NoteTraced, Working
  <2>3. CASE pc[r1] \in {"tools", "close"} /\ pc[r2] \in {"tools", "close"}
    BY <2>3 DEF HoldersHold, Locked
  <2> QED
    BY <2>1, <2>2, <2>3
<1> QED
  BY <1>1, <1>2, <1>3, PTL DEF Spec

-----------------------------------------------------------------------------
(* One question or one handoff, when the model asks for one tool at a time. *)

Written(r) == asks[r] + notes[r]

\* Where a run may be once it has written to the ticket's logs: on its way out,
\* with the call that wrote as the only one of its turn.
WroteOnce(r) ==
  /\ Written(r) <= 1
  /\ pc[r] \in {"idle", "fetch", "guard", "model", "epilogue", "fallback"} => Written(r) = 0
  /\ pc[r] = "tools" /\ Written(r) # 0 =>
       \E s \in Slot :
         calls[r][s] \in {"count", "countBoth", "countClassify", "mark", "success"}

LEMMA InitWroteOnce == Init => \A r \in Run : WroteOnce(r)
BY DEF Init, WroteOnce, Written

LEMMA NextWroteOnce ==
  ASSUME \A s, t \in Slot : s = t, TypeOK, [Next]_vars, NEW q \in Run, WroteOnce(q)
  PROVE  WroteOnce(q)'
<1>1. CASE Outside
  BY <1>1, OutsideKeeps DEF WroteOnce, Written, localVars, historyVars
<1>2. ASSUME NEW r \in Run, ActionOf(r), r # q PROVE WroteOnce(q)'
  BY <1>2, OthersKeep DEF WroteOnce, Written
<1>3. CASE ActionOf(q)
  <2>0. asks[q] \in Nat /\ notes[q] \in Nat
    BY DEF TypeOK
  <2>1. ASSUME NEW place \in {"end", "release", "crashed", "close"},
               pc'[q] = place, asks' = asks, notes' = notes
        PROVE  WroteOnce(q)'
    BY <2>1 DEF WroteOnce, Written
  <2>2. ASSUME pc[q] \in {"idle", "fetch", "guard", "model", "epilogue", "fallback"},
               asks' = asks, notes' = notes
        PROVE  WroteOnce(q)'
    BY <2>2 DEF WroteOnce, Written
  <2>3. CASE LockHeld(q) \/ AcquireFails(q) \/ NothingToRunOn(q) \/ GuardStops(q)
             \/ CloseTicket(q)
    <3>1. \E place \in {"end", "release"} : pc'[q] = place
      BY <2>3 DEF TypeOK, LockHeld, AcquireFails, NothingToRunOn, GuardStops, CloseTicket,
                  Finish, Goto
    <3>2. asks' = asks /\ notes' = notes
      BY <2>3 DEF LockHeld, AcquireFails, NothingToRunOn, GuardStops, CloseTicket, historyVars
    <3> QED
      BY <2>1, <3>1, <3>2
  <2>4. CASE Fail(q) \/ Crash(q)
    <3>1. \E place \in {"release", "crashed"} : pc'[q] = place
      BY <2>4 DEF TypeOK, Fail, Crash, StopsWorking, Finish, Goto
    <3>2. asks' = asks /\ notes' = notes
      BY <2>4 DEF Fail, Crash, StopsWorking
    <3> QED
      BY <2>1, <3>1, <3>2
  <2>5. CASE ReleaseLock(q)
    BY <2>1, <2>5 DEF TypeOK, ReleaseLock, Goto, historyVars
  <2>6. CASE AcquireLock(q) \/ Fetch(q) \/ Compose(q) \/ ModelTurn(q) \/ AgentGivesUp(q)
             \/ ReadBeforeClosing(q)
    BY <2>2, <2>6 DEF AcquireLock, Fetch, Compose, ModelTurn, AgentGivesUp,
                      ReadBeforeClosing, historyVars
  <2>7. CASE WriteFallbackNote(q)
    <3>1. pc'[q] = "close" /\ Written(q) = 0 /\ asks' = asks /\ notes'[q] = notes[q] + 1
      BY <2>7 DEF TypeOK, WriteFallbackNote, Goto, WroteOnce
    <3> QED
      BY <2>0, <3>1 DEF WroteOnce, Written
  <2>8. CASE TurnEnds(q)
    <3>1. asks' = asks /\ notes' = notes
      BY <2>8 DEF TurnEnds, historyVars
    <3>2. CASE Finish(q, "release", "done")
      BY <2>1, <3>1, <3>2 DEF TypeOK, Finish, Goto
    <3>3. CASE (\A s \in Slot : calls[q][s] # "success") /\ Goto(q, "model")
      <4>1. Written(q) = 0
        BY <2>8, <3>3 DEF TurnEnds, WroteOnce
      <4> QED
        BY <3>1, <4>1 DEF WroteOnce, Written
    <3> QED
      BY <2>8, <3>2, <3>3 DEF TurnEnds
  <2>9. CASE ToolStep(q)
    <3> PICK s \in Slot : \/ CheckBudget(q, s) \/ PostQuestion(q, s) \/ CountQuestion(q, s)
                          \/ CountClassifyQuestion(q, s) \/ WriteNote(q, s)
                          \/ MarkDone(q, s) \/ SetClassification(q, s)
      BY <2>9 DEF ToolStep
    <3>1. pc[q] = "tools" /\ pc' = pc
      BY DEF CheckBudget, PostQuestion, CountQuestion, CountClassifyQuestion,
         WriteNote, MarkDone, SetClassification, At
    <3>2. ASSUME NEW step, Advance(q, s, step) PROVE calls'[q][s] = step
      BY <3>2 DEF TypeOK, Advance
    <3>3. ASSUME calls[q][s] \in {"ask", "askClassify", "post", "postClassify", "note", "set"}
          PROVE  Written(q) = 0
      BY <3>1, <3>3 DEF WroteOnce
    <3>4. CASE CheckBudget(q, s) \/ SetClassification(q, s)
      <4>1. Written(q) = 0 /\ asks' = asks /\ notes' = notes
        BY <3>3, <3>4 DEF CheckBudget, SetClassification, At, historyVars
      <4> QED
        BY <3>1, <4>1 DEF WroteOnce, Written
    <3>5. CASE PostQuestion(q, s)
      <4>1. Written(q) = 0 /\ asks'[q] = asks[q] + 1 /\ notes' = notes
        BY <3>3, <3>5 DEF TypeOK, PostQuestion, At
      <4>2. calls'[q][s] \in {"count", "countBoth"}
        BY <3>2, <3>5 DEF PostQuestion
      <4> QED
        BY <2>0, <3>1, <4>1, <4>2 DEF WroteOnce, Written
    <3>6. CASE WriteNote(q, s)
      <4>1. Written(q) = 0 /\ notes'[q] = notes[q] + 1 /\ asks' = asks
        BY <3>3, <3>6 DEF TypeOK, WriteNote, At
      <4>2. calls'[q][s] = "mark"
        BY <3>2, <3>6 DEF WriteNote
      <4> QED
        BY <2>0, <3>1, <4>1, <4>2 DEF WroteOnce, Written
    <3>7. CASE CountQuestion(q, s) \/ CountClassifyQuestion(q, s) \/ MarkDone(q, s)
      <4>1. asks' = asks /\ notes' = notes
        BY <3>7 DEF CountQuestion, CountClassifyQuestion, MarkDone, historyVars
      <4>2. calls'[q][s] \in {"countClassify", "success"}
        BY <3>2, <3>7 DEF CountQuestion, CountClassifyQuestion, MarkDone
      <4> QED
        BY <3>1, <4>1, <4>2 DEF WroteOnce, Written
    <3> QED
      BY <3>4, <3>5, <3>6, <3>7
  <2> QED
    BY <1>3, <2>3, <2>4, <2>5, <2>6, <2>7, <2>8, <2>9 DEF ActionOf, RunStep
<1> QED
  BY <1>1, <1>2, <1>3, WhoSteps

\* "One question or one handoff, never both" holds for any number of runs and
\* any budgets, even past the TTL of the lock, as long as no turn of the model
\* asks for two tools (post_public_question, finish_handoff, _stop_after_terminal).
THEOREM ClosesOnce ==
  ASSUME \A s, t \in Slot : s = t
  PROVE  Spec => []OneClosingAction
<1>. DEFINE Once == \A r \in Run : WroteOnce(r)
<1>1. Init => TypeOK /\ Once
  BY InitTyped, InitWroteOnce
<1>2. (TypeOK /\ Once) /\ [Next]_vars => (TypeOK /\ Once)'
  BY NextTyped, NextWroteOnce
<1>3. Once => OneClosingAction
  BY DEF WroteOnce, Written, OneClosingAction
<1> QED
  BY <1>1, <1>2, <1>3, PTL DEF Spec

-----------------------------------------------------------------------------
(***************************************************************************)
(* The limits of the intake module (the question ceiling, the loop guard,  *)
(* silence once an engineer has the ticket), proved under the two          *)
(* conditions they need and the code leaves to its surroundings: no run    *)
(* outlives its lock (OutlivesTtl = FALSE), and a model turn makes one     *)
(* tool call (Sequential).  The runs intake_ttl and intake_parallel show   *)
(* what happens without them.                                              *)
(***************************************************************************)

\* One tool call per model turn.
Sequential == \A s, t \in Slot : s = t

\* Calls exist only while the tools of a turn are running.
CallsInTools ==
  \A r \in Run : pc[r] # "tools" => \A s \in Slot : calls[r][s] = "none"

Unsettled == \E r \in Run, s \in Slot : calls[r][s] \in {"count", "countBoth"}

\* Every question posted is counted, or about to be, or lost.
Ledger ==
  asked = ai.asked + lost + IF Unsettled THEN 1 ELSE 0

\* A call past the budget check still has a unit of each budget it charges.
InBudget ==
  /\ ai.asked <= MaxQuestions
  /\ ai.classifyAsked <= MaxClassifyQuestions
  /\ ai.classifyAsked <= ai.asked
  /\ \A r \in Run, s \in Slot :
       /\ calls[r][s] \in {"post", "postClassify", "count", "countBoth"} =>
            ai.asked < MaxQuestions
       /\ calls[r][s] \in {"postClassify", "countBoth", "countClassify"} =>
            ai.classifyAsked < MaxClassifyQuestions
       /\ calls[r][s] = "countClassify" => ai.classifyAsked < ai.asked

\* Until its own question, a run that passed the guard is not answering itself.
HasTheFloor ==
  \A r \in Run :
    /\ pc[r] = "guard" /\ seen[r].last # "ai" => ticket.last # "ai"
    /\ pc[r] = "model" => ticket.last # "ai"
    /\ pc[r] = "tools" =>
         \/ ticket.last # "ai"
         \/ \E s \in Slot : calls[r][s] \in {"count", "countBoth", "countClassify", "success"}

\* After one entry written past ai_done, no run is able to write another.
Silence ==
  /\ late <= 1
  /\ late = 1 =>
       /\ ai.done
       /\ \A r \in Run :
            /\ pc[r] \notin {"model", "fallback"}
            /\ pc[r] = "tools" =>
                 \E s \in Slot : calls[r][s] \in
                   {"count", "countBoth", "countClassify", "mark", "success"}

Limits == CallsInTools /\ Ledger /\ InBudget /\ HasTheFloor /\ Silence

-----------------------------------------------------------------------------
LEMMA InitLimits == Init => Limits
BY IntakeAssumption DEF Init, NoCalls, Limits, CallsInTools, Ledger, Unsettled,
   InBudget, HasTheFloor, Silence

\* The run within the lock is the only one with anything under way.
LEMMA Alone ==
  ASSUME HoldersHold, CallsInTools, NEW r \in Run, pc[r] \in Locked,
         NEW q \in Run \ {r}
  PROVE  pc[q] \notin Locked /\ \A s \in Slot : calls[q][s] = "none"
BY DEF HoldersHold, CallsInTools, Locked

\* With one call per turn, a failure loses at most one charge.
LEMMA OneUncounted ==
  ASSUME Sequential, NEW r \in Run
  PROVE  Uncounted(r) = IF \E s \in Slot : calls[r][s] \in {"count", "countBoth"} THEN 1 ELSE 0
<1> DEFINE S == {s \in Slot : calls[r][s] \in {"count", "countBoth"}}
<1>1. CASE \E s \in Slot : calls[r][s] \in {"count", "countBoth"}
  <2>1. PICK s \in Slot : calls[r][s] \in {"count", "countBoth"}
    BY <1>1
  <2>2. S = {s}
    BY <2>1 DEF Sequential
  <2> QED
    BY <1>1, <2>2, FS_Singleton DEF Uncounted
<1>2. CASE ~ \E s \in Slot : calls[r][s] \in {"count", "countBoth"}
  <2>1. S = {}
    BY <1>2
  <2> QED
    BY <1>2, <2>1, FS_EmptySet DEF Uncounted
<1> QED
  BY <1>1, <1>2

\* A step that ends the body of r, when r owes no charge.
LEMMA EndingKeepsLimits ==
  ASSUME TypeOK, Limits, NEW r \in Run,
         NEW place \in {"release", "end"}, NEW result, Finish(r, place, result),
         \A s \in Slot : calls[r][s] \notin {"count", "countBoth"},
         ticket' = ticket, asked' = asked, lost' = lost, late' = late,
         ai' = ai \/ ai' = [ai EXCEPT !.done = TRUE]
  PROVE  Limits'
<1>1. /\ pc'[r] = place
      /\ \A s \in Slot : calls'[r][s] = "none"
      /\ \A q \in Run \ {r} : pc'[q] = pc[q] /\ calls'[q] = calls[q] /\ seen'[q] = seen[q]
  BY DEF TypeOK, Finish, Goto, NoCalls
<1>2. /\ ai'.asked = ai.asked /\ ai'.classifyAsked = ai.classifyAsked
      /\ ai.done => ai'.done
  BY DEF TypeOK, TicketState
<1>3. Unsettled' = Unsettled
  BY <1>1 DEF Unsettled
<1>4. CallsInTools'
  BY <1>1 DEF Limits, CallsInTools
<1>5. Ledger'
  BY <1>2, <1>3 DEF Limits, Ledger
<1>6. InBudget'
  BY <1>1, <1>2 DEF Limits, InBudget
<1>7. HasTheFloor' /\ Silence'
  BY <1>1, <1>2 DEF Limits, HasTheFloor, Silence
<1> QED
  BY <1>4, <1>5, <1>6, <1>7 DEF Limits

\* A step of r between two places where it has no call, with nothing written.
LEMMA MovingKeepsLimits ==
  ASSUME TypeOK, Limits, NEW r \in Run, pc[r] # "tools",
         NEW place, place # "tools", Goto(r, place),
         calls' = calls, asked' = asked, lost' = lost, late' = late, ai' = ai,
         ticket' = ticket, \A q \in Run \ {r} : seen'[q] = seen[q],
         place = "guard" => seen'[r] = ticket,
         place = "model" => ticket.last # "ai",
         place \in {"model", "fallback"} => ~ai.done
  PROVE  Limits'
<1>1. pc'[r] = place /\ \A q \in Run \ {r} : pc'[q] = pc[q]
  BY DEF TypeOK, Goto
<1>2. CallsInTools'
  BY <1>1 DEF Limits, CallsInTools
<1>3. Ledger' /\ InBudget'
  BY DEF Limits, Ledger, InBudget, Unsettled
<1>4. HasTheFloor'
  BY <1>1 DEF Limits, HasTheFloor
<1>5. Silence'
  BY <1>1 DEF Limits, Silence
<1> QED
  BY <1>2, <1>3, <1>4, <1>5 DEF Limits

\* A step of one call of r.  With one call per turn there is no other call
\* anywhere, before or after.
LEMMA OneCall ==
  ASSUME Sequential, TypeOK, HoldersHold, CallsInTools,
         NEW r \in Run, NEW s \in Slot, pc[r] = "tools",
         NEW step, Advance(r, s, step)
  PROVE  /\ \A q \in Run : q # r => pc[q] \notin Locked
         /\ \A q \in Run, t \in Slot :
              /\ q # r => calls[q][t] = "none" /\ calls'[q][t] = "none"
              /\ q = r => t = s /\ calls'[q][t] = step
<1>1. \A q \in Run : q # r => pc[q] \notin Locked /\ \A t \in Slot : calls[q][t] = "none"
  BY Alone DEF Locked
<1>2. \A q \in Run : q # r => calls'[q] = calls[q]
  BY DEF TypeOK, Advance
<1>3. calls'[r][s] = step
  BY DEF TypeOK, Advance
<1> QED
  BY <1>1, <1>2, <1>3 DEF Sequential

LEMMA ToolsKeepLimits ==
  ASSUME Sequential, TypeOK, HoldersHold, Limits, NEW r \in Run, ToolStep(r)
  PROVE  Limits'
<1> PICK s \in Slot : \/ CheckBudget(r, s) \/ PostQuestion(r, s) \/ CountQuestion(r, s)
                      \/ CountClassifyQuestion(r, s) \/ WriteNote(r, s)
                      \/ MarkDone(r, s) \/ SetClassification(r, s)
  BY DEF ToolStep
<1>1. pc[r] = "tools" /\ pc' = pc
  BY DEF CheckBudget, PostQuestion, CountQuestion, CountClassifyQuestion,
     WriteNote, MarkDone, SetClassification, At
<1>2. ASSUME NEW step, Advance(r, s, step)
      PROVE  /\ \A q \in Run : q # r => pc[q] \notin Locked
             /\ \A q \in Run, t \in Slot :
                  /\ q # r => calls[q][t] = "none" /\ calls'[q][t] = "none"
                  /\ q = r => t = s /\ calls'[q][t] = step
  BY <1>1, <1>2, OneCall DEF Limits
<1>3. \E step : Advance(r, s, step)
  BY DEF CheckBudget, PostQuestion, CountQuestion, CountClassifyQuestion,
     WriteNote, MarkDone, SetClassification
<1>4. CallsInTools'
  BY <1>1, <1>2, <1>3 DEF Limits, CallsInTools
<1>5. Unsettled <=> calls[r][s] \in {"count", "countBoth"}
  BY <1>2, <1>3 DEF Unsettled
<1>6. Unsettled' <=> calls'[r][s] \in {"count", "countBoth"}
  BY <1>2, <1>3 DEF Unsettled
<1>7. ticket.last # "ai" \/ calls[r][s] \in {"count", "countBoth", "countClassify", "success"}
  BY <1>1, <1>2, <1>3 DEF Limits, HasTheFloor
<1>8. late = 1 =>
        ai.done /\ calls[r][s] \in {"count", "countBoth", "countClassify", "mark", "success"}
  BY <1>1, <1>2, <1>3 DEF Limits, Silence
<1>9. \A q \in Run : q # r => pc[q] \notin {"guard", "model", "tools", "fallback"}
  BY <1>2, <1>3 DEF Locked
<1>10. ASSUME ticket'.last = ticket.last \/ calls'[r][s] \in {"count", "countBoth"},
              calls'[r][s] \in {"count", "countBoth", "countClassify", "success"}
                \/ (ticket'.last = ticket.last
                     /\ calls[r][s] \notin {"count", "countBoth", "countClassify", "success"})
       PROVE  HasTheFloor'
  BY <1>1, <1>7, <1>9, <1>10 DEF HasTheFloor
<1>11. ASSUME late' <= 1,
              late' = 1 =>
                ai'.done /\ calls'[r][s] \in {"count", "countBoth", "countClassify", "mark", "success"}
       PROVE  Silence'
  BY <1>1, <1>9, <1>11 DEF Silence
<1>12. CASE CheckBudget(r, s)
  <2>1. PICK step \in {"post", "postClassify", "returned"} :
          /\ Advance(r, s, step)
          /\ step \in {"post", "postClassify"} => ai.asked < MaxQuestions
          /\ step = "postClassify" => ai.classifyAsked < MaxClassifyQuestions
    BY <1>12 DEF CheckBudget, MayAsk
  <2>2. /\ calls[r][s] \in {"ask", "askClassify"} /\ calls'[r][s] = step
        /\ UNCHANGED <<ai, ticket, asked, lost, late>>
    BY <1>2, <1>12, <2>1 DEF CheckBudget, At, historyVars
  <2>3. Ledger'
    BY <1>5, <1>6, <2>2 DEF Limits, Ledger
  <2>4. InBudget'
    BY <1>2, <2>1, <2>2 DEF Limits, InBudget
  <2>5. HasTheFloor'
    BY <1>10, <2>2
  <2>6. Silence'
    BY <1>8, <1>11, <2>2 DEF Limits, Silence
  <2> QED
    BY <1>4, <2>3, <2>4, <2>5, <2>6 DEF Limits
<1>13. CASE PostQuestion(r, s)
  <2>1. PICK step \in {"count", "countBoth"} :
          /\ Advance(r, s, step)
          /\ calls[r][s] \in {"post", "postClassify"}
          /\ step = "countBoth" => calls[r][s] = "postClassify"
    BY <1>13 DEF PostQuestion, At
  <2>2. /\ calls'[r][s] = step
        /\ asked' = asked + 1 /\ lost' = lost /\ ai' = ai
        /\ late' = IF ai.done THEN late + 1 ELSE late
    BY <1>2, <1>13, <2>1 DEF PostQuestion
  <2>3. Ledger'
    BY <1>5, <1>6, <2>1, <2>2 DEF Limits, Ledger, TypeOK, TicketState
  <2>4. InBudget'
    BY <1>2, <2>1, <2>2 DEF Limits, InBudget
  <2>5. HasTheFloor'
    BY <1>10, <2>2
  <2>6. Silence'
    BY <1>8, <1>11, <2>1, <2>2 DEF Limits, Silence, TypeOK
  <2> QED
    BY <1>4, <2>3, <2>4, <2>5, <2>6 DEF Limits
<1>14. CASE CountQuestion(r, s)
  <2>1. PICK step \in {"success", "countClassify"} :
          /\ Advance(r, s, step)
          /\ calls[r][s] \in {"count", "countBoth"}
          /\ step = "countClassify" => calls[r][s] = "countBoth"
    BY <1>14 DEF CountQuestion, At
  <2>2. /\ calls'[r][s] = step
        /\ UNCHANGED <<ticket, asked, lost, late>>
        /\ ai'.asked = ai.asked + 1
        /\ ai'.classifyAsked = ai.classifyAsked
        /\ ai'.done = ai.done
    BY <1>2, <1>14, <2>1 DEF CountQuestion, historyVars, TypeOK, TicketState
  <2>3. Ledger'
    BY <1>5, <1>6, <2>1, <2>2 DEF Limits, Ledger, TypeOK, TicketState
  <2>4. InBudget'
    <3>1. ai.asked < MaxQuestions /\ ai.classifyAsked <= ai.asked
      BY <2>1 DEF Limits, InBudget
    <3>2. calls[r][s] = "countBoth" => ai.classifyAsked < MaxClassifyQuestions
      BY DEF Limits, InBudget
    <3>3. ai'.asked <= MaxQuestions /\ ai'.classifyAsked < ai'.asked
      BY <2>2, <3>1, IntakeAssumption DEF TypeOK, TicketState
    <3> QED
      BY <1>2, <2>1, <2>2, <3>2, <3>3, IntakeAssumption DEF Limits, InBudget, TypeOK, TicketState
  <2>5. HasTheFloor'
    BY <1>10, <2>2
  <2>6. Silence'
    BY <1>8, <1>11, <2>2 DEF Limits, Silence
  <2> QED
    BY <1>4, <2>3, <2>4, <2>5, <2>6 DEF Limits
<1>15. CASE CountClassifyQuestion(r, s)
  <2>1. Advance(r, s, "success") /\ calls[r][s] = "countClassify"
    BY <1>15 DEF CountClassifyQuestion, At
  <2>2. /\ calls'[r][s] = "success"
        /\ UNCHANGED <<ticket, asked, lost, late>>
        /\ ai'.asked = ai.asked
        /\ ai'.classifyAsked = ai.classifyAsked + 1
        /\ ai'.done = ai.done
    BY <1>2, <1>15, <2>1 DEF CountClassifyQuestion, historyVars, TypeOK, TicketState
  <2>3. Ledger'
    BY <1>5, <1>6, <2>1, <2>2 DEF Limits, Ledger
  <2>4. InBudget'
    <3>1. ai.classifyAsked < MaxClassifyQuestions /\ ai.classifyAsked < ai.asked
      BY <2>1 DEF Limits, InBudget
    <3>2. ai'.classifyAsked <= MaxClassifyQuestions /\ ai'.classifyAsked <= ai'.asked
      BY <2>2, <3>1, IntakeAssumption DEF TypeOK, TicketState
    <3> QED
      BY <1>2, <2>1, <2>2, <3>2 DEF Limits, InBudget
  <2>5. HasTheFloor'
    BY <1>10, <2>2
  <2>6. Silence'
    BY <1>8, <1>11, <2>2 DEF Limits, Silence
  <2> QED
    BY <1>4, <2>3, <2>4, <2>5, <2>6 DEF Limits
<1>16. CASE WriteNote(r, s)
  <2>1. Advance(r, s, "mark") /\ calls[r][s] = "note"
    BY <1>16 DEF WriteNote, At
  <2>2. /\ calls'[r][s] = "mark"
        /\ UNCHANGED <<ai, ticket, asked, lost>>
        /\ late' = IF ai.done THEN late + 1 ELSE late
    BY <1>2, <1>16, <2>1 DEF WriteNote
  <2>3. Ledger'
    BY <1>5, <1>6, <2>1, <2>2 DEF Limits, Ledger
  <2>4. InBudget'
    BY <1>2, <2>1, <2>2 DEF Limits, InBudget
  <2>5. HasTheFloor'
    BY <1>10, <2>1, <2>2
  <2>6. Silence'
    BY <1>8, <1>11, <2>1, <2>2 DEF Limits, Silence, TypeOK
  <2> QED
    BY <1>4, <2>3, <2>4, <2>5, <2>6 DEF Limits
<1>17. CASE MarkDone(r, s)
  <2>1. Advance(r, s, "success") /\ calls[r][s] = "mark"
    BY <1>17 DEF MarkDone, At
  <2>2. /\ calls'[r][s] = "success"
        /\ UNCHANGED <<ticket, asked, lost, late>>
        /\ ai'.asked = ai.asked /\ ai'.classifyAsked = ai.classifyAsked /\ ai'.done
    BY <1>2, <1>17, <2>1 DEF MarkDone, historyVars, TypeOK, TicketState
  <2>3. Ledger'
    BY <1>5, <1>6, <2>1, <2>2 DEF Limits, Ledger
  <2>4. InBudget'
    BY <1>2, <2>1, <2>2 DEF Limits, InBudget
  <2>5. HasTheFloor'
    BY <1>10, <2>2
  <2>6. Silence'
    BY <1>8, <1>11, <2>2 DEF Limits, Silence
  <2> QED
    BY <1>4, <2>3, <2>4, <2>5, <2>6 DEF Limits
<1>18. CASE SetClassification(r, s)
  <2>1. Advance(r, s, "returned") /\ calls[r][s] = "set"
    BY <1>18 DEF SetClassification, At
  <2>2. /\ calls'[r][s] = "returned"
        /\ UNCHANGED <<ai, asked, lost, late>>
        /\ ticket'.last = ticket.last
    BY <1>2, <1>18, <2>1 DEF SetClassification, historyVars, TypeOK, Ticket
  <2>3. Ledger'
    BY <1>5, <1>6, <2>1, <2>2 DEF Limits, Ledger
  <2>4. InBudget'
    BY <1>2, <2>1, <2>2 DEF Limits, InBudget
  <2>5. HasTheFloor'
    BY <1>10, <2>1, <2>2
  <2>6. Silence'
    BY <1>8, <1>11, <2>1, <2>2 DEF Limits, Silence
  <2> QED
    BY <1>4, <2>3, <2>4, <2>5, <2>6 DEF Limits
<1> QED
  BY <1>12, <1>13, <1>14, <1>15, <1>16, <1>17, <1>18

LEMMA NextLimits ==
  ASSUME Sequential, TypeOK, HoldersHold, Limits, [Next]_vars
  PROVE  Limits'
<1>1. CASE Outside
  <2>1. /\ UNCHANGED <<pc, seen, calls, asked, lost, late>>
        /\ ai' = ai \/ ai' = [ai EXCEPT !.done = TRUE]
    BY <1>1, OutsideKeeps DEF localVars, historyVars
  <2>2. /\ ai'.asked = ai.asked /\ ai'.classifyAsked = ai.classifyAsked
        /\ ai.done => ai'.done
    BY <2>1 DEF TypeOK, TicketState
  <2>3. ticket.last # "ai" => ticket'.last # "ai"
    BY <1>1 DEF Outside, LockExpires, PeopleWrite, EngineerTakes, HandleAssigned,
       vars, TypeOK, Ticket
  <2>4. CallsInTools' /\ Ledger' /\ InBudget'
    BY <2>1, <2>2 DEF Limits, CallsInTools, Ledger, Unsettled, InBudget
  <2>5. HasTheFloor' /\ Silence'
    BY <2>1, <2>2, <2>3 DEF Limits, HasTheFloor, Silence
  <2> QED
    BY <2>4, <2>5 DEF Limits
<1>2. ASSUME NEW r \in Run, ActionOf(r) PROVE Limits'
  <2>1. pc[r] # "tools" => \A s \in Slot : calls[r][s] \notin {"count", "countBoth"}
    BY DEF Limits, CallsInTools
  <2>2. CASE LockHeld(r) \/ AcquireFails(r) \/ NothingToRunOn(r) \/ GuardStops(r)
    <3>1. /\ \E place \in {"release", "end"} : \E result : Finish(r, place, result)
          /\ pc[r] # "tools"
          /\ UNCHANGED <<ai, ticket, asked, lost, late>>
      BY <2>2 DEF LockHeld, AcquireFails, NothingToRunOn, GuardStops, historyVars
    <3> QED
      BY <2>1, <3>1, EndingKeepsLimits
  <2>3. CASE CloseTicket(r)
    <3>1. /\ Finish(r, "release", "done") /\ pc[r] # "tools"
          /\ ai' = [ai EXCEPT !.done = TRUE]
          /\ UNCHANGED <<ticket, asked, lost, late>>
      BY <2>3 DEF CloseTicket, historyVars
    <3> QED
      BY <2>1, <3>1, EndingKeepsLimits
  <2>4. CASE ReadBeforeClosing(r)
    <3>1. pc[r] = "epilogue" /\ UNCHANGED <<ai, ticket, asked, lost, late>>
      BY <2>4 DEF ReadBeforeClosing, historyVars
    <3>2. CASE Finish(r, "release", "done")
      BY <2>1, <3>1, <3>2, EndingKeepsLimits
    <3>3. CASE /\ ~ai.done
               /\ Goto(r, IF "finish_handoff" \in tools[r] THEN "fallback" ELSE "close")
               /\ UNCHANGED <<outcome, localVars>>
      <4>1. PICK place \in {"fallback", "close"} : Goto(r, place)
        BY <3>3
      <4>2. calls' = calls /\ seen' = seen
        BY <3>3 DEF localVars
      <4> QED
        BY <3>1, <3>3, <4>1, <4>2, MovingKeepsLimits
    <3> QED
      BY <2>4, <3>2, <3>3 DEF ReadBeforeClosing
  <2>5. CASE TurnEnds(r)
    <3>1. /\ pc[r] = "tools" /\ UNCHANGED <<ai, ticket, asked, lost, late>>
          /\ \A s \in Slot : calls[r][s] \in {"none", "returned", "success"}
      BY <2>5 DEF TurnEnds, historyVars
    <3>2. CASE Finish(r, "release", "done")
      BY <3>1, <3>2, EndingKeepsLimits
    <3>3. CASE /\ \A s \in Slot : calls[r][s] # "success"
               /\ Goto(r, "model")
               /\ calls' = [calls EXCEPT ![r] = NoCalls]
               /\ seen' = seen
      <4>1. /\ pc'[r] = "model"
            /\ \A q \in Run \ {r} : pc'[q] = pc[q] /\ calls'[q] = calls[q]
            /\ \A s \in Slot : calls'[r][s] = "none"
        BY <3>3 DEF TypeOK, Goto, NoCalls
      <4>2. CallsInTools' /\ InBudget'
        BY <3>1, <4>1 DEF Limits, CallsInTools, InBudget
      <4>3. Unsettled' = Unsettled
        BY <3>1, <4>1 DEF Unsettled
      <4>4. Ledger'
        BY <3>1, <4>3 DEF Limits, Ledger
      <4>5. ticket.last # "ai"
        BY <3>1, <3>3 DEF Limits, HasTheFloor
      <4>6. HasTheFloor'
        BY <3>1, <3>3, <4>1, <4>5 DEF Limits, HasTheFloor
      <4>7. late # 1
        BY <3>1, <3>3 DEF Limits, Silence
      <4>8. Silence'
        BY <3>1, <4>7 DEF Limits, Silence
      <4> QED
        BY <4>2, <4>4, <4>6, <4>8 DEF Limits
    <3> QED
      BY <2>5, <3>2, <3>3 DEF TurnEnds
  <2>6. CASE AcquireLock(r)
    BY <2>6, MovingKeepsLimits DEF AcquireLock, localVars, historyVars
  <2>7. CASE Fetch(r)
    <3>1. seen'[r] = ticket /\ \A q \in Run \ {r} : seen'[q] = seen[q]
      BY <2>7 DEF TypeOK, Fetch
    <3> QED
      BY <2>7, <3>1, MovingKeepsLimits DEF Fetch, historyVars
  <2>8. CASE Compose(r)
    <3>1. ticket.last # "ai" /\ ~ai.done
      BY <2>8 DEF Compose, MustStop, Limits, HasTheFloor
    <3> QED
      BY <2>8, <3>1, MovingKeepsLimits DEF Compose, historyVars
  <2>9. CASE AgentGivesUp(r)
    BY <2>9, MovingKeepsLimits DEF AgentGivesUp, localVars, historyVars
  <2>10. CASE ReleaseLock(r)
    BY <2>10, MovingKeepsLimits DEF ReleaseLock, localVars, historyVars
  <2>11. CASE ModelTurn(r)
    <3>1. PICK chosen \in [Slot -> tools[r] \union {"none", "returned"}] :
            calls' = [calls EXCEPT ![r] = [s \in Slot |-> FirstStep(r, chosen[s])]]
      BY <2>11 DEF ModelTurn
    <3>2. \A s \in Slot : calls'[r][s] = FirstStep(r, chosen[s])
      BY <3>1 DEF TypeOK
    <3>3. \A s \in Slot : chosen[s] \in Tool \union {"none", "returned"}
      BY <3>1 DEF TypeOK
    <3>4. \A s \in Slot : calls'[r][s] \in {"none", "ask", "askClassify", "note", "mark",
                                            "set", "returned"}
      BY <3>2, <3>3 DEF FirstStep, Tool
    <3>5. /\ pc[r] = "model" /\ pc'[r] = "tools"
          /\ \A q \in Run \ {r} : pc'[q] = pc[q] /\ calls'[q] = calls[q]
          /\ UNCHANGED <<ai, ticket, seen, asked, lost, late>>
      BY <2>11, <3>1 DEF TypeOK, ModelTurn, Goto, historyVars
    <3>6. \A s \in Slot : calls[r][s] = "none"
      BY <3>5 DEF Limits, CallsInTools
    <3>7. CallsInTools' /\ InBudget'
      BY <3>4, <3>5 DEF Limits, CallsInTools, InBudget
    <3>8. Unsettled' = Unsettled
      BY <3>4, <3>5, <3>6 DEF Unsettled
    <3>9. Ledger'
      BY <3>5, <3>8 DEF Limits, Ledger
    <3>10. HasTheFloor'
      BY <3>5 DEF Limits, HasTheFloor
    <3>11. Silence'
      BY <3>5 DEF Limits, Silence
    <3> QED
      BY <3>7, <3>9, <3>10, <3>11 DEF Limits
  <2>12. CASE ToolStep(r)
    BY <2>12, ToolsKeepLimits
  <2>13. CASE WriteFallbackNote(r)
    <3>1. /\ pc[r] = "fallback" /\ pc'[r] = "close"
          /\ \A q \in Run \ {r} : pc'[q] = pc[q]
          /\ UNCHANGED <<ai, ticket, seen, calls, asked, lost>>
          /\ late' = IF ai.done THEN late + 1 ELSE late
      BY <2>13 DEF TypeOK, WriteFallbackNote, Goto, localVars
    <3>2. \A q \in Run \ {r} : pc[q] \notin {"model", "tools", "fallback"}
      BY <3>1, Alone DEF Limits, Locked
    <3>3. late = 0
      BY <3>1 DEF TypeOK, Limits, Silence
    <3>4. CallsInTools' /\ Ledger' /\ InBudget'
      BY <3>1 DEF Limits, CallsInTools, Ledger, Unsettled, InBudget
    <3>5. HasTheFloor'
      BY <3>1 DEF Limits, HasTheFloor
    <3>6. Silence'
      BY <3>1, <3>2, <3>3 DEF Silence
    <3> QED
      BY <3>4, <3>5, <3>6 DEF Limits
  <2>14. CASE Fail(r) \/ Crash(r)
    <3>1. PICK place \in {"release", "crashed"} : StopsWorking(r, place)
      BY <2>14 DEF Fail, Crash
    <3>2. /\ pc'[r] = place
          /\ \A s \in Slot : calls'[r][s] = "none"
          /\ \A q \in Run \ {r} : pc'[q] = pc[q] /\ calls'[q] = calls[q] /\ seen'[q] = seen[q]
          /\ UNCHANGED <<ai, ticket, asked, late>>
          /\ lost' = lost + Uncounted(r)
      BY <3>1 DEF TypeOK, StopsWorking, Finish, Goto, NoCalls
    <3>3. \A q \in Run \ {r}, s \in Slot : calls[q][s] = "none"
      BY <2>14, Alone DEF Fail, Crash, Limits
    <3>4. ~Unsettled'
      BY <3>2, <3>3 DEF Unsettled
    <3>5. lost' = lost + IF Unsettled THEN 1 ELSE 0
      BY <3>2, <3>3, OneUncounted DEF Unsettled
    <3>6. Ledger'
      BY <3>2, <3>4, <3>5 DEF TypeOK, TicketState, Limits, Ledger
    <3>7. CallsInTools' /\ InBudget'
      BY <3>2 DEF Limits, CallsInTools, InBudget
    <3>8. HasTheFloor' /\ Silence'
      BY <3>2 DEF Limits, HasTheFloor, Silence
    <3> QED
      BY <3>6, <3>7, <3>8 DEF Limits
  <2> QED
    BY <1>2, <2>2, <2>3, <2>4, <2>5, <2>6, <2>7, <2>8, <2>9, <2>10, <2>11, <2>12,
       <2>13, <2>14 DEF ActionOf, RunStep
<1> QED
  BY <1>1, <1>2, WhoSteps

-----------------------------------------------------------------------------
\* Everything the theorems below need of a reachable state.
Safe == TypeOK /\ HoldersHold /\ Limits

LEMMA SafeAlways ==
  ASSUME OutlivesTtl = FALSE, Sequential
  PROVE  Spec => []Safe
<1>1. Init => Safe
  BY InitTyped, InitHolders, InitLimits DEF Safe
<1>2. Safe /\ [Next]_vars => Safe'
  BY NextTyped, NextHolders, NextLimits DEF Safe
<1> QED
  BY <1>1, <1>2, PTL DEF Spec

LEMMA SafeWithinCeiling == Safe => QuestionCeiling
<1> SUFFICES ASSUME Safe PROVE QuestionCeiling
  OBVIOUS
<1>1. ai.asked \in Nat /\ lost \in Nat /\ asked \in Nat
  BY DEF Safe, TypeOK, TicketState
<1>2. ai.asked <= MaxQuestions /\ (Unsettled => ai.asked < MaxQuestions)
  BY DEF Safe, Limits, InBudget, Unsettled
<1>3. asked <= MaxQuestions + lost
  BY <1>1, <1>2, IntakeAssumption DEF Safe, Limits, Ledger
<1> QED
  BY <1>3 DEF Safe, Limits, InBudget, QuestionCeiling

\* The question ceiling, with no room for one question more: a unit of the
\* budget is still there whenever a question is about to be posted.
THEOREM CeilingHolds ==
  ASSUME OutlivesTtl = FALSE, Sequential
  PROVE  Spec => []QuestionCeiling
BY SafeAlways, SafeWithinCeiling, PTL

\* An engineer who takes the ticket is written over at most once.
THEOREM OneLateWrite ==
  ASSUME OutlivesTtl = FALSE, Sequential
  PROVE  Spec => []AtMostOneLateWrite
<1>1. Safe => AtMostOneLateWrite
  BY DEF Safe, Limits, Silence, AtMostOneLateWrite
<1> QED
  BY <1>1, SafeAlways, PTL

-----------------------------------------------------------------------------
(* What a question finds on the ticket and in the budget. *)

LEMMA QuestionInTurn ==
  ASSUME Sequential, Safe, NEW r \in Run, NEW s \in Slot, PostQuestion(r, s)
  PROVE  /\ ticket.last # "ai"
         /\ MaxQuestions + lost - asked > 0
<1>1. pc[r] = "tools" /\ calls[r][s] \in {"post", "postClassify"}
  BY DEF PostQuestion, At
<1>2. PICK step : Advance(r, s, step)
  BY DEF PostQuestion
<1>3. \A q \in Run, t \in Slot : calls[q][t] = "none" \/ (q = r /\ t = s)
  BY <1>1, <1>2, OneCall DEF Safe, Limits
<1>4. ticket.last # "ai"
  BY <1>1, <1>3 DEF Safe, Limits, HasTheFloor
<1>5. ~Unsettled
  BY <1>1, <1>3 DEF Unsettled
<1>6. ai.asked < MaxQuestions
  BY <1>1 DEF Safe, Limits, InBudget
<1>7. MaxQuestions + lost - asked > 0
  BY <1>5, <1>6, IntakeAssumption DEF Safe, TypeOK, TicketState, Limits, Ledger
<1> QED
  BY <1>4, <1>7

\* Only posting a question changes the number of questions or makes the
\* assistant the last to speak.
LEMMA OnlyPostingAsks ==
  ASSUME TypeOK, NEW r \in Run, ActionOf(r),
         \A s \in Slot : ~PostQuestion(r, s)
  PROVE  asked' = asked /\ ticket'.last = ticket.last
<1>1. CASE ToolStep(r)
  BY <1>1 DEF ToolStep, CheckBudget, CountQuestion, CountClassifyQuestion, WriteNote,
     MarkDone, SetClassification, historyVars, TypeOK, Ticket
<1>2. CASE asked' = asked /\ ticket' = ticket
  BY <1>2
<1> QED
  BY <1>1, <1>2 DEF ActionOf, RunStep, AcquireLock, LockHeld, AcquireFails, Fail, Crash,
     StopsWorking, NothingToRunOn, Fetch, GuardStops, Compose, ModelTurn, AgentGivesUp,
     TurnEnds, ReadBeforeClosing, WriteFallbackNote, CloseTicket, ReleaseLock, historyVars

LEMMA AsksInTurn ==
  ASSUME Sequential, Safe, [Next]_vars
  PROVE  asked' # asked => ticket.last # "ai"
<1>1. CASE Outside
  BY <1>1, OutsideKeeps DEF Safe, historyVars
<1>2. ASSUME NEW r \in Run, ActionOf(r) PROVE asked' # asked => ticket.last # "ai"
  BY <1>2, OnlyPostingAsks, QuestionInTurn DEF Safe
<1> QED
  BY <1>1, <1>2, WhoSteps

\* The loop guard: the assistant never asks right after its own entry, however
\* many webhooks its entries and their duplicates cause.
THEOREM LoopGuard ==
  ASSUME OutlivesTtl = FALSE, Sequential
  PROVE  Spec => NeverAsksTwiceInARow
<1>1. Safe /\ [Next]_vars => [asked' # asked => ticket.last # "ai"]_vars
  BY AsksInTurn
<1> QED
  BY <1>1, SafeAlways, PTL DEF Spec, NeverAsksTwiceInARow

-----------------------------------------------------------------------------
(* The runs implement the dialogue promised to the requester. *)

LEMMA InitDialogue == Init => Dialogue!Init
BY IntakeAssumption DEF Init, Dialogue!Init

LEMMA StepDialogue ==
  ASSUME Sequential, Safe, [Next]_vars
  PROVE  [Dialogue!Next]_(Dialogue!dialogueVars)
<1> USE DEF Dialogue!dialogueVars
<1>1. lost \in Nat /\ asked \in Nat
  BY DEF Safe, TypeOK
<1>2. ASSUME asked' = asked, lost' = lost, ticket'.last = ticket.last,
             ai'.done = ai.done \/ ai'.done = TRUE
      PROVE  [Dialogue!Next]_(Dialogue!dialogueVars)
  BY <1>2 DEF Dialogue!Next, Dialogue!Close
<1>3. CASE Outside
  <2>1. asked' = asked /\ lost' = lost
    BY <1>3, OutsideKeeps DEF Safe, historyVars
  <2>2. CASE PeopleWrite
    <3>1. ticket'.last = "human" /\ ai' = ai
      BY <2>2 DEF PeopleWrite, Safe, TypeOK, Ticket
    <3> QED
      BY <2>1, <3>1 DEF Dialogue!Next, Dialogue!Reply
  <2>3. CASE ~PeopleWrite
    <3>1. ticket'.last = ticket.last
      BY <1>3, <2>3 DEF Outside, LockExpires, EngineerTakes, HandleAssigned, vars,
         Safe, TypeOK, Ticket
    <3>2. ai'.done = ai.done \/ ai'.done = TRUE
      BY <1>3, OutsideKeeps DEF Safe, TypeOK, TicketState
    <3> QED
      BY <1>2, <2>1, <3>1, <3>2
  <2> QED
    BY <2>2, <2>3
<1>4. ASSUME NEW r \in Run, ActionOf(r) PROVE [Dialogue!Next]_(Dialogue!dialogueVars)
  <2>1. CASE \E s \in Slot : PostQuestion(r, s)
    <3>1. ticket.last # "ai" /\ MaxQuestions + lost - asked > 0
      BY <2>1, QuestionInTurn
    <3>2. asked' = asked + 1 /\ lost' = lost /\ ticket'.last = "ai" /\ ai' = ai
      BY <2>1 DEF PostQuestion, Safe, TypeOK, Ticket
    <3>3. MaxQuestions + lost' - asked' = (MaxQuestions + lost - asked) - 1
      BY <1>1, <3>2, IntakeAssumption
    <3>4. UNCHANGED ai.done
      BY <3>2
    <3> QED
      BY <3>1, <3>2, <3>3, <3>4 DEF Dialogue!Next, Dialogue!Ask
  <2>2. CASE Fail(r) \/ Crash(r)
    <3>1. /\ UNCHANGED <<ai, ticket, asked>>
          /\ lost' = lost + Uncounted(r)
      BY <2>2 DEF Fail, Crash, StopsWorking
    <3>2. Uncounted(r) \in {0, 1}
      BY OneUncounted
    <3>3. CASE Uncounted(r) = 0
      BY <1>1, <1>2, <3>1, <3>3
    <3>4. CASE Uncounted(r) = 1
      <4>1. MaxQuestions + lost' - asked' = MaxQuestions + lost - asked + 1
        BY <1>1, <3>1, <3>4, IntakeAssumption
      <4> QED
        BY <3>1, <4>1 DEF Dialogue!Next, Dialogue!LoseCharge
    <3> QED
      BY <3>2, <3>3, <3>4
  <2>3. CASE (\A s \in Slot : ~PostQuestion(r, s)) /\ ~Fail(r) /\ ~Crash(r)
    <3>1. asked' = asked /\ ticket'.last = ticket.last
      BY <1>4, <2>3, OnlyPostingAsks DEF Safe
    <3>2. lost' = lost
      BY <1>4, <2>3 DEF ActionOf, RunStep, AcquireLock, LockHeld, AcquireFails,
         NothingToRunOn, Fetch, GuardStops, Compose, ModelTurn, AgentGivesUp, ToolStep,
         CheckBudget, CountQuestion, CountClassifyQuestion, WriteNote, MarkDone,
         SetClassification, TurnEnds, ReadBeforeClosing, WriteFallbackNote, CloseTicket,
         ReleaseLock, historyVars
    <3>3. ai'.done \in BOOLEAN /\ ai.done \in BOOLEAN /\ (ai.done => ai'.done)
      BY NextTyped, StaysDone DEF Safe, TypeOK, TicketState
    <3> QED
      BY <1>2, <3>1, <3>2, <3>3
  <2> QED
    BY <2>1, <2>2, <2>3
<1> QED
  BY <1>3, <1>4, WhoSteps

\* The module keeps its promise to the requester: every behaviour of the runs,
\* with their locks, failures and duplicates, is a dialogue of IntakeDialogue.
THEOREM RunsKeepTheDialogue ==
  ASSUME OutlivesTtl = FALSE, Sequential
  PROVE  Spec => RefinesDialogue
<1>1. Init => Dialogue!Init
  BY InitDialogue
<1>2. Safe /\ [Next]_vars => [Dialogue!Next]_(Dialogue!dialogueVars)
  BY StepDialogue
<1> QED
  BY <1>1, <1>2, SafeAlways, PTL DEF Spec, RefinesDialogue, Dialogue!Spec
=============================================================================
