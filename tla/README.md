# Verification of itop-ai-assistant

TLA+ specifications of the assistant, model-checked with TLC, and theorems about
them proved with TLAPS. Paths are relative to
`assistant/src/itop_ai_assistant/` unless they start with `docs/` or `README`.

1. [The system](#1-the-system)
2. [Modules](#2-modules)
3. [The intake runs](#3-the-intake-runs)
4. [The index versions](#4-the-index-versions)
5. [The sweep, its lock and its pacing](#5-the-sweep-its-lock-and-its-pacing)
6. [Triggers, frame and journal](#6-triggers-frame-and-journal)
7. [The services around them](#7-the-services-around-them)
8. [Runs and bounds](#8-runs-and-bounds)
9. [Proofs](#9-proofs)
10. [Where the code and its documentation disagree](#10-where-the-code-and-its-documentation-disagree)
11. [What is not modelled](#11-what-is-not-modelled)

## 1. The system

A FastAPI process, possibly in several replicas. iTop calls it by webhook when a
ticket changes; it reads the ticket, lets a language model work on it with a
handful of tools, and writes into the ticket's logs. Beside that it keeps a
vector index of resolved tickets and FAQ articles, which the model's search
tools use. Redis holds what survives a restart (locks, counters, cursors,
settings); Qdrant holds the vectors; iTop owns the tickets.

| Component | State | Operations | Meets the others through | What is hard | What makes it correct |
|---|---|---|---|---|---|
| Run shell, lock (`pipelines/shell.py`, `state/ticket_state.py`) | lock key with a TTL, the AI hash of a ticket, both in Redis | acquire, fetch, guard, body, release | Redis, iTop, the agent | duplicate webhooks, crashes inside the lock, a lost `DELETE`, a run longer than the TTL | one run per ticket at a time; no ticket locked for good |
| Intake agent (`agents/intake`, `pipelines/agent_run.py`) | the run's snapshot, tool set, model-call count; `questions_asked`, `classify_questions_asked`, `ai_done` | a model turn, its concurrent tool calls, the epilogue, `handle_assigned` | lock, iTop's logs, people writing there | tool calls of one turn run concurrently, stale snapshot, failures between write and count | question ceiling, one closing action per run, never speaking twice in a row, silence once `ai_done` is set, no ticket left open |
| Index versions (`vector/adapters/qdrant_store.py`, `vector/use_cases/indexer.py`) | `chunks_meta` rows, one collection per version, versions memoized per process | `ensure_version`, fill, `activate_version`, drop | the sweep writes, searches read | interrupted creation and drop, stale memoized versions, a class failing | searches never see a half-built replacement; every rebuild completes |
| Similar search (`vector/use_cases/search.py`) | none of its own | check the fingerprint, embed, search | index versions, configuration | the check is awaits away from the use | the query's model is the index's model |
| Sweep and its lock (`vector/use_cases/indexer.py`, `vector/state/sync_state.py`) | cursors, sweep stamps, reindex flag, lock with a token and a renewal task | increment, full pass, reconciliation, renew | iTop pages, Qdrant, Redis | pages drifting, an object updated during the pass, two sweeps when a renewal is late | no updated object is missed for good; a deleted object leaves the index |
| Run frame and journal (`pipelines/runner.py`, `state/journal.py`) | journal records, daily counters | start, finish, fail, count | every module's run | cancellation, Redis failing inside the frame | each run ends in one terminal status |
| Triggers (`webhook/`, `request/`, `schedule/`, `pipelines/registry.py`) | modules registered | accept, dispatch | run frame | a trigger arriving while the lock is held is skipped | the last change of a ticket is processed |
| Periodic tasks (`pipelines/scheduler.py`) | an event and a `woken` flag per task | wait, wake, run, stop | sweep, telemetry | a wake between timeout and resumption | a wake is never lost, a task never overlaps itself |
| iTop connection (`itop/connection.py`) | the HTTP client, the AI's name | rebuild, read name, close | runs in flight | a rebuild under a run's feet | the name belongs to the account in use |
| Telemetry (`telemetry/`, `state/install.py`) | install id, day claimed | claim, build, send | scheduler, replicas | crash between claim and send | one tick sends a day, one first document |
| Settings and prompts (`settings/`) | overrides in Redis | get, set, partial reset | every component | read-merge-write | an answered edit is put back by nobody who has seen it |
| iTop client, repositories (`itop_client/`, `repositories/`) | schema cache | requests | iTop | mapping, parsing | faithful conversion |
| Provisioning, admin, setup wizard (`itop/provisioning.py`, `admin/`) | objects created in iTop | create or reuse | iTop | partial provisioning | re-running it completes it |
| Process lifecycle (`main.py`, `core/`) | background tasks | start, stop | all | what a shutdown cancels | nothing is left half-started |

The hazards these lead to are listed one by one, at their source lines, in
`PROJECT.json`, with the property that would catch each or the reason why none
does.

## 2. Modules

| Module | What it is |
|---|---|
| `IntakeRun` | the runs over one ticket: shell, lock, agent loop, tools, epilogue, people |
| `IntakeDialogue` | what those runs promise the requester; `IntakeRun` implements it |
| `IndexVersions` | passes that build, activate and drop index versions, and the searches that read them |
| `ServedIndex` | what the searches are promised; `IndexVersions` implements it |
| `Sweep` | what a pass does inside a version: cursors, pages, chunks, backfill, reconciliation |
| `SweepLock` | the lock a pass works under: token, TTL, renewal task, compare-then-delete |
| `Pacing` | when passes start: the periodic loops, the interval marker, buttons, the command |
| `Triggers` | webhooks, requests and schedules, the frame of a run, journal, counters, shutdown |
| `Telemetry` | the daily document: identity, setup day, claim, attempts |
| `Settings` | configuration sections in Redis, and the requests that edit them |
| `Prompts` | packaged, deployed and edited templates, their validation at boot, edit and run |
| `Connection` | the shared iTop client, the name cached with it, the repository sets, the probes |
| `Provisioning` | find-or-create of the objects iTop needs to call the assistant |
| `MCIntakeRun`, `MCSweep`, `MCSettings`, `MCPrompts` | values of constants and symmetry for TLC |
| `MCTickets` | one run over `IntakeRun`, `Triggers` and `IndexVersions` |
| `Chunks` | how the texts and the log of an object become chunks |
| `MCBackground` | one run over `Sweep` and the eight modules around it |
| `*_proofs` | theorems: `IntakeRun_proofs`, `IndexVersions_proofs`, `Sweep_proofs`, `Periodic_proofs` (`SweepLock`, `Pacing`, `Telemetry`), `Services_proofs` (`Connection`, `Prompts`, `Settings`, `Provisioning`), `Chunks_proofs`, `Triggers_proofs`, `Background_proofs` (`MCBackground`) |

How they compose. `Sweep` works inside the version that `IndexVersions` chooses:
each takes of the other what it needs in one step (a class is whole or not there;
a version is the active one or its replacement). Both rest on "passes exclude
each other", which `SweepLock` delivers under its renewal condition and
`Sweep!OneSweep` states; `Pacing` says when a pass is tried at all. `Triggers`
has the runs of `IntakeRun` as one step, `work`, and adds what surrounds it;
`IntakeRun` has the lock in full, `Triggers` what a skipped webhook loses.
`Settings` feeds `Connection` (a section that changes, a read that answers the
defaults) and `Telemetry` (the wizard has been finished). Intake reaches the index
only through its search tools, which in `IntakeRun` change nothing.

Definitions marked "Mutant" in a module are a definition's plausible wrong form.
No specification uses them; each records the mistake that the property it is
paired with in `PROJECT.json` does detect.

## 3. The intake runs

**State.** `lock` is the Redis key `lock:<class>:<id>`: the run whose `SET NX EX`
created it, or `NoRun`. The code stores only `"1"`, and no action reads more of
it than whether it exists. `ai` is the Redis hash of the ticket. `ticket` is iTop's side: is the
status one the assistant acts on, who wrote the last public entry, is the ticket
classified. `pc`, `seen`, `tools`, `turns`, `calls` are a run's local variables;
`outcome` how it ended. `asked`, `lost`, `asks`, `notes`, `late` are history
variables that no guard reads.

**Actions.** One per stretch of code between two awaits that touch shared state.

| Actions | Code |
|---|---|
| `AcquireLock`, `LockHeld`, `AcquireFails`, `ReleaseLock` | `TicketStateManager.acquire_lock` / `release_lock`, called by `TicketRun.execute`; a Redis call may fail before or after taking effect |
| `NothingToRunOn`, `Fetch`, `GuardStops`, `Compose` | the shell up to the body: fetch, `domain.stop_reason`, `tools_for` |
| `ModelTurn`, `AgentGivesUp`, `TurnEnds` | the agent loop with its middlewares: call limit, the nudge for prose, stop after a closing tool |
| `CheckBudget`, `PostQuestion`, `CountQuestion`, `CountClassifyQuestion` | `post_public_question`: read, post, two increments |
| `WriteNote`, `MarkDone`, `SetClassification` | `finish_handoff`, `finish_processing`, `set_classification` |
| `ReadBeforeClosing`, `WriteFallbackNote`, `CloseTicket` | `IntakeAgentRun.epilogue` |
| `Fail`, `Crash`, `LockExpires` | an exception anywhere in the lock; the process dying; the TTL |
| `PeopleWrite`, `EngineerTakes`, `HandleAssigned` | the requester and engineers; the webhook of an assignment, which takes no lock |

The model is free: any tool of the set, any number of calls a turn (one per
`Slot`), in any order. Reading tools, and calls that are refused, are the value
`"returned"`. The calls of a turn interleave, as the tools node runs them.

`OutlivesTtl` says whether a lock may expire under a run that is still working.
`TRUE` is what the code allows: nothing renews the key, and `max_iterations`
model calls with retries can exceed 300 s. `FALSE` is the operating assumption
under which the guarantees hold; the run `intake_ttl` shows what happens without.

**Fairness.** `WF` of a run's own steps: an await returns or raises. The clients
of iTop and of the models have timeouts; the Redis client (`core/deps.py:164`) sets
none, so for it this says that a connection which has died breaks sooner or later. `WF` of `LockExpires`: Redis expires keys. Nothing is
assumed of people, of failures (they need not stop), or of new triggers.

**Properties.** `OneRunAtATime`, `QuestionCeiling`, `OneClosingAction`,
`NeverAsksTwiceInARow`, `AtMostOneLateWrite`, `DoneRunsLeaveNothingOpen`,
`OneNotePerTicket`, `EveryRunEnds`, `LockIsFreed`, `RefinesDialogue`. The last
maps the budget left to `MaxQuestions + lost - asked`: a question costs a unit
the moment it is posted, and only a run that dies before counting gives it back.
`IntakeDialogue` never asks without budget, nor right after the assistant's own
entry.

## 4. The index versions

**State.** One family. `row` is `chunks_meta`, `coll` the collection of each
version (the model it was built for, the classes it holds whole). `pass` is the
sweep pass under way, `cache` the `_meta_cache` of each replica, `search` the
searches, `config` the configured model.

**Actions.** One per Qdrant call that matters.

| Actions | Code |
|---|---|
| `StartPass`, `SitOut`, `EnsureVersion` | `sweep_once` reads the configuration once; `_family_too_soon`; the cases of `ensure_version` |
| `DropRow`, `DropCollection` | `_drop_version`, row first |
| `DropOrphan`, `CreateCollection`, `WriteRow` | `_create_chunk_collection`, `_create_version`, row last |
| `SweepClass`, `ClassFails`, `ClassesDone` | `_sweep_class` with digests read from, and chunks written to, the version `_write_meta` returns; class isolation; `_finish_rebuild` |
| `Promote` | `activate_version`: promote, then retire |
| `Ask`, `RecallVersions`, `ReadVersions`, `RememberVersions`, `Query` | `SimilarSearch._search`: fingerprint check, embedding, and `store.search`, each with its own lookup of the versions; a lookup that misses the cache is a request and an answer; hits confirmed with the source (`_keep_confirmed`) |
| `AskGate`, `ShowStatus` | `available` and the status screen: lookups whose only trace is what the replica remembers |
| `PassFails`, `Restart`, `CacheExpires`, `ChangeModel` | a Qdrant call failing before or after it took effect, a replica dying, the 30 s TTL, the administrator |

Assumptions: the sweep lock keeps passes apart (`SweepLock`);
objects do not change, so that a class is in an index or not; all models have
one dimension, the worst case, since Qdrant refuses to compare different ones.
A pass over an active version walks whole classes where the code reads from the
cursor: a class missing from an active version is one whose cursor was never
written, so the code walks it whole too. A leftover active row (a
crash between promoting and dropping) is superseded by the newer one and never
dropped: `Newest` ignores it, it costs space and nothing else.

`SlowReads` says whether a pass may overtake a search's read of `chunks_meta` in
its own process. `TRUE` is what the code allows; `index_cache` shows the
consequence. `FALSE` is the assumption of `tickets`. Reads of other
replicas may always be slow.

**Fairness.** `WF` of the pass: the scheduler starts passes for as long as the
service runs, and a failed one is followed by another. `WF` of an answer to a
read that was sent, and of the TTL. `SF` of `EnsureVersion`: a family with an
interval of its own sits some passes out, never all of them, because the
interval ends. Failures and edits of the model are bounded,
so they stop: a rebuild completes only when they do.

**Properties.** `RowsHaveCollections`, `AnswersAreWhole`, `RefinesServedIndex`
(the index that answers changes in one step, and only to one that holds every
class), `RebuildCompletes` (`VersionsComplete` in `MCTickets`); and two the documentation states and the code does
not keep, `NeverMixes` and `PuttingBackKeepsIndex`.

## 5. The sweep, its lock and its pacing

**`Sweep`.** `itop` is each object as iTop has it (there or gone, in scope or
not, its text as the sequence of its chunks' hashes, its modification stamp);
`index` the chunks of the version being written, `kept` those of the active
version while a replacement is filled; `cursor`, `reindex`, `reconciled` the keys
of `VectorSyncState`; `pass` the local variables of each replica's pass.

| Actions | Code |
|---|---|
| `TakeLock`, `Begin`, `ResetCursors`, `ClearFlag`, `Release` | `sweep_once`, `_sweep_locked`, `reset_cursors` in its two commands |
| `EnsureVersion`, `ClassesDone` | `ensure_version`, `_finish_rebuild` as one step each (their inside is `IndexVersions`) |
| `ReadCursor`, `ReadPage`, `DropLeft`, `WriteObject`, `MoveCursor` | `_sweep_class`: where an increment starts; a page as it is when read; one by one, the objects it shows out of scope are dropped from the index, however they are by then; then `classify_chunk`, upserts, metadata, deletions of the others; the cursor after the last page and only for the active version |
| `ListBatch`, `DropOrphans`, `StampReconciled` | `_reconcile`, keyset pages over what is being deleted |
| `ClassFails`, `PassFails`, `Crash` | exceptions and deaths anywhere, a write cut between any two of its batches (`HalfWritten`) |
| `LockExpires`, `TimePasses`, `Save`, `Discard`, `RequestReindex` | the TTL, time, people and administrators |

`SlowPasses` says whether a pass may outlast the overlap of the next one (two
intervals). The code allows it, and the run `sweep_slow` shows what it costs;
`background` checks `NothingForgotten` under `FALSE`. `Drifting` says whether
an object may be deleted in the very class that is being read. With `TRUE`, a page
shifts by the deleted object, the next page skips one, and `NothingForgotten`
fails as well; the code's comment speaks of drifting pages and relies on the same
overlap. Both are the same defect seen twice, so one run shows it; the theorem
`NothingIsForgotten` has both as its conditions. The lock
expires under dead owners only: that a living pass keeps it is `SweepLock`'s
theorem, and what a pass does whose lock lapsed all the same is not modelled.

Properties. `NothingForgotten`: whatever the index is wrong about lies at or after
the point where the next walk starts. `BackfillHonoured`: a requested backfill is
covered by the flag or by a reset cursor until each object has been read.
`OneSweep`. `OrphansGo`: at the stamp, nothing that was gone when the
reconciliation began has chunks left. `StaysFindable`: no step of the sweep makes
an object that is in scope and did not change unfindable, with one exception,
`SeenOutside`: the pass acts on a page it has read, and drops an object which
that page shows out of scope (`indexer.py:536`, `:560`) even if it has come back
since. The object is out of the index until the next increment, which reads it
because its return is a later modification (`NothingForgotten` has no exception
for it). No line of the repository promises more.

**`SweepLock`.** Time is counted in renewal intervals; `missed` counts the
renewals a pass has missed since its TTL was last whole, `robbed` the attempts
whose key a delayed `DELETE` of another has removed. `RenewalKeepsLock`: a pass
that misses all but one of the renewals its TTL has room for, or fewer, keeps
its key. `ReleaseHurtsNobody`: a `DELETE` right after its comparison removes its
own key or none. Both name their exception (a comparison and a `DELETE` with an
interval between them), which the docstring of `sweep_lock` accepts.

**`Pacing`.** One record per process for `PeriodicTasks._run` (`top`, `gate` …
`wait`, `expired`), with the flag and the event of `wake()` apart, and the marker
and flag in Redis. `WakesAreServed`: no loop sleeps on a request, and the next
tick knows it was woken; a wake that falls between the timer and the task's
resumption loses its flag (`WaitRanOut`), which the tick it precedes makes up for
unless the interval gate holds that tick back. `PassesArePaced`: timer passes of
all processes keep the interval, except for one that had read the marker before
the other pass began, or found a backfill requested. The clock of the model does not step back; `_too_soon` handles that case
by sweeping.

## 6. Triggers, frame and journal

`Triggers` has a slot (`Trigger`) for each of the webhooks, requests and scheduled runs. A change of
a ticket makes a revision and sends a webhook; `settled` is the newest revision
that was dealt with or whose trigger is known to have come to nothing. `journal`
holds the records of `CappedIndex` and `index` its sorted set: a score per run, 0
for a run that is not in it, `NewestOf` being what the cap leaves of a set of scores.
`MaxListed` stands for two limits of the code, the cap of the index (1000) and the
window of a listing (500): the listing reads nothing the smaller one would cut, and
its records, which the code reads one by one, are read in one step. `counters` are the three the code keeps (successes are a subtraction), `up` the
processes.

| Actions | Code |
|---|---|
| `Change`, `ReceiveWebhook`, `RefuseWebhook`, `RunRequest`, `RunSchedule` | `webhook/router.py`, `request/router.py`, `schedule/runner.py` |
| `CountTrigger`, `JournalStart`, `CountOutcome`, `JournalFinish` | `pipelines/runner.py`, `state/counters.py`, `state/journal.py`, `util/redis_capped_index.py` |
| `Acquire`, `AcquireUnanswered`, `TicketLockHeld`, `FetchTicket`, `Done`, `CheckDone`, `Fails`, `Release` | the shell around the body, with the two Redis calls that can leave a lock behind; the self-check, which has no ticket |
| `ListRuns`, `ReadRecords`, `Prune`, `RecordExpires` | the Runs screen and the TTL of records |
| `StopLoops`, `Exit`, `ReplicaDies`, `Boot`, `TicketLockExpires` | `main.py`, `core/background.py`: loops are cancelled, background runs are not waited for, and may or may not get to free their lock |

`NothingIgnored` names every way a change can come to nothing (lost or refused
webhook, failed, killed, or skipped behind a run that had read the ticket
already) and shows there is no other. `JournalTellsTruth`, `ListingWorks`,
`RecentListed`, `CountsAgree` relate journal, index and counters to what
happened, whatever write is lost.

## 7. The services around them

| Module | State | Steps | Property | Its exceptions |
|---|---|---|---|---|
| `Telemetry` | the hash `install`, claimed days, each process's tick, what the receiver stored | gates, due day, first seen, id, claim, up to three posts | `OneTickSendsADay`, `OneSetupDocument`; `OneDocumentPerDay` (violated); `OneIdentity` (proved, not run) | none: the claim keeps other ticks out, and the repetitions of one tick are counted |
| `Settings` | the override of each section, the requests | read the gates, read the section, merge, write, read the gates again, note the setup | `EditsStand`, `WizardNoted`; `AbsentFieldsKept` (violated) | `EditsStand`: the fields a request did not see change before it wrote, or saw at their defaults because Redis failed |
| `Prompts` | packaged, deployed and edited templates; the build | read the files, read Redis and judge, for a boot, an edit or a run; refusal, reset, upgrade, files changing to any text or to none | `TextsNeverStopTheBoot`; `OverridesNeverStopTheBoot` (violated) | a packaged template that is wrong itself stops the boot, and so does a file that cannot be read |
| `Connection` | the cached client, its fingerprint, the name, the rebuild lock, the callers | read the section, lock, close, create, ask the name, ask the dry run, probe, cancel, close | `NoClientLeaks`; `HandsOutOpenClients` (violated) | a process that is closing |
| `Provisioning` | how many objects of each kind iTop has, which classes fire the webhook | probe, find, create, refuse, cut off, report | `SuccessMeansWired` | a class whose probe failed once |

What an answered edit is worth (`EditsStand`): `expected` is what the requests
answered so far have said, field by field, and never anything else. A request
that writes a whole section puts back the fields that changed since it read them
(`missed`); once it has written, those and no others are `undone` until somebody
names them again. `AbsentFieldsKept` is what the code's docstring says: `expected`
with no field excepted.

`Chunks` is an algorithm more than a service. Its state is an object as people
write it in iTop, `EditField` and `AppendEntry` are theirs, and everything else
is a function of that state: `Resolved` puts the fields of a fragment together
(`_resolve`), `Atoms` and `Packed` are `_atoms` and the loop of `split_text`, `Window` is
`_window_chunks`. `ChunksFollowTheText` compares them with what they are for: every
letter in its order, no piece over the budget, no packing of the same atoms in
fewer pieces (`FewestPieces` tries them all), and for a log, that a new entry
rewrites the last window only. `MCBackground` asks it of this part alone
(`TextsAreKept`).

Met while modelling, and left without a run of their own:

- `Settings`: completion is read section by section, so a wizard may see a
  complete setup that never was, if one section is made and another taken apart
  between two reads. `WizardNoted` excepts runs in which a ready section is
  taken apart; four requests are needed to show it, and the theorem found it.
- `Connection`: the AI's name is cached by whoever asked for it, even if the
  client was rebuilt for another account during the request (`ResolveName`).
- `Connection`: the dry run falls open, since a failing Redis answers the default.
- `Chunks`: a window of a log is cut per entry and never as a whole, so the line
  breaks between its entries come on top of the budget of the embedding model.
- `Provisioning`: a probe that fails for another reason than a missing class
  leaves that class out of a webhook that no later setup touches again, while the
  call reports success. The comment at `itop/provisioning.py:133` has in mind a
  trigger of its own, which a later setup could still make; the webhook's list of
  triggers is written once. `SuccessMeansWired` excepts such classes.
- `Sweep`: the object that comes back into scope under a page (section 5).

## 8. Runs and bounds

| Run | Instance | Shows |
|---|---|---|
| `tickets` | `IntakeRun`: two triggers, one call a turn, one question in all and while classifying, two model calls, three switch settings; `Triggers`: one ticket, one process, two runs (webhooks or not), an index of one, one fault; `IndexVersions`: two replicas, two classes, two models, one search, two edits and failures in all | all their properties but the violated ones, liveness included |
| `intake_parallel` | one run, two calls a turn, default limits | `OneClosingAction` is violated |
| `intake_ttl` | two triggers, default limits, `OutlivesTtl` | `NeverAsksTwiceInARow` is violated |
| `index_cache` | one replica, one class, one edit, no failure, `SlowReads` | `AnswersAreWhole` is violated |
| `index_mixing` | one replica, one class, two edits, no failure | `NeverMixes` is violated |
| `index_putback` | the same | `PuttingBackKeepsIndex` is violated |
| `sweep_slow` | one replica, one class of two objects, pages of one, `SlowPasses` | `NothingForgotten` is violated |
| `background` | `Sweep` and the eight modules around it, two processes, requests, callers or setups each | all their properties but the violated one |
| `itop_client` | `Connection` alone | `HandsOutOpenClients` is violated |
| `telemetry_twice` | `Telemetry` alone, two processes | `OneDocumentPerDay` is violated |
| `settings_overlap` | `Settings` alone, one section of two fields, two requests, Redis in health | `AbsentFieldsKept` is violated |
| `prompts_unreadable` | `Prompts` alone, one build, one name | `OverridesNeverStopTheBoot` is violated |

**Two runs for twelve modules.** The modules of `background` share the process
and no state their properties speak of, and so do those of `tickets`.
`MCBackground` and `MCTickets` pick one of them in
the initial state (`part`) and leave the others at rest, so TLC explores the sum
of their state spaces. The product would add nothing: a property of one module
cannot see a step of another. Every action of every part fires. Their type
invariants are the conjuncts of `BackgroundTypeOK` and `TicketsTypeOK`, each under
its part. `VersionsComplete` is `RebuildCompletes` of its part, and
`TicketsFairness` the fairness of the modules, each in its part.

Why the bounds are enough. The safety properties of `tickets` have theorems for
every value of the constants (section 9), so TLC is there to show that its
instances reach the interesting cases, and for liveness. *`IntakeRun`*: two runs
meet in every way two runs can, and the second finds what the first left (a dead
lock, a lost charge, a note without the flag). *Model calls*: a run needs one call
to do anything and a second to go on after a call that did not close, which the
loop needs to be entered again. *Questions*: one, so that the second run stands
at the ceiling, after a first question charged to the share of classification
or not. *Failures* are unbounded in `IntakeRun`: any run may fail or die
anywhere. In `IndexVersions` an edit creates a version, so two edits give three
versions, the third while the second is still being filled; an edit and a failure
interrupt any one write of a rebuild (`MaxEvents` bounds the two together).
`MaxVersion` is not a bound of its own: `TicketsTypeOK` checks, and
`IndexTyped` proves, that only an edit makes a version number grow. *`Triggers`*:
the second run pushes the first from an index of one, and meets it at the lock.

*`Sweep`*: two objects and pages of one give a full page, a last page and a page
that has shifted; texts with no chunk, one, and two of which the second is the
first's old one give changed, restamped and vanished chunks; five ticks of a clock
whose overlap is two let a cursor move beyond the overlap; two events allow an
edit and a crash, or a backfill and a failure. *`SweepLock`*: a TTL of three intervals is the code's (120 s, 40 s);
three troubles exceed the one a TTL forgives. *`Pacing`*: two processes and the
command compete; two minutes of clock hold two intervals; two presses overlap
or meet a crash. *`Telemetry`*: four half days are two days, so that a day can
be due, claimed, sent and overtaken by the next; three incidents lose two answers
of one document and a setup is finished again. *`Settings`*: three requests of
which two overlap; two gates, of which one has an optional field. *`Prompts`*:
four edits place a file, an edit and an upgrade below each other; the builds add
a template, drop one, and fail their own check. *`Connection`*: three clients
replace each other twice. *`Provisioning`*: three setups, two at a time, and one
mishap, over two classes. *`Chunks`*: a budget of 8 is met exactly, exceeded by the
blank line alone, and needs three slices for the longest sentence; four entries
fill two windows, the fifth is the one `WindowsStand` adds.

`background` explores four and a half million states and `tickets` half a million with
their temporal properties, each within four minutes with two workers; the others
take seconds. `tickets`, `background` and the violation runs of their parts other
than `IntakeRun` and `IndexVersions` turn the deadlock check off: their clocks,
runs and events are bounded, and a model that has used them up really stops.

**Fairness** is assumed in two modules only, `IntakeRun` (section 3) and
`IndexVersions` (section 4), for `EveryRunEnds`, `LockIsFreed`,
`VersionsComplete`. All other properties are about finite behaviours.

## 9. Proofs

All theorems hold for every value of the constants: any number of runs, tool
slots, replicas, processes, classes, objects, texts, accounts, any page size and
interval, any number of failures.

| Theorem | States | Assumes |
|---|---|---|
| `TypeCorrect` | `IntakeRun`: `TypeOK`; no run exceeds `max_iterations` model calls | nothing |
| `NothingLeftOpen` | `DoneRunsLeaveNothingOpen` | nothing: overlapping runs and parallel calls included |
| `ClosesOnce` | `OneClosingAction` | one call a turn; overlapping runs included |
| `LockExcludes` | `OneRunAtATime` | no run outlives its TTL |
| `NotesOnce` | `OneNotePerTicket` | no run outlives its TTL |
| `CeilingHolds` | `QuestionCeiling` | no run outlives its TTL, one call a turn |
| `OneLateWrite` | `AtMostOneLateWrite` | the same |
| `LoopGuard` | `NeverAsksTwiceInARow` | the same |
| `RunsKeepTheDialogue` | `RefinesDialogue` | the same |
| `IndexTyped`, `RowsSafe` | `IndexVersions`: `VersionsTypeOK`, `RowsHaveCollections` | nothing: slow reads included |
| `AnswersWhole`, `ServesOneIndex` | `AnswersAreWhole`, `RefinesServedIndex` | `~SlowReads`: no answer about the versions is overtaken on its way to a replica by that replica's own pass |
| `SweepsExclude` | `OneSweep` | nothing: slow passes and drifting classes included |
| `OrphansDropped` | `OrphansGo` | the same |
| `SweepTypes`, `PassesInOrder` | `Sweep`: `TypeOK`; what each place of a pass says of what it holds | the same |
| `ObjectsStayFindable` | `StaysFindable` | the same |
| `BackfillsHonoured` | `BackfillHonoured` | `~Drifting`: no object leaves a class while its pages are read |
| `NothingIsForgotten` | `NothingForgotten` | `~Drifting`, and `~SlowPasses`: no pass outlasts the overlap |
| `LockTyped`, `RenewalSafe`, `ReleaseSafe` | `SweepLock`: types, `RenewalKeepsLock`, `ReleaseHurtsNobody` | a TTL of two intervals or more |
| `PacingTyped`, `WakesServed`, `TimerPassesPaced` | `Pacing`: types, `WakesAreServed`, `PassesArePaced` | nothing |
| `DaysClaimedOnce`, `SetupOnce`, `NamedOnce` | `OneTickSendsADay`, `OneSetupDocument`, `OneIdentity` | nothing |
| `NothingLeaks` | `NoClientLeaks` | nothing |
| `BootsDespiteOverrides` | `TextsNeverStopTheBoot` | nothing |
| `AnsweredEditsStand`, `WizardIsNoted` | `EditsStand`, `WizardNoted` | nothing |
| `SuccessIsWired` | `SuccessMeansWired` | nothing |
| `ChunksFollow`, `OldWindowsStand` | `ChunksFollowTheText`; `WindowsStand`, its part about the old windows | nothing |
| `ConnectionTyped`, `PromptsTyped`, `SettingsTyped`, `ProvisioningTyped`, `ChunksTyped` | the types of the services | nothing |
| `SumOfTheParts`, `BackgroundTyped`, `TextsKept` | `MCBackground`: its behaviours are behaviours of every part; `BackgroundTypeOK`, `TextsAreKept` | a TTL of two intervals or more |
| `ChangesAreAccountedFor`, `JournalIsTrue` | `Triggers`: `NothingIgnored`, `JournalTellsTruth` | nothing |
| `TriggersTyped`, `ListingNeverRaises` | `TriggersTypeOK`, `ListingWorks` | nothing |
| `RecentRunsListed`, `CountersAgree` | `RecentListed`, `CountsAgree` | nothing |

The assumptions on runs are hypotheses of the theorems, not axioms, and the
violation runs show that they are needed: `intake_ttl` drops the one on the TTL of
runs, `intake_parallel` the one on calls, `index_cache` the one on slow reads,
`sweep_slow` the one on slow passes (for `~Drifting`, section 5). What the modules
assume of their constants is in their named `ASSUME`s; in `Sweep`, that a
family has finitely many classes and a class finitely many ids.

**Mutual exclusion of runs.** `OneRunAtATime` is not inductive: it does not say who may
delete the key. `HoldersHold` is: a run within the lock is the one the key names,
so nobody else is inside, so the `DELETE` of a leaving run removes its own key.
The TTL only fires under dead runs when `OutlivesTtl` is `FALSE`.

**Closing.** `Answered(r)`: each call that has succeeded has asked or has set
`ai_done`, which `StaysDone` shows is never reset, and a run's outcome is
"done" only after one of them. The argument never looks at other runs, which is
why it needs no assumption.

**One closing action** (`WroteOnce`). With one call a turn, a call that has
written an entry is either still inside or has succeeded, and after a success
the run leaves the loop, so no second call is made. Other runs write entries of
their own: the argument again looks at one run only.

**Notes.** `NoteTraced(r)`: a run with a note is still about to set `ai_done`,
has set it, or has failed. A later run writes a note only if it passed the guard
with `ai_done` unset, and with mutual exclusion the earlier one is over then.

**Limits.** The inductive invariant `Limits` has five parts. `CallsInTools`:
calls exist only while a turn runs. `Ledger`: questions posted are those
counted, those lost, and the one in flight. `InBudget`: a run about to post has
budget left, which a check made earlier proves only because no other run counts
meanwhile. `HasTheFloor`: a run past the guard has not been preceded by an
own entry of the assistant unless it is its own. `Silence`: late writes come from
the one run that was inside when `ai_done` was set, and it writes once. Together
with `HoldersHold` they give the ceiling, the loop guard and, step by step, that
each step of `IntakeRun` is a step of `IntakeDialogue` or a stutter.

**Index versions** (`IndexInv`). `Bounded`: a version number is at most one past
the number of edits, and the highest one belongs to the model configured now, so
that a pass which takes one more number has seen an edit nobody has spent.
`Standing`: what the place of a pass says of the rows and collections; a pass
about to write a row has built its collection for the model it wants, and one
about to drop a collection has deleted the row. `SomeAnswers`: a family with rows
has an active one. These make `RowsHaveCollections` inductive. `Newest` is the greatest element of a set,
which the prover cannot get by induction over data; `HasMax` gets it from the
well-foundedness of `<` on the naturals (`WFMin`), once for all sets of versions.

**What answers** (`WholeInv`, on top of `IndexInv`). `Ordered`: a version that is
being filled is the newest and the only one of its kind, since a pass drops what an earlier one left
before it makes its own. `Filled`: a version that took over holds every class,
and one filled without an error holds those walked so far. `Fresh`: while a pass
fills, its replica remembers the versions as they are; this is where slow reads
would break it, since `SweepClass` writes where the remembered versions say.
`Remembered`: whatever version an older answer names, its collection is whole or
gone, because another version answers in its place and a pass numbers what it
makes past every row. `ServesOneIndex` maps the served model and "is it whole" to the newest
active row, whose change each action of a pass is shown to be `Open`, `Complete`,
`Switch` or nothing.

**Sweep** (`SweepInv`). `OneSweep` needs no help: the lock is taken free and
expires under the dead. `OrphansGo` needs `Reconciled`: what was gone when the
reconciliation began and still has chunks lies `Ahead`: in a class not done
with, and in the class under way after the last batch or in the batch about to be
dropped. That a batch skips nothing (`BatchIs`) is the keyset argument: the ids
of a batch are the first `PageSize` by position, positions are strictly monotone
(`PositionStrict`), so an id at or before the greatest of the batch is in it.
`MetOnly` is needed because an object that was never in iTop is not in `gone`.

**The order of a pass** (`OrderInv`, on top of `SweepInv`). `Orderly`: the place
of a pass says what it holds, such as that it reads from where it said it would
start, and that before a page which is not the last there are `PageSize` objects per page
read; hence no page number passes `MaxPage`. `Versions`: a replacement that is
being filled replaces something. Findability is a step-by-step argument from it:
a write puts the new chunks in before it takes the old ones out (`WrittenHalf`,
`WrittenWhole`), a batch of orphans holds nothing that is there, `DropLeft` takes
only what the page in hand shows out of scope, which is `SeenOutside`, and a
replacement is switched on by a change of `built`. The property excepts the last two.

**Backfill** (`Owing`, with `Past`: nothing is dated in the future). While a pass
reads a class, each object of it that is owed is still to come (`ToCome`): its
position among what the class lists lies past the pages read. Positions only grow
while the class is read, which `~Drifting` gives; so after the last page nothing of
the class is owed, and the cursor may be set.

**Nothing forgotten** (`WalkInv`). The property speaks of the next walk, the
invariant of the walk under way. `Timely`: a pass is no older than the overlap,
so `Resumes` after it lies before its start (`ResumesEarly`), and what changes
from its start on is the next walk's. `Fresh`: a record in hand is the object as it
is, or the object has changed since the start. `WillReach` and `Done`: of what did
not change since the start, the class under way has each object up to date, in hand or
to come, and a class done with without a failure has it up to date.

**Lock** (`LockInv`). `Warranted`: what is left of the TTL is `Ttl` less the
renewals missed, one less while a renewal is due. `Compared`: a comparison made
without delay still holds at the `DELETE`.

**Pacing** (`PacingInv`). `Heard`: an unanswered wake is in the flag and in the
event. `MarkerTells`: the marker in Redis is the start of the last pass, because
`set_swept` comes first in a pass. `Informed`: a timer tick that nobody has
overtaken knows that start.

**Telemetry** (`TelemetryInv`). `Handed`: a claimed day is in the hands of one
tick, and what the receiver has of it so far are attempts of that tick that had no
answer, no more of them than its tries. `Recorded`: the setup day and the id, once
in Redis, are those of every document after.

**Connection** (`ConnectionInv`). `Locked`: whoever closes or creates holds the
lock alone, and past the close the cached client is not open, so that
overwriting it leaks nothing. `Addressed`: nobody is handed a client without an
account.

**Prompts** (`BootInv`). `ReadIsKnown`: what a startup, an edit or a run has read
of the files names packaged templates only, although Redis is read a step later: the
build changes with the process alone. A boot that read every file is refused because of a name that no override holds (`OriginOf`), and such a name is broken in effect
exactly when it is broken in what is packaged (`OursIsOurs`).

**Settings** (`SettingsInv`, `WizardInv`). `Pending`, with `Redoes`: what a
request is about to write is its body on the fields it names and the present value on
every other, but for the fields it has `missed`; so a write undoes those and no
more, whoever overlaps it and whatever it read. For the wizard: as long as no
ready section was taken apart and no read failed, sections only become ready
(`Quiet`), so what a request has seen ready still is, a request that saw the
setup complete before its write is not the one completing it, and the one that
completed it saw it incomplete and is on its way to the note (`OnTheWay`).

**Provisioning** (`ProvisioningInv`). `Progress`: what a setup has behind it is
in iTop, because nothing is ever deleted. `WebhookFires`: the update webhook,
whoever made it, was made when every class of the datamodel had been looked for,
so it fires for all but the misjudged ones.

**Triggers** (`TriggersInv`). `Dealt`: the latest change of a ticket is settled, or
a run that may still look at it answers for it (`LooksAt`). `Knows`: a run that has
read its ticket has read every change it answers for; that is why `Done` settles
the latest change if the run answers for it. `Keeps`: a lock is held by a run on
that ticket, between acquiring and releasing, or by what has died or failed with
it; so whoever finds the lock taken is either covered by a holder that has yet to
read the ticket, or known to be missed. `Tells`: record and run agree until the
final write, or that write is on record as lost. `HasMax` gives `Newer` and the
settling of several killed runs at once.

**Journal, index, counters** (`RecordsInv`, on top of `TriggersInv`). `Indexed`:
scores are distinct and no greater than the number of runs begun, and a run with
a whole record but no entry has as many others begun beside it as the cap
holds; that `NewestOf` leaves no more than the cap is a lemma on cardinalities
(`NewestAreFew`). A listing cannot raise because of `Filed`: a run in the index
or in a reader's hands was recorded, its record is whole until the run is over, and
is whole or gone from then on, so no late `finish` falls on a record that has gone. `Counted`: each counter is the size of
a set of runs that grows with it, which turns the sums of `CountsAgree` into a
disjoint union.

**The sum** (`StepOfEach`). A step of `MCBackground` is a step of the part it
chose and leaves the variables of the others; so it is a step or a stutter
of every part, its behaviours satisfy every part's specification, and each
theorem above holds of them. Types that were only checked before needed
strengthenings of their own (`InItsSection`, `SettingsTypes`, `PromptsTypes`,
`ProvisioningTypes`).

**Chunks.** The invariant is `ChunksTypeOK`; the work is in what the loops compute
for texts and logs of any length, which is induction over data. The induction
theorems of the library take an operator as parameter, which no installed prover
can instantiate; `UpTo` is induction over the numbers up to n for a *set*, from the
well-foundedness of `<` (`WFMin`). With it `FoldExists` builds the function that
`FoldLeft` (through `MapThenFoldSet`) chooses, so that `JoinsAre`, `PacksAre` and
`FlattenIs` can say what `JoinAll`, the loop of `split_text` and `FlattenSeq` hold
after each round. *No letter is lost*: `Letters` are the letters of a sequence of
stretches; joining keeps them, `Slices` keep those of a sentence
(`SlicesKeepLetters`), the atoms those of the text (`AtomsAre`), and each round of
the packing those of the atoms so far (`Holds`). *No piece more than needed*:
whatever cuts fit, the packing is after each atom `NoWorse` than they are: it has
begun fewer pieces, or as many and its last one at the same atom or a later one. When an
atom does not fit, the cuts have begun a piece there too, or they were behind, since a stretch
gets no shorter at either end (`LongerAtTheEnd`, `LongerAtTheStart`, `CutBefore`).
*The windows* laid end to end are, after each window, the beginning of the log
(`HoldsTheLog`).

**Only model-checked.** Liveness (`EveryRunEnds`, `LockIsFreed`,
`VersionsComplete`), since fairness and `ENABLED` are beyond the prover. Every
invariant and action property of a passing run has its theorem. No module is
recursive; where a proof elsewhere seems to need induction over data (a greatest
element, a position in a list, a count), cardinalities and the well-foundedness of
`<` take its place.

## 10. Where the code and its documentation disagree

The full texts are under `findings` in `PROJECT.json`.

- **Two closing actions in one run** (`intake_parallel`). "One question or one
  handoff, never both" is a property of single-call turns. Nothing keeps the
  model from requesting two tools in one turn, and the tools node runs them
  concurrently: both check before either has written.
- **Two runs after 300 s** (`intake_ttl`). The lock is neither renewed nor
  checked on release. A run slower than the TTL is joined by the next, both
  having passed the guard on the same snapshot.
- **An empty replacement switched on** (`index_cache`). `_versions` remembers an
  answer that was overtaken by `_create_version`. In the sweeping process,
  `get_chunk_digests` then compares with the old version, finds nothing to write,
  and the clean pass activates a version without those objects.
- **A query compared with another model's vectors** (`index_mixing`). The
  fingerprint is checked before the query is embedded and not again when
  `store.search` picks the active version.
- **Putting the model back costs a second rebuild** (`index_putback`) when a
  pass is under way: it goes by the configuration it read at its start.
- **An object that falls behind the cursor** (`sweep_slow`). The overlap of two
  intervals is meant to cover what drifts while a pass runs. A pass that takes
  longer leaves behind what was modified after its page was read, and
  reconciliation does not bring it back.
- **A closed client handed out** (`itop_client`). `client()` closes the cached
  client before it creates the next. If creating raises, the closed one stays
  cached, and is handed out again as soon as the settings read as before.
- **A day counted twice** (`telemetry_twice`). `claim_day` promises that a day may be
  lost and not be counted twice. The claim is against other ticks; within a tick, an
  attempt that was stored and not answered is repeated, up to twice, and the signal
  carries nothing the receiver could know it by.
- **A field put back** (`settings_overlap`). "Absent field = keep current value" is
  kept by reading the section and writing it whole. A PATCH that overlaps another
  puts back what it did not see change; one whose read Redis fails puts every
  other field, secrets included, at the defaults of the environment (the same
  line, `config_store.py:83`; `EditsStand` says precisely which fields either costs).
- **A file that stops the boot** (`prompts_unreadable`). "A broken override only
  warns", but a file of the deployment that is not UTF-8, cannot be opened or is a
  directory raises where it is read, before anything is judged and outside the
  `try` of `check_module_prompts`.
- **Version numbers come back**, without a run: `qdrant_store.py:280` says they are
  never reused. The next number is one past the rows that remain, so a replacement
  that is dropped when the old model is put back gives its number to the next one.
  `AnswersAreWhole` shows that no search is misled by it.

## 11. What is not modelled

No state is shared, or the matter is a conversion: HTML to text, OQL and HTTP
of the iTop client, its schema cache, field mapping and log parsing, prompt
wording, forms and masks of the admin screens, principals, tracing, model
endpoints, the web UI, packaging. Inside the modelled parts: what a tool refuses
and why, catalogue contents, locales, scores and filters of a search, the
figures of the telemetry document, payload indexes of Qdrant, the journal of
index passes (the run journal's idiom, used by one writer), the steps recorded
inside a run.

Left out of a state that is modelled:

- a stored section that a newer build does not accept any more, which
  `RedisConfigStore.get` answers with the defaults: to a PATCH it is what a failed read
  is, until the section is written anew;
- the death of the command that sweeps (`CliEndsPass` of `Pacing` always comes;
  `LockLapses` is for the locks of the service's processes), and the claim of
  a day, which lapses after three;
- the expiry of a ticket's AI state after 30 days, which is the code's intended
  forgetting: all limits of `IntakeRun` are per memory;
- what a pass writes after its lock has lapsed (`SweepLock` says when that can
  happen);
- a wall clock that steps back (`Pacing`), and replicas whose clocks differ;
- the family's own interval, except that a pass may sit out (`SitOut`);
- several families at a time: they share the lock and no other state.

What would come next, in this order: passes over a lapsed lock in `Sweep`; the abstract
counterpart of a sweep (the index follows iTop) as a refinement, with liveness.
