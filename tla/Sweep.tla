------------------------------- MODULE Sweep -------------------------------
(***************************************************************************)
(* The sweep of one family (vector/use_cases/indexer.py): a pass takes the *)
(* deployment's lock, reads each class of iTop page by page from a cursor  *)
(* kept in Redis (vector/state/sync_state.py), brings the chunks of every  *)
(* object up to date, moves the cursor on and, when it is due, deletes the *)
(* chunks of objects iTop no longer has.  Meanwhile people change objects, *)
(* an administrator asks for a backfill or configures another model, calls *)
(* fail and replicas die.                                                  *)
(*                                                                         *)
(* The versions of the index are those of IndexVersions with its memory of *)
(* chunks_meta left out: a switch of the version is one step here.         *)
(* An object is its class and its id, its text the hashes of the chunks it *)
(* is split into; a chunk in the index carries its hash and, for the       *)
(* metadata, the modification date of the object.                          *)
(***************************************************************************)
EXTENDS Integers, FiniteSetsExt, SequencesExt

CONSTANTS
  Class,          \* classes of the family
  IdsOf,          \* the ids each class can have
  Texts,          \* texts of an object: sequences of chunk hashes
  FirstText,      \* the one objects have at the start
  MaxChunks,      \* max_chunks_per_object
  Model,          \* embeddings models an administrator may configure
  NoModel,
  Replica,        \* processes that sweep: replicas and the CLI
  NoOne,
  PageSize,       \* sweep_page_size, and the batch of the reconciliation
  Interval,       \* sweep_interval_seconds
  ReconcileEvery, \* reconcile_interval_days
  MaxTime,        \* bound on the clock
  MaxEvents,      \* bound on edits, requested backfills, failed calls and crashes
  SlowPasses,     \* may a pass take longer than the overlap of the next?
  Drifting        \* may an object be deleted while its class is being read?

Object == UNION {{c} \X IdsOf[c] : c \in Class}
Time == 0 .. MaxTime
NoTime == -1
Overlap == 2 * Interval
Ordinal == 1 .. MaxChunks  \* an object never has more chunks than that

ASSUME SweepAssumption ==
  /\ Class # {}
  /\ \A c \in Class : IsFiniteSet(IdsOf[c]) /\ IdsOf[c] \subseteq Nat \ {0}
  /\ {<<>>, FirstText} \subseteq Texts
  /\ NoModel \notin Model
  /\ NoOne \notin Replica
  /\ {PageSize, Interval, MaxChunks} \subseteq Nat \ {0}
  /\ {MaxTime, MaxEvents, ReconcileEvery} \subseteq Nat
  /\ {SlowPasses, Drifting} \subseteq BOOLEAN

\* A family has finitely many classes; a text is a sequence.
ASSUME FamilyAssumption ==
  /\ IsFiniteSet(Class)
  /\ \A text \in Texts : text \in Seq(Range(text))

VARIABLES
  clock,       \* the time of iTop and of the service
  itop,        \* the objects as iTop has them
  index,       \* the chunks of the version being written
  kept,        \* those of the active version while its replacement is filled
  built,       \* the model of the active version
  filling,     \* the model of the replacement, if there is one
  cursor,      \* per class: the newest modification a pass has seen
  reindex,     \* the pending backfill
  reconciled,  \* when the family was last reconciled
  lock,        \* whose sweep lock it is
  pass,        \* the pass of each replica
  owed,        \* objects no pass has read since a backfill was asked for
  events       \* edits, requests, failures and crashes so far

vars == <<clock, itop, index, kept, built, filling, cursor, reindex, reconciled,
          lock, pass, owed, events>>
qdrant == <<index, kept, built, filling>>
redis == <<cursor, reindex, reconciled>>
world == <<clock, itop>>

Chunk == [hash : UNION {Range(t) : t \in Texts}, stamp : Time]
Chunks == UNION {[d -> Chunk] : d \in SUBSET Ordinal}
Index == [Object -> Chunks]
NoChunks == <<>>
EmptyIndex == [o \in Object |-> NoChunks]

Record == [there : BOOLEAN, inScope : BOOLEAN, text : Texts, stamp : Time \union {NoTime}]
NotYet == [there |-> FALSE, inScope |-> FALSE, text |-> <<>>, stamp |-> NoTime]
Gone == [NotYet EXCEPT !.stamp = 0]

Places == {"idle", "begin", "reset", "clear", "ensure", "class", "page",
           "write", "cursor", "reconcile", "drop", "release"}
Working == Places \ {"idle"}

Idle == [pc |-> "idle", model |-> NoModel, started |-> 0, clean |-> TRUE, todo |-> {},
         class |-> CHOOSE c \in Class : TRUE, since |-> 0, seen |-> NoTime, page |-> 1,
         last |-> FALSE, after |-> 0, batch |-> {}, gone |-> {}]

\* Every full page is followed by one more.
MaxPage == (Cardinality(Object) \div PageSize) + 1

TypeOK ==
  /\ clock \in Time
  /\ itop \in [Object -> Record]
  /\ index \in Index
  /\ kept \in Index
  /\ {built, filling} \subseteq Model \union {NoModel}
  /\ cursor \in [Class -> Time \union {NoTime}]
  /\ reindex \in BOOLEAN
  /\ reconciled \in Time \union {NoTime}
  /\ lock \in Replica \union {NoOne}
  /\ \A r \in Replica :
       /\ pass[r].pc \in Places
       /\ pass[r].page \in 1 .. MaxPage
       /\ pass[r].since \in Time
       /\ pass[r].seen \in Time \union {NoTime}
       /\ pass[r].todo \subseteq Class
       /\ \A x \in pass[r].batch : x.object[1] = pass[r].class
  /\ owed \subseteq Object
  /\ events \in 0 .. MaxEvents

\* Some of the objects are there; nothing is indexed.
Init ==
  /\ clock = 0
  /\ \E there \in SUBSET Object :
       itop = [o \in Object |->
                 IF o \in there
                   THEN [there |-> TRUE, inScope |-> TRUE, text |-> FirstText, stamp |-> 0]
                   ELSE NotYet]
  /\ index = EmptyIndex
  /\ kept = EmptyIndex
  /\ built = NoModel
  /\ filling = NoModel
  /\ cursor = [c \in Class |-> NoTime]
  /\ reindex = FALSE
  /\ reconciled = NoTime
  /\ lock = NoOne
  /\ pass = [r \in Replica |-> Idle]
  /\ owed = {}
  /\ events = 0

At(r, place) == pass[r].pc = place
IsWorking(r) == pass[r].pc \in Working

-----------------------------------------------------------------------------
(* Taking the lock and beginning a pass. *)

\* sweep_once: a pass, paced or asked for, that finds the lock free.  The model is
\* the one configured when the pass looked, any of them: an administrator may edit
\* it at any time, and before the lock is taken.
TakeLock(r) ==
  /\ At(r, "idle")
  /\ lock = NoOne
  /\ lock' = r
  /\ \E m \in Model :
       pass' = [pass EXCEPT ![r] = [Idle EXCEPT !.pc = "begin", !.model = m,
                                                !.started = clock, !.todo = Class]]
  /\ UNCHANGED <<world, qdrant, redis, owed, events>>

\* Is a backfill pending?
Begin(r) ==
  /\ At(r, "begin")
  /\ pass' = [pass EXCEPT ![r].pc = IF reindex THEN "reset" ELSE "ensure"]
  /\ UNCHANGED <<world, qdrant, redis, lock, owed, events>>

\* Mutant: the request is dropped first, the cursors after it.
ClearFlagFirst(r) ==
  /\ At(r, "reset")
  /\ reindex' = FALSE
  /\ pass' = [pass EXCEPT ![r].pc = "clear"]
  /\ UNCHANGED <<world, qdrant, cursor, reconciled, lock, owed, events>>

\* reset_cursors: the cursors go first,
ResetCursors(r) ==
  /\ At(r, "reset")
  /\ cursor' = [c \in Class |-> NoTime]
  /\ pass' = [pass EXCEPT ![r].pc = "clear"]
  /\ UNCHANGED <<world, qdrant, reindex, reconciled, lock, owed, events>>

\* the request after them.
ClearFlag(r) ==
  /\ At(r, "clear")
  /\ reindex' = FALSE
  /\ pass' = [pass EXCEPT ![r].pc = "ensure"]
  /\ UNCHANGED <<world, qdrant, cursor, reconciled, lock, owed, events>>

\* ensure_version: the active version if it fits the model of the pass, else a
\* replacement, which starts empty unless an earlier pass began it.
EnsureVersion(r) ==
  /\ At(r, "ensure")
  /\ \/ /\ built \in {NoModel, pass[r].model}
        /\ built' = pass[r].model
        /\ filling' = NoModel
        /\ index' = IF filling = NoModel THEN index ELSE kept
        /\ kept' = EmptyIndex
     \/ /\ built \notin {NoModel, pass[r].model}
        /\ filling = pass[r].model
        /\ UNCHANGED qdrant
     \/ /\ built \notin {NoModel, pass[r].model}
        /\ filling # pass[r].model
        /\ filling' = pass[r].model
        /\ index' = EmptyIndex
        /\ kept' = IF filling = NoModel THEN index ELSE kept
        /\ UNCHANGED built
  /\ pass' = [pass EXCEPT ![r].pc = "class", ![r].model = NoModel]
  /\ UNCHANGED <<world, redis, lock, owed, events>>

-----------------------------------------------------------------------------
(* Sweeping one class. *)

\* Is the version this pass writes the one that answers searches?
IsActive == filling = NoModel

\* Mutant: the next pass resumes exactly where the last one stopped.
ResumesAtCursor(c) == IF cursor[c] = NoTime THEN 0 ELSE cursor[c]

\* Where an increment starts, two intervals behind the cursor; 0 is everything.
Resumes(c) == IF cursor[c] = NoTime THEN 0 ELSE Max({0, cursor[c] - Overlap})

\* A replacement version is filled from the whole class.
Since(c) == IF IsActive THEN Resumes(c) ELSE 0

ReadCursor(r) ==
  /\ At(r, "class")
  /\ \E c \in pass[r].todo :
       pass' = [pass EXCEPT ![r].pc = "page", ![r].class = c, ![r].page = 1,
                            ![r].since = Since(c), ![r].seen = cursor[c]]
  /\ UNCHANGED <<world, qdrant, redis, lock, owed, events>>

\* find_modified_since lists what was modified at or after `since`, in an order of
\* iTop's own: by id.
Listed(c, since) ==
  {i \in IdsOf[c] : itop[<<c, i>>].there /\ itop[<<c, i>>].stamp >= since}

Position(i, listed) == Cardinality({j \in listed : j <= i})

\* The objects of one page, as they are when it is read.
Page(c, since, page) ==
  LET listed == Listed(c, since)
      ids == {i \in listed :
                Position(i, listed) \in (page - 1) * PageSize + 1 .. page * PageSize}
  IN  {[object |-> <<c, i>>, inScope |-> itop[<<c, i>>].inScope,
        text |-> itop[<<c, i>>].text, stamp |-> itop[<<c, i>>].stamp] : i \in ids}

\* max_chunks_per_object; an object without text keeps what it has.
Accepted(text) == Len(text) \in 1 .. MaxChunks

\* Mutant: an object that produced no chunks is emptied.
LeavesOrIsEmpty(record) == ~record.inScope \/ record.text = <<>>

\* left_indexable_scope: the chunks of the object go.
Leaves(record) == ~record.inScope

\* A page that is not full is the last one.
IsLast(records) == Cardinality(records) < PageSize

\* delete_object
DeleteObjects(some) == [o \in Object |-> IF o \in some THEN NoChunks ELSE index[o]]

\* A page whose objects are all written is followed by the next one, or by the
\* move of the cursor.
Paged(p) ==
  IF p.batch # {} THEN [p EXCEPT !.pc = "write"]
  ELSE IF p.last THEN [p EXCEPT !.pc = "cursor"]
  ELSE [p EXCEPT !.pc = "page", !.page = @ + 1]

\* What a pass remembers of the page it has read.
WithPage(p, records) ==
  [p EXCEPT !.batch = {x \in records : Leaves(x) \/ Accepted(x.text)},
            !.last = IsLast(records),
            !.seen = Max({p.seen} \union {record.stamp : record \in records})]

\* A page is read; its objects out of scope wait to be dropped from the index,
\* those with text to compare for the embedding call of the page.
ReadPage(r) ==
  /\ At(r, "page")
  /\ LET records == Page(pass[r].class, pass[r].since, pass[r].page)
     IN /\ owed' = owed \ {record.object : record \in records}
        /\ pass' = [pass EXCEPT ![r] = Paged(WithPage(pass[r], records))]
  /\ UNCHANGED <<world, qdrant, redis, lock, events>>

\* get_chunk_digests: what the version being written holds of an object.
Digests(o) == index[o]

\* classify_chunk: text that changed, metadata that did, and what vanished.
Changed(record, held) ==
  {n \in DOMAIN record.text : n \notin DOMAIN held \/ held[n].hash # record.text[n]}
StaleMeta(record, held) ==
  {n \in DOMAIN record.text \ Changed(record, held) : held[n].stamp # record.stamp}
Vanished(record, held) == DOMAIN held \ DOMAIN record.text

\* The payload written with a chunk.
ChunkOf(record, n) == [hash |-> record.text[n], stamp |-> record.stamp]

\* upsert_chunks, for some of the chunks that changed: the batches that arrived.
Upserted(record, held, some) ==
  [n \in DOMAIN held \union some |-> IF n \in some THEN ChunkOf(record, n) ELSE held[n]]

\* update_chunk_metadata: the payload is overwritten, the vector stays.
Restamped(record, held, some) ==
  [n \in DOMAIN held |-> IF n \in some THEN [held[n] EXCEPT !.stamp = record.stamp] ELSE held[n]]

\* delete_chunks
Pruned(held, some) == [n \in DOMAIN held \ some |-> held[n]]

\* What the three calls make of an object, the third one for some of the chunks.
Rewritten(record, held, some) ==
  LET upserted == Upserted(record, held, Changed(record, held))
  IN  Pruned(Restamped(record, upserted, StaleMeta(record, held)), some)

\* Everything an interrupted write may leave.
HalfWritten(record, held) ==
  LET changed == Changed(record, held)
      upserted == Upserted(record, held, changed)
  IN  {Upserted(record, held, some) : some \in SUBSET changed}
      \union {Restamped(record, upserted, some) : some \in SUBSET StaleMeta(record, held)}
      \union {Rewritten(record, held, some) : some \in SUBSET Vanished(record, held)}

\* The object is done with.
Without(p, record) == [p EXCEPT !.batch = p.batch \ {record}]

\* An object that was out of scope when its page was read is dropped from the
\* index, wherever it is by now.
DropLeft(r) ==
  /\ At(r, "write")
  /\ \E record \in pass[r].batch :
       /\ Leaves(record)
       /\ index' = [index EXCEPT ![record.object] = NoChunks]
       /\ pass' = [pass EXCEPT ![r] = Paged(Without(pass[r], record))]
  /\ UNCHANGED <<world, kept, built, filling, redis, lock, owed, events>>

\* The writes of a page begin when nothing of it is left to drop.
Writing(r) == At(r, "write") /\ \A record \in pass[r].batch : ~Leaves(record)

\* The chunks of an object are brought up to date.
WriteObject(r) ==
  /\ Writing(r)
  /\ \E record \in pass[r].batch :
       LET held == Digests(record.object)
       IN /\ index' = [index EXCEPT ![record.object] =
                          Rewritten(record, held, Vanished(record, held))]
          /\ pass' = [pass EXCEPT ![r] = Paged(Without(pass[r], record))]
  /\ UNCHANGED <<world, kept, built, filling, redis, lock, owed, events>>

\* A write is cut short, or nothing is being written.
MaybeHalfWritten(r) ==
  \/ UNCHANGED index
  \/ /\ Writing(r)
     /\ \E record \in pass[r].batch :
          \E held \in HalfWritten(record, Digests(record.object)) :
            index' = [index EXCEPT ![record.object] = held]

\* The pass has done with its class.
Leaving(p, clean) == [Idle EXCEPT !.pc = "class", !.started = p.started, !.clean = clean,
                                  !.todo = p.todo \ {p.class}]

\* The cursor moves once the class is read to its last page, and only for the
\* active version.
MoveCursor(r) ==
  /\ At(r, "cursor")
  /\ cursor' = IF pass[r].seen # NoTime /\ IsActive
                 THEN [cursor EXCEPT ![pass[r].class] = pass[r].seen] ELSE cursor
  /\ pass' = [pass EXCEPT ![r] = Leaving(pass[r], pass[r].clean)]
  /\ UNCHANGED <<world, qdrant, reindex, reconciled, lock, owed, events>>

\* A call of the class raises: the others proceed, its cursor stays.
ClassFails(r) ==
  /\ pass[r].pc \in {"page", "write", "cursor"}
  /\ events < MaxEvents
  /\ events' = events + 1
  /\ MaybeHalfWritten(r)
  /\ pass' = [pass EXCEPT ![r] = Leaving(pass[r], FALSE)]
  /\ UNCHANGED <<world, kept, built, filling, redis, lock, owed>>

-----------------------------------------------------------------------------
(* After the classes: the switch and the reconciliation. *)

ReconcileDue == reconciled = NoTime \/ clock - reconciled >= ReconcileEvery

\* The reconciliation begins with every class.
Reconciling(p) ==
  [p EXCEPT !.pc = "reconcile", !.todo = Class, !.after = 0,
            !.gone = {o \in Object : ~itop[o].there}]

\* _finish_rebuild if the pass filled a replacement and is clean; reconciliation
\* only after a pass without errors, and only when it is due.
ClassesDone(r) ==
  /\ At(r, "class")
  /\ pass[r].todo = {}
  /\ IF ~IsActive /\ pass[r].clean
       THEN /\ built' = filling
            /\ filling' = NoModel
            /\ kept' = EmptyIndex
            /\ UNCHANGED index
       ELSE UNCHANGED qdrant
  /\ pass' = [pass EXCEPT ![r] = IF pass[r].clean /\ ReconcileDue
                                   THEN Reconciling(pass[r])
                                   ELSE [pass[r] EXCEPT !.pc = "release"]]
  /\ UNCHANGED <<world, redis, lock, owed, events>>

\* Mutant: the next batch starts one id late.
FollowsLate(i, after) == i > after + 1

\* Keyset pagination: the ids after the last one of the batch before.
Follows(i, after) == i > after

\* list_object_ids: one batch of what the index holds of a class.
IndexedIds(c, after) ==
  LET held == {i \in IdsOf[c] : index[<<c, i>>] # NoChunks /\ Follows(i, after)}
  IN  {i \in held : Position(i, held) <= PageSize}

\* find_existing_ids
ExistingIds(c, ids) == {i \in ids : itop[<<c, i>>].there}

\* An empty batch ends its class; of another one the orphans are to be dropped.
WithBatch(p, c, ids) ==
  IF ids = {}
    THEN [p EXCEPT !.class = c, !.after = 0, !.todo = p.todo \ {c}]
    ELSE [p EXCEPT !.pc = "drop", !.class = c, !.after = Max(ids),
                   !.batch = {[object |-> <<c, i>>] : i \in ids \ ExistingIds(c, ids)}]

\* One batch is listed and looked up in iTop.
ListBatch(r) ==
  /\ At(r, "reconcile")
  /\ \E c \in pass[r].todo :
       /\ pass[r].after = 0 \/ c = pass[r].class
       /\ pass' = [pass EXCEPT ![r] = WithBatch(pass[r], c, IndexedIds(c, pass[r].after))]
  /\ UNCHANGED <<world, qdrant, redis, lock, owed, events>>

\* delete_object for the orphans of the batch.
DropOrphans(r) ==
  /\ At(r, "drop")
  /\ index' = DeleteObjects({x.object : x \in pass[r].batch})
  /\ pass' = [pass EXCEPT ![r].pc = "reconcile", ![r].batch = {}]
  /\ UNCHANGED <<world, kept, built, filling, redis, lock, owed, events>>

\* set_family_reconcile
StampReconciled(r) ==
  /\ At(r, "reconcile")
  /\ pass[r].todo = {}
  /\ reconciled' = clock
  /\ pass' = [pass EXCEPT ![r].pc = "release"]
  /\ UNCHANGED <<world, qdrant, cursor, reindex, lock, owed, events>>

\* The token is compared before the key is deleted.
Release(r) ==
  /\ At(r, "release")
  /\ lock' = IF lock = r THEN NoOne ELSE lock
  /\ pass' = [pass EXCEPT ![r] = Idle]
  /\ UNCHANGED <<world, qdrant, redis, owed, events>>

-----------------------------------------------------------------------------
(* What goes wrong, and the world outside. *)

\* An exception outside the classes ends the pass.
PassFails(r) ==
  /\ pass[r].pc \in Working \ {"page", "write", "cursor", "release"}
  /\ events < MaxEvents
  /\ events' = events + 1
  /\ pass' = [pass EXCEPT ![r] = [Idle EXCEPT !.pc = "release", !.started = pass[r].started]]
  /\ UNCHANGED <<world, qdrant, redis, lock, owed>>

\* The process dies; in the middle of a write some of its batches are stored.
Crash(r) ==
  /\ ~At(r, "idle")
  /\ events < MaxEvents
  /\ events' = events + 1
  /\ MaybeHalfWritten(r)
  /\ pass' = [pass EXCEPT ![r] = Idle]
  /\ UNCHANGED <<world, kept, built, filling, redis, lock, owed>>

\* Mutant: nobody renews the lock.
OwnerLetsGo(r) == TRUE

\* The owner of the lock no longer renews it.
OwnerIsDead(r) == ~IsWorking(r)

LockExpires ==
  /\ lock # NoOne
  /\ OwnerIsDead(lock)
  /\ lock' = NoOne
  /\ UNCHANGED <<world, qdrant, redis, pass, owed, events>>

\* No pass outlasts the overlap of the next one, unless SlowPasses.
TimePasses ==
  /\ clock < MaxTime
  /\ SlowPasses \/ \A r \in Replica : IsWorking(r) => clock < pass[r].started + Overlap
  /\ clock' = clock + 1
  /\ UNCHANGED <<itop, qdrant, redis, lock, pass, owed, events>>

\* An object is created, or saved with another text or state; out of scope its
\* text does not matter.
Save(o) ==
  /\ events < MaxEvents
  /\ itop[o].there \/ itop[o] = NotYet
  /\ \E text \in Texts, inScope \in BOOLEAN :
       /\ inScope \/ text = <<>>
       /\ itop' = [itop EXCEPT ![o] = [there |-> TRUE, inScope |-> inScope, text |-> text,
                                       stamp |-> clock]]
  /\ events' = events + 1
  /\ UNCHANGED <<clock, qdrant, redis, lock, pass, owed>>

\* An object is deleted, or archived for good.
Discard(o) ==
  /\ events < MaxEvents
  /\ itop[o].there
  /\ Drifting \/ \A r \in Replica :
       pass[r].pc \in {"page", "write", "cursor"} => pass[r].class # o[1]
  /\ itop' = [itop EXCEPT ![o] = Gone]
  /\ events' = events + 1
  /\ UNCHANGED <<clock, qdrant, redis, lock, pass, owed>>

\* request_reindex: the Vector page or the CLI.
RequestReindex ==
  /\ events < MaxEvents
  /\ reindex' = TRUE
  /\ owed' = {o \in Object : itop[o].there}
  /\ events' = events + 1
  /\ UNCHANGED <<clock, itop, qdrant, cursor, reconciled, lock, pass>>

PassStep(r) ==
  \/ TakeLock(r)
  \/ Begin(r)
  \/ ResetCursors(r)
  \/ ClearFlag(r)
  \/ EnsureVersion(r)
  \/ ReadCursor(r)
  \/ ReadPage(r)
  \/ DropLeft(r)
  \/ WriteObject(r)
  \/ MoveCursor(r)
  \/ ClassFails(r)
  \/ ClassesDone(r)
  \/ ListBatch(r)
  \/ DropOrphans(r)
  \/ StampReconciled(r)
  \/ Release(r)

Next ==
  \/ \E r \in Replica : PassStep(r) \/ PassFails(r) \/ Crash(r)
  \/ LockExpires
  \/ TimePasses
  \/ \E o \in Object : Save(o) \/ Discard(o)
  \/ RequestReindex

Spec == Init /\ [][Next]_vars

-----------------------------------------------------------------------------
(* Properties. *)

\* The version that answers searches.
Answering == IF IsActive THEN index ELSE kept

\* The index says of the object what iTop says, or is excused: an oversized
\* object, or one without text, keeps what it has.
InSync(o) ==
  IF itop[o].inScope
    THEN Accepted(itop[o].text) =>
           Answering[o] = [n \in DOMAIN itop[o].text |->
                             [hash |-> itop[o].text[n], stamp |-> itop[o].stamp]]
    ELSE Answering[o] = NoChunks

\* An object the index is wrong about will be read by a coming pass: it is not
\* older than where the next walk of its class starts, or that walk is a full
\* one.  Holds across failed classes, crashes in the middle of a write, rebuilds
\* and models put back (indexer.py _sweep_class).
NothingForgotten ==
  \A o \in Object : itop[o].there /\ ~InSync(o) =>
    reindex \/ itop[o].stamp >= Resumes(o[1])

\* A backfill that was asked for reads every object, whatever is interrupted:
\* an object not read since is still covered by the request or by a reset cursor
\* (sync_state.py reset_cursors).
BackfillHonoured ==
  \A o \in owed : itop[o].there => reindex \/ cursor[o[1]] = NoTime

\* Passes exclude each other and own the lock they work under (sweep_lock).
OneSweep ==
  \A r \in Replica : IsWorking(r) => lock = r

\* When the reconciliation is stamped, no object that was gone when it began is
\* left in the index, although batches are deleted from what is being listed
\* (indexer.py _reconcile).
OrphansGo ==
  \A r \in Replica : At(r, "reconcile") /\ pass[r].todo = {} =>
    \A o \in pass[r].gone : index[o] = NoChunks

\* A pass has still to act on a page that shows the object out of scope.
SeenOutside(o) ==
  \E r \in Replica : At(r, "write") /\ \E x \in pass[r].batch : x.object = o /\ ~x.inScope

\* An object in scope that searches can find stays findable while its chunks are
\* rewritten, when a write is cut short, when its text is empty or too long, and
\* when the reconciliation runs, unless it came back into scope after the page
\* that shows it outside was read (indexer.py _sweep_class, _reconcile).
StaysFindable ==
  [][ \A o \in Object :
        itop[o].there /\ itop[o].inScope /\ itop'[o] = itop[o] /\ Answering[o] # NoChunks
        /\ built' = built /\ ~SeenOutside(o)
          => Answering'[o] # NoChunks ]_vars
=============================================================================
