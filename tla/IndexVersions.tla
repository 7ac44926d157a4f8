--------------------------- MODULE IndexVersions ---------------------------
(***************************************************************************)
(* The versions of the vector index of ONE family: sweep passes that build *)
(* a version for the configured embeddings model, activate it and drop its *)
(* predecessor (vector/adapters/qdrant_store.py, driven by                 *)
(* vector/use_cases/indexer.py), and searches that read whatever version   *)
(* is active (vector/use_cases/search.py), each replica through its own    *)
(* cache of chunks_meta.  One action per call to Qdrant that matters.      *)
(*                                                                         *)
(* The gate modules ask before they offer a search and the status screen   *)
(* (vector/router.py) look the versions up as well.                        *)
(*                                                                         *)
(* Passes exclude each other (the sweep lock).  All models have the same   *)
(* dimension: of two models that differ in it, Qdrant itself refuses to    *)
(* compare vectors.  An index holds a class or not; the objects of a class *)
(* do not change.                                                          *)
(***************************************************************************)
EXTENDS Integers, FiniteSetsExt

CONSTANTS
  Model,          \* embeddings models an administrator may configure
  NoModel,        \* no row, no collection
  Class,          \* classes of the family
  Replica,        \* processes of the deployment
  Search,         \* searches, one each
  MaxChanges,     \* bound on edits of the configured model
  MaxTroubles,    \* bound on failed calls and crashes
  SlowReads       \* may a pass overtake a read of chunks_meta in its process?

ASSUME IndexAssumption ==
  /\ NoModel \notin Model
  /\ Class # {}
  /\ Replica # {}
  /\ MaxChanges \in Nat
  /\ MaxTroubles \in Nat
  /\ SlowReads \in BOOLEAN

VARIABLES
  config,     \* the configured embeddings model
  row,        \* chunks_meta: the row of each version
  coll,       \* the collection of each version
  pass,       \* the sweep pass under way
  cache,      \* per replica, the memoized versions
  search,     \* the searches
  changes,    \* edits of the configuration so far
  troubles    \* failures so far

versionVars == <<config, row, coll, pass, cache, search, changes, troubles>>

\* Only an edit of the model asks for one more version.
MaxVersion == MaxChanges + 1
Version == 1 .. MaxVersion

NoRow == [model |-> NoModel, active |-> FALSE]
NoColl == [model |-> NoModel, holds |-> {}]

\* IndexMeta as its readers see it, and _FamilyVersions.
NoMeta == [version |-> 0, model |-> NoModel]
Unknown == [active |-> NoMeta, building |-> NoMeta]

Idle == [pc |-> "idle", at |-> CHOOSE a \in Replica : TRUE, wants |-> NoModel,
         target |-> 0, doomed |-> 0, after |-> "idle", todo |-> {}, clean |-> TRUE]
NotAsked == [pc |-> "idle", at |-> CHOOSE a \in Replica : TRUE, model |-> NoModel,
             saw |-> Unknown, hit |-> NoColl]

PassPlaces == {"idle", "ensure", "dropRow", "dropColl", "collection", "row",
               "fill", "promote"}
\* Where a search looks the versions up, and where it waits for the answer of
\* chunks_meta.
Lookups == {"check", "find"}
Reads == {"checkRead", "findRead"}
Pending == Lookups \union Reads \union {"query"}
SearchPlaces == Pending \union {"idle", "answered", "unanswered"}

Metas == {NoMeta} \union [version : Version, model : Model]
FamilyVersions == [active : Metas, building : Metas]

VersionsTypeOK ==
  /\ config \in Model
  /\ row \in [Version -> [model : Model \union {NoModel}, active : BOOLEAN]]
  /\ coll \in [Version -> [model : Model \union {NoModel}, holds : SUBSET Class]]
  /\ pass \in [pc : PassPlaces, at : Replica, wants : Model \union {NoModel},
               target : 0 .. MaxVersion, doomed : 0 .. MaxVersion,
               after : PassPlaces, todo : SUBSET Class, clean : BOOLEAN]
  /\ cache \in [Replica -> FamilyVersions]
  /\ search \in [Search -> [pc : SearchPlaces, at : Replica,
                            model : Model \union {NoModel}, saw : FamilyVersions,
                            hit : [model : Model \union {NoModel}, holds : SUBSET Class]]]
  /\ changes \in 0 .. MaxChanges
  /\ troubles \in 0 .. MaxTroubles

VersionsInit ==
  /\ config \in Model
  /\ row = [v \in Version |-> NoRow]
  /\ coll = [v \in Version |-> NoColl]
  /\ pass = Idle
  /\ cache = [a \in Replica |-> Unknown]
  /\ search = [q \in Search |-> NotAsked]
  /\ changes = 0
  /\ troubles = 0

-----------------------------------------------------------------------------
(* Reading chunks_meta. *)

\* The newest row, among the active ones or among the others.
Newest(isActive) ==
  LET found == {v \in Version : row[v].model # NoModel /\ row[v].active = isActive}
  IN  IF found = {} THEN NoMeta
      ELSE [version |-> Max(found), model |-> row[Max(found)].model]

\* _read_versions
Stored == [active |-> Newest(TRUE), building |-> Newest(FALSE)]

\* _versions: what a replica remembers, or what it reads.
Known(a) == IF cache[a].active # NoMeta THEN cache[a] ELSE Stored

\* A family without an active version is not remembered.
Remembering(a, versions) ==
  IF versions.active # NoMeta THEN [cache EXCEPT ![a] = versions] ELSE cache

\* A search of the sweeping replica waits for an answer from chunks_meta.
Reading == \E q \in Search :
  search[q].pc \in Reads /\ search[q].at = pass.at

\* The pass may overtake such a read only if reads are slow.
PassMay(place) == pass.pc = place /\ (SlowReads \/ ~Reading)

-----------------------------------------------------------------------------
(* A sweep pass over the family. *)

StartPass ==
  /\ pass.pc = "idle"
  /\ \E a \in Replica :
       pass' = [Idle EXCEPT !.pc = "ensure", !.at = a, !.wants = config, !.todo = Class]
  /\ UNCHANGED <<config, row, coll, cache, search, changes, troubles>>

\* Mutant: a replacement that an earlier pass started is not recognised.
FitsIfActive(meta) ==
  meta # NoMeta /\ meta.model = pass.wants /\ row[meta.version].active

\* The version was built with the model this pass embeds with.
Fits(meta) == meta # NoMeta /\ meta.model = pass.wants

\* _family_too_soon: a family with an interval of its own sits a timer pass out
\* while that interval runs, but not when the version it knows as active is
\* another model's, or there is none.
SitOut ==
  /\ PassMay("ensure")
  /\ Fits(Known(pass.at).active)
  /\ pass' = Idle
  /\ cache' = Remembering(pass.at, Known(pass.at))
  /\ UNCHANGED <<config, row, coll, search, changes, troubles>>

\* One past the highest version that has a row.
NextVersion == Max({Stored.active.version, Stored.building.version}) + 1

\* ensure_version decides: which version to fill, what to drop first.
EnsureVersion ==
  /\ PassMay("ensure")
  /\ LET active == Stored.active
         building == Stored.building
         forget == [cache EXCEPT ![pass.at] = Unknown]
     IN \/ /\ active = NoMeta
           /\ pass' = [pass EXCEPT !.pc = "collection", !.target = 1]
           /\ cache' = forget
        \/ /\ Fits(active)
           /\ building = NoMeta
           /\ pass' = [pass EXCEPT !.pc = "fill", !.target = active.version]
           /\ cache' = Remembering(pass.at, Stored)
        \/ /\ Fits(active)
           /\ building # NoMeta
           /\ pass' = [pass EXCEPT !.pc = "dropRow", !.target = active.version,
                                   !.doomed = building.version, !.after = "fill"]
           /\ cache' = forget
        \/ /\ active # NoMeta
           /\ ~Fits(active)
           /\ Fits(building)
           /\ pass' = [pass EXCEPT !.pc = "fill", !.target = building.version]
           /\ cache' = Remembering(pass.at, Stored)
        \/ /\ active # NoMeta
           /\ ~Fits(active)
           /\ ~Fits(building)
           /\ pass' = [pass EXCEPT
                !.pc = IF building = NoMeta THEN "collection" ELSE "dropRow",
                !.target = NextVersion,
                !.doomed = building.version,
                !.after = "collection"]
           /\ cache' = forget
  /\ UNCHANGED <<config, row, coll, search, changes, troubles>>

\* Mutant: the collection first, as a tidy-up before the row goes.
DropCollectionFirst ==
  /\ PassMay("dropRow")
  /\ coll' = [coll EXCEPT ![pass.doomed] = NoColl]
  /\ pass' = [pass EXCEPT !.pc = "dropColl"]
  /\ UNCHANGED <<config, row, cache, search, changes, troubles>>

\* _drop_version: the row first,
DropRow ==
  /\ PassMay("dropRow")
  /\ row' = [row EXCEPT ![pass.doomed] = NoRow]
  /\ pass' = [pass EXCEPT !.pc = "dropColl"]
  /\ UNCHANGED <<config, coll, cache, search, changes, troubles>>

\* the collection second; what remains is remembered.
DropCollection ==
  /\ PassMay("dropColl")
  /\ coll' = [coll EXCEPT ![pass.doomed] = NoColl]
  /\ pass' = [pass EXCEPT !.pc = pass.after]
  /\ cache' = IF pass.after = "collection" THEN cache ELSE Remembering(pass.at, Stored)
  /\ UNCHANGED <<config, row, search, changes, troubles>>

\* Mutant: creating over a leftover collection is answered 409, every time.
OrphanConflicts ==
  /\ PassMay("collection")
  /\ coll[pass.target] # NoColl
  /\ pass' = Idle
  /\ UNCHANGED <<config, row, coll, cache, search, changes, troubles>>

\* _create_chunk_collection: a collection nothing names is dropped,
DropOrphan ==
  /\ PassMay("collection")
  /\ coll[pass.target] # NoColl
  /\ coll' = [coll EXCEPT ![pass.target] = NoColl]
  /\ UNCHANGED <<config, row, pass, cache, search, changes, troubles>>

\* and a new one created.
CreateCollection ==
  /\ PassMay("collection")
  /\ coll[pass.target] = NoColl
  /\ coll' = [coll EXCEPT ![pass.target] = [model |-> pass.wants, holds |-> {}]]
  /\ pass' = [pass EXCEPT !.pc = "row"]
  /\ UNCHANGED <<config, row, cache, search, changes, troubles>>

\* Mutant: a replacement answers searches at once.
ActiveAtOnce == TRUE

\* Only the first version of a family is active while it is being filled.
BornActive == Stored.active = NoMeta

\* _create_version: the row, last; the versions are read again and remembered.
WriteRow ==
  /\ PassMay("row")
  /\ row' = [row EXCEPT ![pass.target] = [model |-> pass.wants, active |-> BornActive]]
  /\ cache' = [cache EXCEPT ![pass.at] = Stored']
  /\ pass' = [pass EXCEPT !.pc = "fill"]
  /\ UNCHANGED <<config, coll, search, changes, troubles>>

\* _write_meta: the version being filled, or the active one.
WriteMeta ==
  LET known == Known(pass.at)
  IN  IF known.building # NoMeta THEN known.building ELSE known.active

\* One class goes through: its chunks are compared with the digests stored, and
\* those that differ are embedded and written.  The fingerprint is checked
\* where something is written, and only there.
SweepClass ==
  /\ PassMay("fill")
  /\ cache' = Remembering(pass.at, Known(pass.at))
  /\ \E c \in pass.todo :
       /\ pass' = [pass EXCEPT !.todo = @ \ {c}]
       /\ \/ /\ c \in coll[WriteMeta.version].holds
             /\ UNCHANGED coll
          \/ /\ c \notin coll[WriteMeta.version].holds
             /\ WriteMeta.model = pass.wants
             /\ coll' = [coll EXCEPT ![WriteMeta.version].holds = @ \union {c}]
  /\ UNCHANGED <<config, row, search, changes, troubles>>

\* A class fails: the fingerprint does not match, or iTop, the embeddings
\* endpoint or Qdrant raises.
ClassFails ==
  /\ PassMay("fill")
  /\ \E c \in pass.todo :
       /\ \/ troubles < MaxTroubles /\ troubles' = troubles + 1
          \/ /\ c \notin coll[WriteMeta.version].holds
             /\ WriteMeta.model # pass.wants
             /\ UNCHANGED troubles
       /\ pass' = [pass EXCEPT !.todo = @ \ {c}, !.clean = FALSE]
  /\ UNCHANGED <<config, row, coll, cache, search, changes>>

\* Mutant: a pass with errors switches too.
SwitchesAnyway == TRUE

\* _finish_rebuild: only a pass without an error may switch.
MaySwitch == pass.clean

\* All classes walked.
ClassesDone ==
  /\ PassMay("fill")
  /\ pass.todo = {}
  /\ pass' = IF ~row[pass.target].active /\ MaySwitch
               THEN [pass EXCEPT !.pc = "promote"] ELSE Idle
  /\ UNCHANGED <<config, row, coll, cache, search, changes, troubles>>

\* activate_version: promote, then retire what was active.  Its refusal of a
\* version that is no longer being filled needs two passes at a time.
Promote ==
  /\ PassMay("promote")
  /\ row' = [row EXCEPT ![pass.target].active = TRUE]
  /\ pass' = [pass EXCEPT !.pc = "dropRow", !.doomed = Stored.active.version,
                          !.after = "idle"]
  /\ UNCHANGED <<config, coll, cache, search, changes, troubles>>

PassStep ==
  \/ StartPass
  \/ SitOut
  \/ EnsureVersion
  \/ DropRow
  \/ DropCollection
  \/ DropOrphan
  \/ CreateCollection
  \/ WriteRow
  \/ SweepClass
  \/ ClassFails
  \/ ClassesDone
  \/ Promote

-----------------------------------------------------------------------------
(* A search. *)

Ask(q) ==
  /\ search[q].pc = "idle"
  /\ \E a \in Replica :
       search' = [search EXCEPT ![q] = [NotAsked EXCEPT !.pc = "check", !.at = a,
                                                       !.model = config]]
  /\ UNCHANGED <<config, row, coll, pass, cache, changes, troubles>>

\* The configured model may be asked of this version (_family_unavailable); no
\* version at all is an index still warming up.
Comparable(q, meta) == meta = NoMeta \/ meta.model = search[q].model

\* Refused, failed or empty-handed.
Unanswered == [NotAsked EXCEPT !.pc = "unanswered"]

\* Where a lookup leads: the first decides whether to embed the query, the
\* second, after the embedding, takes the active version, whichever it is.
Verdict(q, versions) ==
  LET s == search[q]
  IN  CASE s.pc \in {"find", "findRead"} /\ versions.active # NoMeta ->
             [s EXCEPT !.pc = "query", !.saw = [versions EXCEPT !.building = NoMeta]]
        [] s.pc \in {"find", "findRead"} -> Unanswered
        [] ~Comparable(q, versions.active) -> Unanswered
        [] OTHER -> [s EXCEPT !.pc = "find", !.saw = Unknown]

\* The replica remembers the versions: no call is made.
RecallVersions(q) ==
  /\ search[q].pc \in Lookups
  /\ cache[search[q].at].active # NoMeta
  /\ search' = [search EXCEPT ![q] = Verdict(q, cache[search[q].at])]
  /\ UNCHANGED <<config, row, coll, pass, cache, changes, troubles>>

\* Qdrant is asked, and answers with the rows of this moment.
ReadVersions(q) ==
  /\ search[q].pc \in Lookups
  /\ cache[search[q].at].active = NoMeta
  /\ search' = [search EXCEPT
       ![q].pc = IF @ = "check" THEN "checkRead" ELSE "findRead",
       ![q].saw = Stored]
  /\ UNCHANGED <<config, row, coll, pass, cache, changes, troubles>>

\* The answer arrives and is remembered.
RememberVersions(q) ==
  /\ search[q].pc \in Reads
  /\ cache' = Remembering(search[q].at, search[q].saw)
  /\ search' = [search EXCEPT ![q] = Verdict(q, search[q].saw)]
  /\ UNCHANGED <<config, row, coll, pass, changes, troubles>>

\* _keep_confirmed: the source still has what was found, or cannot be asked.
Confirm(q, found) ==
  \/ /\ search' = [search EXCEPT ![q].pc = "answered", ![q].hit = found]
     /\ UNCHANGED troubles
  \/ /\ troubles < MaxTroubles
     /\ troubles' = troubles + 1
     /\ search' = [search EXCEPT ![q] = Unanswered]

\* The collection is queried; a collection that is gone is an error.
Query(q) ==
  /\ search[q].pc = "query"
  /\ LET found == coll[search[q].saw.active.version] IN
     \/ found # NoColl /\ Confirm(q, found)
     \/ /\ found = NoColl
        /\ search' = [search EXCEPT ![q] = Unanswered]
        /\ UNCHANGED troubles
  /\ UNCHANGED <<config, row, coll, pass, cache, changes>>

SearchStep(q) ==
  \/ Ask(q) \/ RecallVersions(q) \/ ReadVersions(q) \/ RememberVersions(q) \/ Query(q)

\* available(): the gate a module asks before it offers the search looks the
\* versions up too.  Its answer binds nobody, find() asks again; what is left
\* of it is what the replica remembers.
AskGate(a) ==
  /\ cache[a].active = NoMeta
  /\ cache' = Remembering(a, Stored)
  /\ UNCHANGED <<config, row, coll, pass, search, changes, troubles>>

\* So do the several lookups of the status screen.
ShowStatus(a) == AskGate(a)

-----------------------------------------------------------------------------
(* What goes on around them. *)

ChangeModel ==
  /\ changes < MaxChanges
  /\ changes' = changes + 1
  /\ config' \in Model \ {config}
  /\ UNCHANGED <<row, coll, pass, cache, search, troubles>>

\* A call of the pass to Qdrant fails and the family is given up until the next
\* pass.  The call may have taken effect: then the failure of the step after it
\* stands for this one, and the last step has none.
PassFails ==
  /\ pass.pc \notin {"idle", "fill"}
  /\ troubles < MaxTroubles
  /\ troubles' = troubles + 1
  /\ pass' = Idle
  /\ \/ UNCHANGED coll
     \/ pass.pc = "dropColl" /\ coll' = [coll EXCEPT ![pass.doomed] = NoColl]
  /\ UNCHANGED <<config, row, cache, search, changes>>

\* A replica restarts: its pass, its searches and its cache are gone.
Restart(a) ==
  /\ troubles < MaxTroubles
  /\ troubles' = troubles + 1
  /\ pass' = IF pass.at = a THEN Idle ELSE pass
  /\ cache' = [cache EXCEPT ![a] = Unknown]
  /\ search' = [q \in Search |->
       IF search[q].at = a /\ search[q].pc \in Pending
         THEN Unanswered ELSE search[q]]
  /\ UNCHANGED <<config, row, coll, changes>>

\* _META_CACHE_TTL_SECONDS
CacheExpires(a) ==
  /\ cache[a] # Unknown
  /\ cache' = [cache EXCEPT ![a] = Unknown]
  /\ UNCHANGED <<config, row, coll, pass, search, changes, troubles>>

VersionsNext ==
  \/ PassStep
  \/ \E q \in Search : SearchStep(q)
  \/ ChangeModel
  \/ PassFails
  \/ \E a \in Replica : Restart(a) \/ CacheExpires(a) \/ AskGate(a) \/ ShowStatus(a)

\* The scheduler starts passes for as long as the service runs, and a pass goes
\* on; the family's own interval passes, so that not every pass sits it out; a
\* read that was sent is answered.
VersionsFairness ==
  /\ WF_versionVars(PassStep)
  /\ SF_versionVars(EnsureVersion)
  /\ \A q \in Search : WF_versionVars(RememberVersions(q))
  /\ \A a \in Replica : WF_versionVars(CacheExpires(a))

VersionsSpec == VersionsInit /\ [][VersionsNext]_versionVars /\ VersionsFairness

-----------------------------------------------------------------------------
(* Properties. *)

\* A row of chunks_meta always has its collection, built for the row's model,
\* wherever a pass was interrupted: _drop_version deletes the row first,
\* _create_version writes it last.  A row without one would make every later
\* pass and search of the family fail.
RowsHaveCollections ==
  \A v \in Version : row[v].model # NoModel => coll[v].model = row[v].model

\* An answer drawn from a replacement is drawn from a whole index: whatever
\* failed while it was filled, and however old the versions the replica
\* remembers, no search sees a half-built one (_finish_rebuild,
\* activate_version).  The first version answers while it is filled.
AnswersAreWhole ==
  \A q \in Search :
    search[q].pc = "answered" /\ search[q].saw.active.version > 1
      => search[q].hit.holds = Class

\* The index that answers is replaced in one step by a whole one.
Answering == Stored.active # NoMeta
Served == INSTANCE ServedIndex WITH
  serving <- Stored.active.model,
  whole <- Answering /\ coll[Stored.active.version].holds = Class
RefinesServedIndex == Served!Spec

\* Once the administrator leaves the model alone and calls stop failing, the
\* family comes to answer from a whole index of that model, whatever leftovers
\* the failures before left in Qdrant.
RebuildCompletes ==
  <>[](Answering /\ Stored.active.model = config
         /\ coll[Stored.active.version].holds = Class)

\* The search embedded its query with the model of the index it was answered
\* from (docs/configuration.md: vectors of two models are never mixed).
NeverMixes ==
  \A q \in Search : search[q].pc = "answered" => search[q].hit.model = search[q].model

\* An index built with the configured model is not replaced: an administrator
\* who puts the previous model back before the switch has search restored at
\* once (docs/configuration.md).
PuttingBackKeepsIndex ==
  [][Answering /\ Stored.active.model = config /\ config' = config
       => Stored'.active = Stored.active]_versionVars
=============================================================================
