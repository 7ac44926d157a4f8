------------------------ MODULE IndexVersions_proofs ------------------------
(***************************************************************************)
(* Theorems about IndexVersions, for any models, classes, replicas and     *)
(* searches and any number of edits and troubles.                          *)
(***************************************************************************)
EXTENDS IndexVersions, WellFoundedInduction, TLAPS

-----------------------------------------------------------------------------
(* The newest of a set of versions. *)

LEMMA HasMin ==
  ASSUME NEW T, T \subseteq Nat, T # {}
  PROVE  \E t \in T : \A u \in T : ~(u < t)
<1>1. PICK t \in T : \A u \in T : ~(<<u, t>> \in OpToRel(<, Nat))
  BY NatLessThanWellFounded, WFMin
<1> QED
  BY <1>1 DEF OpToRel

\* Max returns the greatest element of a set of versions that is not empty.
LEMMA HasMax ==
  ASSUME NEW N \in Nat, NEW S \in SUBSET (1 .. N), S # {}
  PROVE  Max(S) \in S /\ \A y \in S : y <= Max(S)
<1>. DEFINE T == {N - x : x \in S}
<1>1. \A x \in S : x \in Int /\ N - x \in Nat
  OBVIOUS
<1>2. T \subseteq Nat
  BY <1>1
<1>3. T # {}
  OBVIOUS
<1>4. PICK t \in T : \A u \in T : ~(u < t)
  <2>. HIDE DEF T
  <2> QED
    BY <1>2, <1>3, HasMin
<1>5. PICK x \in S : t = N - x
  BY <1>4
<1>6. \A y \in S : x >= y
  <2>1. SUFFICES ASSUME NEW y \in S PROVE x >= y
    OBVIOUS
  <2>2. ~(N - y < N - x)
    BY <1>4, <1>5
  <2> QED
    BY <1>1, <2>2
<1>7. Max(S) \in S /\ \A y \in S : Max(S) >= y
  BY <1>6 DEF Max
<1> QED
  BY <1>1, <1>7

HasRow(v) == row[v].model # NoModel

\* What chunks_meta and the collections can be, and the record of a search.
Rows == [Version -> [model : Model \union {NoModel}, active : BOOLEAN]]
Colls == [Version -> [model : Model \union {NoModel}, holds : SUBSET Class]]
Passes == [pc : PassPlaces, at : Replica, wants : Model \union {NoModel},
           target : 0 .. MaxVersion, doomed : 0 .. MaxVersion,
           after : PassPlaces, todo : SUBSET Class, clean : BOOLEAN]
Searches == [pc : SearchPlaces, at : Replica, model : Model \union {NoModel},
             saw : FamilyVersions,
             hit : [model : Model \union {NoModel}, holds : SUBSET Class]]

\* What a read of chunks_meta finds: the newest row of those asked for, if any.
LEMMA NewestIs ==
  ASSUME row \in Rows, NEW b \in BOOLEAN
  PROVE  \/ /\ Newest(b) = NoMeta
            /\ \A v \in Version : HasRow(v) => row[v].active # b
         \/ /\ Newest(b) # NoMeta
            /\ Newest(b) \in [version : Version, model : Model]
            /\ row[Newest(b).version].model = Newest(b).model
            /\ row[Newest(b).version].active = b
            /\ \A v \in Version : HasRow(v) /\ row[v].active = b => v <= Newest(b).version
<1>. DEFINE found == {v \in Version : row[v].model # NoModel /\ row[v].active = b}
<1>1. MaxVersion \in Nat /\ Version = 1 .. MaxVersion
  BY IndexAssumption DEF MaxVersion, Version
<1>2. CASE found = {}
  BY <1>2 DEF Newest, HasRow
<1>3. CASE found # {}
  <2>1. found \in SUBSET (1 .. MaxVersion)
    BY <1>1
  <2>2. Max(found) \in found /\ \A y \in found : y <= Max(found)
    <3>. HIDE DEF found
    <3> QED
      BY <1>1, <1>3, <2>1, HasMax
  <2>3. Newest(b) = [version |-> Max(found), model |-> row[Max(found)].model]
    BY <1>3 DEF Newest
  <2>4. Max(found) \in Version /\ Max(found) # 0
    BY <2>2, <1>1
  <2>5. row[Max(found)] \in [model : Model \union {NoModel}, active : BOOLEAN]
    BY <2>4 DEF Rows
  <2>6. row[Max(found)].model \in Model /\ row[Max(found)].active = b
    BY <2>2, <2>5
  <2>7. \A v \in Version : HasRow(v) /\ row[v].active = b => v <= Max(found)
    BY <2>2 DEF HasRow
  <2>. HIDE DEF found
  <2> QED
    BY <2>3, <2>4, <2>6, <2>7 DEF NoMeta
<1> QED
  BY <1>2, <1>3

-----------------------------------------------------------------------------
(* Where a pass stands between its steps. *)

\* The pass is to make a version, and its row is not written yet.
Makes ==
  \/ pass.pc \in {"collection", "row"}
  \/ pass.pc \in {"dropRow", "dropColl"} /\ pass.after = "collection"

\* Only an edit of the model makes room for one more version, and the pass that
\* takes it has seen that edit.
Bounded ==
  /\ \A v \in Version : HasRow(v) =>
       v <= changes + 1 /\ (v = changes + 1 => row[v].model = config)
  /\ Makes =>
       /\ pass.target \in 1 .. changes + 1
       /\ pass.target = changes + 1 => pass.wants = config
  /\ pass.pc = "ensure" /\ pass.wants # config =>
       /\ changes >= 1
       /\ \A v \in Version : HasRow(v) =>
            v <= changes /\ (v = changes => row[v].model = pass.wants)

\* What the place of the pass says of the rows and collections.
Standing ==
  /\ pass.pc # "idle" => pass.wants \in Model
  /\ Makes => pass.target \in Version /\ ~HasRow(pass.target)
  /\ pass.pc = "row" => coll[pass.target].model = pass.wants
  /\ pass.pc \in {"fill", "promote"} => pass.target \in Version /\ HasRow(pass.target)
  /\ pass.pc = "promote" => ~row[pass.target].active
  /\ pass.pc \in {"dropRow", "dropColl"} =>
       /\ pass.doomed \in Version
       /\ pass.after \in {"fill", "idle", "collection"}
       /\ pass.after # "collection" =>
            /\ pass.target \in Version /\ HasRow(pass.target)
            /\ row[pass.target].active /\ pass.target # pass.doomed
  /\ pass.pc = "dropRow" /\ pass.after = "collection" => ~row[pass.doomed].active
  /\ pass.pc = "dropColl" => ~HasRow(pass.doomed)

\* A family that has rows has one that answers.
SomeAnswers ==
  (\E v \in Version : HasRow(v)) => \E v \in Version : HasRow(v) /\ row[v].active

\* A search that queries a collection knows which.
Aware == \A q \in Search : search[q].pc = "query" => search[q].saw.active # NoMeta

\* The inductive invariant.
IndexInv ==
  /\ VersionsTypeOK
  /\ Bounded /\ Standing /\ SomeAnswers /\ Aware
  /\ RowsHaveCollections

LEMMA Versions ==
  MaxVersion \in Nat /\ Version = 1 .. MaxVersion /\ 1 \in Version
BY IndexAssumption DEF MaxVersion, Version

LEMMA Typed ==
  VersionsTypeOK <=> /\ config \in Model
                     /\ row \in Rows /\ coll \in Colls /\ pass \in Passes
                     /\ cache \in [Replica -> FamilyVersions]
                     /\ search \in [Search -> Searches]
                     /\ changes \in 0 .. MaxChanges
                     /\ troubles \in 0 .. MaxTroubles
BY DEF VersionsTypeOK, Rows, Colls, Passes, Searches

LEMMA NoneTyped ==
  /\ NoMeta \in Metas /\ Unknown \in FamilyVersions
  /\ NoColl \in [model : Model \union {NoModel}, holds : SUBSET Class]
  /\ NoRow \in [model : Model \union {NoModel}, active : BOOLEAN]
BY Versions DEF NoMeta, Metas, Unknown, FamilyVersions, NoColl, NoRow

LEMMA IdleTyped ==
  /\ Idle \in Passes /\ Idle.pc = "idle"
  /\ NotAsked \in Searches /\ NotAsked.pc = "idle"
<1>1. (CHOOSE a \in Replica : TRUE) \in Replica
  BY IndexAssumption
<1> QED
  BY <1>1, Versions, NoneTyped
     DEF Idle, NotAsked, PassPlaces, SearchPlaces, Passes, Searches

LEMMA StoredTyped ==
  ASSUME row \in Rows
  PROVE  /\ Stored \in FamilyVersions
         /\ Stored.active = Newest(TRUE) /\ Stored.building = Newest(FALSE)
<1>1. ASSUME NEW b \in BOOLEAN PROVE Newest(b) \in Metas
  <2>1. CASE Newest(b) = NoMeta
    BY <2>1, NoneTyped
  <2>2. CASE Newest(b) \in [version : Version, model : Model]
    BY <2>2 DEF Metas
  <2> QED
    BY <2>1, <2>2, NewestIs
<1>2. Newest(TRUE) \in Metas /\ Newest(FALSE) \in Metas
  BY <1>1
<1> QED
  BY <1>2 DEF Stored, FamilyVersions

\* What a read of chunks_meta says of the rows.
LEMMA StoredIs ==
  ASSUME row \in Rows
  PROVE  /\ Stored.active # NoMeta =>
              /\ Stored.active \in [version : Version, model : Model]
              /\ HasRow(Stored.active.version)
              /\ row[Stored.active.version].model = Stored.active.model
              /\ row[Stored.active.version].active
         /\ Stored.building # NoMeta =>
              /\ Stored.building \in [version : Version, model : Model]
              /\ HasRow(Stored.building.version)
              /\ row[Stored.building.version].model = Stored.building.model
              /\ ~row[Stored.building.version].active
         /\ \A v \in Version : HasRow(v) /\ row[v].active =>
              Stored.active # NoMeta /\ v <= Stored.active.version
         /\ \A v \in Version : HasRow(v) /\ ~row[v].active =>
              Stored.building # NoMeta /\ v <= Stored.building.version
<1>1. Stored.active = Newest(TRUE) /\ Stored.building = Newest(FALSE)
  BY StoredTyped
<1>2. ASSUME NEW b \in BOOLEAN
      PROVE  /\ Newest(b) # NoMeta =>
                   /\ Newest(b) \in [version : Version, model : Model]
                   /\ HasRow(Newest(b).version)
                   /\ row[Newest(b).version].model = Newest(b).model
                   /\ row[Newest(b).version].active = b
             /\ \A v \in Version : HasRow(v) /\ row[v].active = b =>
                   Newest(b) # NoMeta /\ v <= Newest(b).version
  BY NewestIs, IndexAssumption DEF HasRow
<1>3. \A v \in Version : row[v].active \in BOOLEAN
  BY DEF Rows
<1>. DEFINE old == Newest(TRUE)
            new == Newest(FALSE)
<1>4. /\ old # NoMeta =>
           /\ old \in [version : Version, model : Model]
           /\ HasRow(old.version)
           /\ row[old.version].model = old.model
           /\ row[old.version].active
      /\ \A v \in Version : HasRow(v) /\ row[v].active =>
           old # NoMeta /\ v <= old.version
  BY <1>2, <1>3
<1>5. /\ new # NoMeta =>
           /\ new \in [version : Version, model : Model]
           /\ HasRow(new.version)
           /\ row[new.version].model = new.model
           /\ ~row[new.version].active
      /\ \A v \in Version : HasRow(v) /\ ~row[v].active =>
           new # NoMeta /\ v <= new.version
  BY <1>2, <1>3
<1>. HIDE DEF old, new
<1>6. Stored.active = old /\ Stored.building = new
  BY <1>1 DEF old, new
<1> QED
  BY <1>4, <1>5, <1>6

LEMMA InitIndex == VersionsInit => IndexInv
<1> SUFFICES ASSUME VersionsInit PROVE IndexInv
  OBVIOUS
<1>1. VersionsTypeOK
  BY IndexAssumption, NoneTyped, IdleTyped DEF VersionsInit, Typed, Rows, Colls, VersionsTypeOK, Passes, Searches
<1>2. \A v \in Version : ~HasRow(v)
  BY DEF VersionsInit, HasRow, NoRow
<1>3. pass.pc = "idle"
  BY IdleTyped DEF VersionsInit
<1>4. Aware
  BY IdleTyped DEF VersionsInit, Aware
<1> QED
  BY <1>1, <1>2, <1>3, <1>4
     DEF IndexInv, Bounded, Standing, Makes, SomeAnswers, RowsHaveCollections, HasRow

-----------------------------------------------------------------------------
(* The steps that leave the index alone. *)

LEMMA Elsewhere ==
  ASSUME IndexInv, VersionsTypeOK', Aware', UNCHANGED <<config, row, coll, pass, changes>>
  PROVE  IndexInv'
BY DEF IndexInv, Bounded, Standing, Makes, SomeAnswers, RowsHaveCollections, HasRow

\* A pass that ends, wherever it stands.
LEMMA PassEnds ==
  ASSUME IndexInv, VersionsTypeOK', Aware', UNCHANGED <<config, row, coll, changes>>, pass'.pc = "idle"
  PROVE  IndexInv'
BY DEF IndexInv, Bounded, Standing, Makes, SomeAnswers, RowsHaveCollections, HasRow

LEMMA RememberingTyped ==
  ASSUME cache \in [Replica -> FamilyVersions], NEW a \in Replica,
         NEW versions \in FamilyVersions
  PROVE  Remembering(a, versions) \in [Replica -> FamilyVersions]
BY DEF Remembering

LEMMA KnownTyped ==
  ASSUME VersionsTypeOK, NEW a \in Replica
  PROVE  /\ Known(a) \in FamilyVersions
         /\ Remembering(a, Known(a)) \in [Replica -> FamilyVersions]
         /\ Remembering(a, Stored) \in [Replica -> FamilyVersions]
BY StoredTyped, RememberingTyped, Typed DEF Known

LEMMA SearchSafe ==
  ASSUME IndexInv, NEW q \in Search, SearchStep(q)
  PROVE  IndexInv'
<1>1. /\ VersionsTypeOK /\ Aware
      /\ search \in [Search -> Searches] /\ cache \in [Replica -> FamilyVersions]
      /\ config \in Model /\ search[q] \in Searches /\ search[q].at \in Replica
      /\ row \in Rows
  BY Typed DEF IndexInv, Searches
<1>2. /\ NotAsked \in Searches /\ Unanswered \in Searches
      /\ Unanswered.pc = "unanswered"
  BY IdleTyped DEF Searches, Unanswered, SearchPlaces
<1>3. ASSUME NEW s \in Searches, search' = [search EXCEPT ![q] = s],
             s.pc = "query" => s.saw.active # NoMeta
      PROVE  search' \in [Search -> Searches] /\ Aware'
  BY <1>1, <1>3 DEF Aware
<1>4. SUFFICES /\ search' \in [Search -> Searches] /\ Aware'
               /\ cache' \in [Replica -> FamilyVersions]
               /\ troubles' \in 0 .. MaxTroubles
               /\ UNCHANGED <<config, row, coll, pass, changes>>
  BY <1>1, Typed, Elsewhere DEF VersionsTypeOK, Rows, Colls, Passes, Searches
<1>5. troubles \in 0 .. MaxTroubles
  BY <1>1, Typed
<1>6. ASSUME NEW versions \in FamilyVersions
      PROVE  /\ Verdict(q, versions) \in Searches
             /\ Verdict(q, versions).pc = "query" => Verdict(q, versions).saw.active # NoMeta
  <2>. DEFINE s == search[q]
              finding == s.pc \in {"find", "findRead"}
              hit == [s EXCEPT !.pc = "query", !.saw = [versions EXCEPT !.building = NoMeta]]
              onward == [s EXCEPT !.pc = "find", !.saw = Unknown]
  <2>1. [versions EXCEPT !.building = NoMeta] \in FamilyVersions
        /\ [versions EXCEPT !.building = NoMeta].active = versions.active
    BY NoneTyped DEF FamilyVersions
  <2>2. /\ hit \in Searches /\ hit.saw.active = versions.active
        /\ onward \in Searches /\ onward.pc = "find"
    BY <1>1, <2>1, NoneTyped DEF Searches, SearchPlaces, Pending, Lookups
  <2>3. \/ Verdict(q, versions) = hit /\ versions.active # NoMeta
        \/ Verdict(q, versions) = Unanswered
        \/ Verdict(q, versions) = onward
    BY DEF Verdict
  <2>. HIDE DEF s, hit, onward
  <2> QED
    BY <1>2, <2>2, <2>3
<1>7. CASE Ask(q)
  <2>1. PICK a \in Replica :
          search' = [search EXCEPT ![q] = [NotAsked EXCEPT !.pc = "check", !.at = a,
                                                          !.model = config]]
    BY <1>7 DEF Ask
  <2>2. /\ [NotAsked EXCEPT !.pc = "check", !.at = a, !.model = config] \in Searches
        /\ [NotAsked EXCEPT !.pc = "check", !.at = a, !.model = config].pc = "check"
    BY <1>1, <1>2 DEF Searches, SearchPlaces, Pending, Lookups
  <2> QED
    BY <1>1, <1>3, <1>5, <1>7, <2>1, <2>2 DEF Ask
<1>8. CASE RecallVersions(q)
  <2>1. cache[search[q].at] \in FamilyVersions
    BY <1>1
  <2> QED
    BY <1>1, <1>3, <1>5, <1>6, <1>8, <2>1 DEF RecallVersions
<1>9. CASE ReadVersions(q)
  <2>. DEFINE s == [search[q] EXCEPT !.pc = IF @ = "check" THEN "checkRead" ELSE "findRead",
                                    !.saw = Stored]
  <2>1. search' = [search EXCEPT ![q] = s]
    BY <1>9 DEF ReadVersions
  <2>2. s \in Searches /\ s.pc # "query"
    BY <1>1, StoredTyped DEF Searches, SearchPlaces, Pending, Reads
  <2> QED
    BY <1>1, <1>3, <1>5, <1>9, <2>1, <2>2 DEF ReadVersions
<1>10. CASE RememberVersions(q)
  <2>1. search[q].saw \in FamilyVersions
    BY <1>1 DEF Searches
  <2> QED
    BY <1>1, <1>3, <1>5, <1>6, <1>10, <2>1, RememberingTyped DEF RememberVersions
<1>11. CASE Query(q)
  <2>. DEFINE found == coll[search[q].saw.active.version]
  <2>1. search[q].saw.active \in [version : Version, model : Model]
    BY <1>1, <1>11 DEF Query, Aware, Searches, FamilyVersions, Metas
  <2>2. found \in [model : Model \union {NoModel}, holds : SUBSET Class]
    BY <1>1, <2>1, Typed DEF Colls
  <2>3. /\ [search[q] EXCEPT !.pc = "answered", !.hit = found] \in Searches
        /\ [search[q] EXCEPT !.pc = "answered", !.hit = found].pc = "answered"
    BY <1>1, <2>2 DEF Searches, SearchPlaces
  <2>4. UNCHANGED <<config, row, coll, pass, cache, changes>>
    BY <1>11 DEF Query
  <2>5. troubles' \in 0 .. MaxTroubles
    BY <1>5, <1>11, IndexAssumption DEF Query, Confirm
  <2>6. \/ search' = [search EXCEPT ![q] = Unanswered]
        \/ search' = [search EXCEPT ![q].pc = "answered", ![q].hit = found]
    BY <1>11 DEF Query, Confirm
  <2>7. \/ search' = [search EXCEPT ![q] = Unanswered]
        \/ search' = [search EXCEPT ![q] = [search[q] EXCEPT !.pc = "answered", !.hit = found]]
    BY <2>6
  <2>8. search' \in [Search -> Searches] /\ Aware'
    BY <1>2, <1>3, <2>3, <2>7
  <2> QED
    BY <1>1, <2>4, <2>5, <2>8
<1> QED
  BY <1>7, <1>8, <1>9, <1>10, <1>11 DEF SearchStep

LEMMA AroundSafe ==
  ASSUME IndexInv, NEW a \in Replica, Restart(a) \/ CacheExpires(a) \/ AskGate(a)
  PROVE  IndexInv'
<1>1. VersionsTypeOK /\ Aware /\ row \in Rows /\ cache \in [Replica -> FamilyVersions]
  BY Typed DEF IndexInv
<1>2. CASE Restart(a)
  <2>1. Unanswered \in Searches /\ Unanswered.pc = "unanswered"
    BY IdleTyped DEF Searches, Unanswered, SearchPlaces
  <2>2. search' \in [Search -> Searches] /\ Aware'
    BY <1>1, <1>2, <2>1, Typed DEF Restart, Aware
  <2>3. cache' \in [Replica -> FamilyVersions] /\ pass' \in Passes
    BY <1>1, <1>2, NoneTyped, IdleTyped, Typed DEF Restart
  <2>4. troubles' \in 0 .. MaxTroubles
    BY <1>1, <1>2, Typed, IndexAssumption DEF Restart
  <2>5. VersionsTypeOK'
    BY <1>1, <1>2, <2>2, <2>3, <2>4, Typed
       DEF Restart, VersionsTypeOK, Rows, Colls, Passes, Searches
  <2>6. CASE pass.at = a
    BY <1>2, <2>2, <2>5, <2>6, PassEnds, IdleTyped DEF Restart
  <2>7. CASE pass.at # a
    BY <1>2, <2>2, <2>5, <2>7, Elsewhere DEF Restart
  <2> QED
    BY <2>6, <2>7
<1>3. CASE CacheExpires(a) \/ AskGate(a)
  <2>1. cache' \in [Replica -> FamilyVersions]
    BY <1>1, <1>3, NoneTyped, KnownTyped DEF CacheExpires, AskGate
  <2>2. UNCHANGED <<config, row, coll, pass, search, changes, troubles>>
    BY <1>3 DEF CacheExpires, AskGate
  <2>3. VersionsTypeOK' /\ Aware'
    BY <1>1, <2>1, <2>2 DEF VersionsTypeOK, Aware
  <2> QED
    BY <2>2, <2>3, Elsewhere
<1> QED
  BY <1>2, <1>3

LEMMA ChangeSafe == ASSUME IndexInv, ChangeModel PROVE IndexInv'
<1>1. VersionsTypeOK' /\ Aware'
  BY IndexAssumption DEF IndexInv, VersionsTypeOK, Aware, ChangeModel
<1>2. Bounded'
  <2>1. changes \in Nat /\ changes' = changes + 1 /\ Version = 1 .. MaxVersion
    BY IndexAssumption DEF IndexInv, VersionsTypeOK, ChangeModel, Version
  <2>2. \A v \in Version : v \in Int
    BY <2>1, Versions
  <2>3. (Makes <=> Makes') /\ \A v \in Version : HasRow(v) <=> HasRow(v)'
    BY DEF ChangeModel, Makes, HasRow
  <2> QED
    BY <2>1, <2>2, <2>3 DEF IndexInv, Bounded, ChangeModel
<1> QED
  BY <1>1, <1>2
     DEF IndexInv, ChangeModel, Standing, Makes, SomeAnswers, RowsHaveCollections, HasRow

-----------------------------------------------------------------------------
(* The steps of a pass. *)

\* The types again, for a step that touches the index, the pass or a cache.
LEMMA StepTyped ==
  ASSUME IndexInv, row' \in Rows, coll' \in Colls, pass' \in Passes,
         cache' \in [Replica -> FamilyVersions], troubles' \in 0 .. MaxTroubles,
         UNCHANGED <<config, search, changes>>
  PROVE  VersionsTypeOK' /\ Aware'
BY Typed DEF IndexInv, VersionsTypeOK, Rows, Colls, Passes, Searches, Aware

LEMMA Parts ==
  ASSUME IndexInv
  PROVE  /\ config \in Model /\ row \in Rows /\ coll \in Colls /\ pass \in Passes
         /\ cache \in [Replica -> FamilyVersions] /\ troubles \in 0 .. MaxTroubles
         /\ changes \in Nat /\ changes <= MaxChanges /\ changes + 1 <= MaxVersion
         /\ pass.at \in Replica /\ Idle \in Passes
         /\ Known(pass.at) \in FamilyVersions
         /\ Remembering(pass.at, Known(pass.at)) \in [Replica -> FamilyVersions]
         /\ Remembering(pass.at, Stored) \in [Replica -> FamilyVersions]
         /\ [cache EXCEPT ![pass.at] = Unknown] \in [Replica -> FamilyVersions]
<1>1. VersionsTypeOK
  BY DEF IndexInv
<1>2. pass \in Passes /\ changes \in 0 .. MaxChanges /\ cache \in [Replica -> FamilyVersions]
  BY <1>1, Typed
<1>3. pass.at \in Replica
  BY <1>2 DEF Passes
<1> QED
  BY <1>1, <1>2, <1>3, Typed, KnownTyped, IdleTyped, NoneTyped, IndexAssumption DEF MaxVersion

LEMMA StartSafe == ASSUME IndexInv, StartPass PROVE IndexInv'
<1>1. PICK a \in Replica :
        pass' = [Idle EXCEPT !.pc = "ensure", !.at = a, !.wants = config, !.todo = Class]
  BY DEF StartPass
<1>2. pass' \in Passes /\ pass'.pc = "ensure" /\ pass'.wants = config
  BY <1>1, Parts DEF Passes, PassPlaces
<1>3. VersionsTypeOK' /\ Aware'
  BY <1>2, Parts, StepTyped DEF StartPass
<1> QED
  BY <1>2, <1>3, Parts DEF StartPass, IndexInv, Bounded, Standing, Makes, SomeAnswers,
                    RowsHaveCollections, HasRow

LEMMA SitOutSafe == ASSUME IndexInv, SitOut PROVE IndexInv'
<1>1. VersionsTypeOK' /\ Aware'
  BY Parts, StepTyped DEF SitOut
<1> QED
  BY <1>1, PassEnds, IdleTyped DEF SitOut

LEMMA DropRowSafe == ASSUME IndexInv, DropRow PROVE IndexInv'
<1>1. /\ pass.pc = "dropRow" /\ pass.doomed \in Version
      /\ row' = [row EXCEPT ![pass.doomed] = NoRow]
      /\ pass' = [pass EXCEPT !.pc = "dropColl"]
      /\ UNCHANGED <<config, coll, cache, search, changes, troubles>>
  BY DEF DropRow, PassMay, IndexInv, Standing
<1>2. row' \in Rows /\ pass' \in Passes
  BY <1>1, Parts, NoneTyped DEF Rows, Passes, PassPlaces
<1>3. VersionsTypeOK' /\ Aware'
  BY <1>1, <1>2, Parts, StepTyped
<1>4. /\ ~HasRow(pass.doomed)'
      /\ \A v \in Version : v # pass.doomed => row'[v] = row[v]
      /\ \A v \in Version : HasRow(v)' => HasRow(v) /\ v # pass.doomed
  BY <1>1, Parts DEF HasRow, NoRow, Rows
<1>5. /\ pass'.pc = "dropColl" /\ pass'.doomed = pass.doomed /\ pass'.target = pass.target
      /\ pass'.after = pass.after /\ pass'.wants = pass.wants
      /\ Makes' <=> Makes
  BY <1>1, Parts DEF Passes, Makes
<1>6. Bounded'
  BY <1>1, <1>4, <1>5 DEF IndexInv, Bounded, HasRow
<1>7. Standing'
  BY <1>1, <1>4, <1>5 DEF IndexInv, Standing, Makes, HasRow
<1>8. SomeAnswers'
  BY <1>1, <1>4, <1>5 DEF IndexInv, Standing, SomeAnswers, HasRow
<1> QED
  BY <1>1, <1>3, <1>4, <1>6, <1>7, <1>8 DEF IndexInv, RowsHaveCollections, HasRow

LEMMA DropCollectionSafe == ASSUME IndexInv, DropCollection PROVE IndexInv'
<1>1. /\ pass.pc = "dropColl" /\ pass.doomed \in Version
      /\ coll' = [coll EXCEPT ![pass.doomed] = NoColl]
      /\ pass' = [pass EXCEPT !.pc = pass.after]
      /\ UNCHANGED <<config, row, search, changes, troubles>>
  BY DEF DropCollection, PassMay, IndexInv, Standing
<1>2. coll' \in Colls /\ pass' \in Passes
  BY <1>1, Parts, NoneTyped DEF Colls, Passes
<1>3. cache' \in [Replica -> FamilyVersions]
  BY Parts DEF DropCollection
<1>4. VersionsTypeOK' /\ Aware'
  BY <1>1, <1>2, <1>3, Parts, StepTyped
<1>5. /\ pass'.pc = pass.after /\ pass'.doomed = pass.doomed /\ pass'.target = pass.target
      /\ pass'.after = pass.after /\ pass'.wants = pass.wants
      /\ pass.after \in {"fill", "idle", "collection"}
      /\ Makes' <=> Makes
  BY <1>1, Parts DEF Passes, Makes, IndexInv, Standing
<1>6. Bounded'
  BY <1>1, <1>5 DEF IndexInv, Bounded, HasRow
<1>7. Standing'
  BY <1>1, <1>5 DEF IndexInv, Standing, Makes, HasRow
<1>8. RowsHaveCollections'
  BY <1>1, Parts DEF IndexInv, Standing, RowsHaveCollections, HasRow, Colls
<1> QED
  BY <1>1, <1>4, <1>6, <1>7, <1>8 DEF IndexInv, SomeAnswers, HasRow

LEMMA CollectionSafe == ASSUME IndexInv, DropOrphan \/ CreateCollection PROVE IndexInv'
<1>1. /\ pass.pc = "collection" /\ Makes /\ pass.target \in Version /\ ~HasRow(pass.target)
      /\ pass.wants \in Model
  BY DEF DropOrphan, CreateCollection, PassMay, IndexInv, Standing, Makes
<1>2. PICK c \in {NoColl, [model |-> pass.wants, holds |-> {}]} :
        /\ coll' = [coll EXCEPT ![pass.target] = c]
        /\ \/ UNCHANGED pass
           \/ pass' = [pass EXCEPT !.pc = "row"] /\ c.model = pass.wants
        /\ UNCHANGED <<config, row, cache, search, changes, troubles>>
  BY DEF DropOrphan, CreateCollection
<1>3. coll' \in Colls /\ pass' \in Passes
  BY <1>1, <1>2, Parts, NoneTyped DEF Colls, Passes, PassPlaces
<1>4. VersionsTypeOK' /\ Aware'
  BY <1>2, <1>3, Parts, StepTyped
<1>5. /\ pass'.pc \in {"collection", "row"} /\ pass'.target = pass.target
      /\ pass'.wants = pass.wants /\ Makes'
      /\ pass'.pc = "row" => coll'[pass.target].model = pass.wants
  BY <1>1, <1>2, Parts DEF Passes, Colls, Makes
<1>6. Bounded' /\ Standing'
  BY <1>1, <1>2, <1>5 DEF IndexInv, Bounded, Standing, HasRow
<1>7. RowsHaveCollections'
  BY <1>1, <1>2, Parts DEF IndexInv, RowsHaveCollections, HasRow, Colls
<1> QED
  BY <1>2, <1>4, <1>6, <1>7 DEF IndexInv, SomeAnswers, HasRow

LEMMA WriteRowSafe == ASSUME IndexInv, WriteRow PROVE IndexInv'
<1>1. /\ pass.pc = "row" /\ Makes /\ pass.target \in Version /\ ~HasRow(pass.target)
      /\ pass.wants \in Model /\ coll[pass.target].model = pass.wants
      /\ row' = [row EXCEPT ![pass.target] = [model |-> pass.wants, active |-> BornActive]]
      /\ pass' = [pass EXCEPT !.pc = "fill"]
      /\ UNCHANGED <<config, coll, search, changes, troubles>>
  BY DEF WriteRow, PassMay, IndexInv, Standing, Makes
<1>2. row' \in Rows /\ pass' \in Passes
  BY <1>1, Parts DEF Rows, Passes, PassPlaces, BornActive
<1>3. cache' \in [Replica -> FamilyVersions]
  <2>1. row \in Rows => Stored \in FamilyVersions
    BY StoredTyped
  <2>2. (row \in Rows => Stored \in FamilyVersions)'
    BY StoredTyped, PTL
  <2> QED
    BY <1>2, <2>2, Parts DEF WriteRow
<1>4. VersionsTypeOK' /\ Aware'
  BY <1>1, <1>2, <1>3, Parts, StepTyped
<1>5. /\ pass'.pc = "fill" /\ pass'.target = pass.target /\ ~Makes'
      /\ pass'.wants = pass.wants
      /\ HasRow(pass.target)' /\ row'[pass.target].model = pass.wants
      /\ row'[pass.target].active = BornActive
      /\ \A v \in Version : v # pass.target => row'[v] = row[v]
  BY <1>1, Parts, IndexAssumption DEF Passes, Rows, HasRow, Makes
<1>6. Bounded'
  BY <1>1, <1>5, Parts DEF IndexInv, Bounded, HasRow
<1>7. Standing'
  BY <1>1, <1>5 DEF IndexInv, Standing, HasRow
<1>8. SomeAnswers'
  <2>1. CASE BornActive
    BY <1>1, <1>5, <2>1 DEF SomeAnswers
  <2>2. CASE ~BornActive
    <3>1. Newest(TRUE) # NoMeta
      BY <2>2, Parts, StoredTyped DEF BornActive
    <3>2. PICK v \in Version : HasRow(v) /\ row[v].active
      BY <3>1, NewestIs, Parts, IndexAssumption DEF HasRow
    <3>3. HasRow(v)' /\ row'[v].active
      BY <1>1, <1>5, <3>2 DEF HasRow
    <3> QED
      BY <3>3 DEF SomeAnswers
  <2> QED
    BY <2>1, <2>2
<1>9. RowsHaveCollections'
  BY <1>1, <1>5 DEF IndexInv, RowsHaveCollections, HasRow
<1> QED
  BY <1>4, <1>6, <1>7, <1>8, <1>9 DEF IndexInv

\* In the fill, the version whose chunks are written exists.
LEMMA WriteMetaIs ==
  ASSUME IndexInv, pass.pc = "fill"
  PROVE  WriteMeta \in [version : Version, model : Model]
<1>1. PICK v \in Version : HasRow(v) /\ row[v].active
  BY DEF IndexInv, Standing, SomeAnswers
<1>2. Stored.active # NoMeta
  BY <1>1, Parts, NewestIs, StoredTyped, IndexAssumption
<1>3. Known(pass.at) \in FamilyVersions /\ Known(pass.at).active # NoMeta
  BY <1>2, Parts DEF Known
<1> QED
  BY <1>3 DEF WriteMeta, FamilyVersions, Metas

LEMMA FillSafe == ASSUME IndexInv, SweepClass \/ ClassFails PROVE IndexInv'
<1>1. pass.pc = "fill" /\ WriteMeta.version \in Version
  BY WriteMetaIs DEF SweepClass, ClassFails, PassMay
<1>. DEFINE w == WriteMeta.version
<1>2. PICK c \in pass.todo :
        /\ \/ pass' = [pass EXCEPT !.todo = @ \ {c}]
           \/ pass' = [pass EXCEPT !.todo = @ \ {c}, !.clean = FALSE]
        /\ \/ UNCHANGED coll
           \/ coll' = [coll EXCEPT ![w].holds = @ \union {c}]
        /\ UNCHANGED <<config, row, search, changes>>
  BY DEF SweepClass, ClassFails
<1>3. pass.todo \subseteq Class /\ c \in Class
  BY <1>2, Parts DEF Passes
<1>4. pass' \in Passes
  BY <1>2, <1>3, Parts DEF Passes
<1>5. coll' \in Colls /\ \A v \in Version : coll'[v].model = coll[v].model
  <2>. HIDE DEF w
  <2>1. w \in Version
    BY <1>1 DEF w
  <2> QED
    BY <1>2, <1>3, <2>1, Parts DEF Colls
<1>6. cache' \in [Replica -> FamilyVersions] /\ troubles' \in 0 .. MaxTroubles
  <2>1. cache' = cache \/ cache' = Remembering(pass.at, Known(pass.at))
    BY DEF SweepClass, ClassFails
  <2>2. troubles' = troubles \/ (troubles < MaxTroubles /\ troubles' = troubles + 1)
    BY DEF SweepClass, ClassFails
  <2> QED
    BY <2>1, <2>2, Parts, IndexAssumption
<1>7. VersionsTypeOK' /\ Aware'
  BY <1>2, <1>4, <1>5, <1>6, Parts, StepTyped
<1>8. /\ pass'.pc = "fill" /\ pass'.target = pass.target /\ pass'.wants = pass.wants
      /\ ~Makes'
  BY <1>1, <1>2, Parts DEF Passes, Makes
<1>9. Bounded' /\ Standing' /\ SomeAnswers'
  BY <1>1, <1>2, <1>8 DEF IndexInv, Bounded, Standing, SomeAnswers, HasRow
<1>10. RowsHaveCollections'
  BY <1>2, <1>5 DEF IndexInv, RowsHaveCollections
<1> QED
  BY <1>7, <1>9, <1>10 DEF IndexInv

LEMMA DoneSafe == ASSUME IndexInv, ClassesDone PROVE IndexInv'
<1>1. /\ pass.pc = "fill" /\ UNCHANGED <<config, row, coll, cache, search, changes, troubles>>
      /\ \/ pass' = [pass EXCEPT !.pc = "promote"] /\ ~row[pass.target].active
         \/ pass' = Idle
  BY DEF ClassesDone, PassMay
<1>2. pass' \in Passes
  BY <1>1, Parts DEF Passes, PassPlaces
<1>3. VersionsTypeOK' /\ Aware'
  BY <1>1, <1>2, Parts, StepTyped
<1>4. CASE pass' = Idle
  BY <1>1, <1>3, <1>4, PassEnds, IdleTyped
<1>5. CASE pass' = [pass EXCEPT !.pc = "promote"] /\ ~row[pass.target].active
  <2>1. /\ pass'.pc = "promote" /\ pass'.target = pass.target /\ pass'.wants = pass.wants
        /\ ~Makes'
    BY <1>5, Parts DEF Passes, Makes
  <2> QED
    BY <1>1, <1>3, <1>5, <2>1 DEF IndexInv, Bounded, Standing, SomeAnswers,
                                  RowsHaveCollections, HasRow
<1> QED
  BY <1>1, <1>4, <1>5

LEMMA PromoteSafe == ASSUME IndexInv, Promote PROVE IndexInv'
<1>1. /\ pass.pc = "promote" /\ pass.target \in Version /\ HasRow(pass.target)
      /\ ~row[pass.target].active
      /\ row' = [row EXCEPT ![pass.target].active = TRUE]
      /\ pass' = [pass EXCEPT !.pc = "dropRow", !.doomed = Stored.active.version,
                              !.after = "idle"]
      /\ UNCHANGED <<config, coll, cache, search, changes, troubles>>
  BY DEF Promote, PassMay, IndexInv, Standing
<1>2. PICK v \in Version : HasRow(v) /\ row[v].active
  BY <1>1 DEF IndexInv, SomeAnswers
<1>3. /\ Stored.active.version \in Version
      /\ row[Stored.active.version].active
  BY <1>2, Parts, NewestIs, StoredTyped, IndexAssumption
<1>4. Stored.active.version # pass.target
  BY <1>1, <1>3
<1>5. row' \in Rows /\ pass' \in Passes
  <2>1. Stored.active.version \in 0 .. MaxVersion
    BY <1>3, Versions
  <2>2. row' = [row EXCEPT ![pass.target] = [row[pass.target] EXCEPT !.active = TRUE]]
    BY <1>1
  <2>3. [row[pass.target] EXCEPT !.active = TRUE] \in [model : Model \union {NoModel}, active : BOOLEAN]
    BY <1>1, Parts DEF Rows
  <2>4. row' \in Rows
    BY <1>1, <2>2, <2>3, Parts DEF Rows
  <2> QED
    BY <1>1, <2>1, <2>4, Parts DEF Passes, PassPlaces
<1>6. VersionsTypeOK' /\ Aware'
  BY <1>1, <1>5, Parts, StepTyped
<1>7. \A u \in Version : /\ row'[u].model = row[u].model
                         /\ row[u].active => row'[u].active
  BY <1>1, Parts DEF Rows
<1>8. row'[pass.target].active
  BY <1>1, Parts DEF Rows
<1>9. /\ pass'.pc = "dropRow" /\ pass'.target = pass.target /\ pass'.wants = pass.wants
      /\ pass'.doomed = Stored.active.version /\ pass'.after = "idle" /\ ~Makes'
  BY <1>1, Parts DEF Passes, Makes
<1>10. Bounded'
  BY <1>1, <1>7, <1>9 DEF IndexInv, Bounded, HasRow
<1>11. Standing'
  BY <1>1, <1>3, <1>4, <1>7, <1>8, <1>9 DEF IndexInv, Standing, HasRow
<1>12. SomeAnswers' /\ RowsHaveCollections'
  BY <1>1, <1>7 DEF IndexInv, SomeAnswers, RowsHaveCollections, HasRow
<1> QED
  BY <1>6, <1>10, <1>11, <1>12 DEF IndexInv

LEMMA FailSafe == ASSUME IndexInv, PassFails PROVE IndexInv'
<1>1. /\ pass' = Idle /\ UNCHANGED <<config, row, cache, search, changes>>
      /\ \/ UNCHANGED coll
         \/ pass.pc = "dropColl" /\ coll' = [coll EXCEPT ![pass.doomed] = NoColl]
  BY DEF PassFails
<1>2. coll' \in Colls /\ troubles' \in 0 .. MaxTroubles
  BY <1>1, Parts, NoneTyped, IndexAssumption DEF Colls, PassFails
<1>3. VersionsTypeOK' /\ Aware'
  BY <1>1, <1>2, Parts, StepTyped
<1>4. RowsHaveCollections'
  BY <1>1, Parts DEF IndexInv, Standing, RowsHaveCollections, HasRow, Colls
<1> QED
  BY <1>1, <1>3, <1>4, IdleTyped DEF IndexInv, Bounded, Standing, Makes, SomeAnswers, HasRow

\* The version to build next: within what the edits of the model leave room for,
\* and named by no row.
LEMMA NextVersionIs ==
  ASSUME IndexInv, pass.pc = "ensure", Stored.active # NoMeta,
         ~Fits(Stored.active), ~Fits(Stored.building)
  PROVE  /\ NextVersion \in Version /\ ~HasRow(NextVersion)
         /\ NextVersion \in 1 .. changes + 1
         /\ NextVersion = changes + 1 => pass.wants = config
         /\ \A v \in Version : HasRow(v) => v < NextVersion
<1>. DEFINE old == Stored.active
            new == Stored.building
            a == old.version
            b == new.version
            m == Max({a, b})
<1>0. \A v \in Version : v \in Nat /\ v > 0
  BY Versions
<1>1. \A v \in Version : row[v].active \in BOOLEAN
  BY Parts DEF Rows
<1>2. /\ old \in [version : Version, model : Model] /\ HasRow(a) /\ row[a].model = old.model
      /\ \A v \in Version : HasRow(v) /\ row[v].active => v <= a
  BY StoredIs, Parts
<1>3. new # NoMeta => /\ new \in [version : Version, model : Model] /\ HasRow(b)
                      /\ row[b].model = new.model
  BY StoredIs, Parts
<1>4. \A v \in Version : HasRow(v) /\ ~row[v].active => new # NoMeta /\ v <= b
  BY StoredIs, Parts
<1>. HIDE DEF old, new
<1>13. a \in Version /\ (new = NoMeta => b = 0) /\ (new # NoMeta => b \in Version)
  BY <1>2, <1>3 DEF NoMeta
<1>5. m \in {a, b} /\ a <= m /\ b <= m
  <2>. HIDE DEF a, b
  <2>1. a \in Int /\ b \in Int
    BY <1>0, <1>13
  <2>2. CASE a >= b
    BY <2>1, <2>2 DEF Max
  <2>3. CASE b >= a
    BY <2>1, <2>3 DEF Max
  <2> QED
    BY <2>1, <2>2, <2>3
<1>6. \A v \in Version : HasRow(v) => v <= m
  <2>1. \A v \in Version : HasRow(v) => v <= a \/ (v <= b /\ new # NoMeta)
    BY <1>1, <1>2, <1>4
  <2>. HIDE DEF a, b, m
  <2>2. a \in Int /\ b \in Int /\ m \in Int
    BY <1>0, <1>5, <1>13
  <2> QED
    BY <1>0, <1>5, <2>1, <2>2
<1>7. m \in Version /\ HasRow(m) /\ row[m].model # pass.wants
  <2>1. row[a].model # pass.wants
    BY <1>2 DEF Fits, old
  <2>2. new # NoMeta => HasRow(b) /\ row[b].model # pass.wants
    BY <1>3 DEF Fits, new
  <2>3. m = b => new # NoMeta
    <3>. HIDE DEF a, b, m
    <3> QED
      BY <1>0, <1>2, <1>5, <1>13
  <2> QED
    BY <1>2, <1>5, <1>13, <2>1, <2>2, <2>3
<1>8. NextVersion = m + 1
  BY DEF NextVersion, old, new
<1>9. \/ pass.wants = config /\ m <= changes
      \/ pass.wants # config /\ m <= changes - 1
  <2>. HIDE DEF m
  <2>1. m \in Int /\ changes \in Int
    BY <1>7, Versions, Parts
  <2>2. m <= changes + 1 /\ (m = changes + 1 => row[m].model = config)
    BY <1>7 DEF IndexInv, Bounded
  <2>3. pass.wants # config => m <= changes /\ (m = changes => row[m].model = pass.wants)
    BY <1>7 DEF IndexInv, Bounded
  <2> QED
    BY <1>7, <2>1, <2>2, <2>3
<1>. HIDE DEF m
<1>10. m + 1 \in 1 .. changes + 1 /\ (m + 1 = changes + 1 => pass.wants = config)
  BY <1>7, <1>9, Versions, Parts
<1>11. m + 1 \in Version
  BY <1>7, <1>10, Versions, Parts
<1>12. ~HasRow(m + 1)
  BY <1>6, <1>7, <1>11, Versions
<1>14. \A v \in Version : HasRow(v) => v < m + 1
  BY <1>6, <1>7, Versions
<1> QED
  BY <1>8, <1>10, <1>11, <1>12, <1>14

LEMMA EnsureSafe == ASSUME IndexInv, EnsureVersion PROVE IndexInv'
<1>1. /\ pass.pc = "ensure" /\ UNCHANGED <<config, row, coll, search, changes, troubles>>
      /\ pass.wants \in Model
  BY DEF EnsureVersion, PassMay, IndexInv, Standing
<1>2. cache' \in [Replica -> FamilyVersions]
  BY Parts DEF EnsureVersion
<1>. DEFINE old == Stored.active
            new == Stored.building
<1>3. SUFFICES /\ pass' \in Passes /\ pass'.wants = pass.wants
               /\ \/ /\ pass'.pc = "fill"
                     /\ pass'.target \in Version /\ HasRow(pass'.target)
                  \/ /\ pass'.pc = "dropRow" /\ pass'.after = "fill"
                     /\ pass'.target \in Version /\ HasRow(pass'.target)
                     /\ row[pass'.target].active /\ pass'.target # pass'.doomed
                     /\ pass'.doomed \in Version
                  \/ /\ \/ pass'.pc = "collection"
                        \/ /\ pass'.pc = "dropRow" /\ pass'.after = "collection"
                           /\ pass'.doomed \in Version /\ ~row[pass'.doomed].active
                     /\ pass'.target \in Version /\ ~HasRow(pass'.target)
                     /\ pass'.target \in 1 .. changes + 1
                     /\ pass'.target = changes + 1 => pass.wants = config
  <2>1. VersionsTypeOK' /\ Aware'
    BY <1>1, <1>2, <1>3, Parts, StepTyped
  <2>2. Bounded' /\ Standing'
    BY <1>1, <1>3 DEF IndexInv, Bounded, Standing, Makes, HasRow
  <2> QED
    BY <1>1, <2>1, <2>2 DEF IndexInv, SomeAnswers, RowsHaveCollections, HasRow
<1>4. /\ pass \in Passes /\ pass.wants \in Model
      /\ 1 \in Version /\ 0 \in 0 .. MaxVersion
      /\ \A v \in Version : v \in 0 .. MaxVersion
      /\ {"fill", "dropRow", "collection"} \subseteq PassPlaces
  BY <1>1, Parts, Versions DEF PassPlaces
<1>5. /\ old # NoMeta => old.version \in Version /\ HasRow(old.version) /\ row[old.version].active
      /\ new # NoMeta => new.version \in Version /\ HasRow(new.version) /\ ~row[new.version].active
      /\ new = NoMeta => new.version = 0
  BY StoredIs, Parts DEF NoMeta
<1>6. CASE old = NoMeta /\ pass' = [pass EXCEPT !.pc = "collection", !.target = 1]
  <2>1. \A v \in Version : ~HasRow(v)
    BY <1>6, StoredIs, Parts DEF IndexInv, SomeAnswers
  <2>2. 1 \in 1 .. changes + 1
    BY Parts
  <2>3. 1 = changes + 1 => pass.wants = config
    BY <1>1, Parts DEF IndexInv, Bounded
  <2>4. /\ pass' \in Passes /\ pass'.wants = pass.wants /\ pass'.pc = "collection"
        /\ pass'.target = 1
    BY <1>4, <1>6, Parts, Versions DEF Passes
  <2> QED
    BY <1>4, <2>1, <2>2, <2>3, <2>4
<1>7. CASE old # NoMeta /\ pass' = [pass EXCEPT !.pc = "fill", !.target = old.version]
  <2>1. /\ pass' \in Passes /\ pass'.wants = pass.wants /\ pass'.pc = "fill"
        /\ pass'.target = old.version
    BY <1>4, <1>5, <1>7 DEF Passes
  <2> QED
    BY <1>5, <1>7, <2>1
<1>8. CASE new # NoMeta /\ pass' = [pass EXCEPT !.pc = "fill", !.target = new.version]
  <2>1. /\ pass' \in Passes /\ pass'.wants = pass.wants /\ pass'.pc = "fill"
        /\ pass'.target = new.version
    BY <1>4, <1>5, <1>8 DEF Passes
  <2> QED
    BY <1>5, <1>8, <2>1
<1>9. CASE /\ old # NoMeta /\ new # NoMeta
           /\ pass' = [pass EXCEPT !.pc = "dropRow", !.target = old.version,
                                   !.doomed = new.version, !.after = "fill"]
  <2>1. /\ pass' \in Passes /\ pass'.wants = pass.wants /\ pass'.pc = "dropRow"
        /\ pass'.target = old.version /\ pass'.doomed = new.version /\ pass'.after = "fill"
    BY <1>4, <1>5, <1>9 DEF Passes
  <2> QED
    BY <1>5, <1>9, <2>1
<1>10. CASE /\ old # NoMeta /\ ~Fits(old) /\ ~Fits(new)
            /\ pass' = [pass EXCEPT !.pc = IF new = NoMeta THEN "collection" ELSE "dropRow",
                                    !.target = NextVersion, !.doomed = new.version,
                                    !.after = "collection"]
  <2>1. /\ NextVersion \in Version /\ ~HasRow(NextVersion)
        /\ NextVersion \in 1 .. changes + 1
        /\ NextVersion = changes + 1 => pass.wants = config
    BY <1>1, <1>10, NextVersionIs
  <2>2. new.version \in 0 .. MaxVersion
    BY <1>4, <1>5
  <2>3. /\ pass' \in Passes /\ pass'.wants = pass.wants
        /\ pass'.pc = IF new = NoMeta THEN "collection" ELSE "dropRow"
        /\ pass'.target = NextVersion /\ pass'.doomed = new.version
        /\ pass'.after = "collection"
    BY <1>4, <1>10, <2>1, <2>2 DEF Passes
  <2> QED
    BY <1>5, <2>1, <2>3
<1>11. Fits(new) => new # NoMeta
  BY DEF Fits
<1> QED
  BY <1>6, <1>7, <1>8, <1>9, <1>10, <1>11 DEF EnsureVersion, Fits

-----------------------------------------------------------------------------
(* The theorems. *)

LEMMA IndexKept == IndexInv /\ [VersionsNext]_versionVars => IndexInv'
<1> SUFFICES ASSUME IndexInv, [VersionsNext]_versionVars PROVE IndexInv'
  OBVIOUS
<1>1. CASE PassStep
  BY <1>1, StartSafe, SitOutSafe, EnsureSafe, DropRowSafe, DropCollectionSafe,
     CollectionSafe, WriteRowSafe, FillSafe, DoneSafe, PromoteSafe DEF PassStep
<1>2. CASE \E q \in Search : SearchStep(q)
  BY <1>2, SearchSafe
<1>3. CASE ChangeModel
  BY <1>3, ChangeSafe
<1>4. CASE PassFails
  BY <1>4, FailSafe
<1>5. CASE \E a \in Replica : Restart(a) \/ CacheExpires(a) \/ AskGate(a) \/ ShowStatus(a)
  BY <1>5, AroundSafe DEF ShowStatus
<1>6. CASE UNCHANGED versionVars
  <2>1. VersionsTypeOK' /\ Aware'
    BY <1>6 DEF IndexInv, VersionsTypeOK, Aware, versionVars
  <2> QED
    BY <1>6, <2>1, Elsewhere DEF versionVars
<1> QED
  BY <1>1, <1>2, <1>3, <1>4, <1>5, <1>6 DEF VersionsNext

\* The inductive invariant holds in every reachable state.
THEOREM IndexInvariant == VersionsSpec => []IndexInv
BY InitIndex, IndexKept, PTL DEF VersionsSpec

\* The index of a family, its passes, its caches and its searches stay well
\* formed: a pass never takes a version there is no room for
\* (ensure_version, vector/adapters/qdrant_store.py).
THEOREM IndexTyped == VersionsSpec => []VersionsTypeOK
<1>1. IndexInv => VersionsTypeOK
  BY DEF IndexInv
<1> QED
  BY <1>1, IndexInvariant, PTL

\* Whatever fails or restarts, and wherever, a row of chunks_meta has its
\* collection (_create_version writes the row last, _drop_version deletes it
\* first, vector/adapters/qdrant_store.py).
THEOREM RowsSafe == VersionsSpec => []RowsHaveCollections
<1>1. IndexInv => RowsHaveCollections
  BY DEF IndexInv
<1> QED
  BY <1>1, IndexInvariant, PTL

-----------------------------------------------------------------------------
(* Whole answers, where no pass overtakes a read of its own process. *)

\* The rows of a family are ordered by what they are for: the row of a version
\* that is being filled is the newest, and the only one of its kind.  A pass
\* makes a version past every row, the first only where there is none, after it
\* dropped what an earlier pass left unfinished; it drops an active version only
\* in favour of a newer one.
Ordered ==
  /\ \A u, v \in Version :
       HasRow(u) /\ HasRow(v) /\ ~row[v].active /\ u # v => u < v
  /\ Makes => \A v \in Version : HasRow(v) => v < pass.target
  /\ Makes /\ pass.target # 1 => \E v \in Version : HasRow(v) /\ row[v].active
  /\ Makes => \A v \in Version : HasRow(v) /\ ~row[v].active =>
       pass.pc = "dropRow" /\ v = pass.doomed
  /\ pass.pc = "dropRow" /\ pass.after = "idle" => pass.doomed < pass.target
  /\ pass.pc = "dropRow" /\ pass.after # "idle" => ~row[pass.doomed].active

\* A version that took over holds every class; one that is being filled without
\* an error holds the classes walked so far.
Filled ==
  /\ \A v \in Version : HasRow(v) /\ row[v].active /\ v > 1 => coll[v].holds = Class
  /\ pass.pc = "row" => coll[pass.target].holds = {}
  /\ pass.pc = "ensure" \/ Makes => pass.todo = Class
  /\ pass.pc = "fill" /\ pass.clean /\ ~row[pass.target].active =>
       Class \ pass.todo \subseteq coll[pass.target].holds
  /\ pass.pc = "promote" => coll[pass.target].holds = Class

\* While a pass fills, its replica remembers nothing or the versions as they
\* are, and is told of no others.
Fresh ==
  pass.pc = "fill" =>
    /\ cache[pass.at].active = NoMeta \/ cache[pass.at] = Stored
    /\ \A q \in Search :
         search[q].pc \in Reads /\ search[q].at = pass.at => search[q].saw = Stored

\* The versions somebody found active, however long ago, and may still query.
Recalled ==
  {cache[a].active.version : a \in Replica} \union
  {search[q].saw.active.version :
     q \in {r \in Search : search[r].pc \in Reads \union {"query"}}}

\* Another version answers in its place, and its collection is whole or gone.
Trusted(n) ==
  /\ \E v \in Version : HasRow(v) /\ row[v].active /\ n <= v
  /\ coll[n] = NoColl \/ coll[n].holds = Class

Remembered == \A n \in Recalled : n > 1 => Trusted(n)

\* The inductive invariant, next to IndexInv.
WholeInv == Ordered /\ Filled /\ Fresh /\ Remembered /\ AnswersAreWhole

LEMMA RecalledTyped == ASSUME IndexInv PROVE Recalled \subseteq Version \union {0}
<1>1. ASSUME NEW m \in Metas PROVE m.version \in Version \union {0}
  BY <1>1 DEF Metas, NoMeta
<1>2. /\ \A a \in Replica : cache[a].active \in Metas
      /\ \A q \in Search : search[q].saw.active \in Metas
  BY Typed DEF IndexInv, Searches, FamilyVersions
<1> QED
  BY <1>1, <1>2 DEF Recalled

LEMMA StoredSame == ASSUME UNCHANGED row PROVE Stored' = Stored
BY DEF Stored, Newest

LEMMA ActiveHasRow ==
  IndexInv /\ Stored.active # NoMeta =>
    /\ Stored.active.version \in Version
    /\ HasRow(Stored.active.version)
    /\ row[Stored.active.version].active
BY StoredIs, Parts

LEMMA InitWhole == VersionsInit => WholeInv
<1> SUFFICES ASSUME VersionsInit PROVE WholeInv
  OBVIOUS
<1>1. /\ \A v \in Version : ~HasRow(v)
      /\ pass.pc = "idle"
      /\ \A q \in Search : search[q].pc = "idle"
  BY IdleTyped DEF VersionsInit, HasRow, NoRow
<1>2. Recalled \subseteq {0}
  BY <1>1 DEF Recalled, VersionsInit, Unknown, NoMeta, Reads
<1> QED
  BY <1>1, <1>2 DEF WholeInv, Ordered, Filled, Fresh, Remembered, AnswersAreWhole, Makes

\* What is remembered stays good where an active version gives way only to a
\* newer one, and a collection that was whole stays so or goes.
LEMMA RememberedKept ==
  ASSUME IndexInv, IndexInv', Remembered, Filled',
         Recalled' \subseteq Recalled \union {0, Stored'.active.version},
         \A v \in Version : HasRow(v) /\ row[v].active =>
           \E u \in Version : HasRow(u)' /\ row'[u].active /\ v <= u,
         \A n \in Version : n > 1 /\ Trusted(n) =>
           coll'[n] = NoColl \/ coll'[n].holds = Class
  PROVE  Remembered'
<1>1. SUFFICES ASSUME NEW n \in Recalled', n > 1
               PROVE  /\ \E v \in Version : HasRow(v)' /\ row'[v].active /\ n <= v
                      /\ coll'[n] = NoColl \/ coll'[n].holds = Class
  BY DEF Remembered, Trusted
<1>2. CASE n \in Recalled
  <2>1. n \in Version /\ Trusted(n)
    BY <1>1, <1>2, RecalledTyped DEF Remembered
  <2>2. PICK v \in Version : HasRow(v) /\ row[v].active /\ n <= v
    BY <2>1 DEF Trusted
  <2>3. PICK u \in Version : HasRow(u)' /\ row'[u].active /\ v <= u
    BY <2>2
  <2>4. n <= u
    BY <2>1, <2>2, <2>3, Versions
  <2> QED
    BY <1>1, <2>1, <2>3, <2>4
<1>3. CASE n = Stored'.active.version
  <2>1. (IndexInv /\ Stored.active # NoMeta =>
           /\ Stored.active.version \in Version
           /\ HasRow(Stored.active.version)
           /\ row[Stored.active.version].active)'
    BY ActiveHasRow, PTL
  <2>2. Stored'.active # NoMeta
    BY <1>1, <1>3 DEF NoMeta
  <2>3. n \in Version /\ HasRow(n)' /\ row'[n].active
    BY <1>3, <2>1, <2>2 DEF HasRow
  <2>4. n <= n
    BY <2>3, Versions
  <2> QED
    BY <1>1, <2>3, <2>4 DEF Filled
<1> QED
  BY <1>1, <1>2, <1>3

\* A step that leaves the rows, the collections and the pass alone.
LEMMA SameIndex ==
  ASSUME IndexInv, IndexInv', WholeInv, UNCHANGED <<row, coll, pass>>,
         Recalled' \subseteq Recalled \union {0, Stored.active.version}
  PROVE  Ordered' /\ Filled' /\ Remembered'
<1>1. Ordered' /\ Filled'
  BY DEF WholeInv, Ordered, Filled, Makes, HasRow
<1>2. Stored' = Stored
  BY StoredSame
<1>3. \A v \in Version : HasRow(v) /\ row[v].active =>
        \E u \in Version : HasRow(u)' /\ row'[u].active /\ v <= u
  BY Versions DEF HasRow
<1>4. \A n \in Version : n > 1 /\ Trusted(n) => coll'[n] = NoColl \/ coll'[n].holds = Class
  BY DEF Trusted
<1> QED
  BY <1>1, <1>2, <1>3, <1>4, RememberedKept DEF WholeInv

\* A step of one search.
LEMMA SearchMoves ==
  ASSUME IndexInv, IndexInv', WholeInv, UNCHANGED <<row, coll, pass>>,
         NEW q \in Search, NEW s \in Searches, search' = [search EXCEPT ![q] = s],
         \A a \in Replica :
           \/ cache'[a] = cache[a]
           \/ cache'[a] = search[q].saw /\ search[q].pc \in Reads /\ search[q].at = a,
         s.pc \in Reads => s.saw = Stored,
         s.pc = "query" => s.saw.active.version \in Recalled,
         s.pc = "answered" /\ s.saw.active.version > 1 => s.hit.holds = Class
  PROVE  WholeInv'
<1>1. /\ search \in [Search -> Searches] /\ search' \in [Search -> Searches]
      /\ search'[q] = s /\ \A p \in Search \ {q} : search'[p] = search[p]
  BY Typed DEF IndexInv
<1>2. Stored' = Stored
  BY StoredSame
<1>3. Recalled' \subseteq Recalled \union {0, Stored.active.version}
  <2>1. \A a \in Replica : cache'[a].active.version \in Recalled
    BY DEF Recalled
  <2>2. \A p \in Search : search'[p].pc \in Reads \union {"query"} =>
          search'[p].saw.active.version \in Recalled \union {Stored.active.version}
    BY <1>1 DEF Recalled
  <2> QED
    BY <2>1, <2>2 DEF Recalled
<1>4. Ordered' /\ Filled' /\ Remembered'
  BY <1>3, SameIndex
<1>5. Fresh'
  <2>1. pass.at \in Replica
    BY Parts
  <2> QED
    BY <1>1, <1>2, <2>1 DEF WholeInv, Fresh
<1>6. AnswersAreWhole'
  BY <1>1 DEF WholeInv, AnswersAreWhole
<1> QED
  BY <1>4, <1>5, <1>6 DEF WholeInv

LEMMA SearchWhole ==
  ASSUME IndexInv, IndexInv', WholeInv, NEW q \in Search, SearchStep(q)
  PROVE  WholeInv'
<1>1. /\ search[q] \in Searches /\ search[q].at \in Replica /\ search[q].saw \in FamilyVersions
      /\ search[q].pc \in SearchPlaces
      /\ config \in Model /\ cache \in [Replica -> FamilyVersions]
      /\ UNCHANGED <<row, coll, pass>>
  BY Typed DEF IndexInv, Searches, SearchStep, Ask, RecallVersions, ReadVersions,
               RememberVersions, Query
<1>2. /\ NotAsked \in Searches /\ Unanswered \in Searches /\ Unanswered.pc = "unanswered"
  BY IdleTyped DEF Searches, Unanswered, SearchPlaces
<1>3. ASSUME NEW versions \in FamilyVersions
      PROVE  /\ Verdict(q, versions) \in Searches
             /\ Verdict(q, versions).pc \in {"query", "unanswered", "find"}
             /\ Verdict(q, versions).pc = "query" =>
                  Verdict(q, versions).saw.active = versions.active
  <2>. DEFINE s == search[q]
              finding == s.pc \in {"find", "findRead"}
              hit == [s EXCEPT !.pc = "query", !.saw = [versions EXCEPT !.building = NoMeta]]
              onward == [s EXCEPT !.pc = "find", !.saw = Unknown]
  <2>1. [versions EXCEPT !.building = NoMeta] \in FamilyVersions
        /\ [versions EXCEPT !.building = NoMeta].active = versions.active
    BY NoneTyped DEF FamilyVersions
  <2>2. /\ hit \in Searches /\ hit.saw.active = versions.active /\ hit.pc = "query"
        /\ onward \in Searches /\ onward.pc = "find"
    BY <1>1, <2>1, NoneTyped DEF Searches, SearchPlaces, Pending, Lookups
  <2>3. \/ Verdict(q, versions) = hit
        \/ Verdict(q, versions) = Unanswered
        \/ Verdict(q, versions) = onward
    BY DEF Verdict
  <2>. HIDE DEF s, hit, onward
  <2> QED
    BY <1>2, <2>2, <2>3
<1>4. CASE Ask(q)
  <2>1. PICK a \in Replica :
          search' = [search EXCEPT ![q] = [NotAsked EXCEPT !.pc = "check", !.at = a,
                                                          !.model = config]]
    BY <1>4 DEF Ask
  <2>. DEFINE s == [NotAsked EXCEPT !.pc = "check", !.at = a, !.model = config]
  <2>2. s \in Searches /\ s.pc = "check"
    BY <1>1, <1>2 DEF Searches, SearchPlaces, Pending, Lookups
  <2>3. cache' = cache
    BY <1>4 DEF Ask
  <2>. HIDE DEF s
  <2>4. search' = [search EXCEPT ![q] = s]
    BY <2>1 DEF s
  <2> QED
    BY <1>1, <2>2, <2>3, <2>4, SearchMoves DEF Reads
<1>5. CASE RecallVersions(q)
  <2>. DEFINE s == Verdict(q, cache[search[q].at])
  <2>1. cache[search[q].at] \in FamilyVersions /\ cache[search[q].at].active.version \in Recalled
    BY <1>1 DEF Recalled
  <2>2. /\ s \in Searches /\ s.pc \in {"query", "unanswered", "find"}
        /\ s.pc = "query" => s.saw.active.version \in Recalled
    BY <1>3, <2>1
  <2>3. search' = [search EXCEPT ![q] = s] /\ cache' = cache
    BY <1>5 DEF RecallVersions
  <2>. HIDE DEF s
  <2> QED
    BY <1>1, <2>2, <2>3, SearchMoves DEF Reads
<1>6. CASE ReadVersions(q)
  <2>. DEFINE s == [search[q] EXCEPT !.pc = IF @ = "check" THEN "checkRead" ELSE "findRead",
                                    !.saw = Stored]
  <2>1. search' = [search EXCEPT ![q] = s] /\ cache' = cache
    BY <1>6 DEF ReadVersions
  <2>2. s \in Searches /\ s.pc \in Reads /\ s.saw = Stored
    BY <1>1, Parts, StoredTyped DEF Searches, SearchPlaces, Pending, Reads
  <2>. HIDE DEF s
  <2> QED
    BY <1>1, <2>1, <2>2, SearchMoves DEF Reads
<1>7. CASE RememberVersions(q)
  <2>. DEFINE s == Verdict(q, search[q].saw)
  <2>1. search' = [search EXCEPT ![q] = s] /\ search[q].pc \in Reads
    BY <1>7 DEF RememberVersions
  <2>2. search[q].saw.active.version \in Recalled
    BY <2>1 DEF Recalled
  <2>3. /\ s \in Searches /\ s.pc \in {"query", "unanswered", "find"}
        /\ s.pc = "query" => s.saw.active.version \in Recalled
    BY <1>1, <1>3, <2>2
  <2>4. \A a \in Replica : cache'[a] = cache[a]
                           \/ (cache'[a] = search[q].saw /\ search[q].at = a)
    BY <1>1, <1>7 DEF RememberVersions, Remembering
  <2>. HIDE DEF s
  <2> QED
    BY <1>1, <2>1, <2>3, <2>4, SearchMoves DEF Reads
<1>8. CASE Query(q)
  <2>. DEFINE found == coll[search[q].saw.active.version]
              hit == [search[q] EXCEPT !.pc = "answered", !.hit = found]
  <2>1. /\ search[q].pc = "query" /\ cache' = cache
        /\ \/ search' = [search EXCEPT ![q] = Unanswered]
           \/ found # NoColl /\ search' = [search EXCEPT ![q].pc = "answered", ![q].hit = found]
    BY <1>8 DEF Query, Confirm
  <2>2. search[q].saw.active \in [version : Version, model : Model]
    BY <1>1, <2>1 DEF IndexInv, Aware, FamilyVersions, Metas
  <2>3. search[q].saw.active.version \in Recalled
    BY <2>1 DEF Recalled
  <2>4. found # NoColl /\ search[q].saw.active.version > 1 => found.holds = Class
    BY <2>3 DEF WholeInv, Remembered, Trusted
  <2>5. found \in [model : Model \union {NoModel}, holds : SUBSET Class]
    BY <2>2, Parts DEF Colls
  <2>6. /\ hit \in Searches /\ hit.pc = "answered" /\ hit.hit = found
        /\ hit.saw = search[q].saw
    BY <1>1, <2>5 DEF Searches, SearchPlaces
  <2>7. \/ search' = [search EXCEPT ![q] = Unanswered]
        \/ found # NoColl /\ search' = [search EXCEPT ![q] = hit]
    BY <2>1
  <2>. HIDE DEF found, hit
  <2>8. CASE search' = [search EXCEPT ![q] = Unanswered]
    BY <1>1, <1>2, <2>1, <2>8, SearchMoves DEF Reads
  <2>9. CASE found # NoColl /\ search' = [search EXCEPT ![q] = hit]
    BY <1>1, <2>1, <2>4, <2>6, <2>9, SearchMoves DEF Reads
  <2> QED
    BY <2>7, <2>8, <2>9
<1> QED
  BY <1>4, <1>5, <1>6, <1>7, <1>8 DEF SearchStep

\* A step of the caches alone.
LEMMA CacheMoves ==
  ASSUME IndexInv, UNCHANGED search,
         \A a \in Replica :
           cache'[a].active \in {cache[a].active, NoMeta, Stored.active}
  PROVE  Recalled' \subseteq Recalled \union {0, Stored.active.version}
<1>1. \A a \in Replica : cache'[a].active.version \in Recalled \union {0, Stored.active.version}
  BY DEF Recalled, NoMeta
<1> QED
  BY <1>1 DEF Recalled

LEMMA AroundWhole ==
  ASSUME IndexInv, IndexInv', WholeInv, NEW a \in Replica,
         Restart(a) \/ CacheExpires(a) \/ AskGate(a)
  PROVE  WholeInv'
<1>1. cache \in [Replica -> FamilyVersions] /\ pass.at \in Replica
  BY Parts
<1>2. Unanswered.pc = "unanswered"
  BY IdleTyped DEF Unanswered, Searches
<1>3. Stored' = Stored /\ UNCHANGED <<row, coll>>
  BY StoredSame DEF Restart, CacheExpires, AskGate
<1>4. CASE Restart(a)
  <2>1. /\ \A r \in Replica : cache'[r].active.version \in Recalled \union {0}
        /\ pass' = pass \/ pass' = Idle
        /\ \A q \in Search : search'[q] = search[q] \/ search'[q].pc = "unanswered"
        /\ pass' = pass => cache'[pass.at] = cache[pass.at] \/ pass.pc = "idle"
    BY <1>1, <1>2, <1>4, IdleTyped DEF Restart, Recalled, Unknown, NoMeta
  <2>2. Recalled' \subseteq Recalled \union {0, Stored.active.version}
    BY <2>1 DEF Recalled, Reads
  <2>3. AnswersAreWhole'
    BY <2>1 DEF WholeInv, AnswersAreWhole
  <2>4. CASE pass' = pass
    <3>1. Fresh'
      BY <1>3, <2>1, <2>4 DEF WholeInv, Fresh, Reads
    <3> QED
      BY <1>3, <2>2, <2>3, <2>4, <3>1, SameIndex DEF WholeInv
  <2>5. CASE pass' = Idle
    <3>1. Fresh' /\ Ordered' /\ Filled'
      BY <1>3, <2>5, IdleTyped DEF WholeInv, Fresh, Ordered, Filled, Makes, HasRow
    <3>2. Remembered'
      <4>1. \A v \in Version : HasRow(v) /\ row[v].active =>
              \E u \in Version : HasRow(u)' /\ row'[u].active /\ v <= u
        BY <1>3, Versions DEF HasRow
      <4>2. \A n \in Version : n > 1 /\ Trusted(n) =>
              coll'[n] = NoColl \/ coll'[n].holds = Class
        BY <1>3 DEF Trusted
      <4> QED
        BY <1>3, <2>2, <3>1, <4>1, <4>2, RememberedKept DEF WholeInv
    <3> QED
      BY <2>3, <3>1, <3>2 DEF WholeInv
  <2> QED
    BY <2>1, <2>4, <2>5
<1>5. CASE CacheExpires(a) \/ AskGate(a)
  <2>1. /\ UNCHANGED <<pass, search>>
        /\ \A r \in Replica : cache'[r] \in {cache[r], Unknown, Stored}
    BY <1>1, <1>5 DEF CacheExpires, AskGate, Remembering
  <2>2. \A r \in Replica : cache'[r].active \in {cache[r].active, NoMeta, Stored.active}
    BY <2>1 DEF Unknown
  <2>3. Fresh'
    BY <1>1, <1>3, <2>1 DEF WholeInv, Fresh, Unknown
  <2>4. AnswersAreWhole'
    BY <2>1 DEF WholeInv, AnswersAreWhole
  <2> QED
    BY <1>3, <2>1, <2>2, <2>3, <2>4, CacheMoves, SameIndex DEF WholeInv
<1> QED
  BY <1>4, <1>5

\* A step of a pass, or around it.
LEMMA PassMoves ==
  ASSUME IndexInv, IndexInv', WholeInv, UNCHANGED search,
         Ordered', Filled', Fresh',
         \A a \in Replica :
           cache'[a].active \in {cache[a].active, NoMeta, Stored'.active},
         \A v \in Version : HasRow(v) /\ row[v].active =>
           \E u \in Version : HasRow(u)' /\ row'[u].active /\ v <= u,
         \A n \in Version : n > 1 /\ Trusted(n) =>
           coll'[n] = NoColl \/ coll'[n].holds = Class
  PROVE  WholeInv'
<1>2. \A a \in Replica :
        cache'[a].active.version \in Recalled \union {0, Stored'.active.version}
  BY DEF Recalled, NoMeta
<1>3. Recalled' \subseteq Recalled \union {0, Stored'.active.version}
  BY <1>2 DEF Recalled
<1>4. Remembered'
  BY <1>3, RememberedKept DEF WholeInv
<1>5. AnswersAreWhole'
  BY DEF WholeInv, AnswersAreWhole
<1> QED
  BY <1>4, <1>5 DEF WholeInv

\* What a pass that looks the versions up leaves in the caches.
LEMMA Looked ==
  ASSUME IndexInv
  PROVE  /\ \A a \in Replica :
              /\ Remembering(pass.at, Stored)[a].active \in {cache[a].active, Stored.active}
              /\ Remembering(pass.at, Known(pass.at))[a].active
                   \in {cache[a].active, Stored.active}
              /\ [cache EXCEPT ![pass.at] = Unknown][a].active
                   \in {cache[a].active, NoMeta}
         /\ Stored.active # NoMeta => Remembering(pass.at, Stored)[pass.at] = Stored
<1>1. cache \in [Replica -> FamilyVersions] /\ pass.at \in Replica
  BY Parts
<1> QED
  BY <1>1 DEF Remembering, Known, Unknown

\* A pass that ends, or a collection that no row names goes with it.
LEMMA PassRests ==
  ASSUME IndexInv, IndexInv', WholeInv, UNCHANGED <<row, search>>, pass'.pc = "idle",
         \/ UNCHANGED coll
         \/ pass.pc = "dropColl" /\ coll' = [coll EXCEPT ![pass.doomed] = NoColl],
         \A a \in Replica : cache'[a].active \in {cache[a].active, NoMeta, Stored.active}
  PROVE  WholeInv'
<1>1. Stored' = Stored
  BY StoredSame
<1>2. /\ \A v \in Version : coll'[v] \in {coll[v], NoColl}
      /\ \A v \in Version : HasRow(v) => coll'[v] = coll[v]
  BY Parts DEF IndexInv, Standing, Colls
<1>3. Ordered' /\ Filled' /\ Fresh'
  BY <1>2 DEF WholeInv, Ordered, Filled, Fresh, Makes, HasRow
<1>4. \A v \in Version : HasRow(v) /\ row[v].active =>
        \E u \in Version : HasRow(u)' /\ row'[u].active /\ v <= u
  BY Versions DEF HasRow
<1>5. \A n \in Version : n > 1 /\ Trusted(n) => coll'[n] = NoColl \/ coll'[n].holds = Class
  BY <1>2 DEF Trusted
<1> QED
  BY <1>1, <1>3, <1>4, <1>5, PassMoves

LEMMA SitOutWhole == ASSUME IndexInv, IndexInv', WholeInv, SitOut PROVE WholeInv'
<1>1. /\ pass' = Idle /\ UNCHANGED <<row, coll, search>>
      /\ cache' = Remembering(pass.at, Known(pass.at))
  BY DEF SitOut
<1>2. \A a \in Replica : cache'[a].active \in {cache[a].active, NoMeta, Stored.active}
  BY <1>1, Looked
<1> QED
  BY <1>1, <1>2, PassRests, IdleTyped

LEMMA FailWhole == ASSUME IndexInv, IndexInv', WholeInv, PassFails PROVE WholeInv'
<1>1. /\ pass' = Idle /\ UNCHANGED <<row, cache, search>>
      /\ \/ UNCHANGED coll
         \/ pass.pc = "dropColl" /\ coll' = [coll EXCEPT ![pass.doomed] = NoColl]
  BY DEF PassFails
<1> QED
  BY <1>1, PassRests, IdleTyped

LEMMA StartWhole == ASSUME IndexInv, IndexInv', WholeInv, StartPass PROVE WholeInv'
<1>1. /\ pass'.pc = "ensure" /\ pass'.todo = Class
      /\ UNCHANGED <<row, coll, cache, search>>
  BY IdleTyped DEF StartPass, Passes
<1>2. Ordered' /\ Filled' /\ Fresh'
  BY <1>1 DEF WholeInv, Ordered, Filled, Fresh, Makes, HasRow
<1>3. \A v \in Version : HasRow(v) /\ row[v].active =>
        \E u \in Version : HasRow(u)' /\ row'[u].active /\ v <= u
  BY <1>1, Versions DEF HasRow
<1> QED
  BY <1>1, <1>2, <1>3, PassMoves DEF Trusted

LEMMA ChangeWhole == ASSUME IndexInv, IndexInv', WholeInv, ChangeModel PROVE WholeInv'
<1>1. UNCHANGED <<row, coll, pass, cache, search>>
  BY DEF ChangeModel
<1>2. Stored' = Stored /\ Recalled' = Recalled
  BY <1>1, StoredSame DEF Recalled
<1>3. Fresh' /\ AnswersAreWhole'
  BY <1>1, <1>2 DEF WholeInv, Fresh, AnswersAreWhole
<1> QED
  BY <1>1, <1>2, <1>3, SameIndex DEF WholeInv

\* An active version goes only for a newer one that is active.
LEMMA DropRowWhole == ASSUME IndexInv, IndexInv', WholeInv, DropRow PROVE WholeInv'
<1>1. /\ pass.pc = "dropRow" /\ pass.doomed \in Version
      /\ pass.after \in {"fill", "idle", "collection"}
      /\ row' = [row EXCEPT ![pass.doomed] = NoRow]
      /\ pass' = [pass EXCEPT !.pc = "dropColl"]
      /\ UNCHANGED <<coll, cache, search>>
  BY DEF DropRow, PassMay, IndexInv, Standing
<1>2. /\ \A v \in Version : v # pass.doomed => row'[v] = row[v]
      /\ \A v \in Version : HasRow(v)' => HasRow(v) /\ v # pass.doomed
      /\ \A v \in Version : HasRow(v) /\ v # pass.doomed => HasRow(v)'
  BY <1>1, Parts DEF HasRow, NoRow, Rows
<1>3. /\ pass'.pc = "dropColl" /\ pass'.target = pass.target /\ pass'.after = pass.after
      /\ pass'.todo = pass.todo /\ (Makes' <=> Makes)
  BY <1>1, Parts DEF Passes, Makes
<1>4. Makes => ~row[pass.doomed].active
  BY <1>1 DEF Makes, WholeInv, Ordered
<1>5. Ordered'
  <2>1. Makes /\ pass.target # 1 => \E v \in Version : HasRow(v)' /\ row'[v].active
    BY <1>2, <1>4 DEF WholeInv, Ordered
  <2> QED
    BY <1>2, <1>3, <2>1 DEF WholeInv, Ordered, HasRow
<1>6. Filled' /\ Fresh'
  BY <1>1, <1>2, <1>3 DEF WholeInv, Filled, Fresh, HasRow
<1>7. \A v \in Version : HasRow(v) /\ row[v].active =>
        \E u \in Version : HasRow(u)' /\ row'[u].active /\ v <= u
  <2>1. SUFFICES ASSUME NEW v \in Version, HasRow(v), row[v].active
                 PROVE  \E u \in Version : HasRow(u)' /\ row'[u].active /\ v <= u
    OBVIOUS
  <2>2. CASE v # pass.doomed
    BY <1>2, <2>1, <2>2, Versions
  <2>3. CASE v = pass.doomed
    <3>1. pass.after = "idle" /\ v < pass.target
      BY <1>1, <2>1, <2>3 DEF WholeInv, Ordered
    <3>2. /\ pass.target \in Version /\ HasRow(pass.target) /\ row[pass.target].active
          /\ pass.target # pass.doomed
      BY <1>1, <3>1 DEF IndexInv, Standing
    <3> QED
      BY <1>2, <3>1, <3>2, Versions
  <2> QED
    BY <2>2, <2>3
<1> QED
  BY <1>1, <1>5, <1>6, <1>7, PassMoves DEF Trusted

LEMMA DropCollectionWhole ==
  ASSUME IndexInv, IndexInv', WholeInv, ~SlowReads, DropCollection PROVE WholeInv'
<1>1. /\ pass.pc = "dropColl" /\ pass.doomed \in Version /\ ~HasRow(pass.doomed)
      /\ coll' = [coll EXCEPT ![pass.doomed] = NoColl]
      /\ pass' = [pass EXCEPT !.pc = pass.after]
      /\ pass.after \in {"fill", "idle", "collection"} /\ ~Reading
      /\ cache' = IF pass.after = "collection" THEN cache ELSE Remembering(pass.at, Stored)
      /\ UNCHANGED <<row, search>>
  BY DEF DropCollection, PassMay, IndexInv, Standing
<1>2. /\ \A v \in Version : coll'[v] \in {coll[v], NoColl}
      /\ \A v \in Version : HasRow(v) => coll'[v] = coll[v]
  BY <1>1, Parts DEF Colls
<1>3. /\ pass'.pc = pass.after /\ pass'.target = pass.target /\ pass'.after = pass.after
      /\ pass'.todo = pass.todo /\ pass'.at = pass.at /\ (Makes' <=> Makes)
  BY <1>1, Parts DEF Passes, Makes
<1>4. Stored' = Stored
  BY <1>1, StoredSame
<1>5. Ordered'
  BY <1>1, <1>3 DEF WholeInv, Ordered, HasRow
<1>6. Filled'
  <2>1. pass.after # "collection" => row[pass.target].active
    BY <1>1 DEF IndexInv, Standing
  <2> QED
    BY <1>1, <1>2, <1>3, <2>1 DEF WholeInv, Filled, HasRow
<1>7. Fresh'
  <2>1. SUFFICES ASSUME pass.after = "fill" PROVE Fresh'
    BY <1>1, <1>3 DEF Fresh
  <2>2. Stored.active # NoMeta
    <3>1. HasRow(pass.target) /\ row[pass.target].active /\ pass.target \in Version
      BY <1>1, <2>1 DEF IndexInv, Standing
    <3> QED
      BY <3>1, StoredIs, Parts
  <2>3. cache'[pass.at] = Stored
    BY <1>1, <2>1, <2>2, Looked
  <2> QED
    BY <1>1, <1>3, <1>4, <2>3 DEF Fresh, Reading
<1>8. \A v \in Version : HasRow(v) /\ row[v].active =>
        \E u \in Version : HasRow(u)' /\ row'[u].active /\ v <= u
  BY <1>1, Versions DEF HasRow
<1>9. \A n \in Version : n > 1 /\ Trusted(n) => coll'[n] = NoColl \/ coll'[n].holds = Class
  BY <1>2 DEF Trusted
<1>10. \A a \in Replica : cache'[a].active \in {cache[a].active, NoMeta, Stored'.active}
  BY <1>1, <1>4, Looked
<1> QED
  BY <1>1, <1>5, <1>6, <1>7, <1>8, <1>9, <1>10, PassMoves

\* A new collection takes no number that anybody remembers.
LEMMA CollectionWhole ==
  ASSUME IndexInv, IndexInv', WholeInv, DropOrphan \/ CreateCollection PROVE WholeInv'
<1>1. /\ pass.pc = "collection" /\ Makes /\ pass.target \in Version /\ ~HasRow(pass.target)
  BY DEF DropOrphan, CreateCollection, PassMay, IndexInv, Standing, Makes
<1>2. PICK c \in {NoColl, [model |-> pass.wants, holds |-> {}]} :
        /\ coll' = [coll EXCEPT ![pass.target] = c]
        /\ \/ UNCHANGED pass
           \/ pass' = [pass EXCEPT !.pc = "row"]
        /\ UNCHANGED <<row, cache, search>>
  BY DEF DropOrphan, CreateCollection
<1>3. c.holds = {}
  BY <1>2 DEF NoColl
<1>4. /\ pass'.pc \in {"collection", "row"} /\ pass'.target = pass.target
      /\ pass'.todo = pass.todo /\ Makes'
  BY <1>1, <1>2, Parts DEF Passes, Makes
<1>5. /\ coll'[pass.target] = c
      /\ \A v \in Version : v # pass.target => coll'[v] = coll[v]
  BY <1>1, <1>2, Parts DEF Colls
<1>6. Ordered'
  BY <1>1, <1>2, <1>4 DEF WholeInv, Ordered, HasRow
<1>7. Filled' /\ Fresh'
  BY <1>1, <1>2, <1>3, <1>4, <1>5 DEF WholeInv, Filled, Fresh, HasRow
<1>8. \A v \in Version : HasRow(v) /\ row[v].active =>
        \E u \in Version : HasRow(u)' /\ row'[u].active /\ v <= u
  BY <1>2, Versions DEF HasRow
<1>9. \A n \in Version : n > 1 /\ Trusted(n) => coll'[n] = NoColl \/ coll'[n].holds = Class
  <2>1. ASSUME NEW n \in Version, Trusted(n) PROVE n # pass.target
    <3>1. PICK v \in Version : HasRow(v) /\ n <= v
      BY <2>1 DEF Trusted
    <3>2. v < pass.target
      BY <1>1, <3>1 DEF WholeInv, Ordered
    <3> QED
      BY <1>1, <3>1, <3>2, Versions
  <2> QED
    BY <1>5, <2>1 DEF Trusted
<1> QED
  BY <1>2, <1>6, <1>7, <1>8, <1>9, PassMoves

LEMMA WriteRowWhole ==
  ASSUME IndexInv, IndexInv', WholeInv, ~SlowReads, WriteRow PROVE WholeInv'
<1>1. /\ pass.pc = "row" /\ Makes /\ pass.target \in Version /\ ~HasRow(pass.target)
      /\ pass.wants \in Model /\ ~Reading
      /\ row' = [row EXCEPT ![pass.target] = [model |-> pass.wants, active |-> BornActive]]
      /\ cache' = [cache EXCEPT ![pass.at] = Stored']
      /\ pass' = [pass EXCEPT !.pc = "fill"]
      /\ UNCHANGED <<coll, search>>
  BY DEF WriteRow, PassMay, IndexInv, Standing, Makes
<1>2. /\ pass'.pc = "fill" /\ pass'.target = pass.target /\ pass'.todo = Class
      /\ pass'.at = pass.at /\ ~Makes'
  BY <1>1, Parts DEF Passes, Makes, WholeInv, Filled
<1>3. /\ row'[pass.target].active = BornActive
      /\ \A v \in Version : v # pass.target => row'[v] = row[v]
      /\ \A v \in Version : HasRow(v) => HasRow(v)' /\ row'[v] = row[v] /\ v # pass.target
      /\ \A v \in Version : HasRow(v)' => HasRow(v) \/ v = pass.target
  BY <1>1, Parts DEF Rows, HasRow
<1>4. Ordered'
  <2>1. \A v \in Version : HasRow(v) => v < pass.target /\ row[v].active
    BY <1>1 DEF WholeInv, Ordered
  <2>2. ASSUME NEW u \in Version, NEW v \in Version, HasRow(u)', HasRow(v)',
               ~row'[v].active, u # v
        PROVE  u < v
    BY <1>3, <2>1, <2>2
  <2> QED
    BY <1>2, <2>2 DEF Ordered, HasRow
<1>5. BornActive => pass.target = 1
  <2>1. BornActive => ~\E v \in Version : HasRow(v) /\ row[v].active
    BY StoredIs, Parts DEF BornActive
  <2> QED
    BY <1>1, <2>1 DEF WholeInv, Ordered
<1>6. Filled'
  <2>1. \A v \in Version : HasRow(v)' /\ row'[v].active /\ v > 1 => coll[v].holds = Class
    BY <1>3, <1>5 DEF WholeInv, Filled
  <2>2. pass'.todo = Class => Class \ pass'.todo \subseteq coll[pass.target].holds
    OBVIOUS
  <2> QED
    BY <1>1, <1>2, <2>1, <2>2 DEF Filled, HasRow
<1>7. Fresh'
  <2>1. cache'[pass.at] = Stored'
    BY <1>1, Parts
  <2> QED
    BY <1>1, <1>2, <2>1 DEF Fresh, Reading
<1>8. \A v \in Version : HasRow(v) /\ row[v].active =>
        \E u \in Version : HasRow(u)' /\ row'[u].active /\ v <= u
  BY <1>3, Versions
<1>9. \A a \in Replica : cache'[a].active \in {cache[a].active, NoMeta, Stored'.active}
  BY <1>1, Parts
<1> QED
  BY <1>1, <1>4, <1>6, <1>7, <1>8, <1>9, PassMoves DEF Trusted

\* The chunks of a class go into the version that is being filled.
LEMMA WritesWhereItFills ==
  ASSUME IndexInv, WholeInv, pass.pc = "fill"
  PROVE  /\ WriteMeta.version \in Version /\ HasRow(WriteMeta.version)
         /\ ~row[pass.target].active => WriteMeta.version = pass.target
         /\ Known(pass.at) = Stored
<1>1. Known(pass.at) = Stored
  BY DEF WholeInv, Fresh, Known
<1>2. pass.target \in Version /\ HasRow(pass.target)
  BY DEF IndexInv, Standing
<1>3. WriteMeta = IF Stored.building # NoMeta THEN Stored.building ELSE Stored.active
  BY <1>1 DEF WriteMeta
<1>4. WriteMeta.version \in Version /\ WriteMeta # NoMeta
  BY WriteMetaIs, Versions DEF NoMeta
<1>5. HasRow(WriteMeta.version)
  BY <1>3, <1>4, StoredIs, Parts
<1>6. ASSUME ~row[pass.target].active PROVE WriteMeta.version = pass.target
  <2>1. Stored.building # NoMeta
    BY <1>2, <1>6, StoredIs, Parts
  <2>2. /\ WriteMeta = Stored.building /\ ~row[WriteMeta.version].active
    BY <1>3, <2>1, StoredIs, Parts
  <2>3. \A u, v \in Version : HasRow(u) /\ HasRow(v) /\ ~row[v].active /\ u # v => u < v
    BY DEF WholeInv, Ordered
  <2>. DEFINE w == WriteMeta.version
              t == pass.target
  <2>4. w \in Version /\ t \in Version /\ (w # t => w < t /\ t < w)
    BY <1>2, <1>4, <1>5, <1>6, <2>2, <2>3
  <2>. HIDE DEF w, t
  <2>5. w = t
    BY <2>4, Versions
  <2> QED
    BY <2>5 DEF w, t
<1> QED
  BY <1>1, <1>4, <1>5, <1>6

LEMMA FillWhole ==
  ASSUME IndexInv, IndexInv', WholeInv, SweepClass \/ ClassFails PROVE WholeInv'
<1>1. pass.pc = "fill" /\ WriteMeta.version \in Version /\ HasRow(WriteMeta.version)
  BY WritesWhereItFills DEF SweepClass, ClassFails, PassMay
<1>. DEFINE w == WriteMeta.version
<1>2. PICK c \in pass.todo :
        /\ \/ /\ pass' = [pass EXCEPT !.todo = @ \ {c}]
              /\ \/ c \in coll[w].holds /\ UNCHANGED coll
                 \/ coll' = [coll EXCEPT ![w].holds = @ \union {c}]
           \/ /\ pass' = [pass EXCEPT !.todo = @ \ {c}, !.clean = FALSE]
              /\ UNCHANGED coll
        /\ UNCHANGED <<row, search>>
        /\ UNCHANGED cache \/ cache' = Remembering(pass.at, Known(pass.at))
  BY DEF SweepClass, ClassFails
<1>3. /\ ~row[pass.target].active => w = pass.target
      /\ Known(pass.at) = Stored
  BY <1>1, WritesWhereItFills
<1>4. pass.target \in Version /\ pass.todo \subseteq Class /\ c \in Class
  BY <1>1, <1>2, Parts DEF IndexInv, Standing, Passes
<1>. HIDE DEF w
<1>5. /\ pass'.pc = "fill" /\ pass'.target = pass.target /\ pass'.at = pass.at
      /\ pass'.todo = pass.todo \ {c} /\ ~Makes'
      /\ pass'.clean => pass.clean /\ c \in coll'[w].holds
  <2>1. w \in Version
    BY <1>1 DEF w
  <2>2. /\ pass'.pc = "fill" /\ pass'.target = pass.target /\ pass'.at = pass.at
        /\ pass'.todo = pass.todo \ {c}
    BY <1>1, <1>2, Parts DEF Passes
  <2>3. CASE pass' = [pass EXCEPT !.todo = @ \ {c}, !.clean = FALSE]
    BY <2>2, <2>3, Parts DEF Passes, Makes
  <2>4. CASE pass' = [pass EXCEPT !.todo = @ \ {c}] /\ UNCHANGED coll /\ c \in coll[w].holds
    BY <2>2, <2>4, Parts DEF Passes, Makes
  <2>5. CASE /\ pass' = [pass EXCEPT !.todo = @ \ {c}]
             /\ coll' = [coll EXCEPT ![w].holds = @ \union {c}]
    <3>1. c \in coll'[w].holds
      BY <2>1, <2>5, Parts DEF Colls
    <3> QED
      BY <2>2, <2>5, <3>1, Parts DEF Passes, Makes
  <2> QED
    BY <1>2, <2>3, <2>4, <2>5
<1>6. /\ \A v \in Version : /\ coll[v].holds \subseteq coll'[v].holds
                            /\ coll'[v].holds \subseteq Class
                            /\ coll'[v].model = coll[v].model
      /\ \A v \in Version : v # w => coll'[v] = coll[v]
  <2>1. w \in Version
    BY <1>1 DEF w
  <2> QED
    BY <1>2, <1>4, <2>1, Parts DEF Colls
<1>7. Stored' = Stored
  BY <1>2, StoredSame
<1>8. \A a \in Replica : /\ cache'[a].active \in {cache[a].active, NoMeta, Stored'.active}
                         /\ cache'[a] \in {cache[a], Stored}
  BY <1>2, <1>3, <1>7, Parts DEF Remembering
<1>9. Ordered'
  BY <1>1, <1>2, <1>5 DEF WholeInv, Ordered, HasRow
<1>10. Filled'
  <2>1. ASSUME NEW v \in Version, HasRow(v), row[v].active, v > 1
        PROVE  coll'[v].holds = Class
    <3>1. coll[v].holds = Class
      BY <2>1 DEF WholeInv, Filled
    <3> QED
      BY <1>6, <3>1
  <2>2. pass'.clean /\ ~row[pass.target].active =>
          Class \ pass'.todo \subseteq coll'[pass.target].holds
    BY <1>1, <1>3, <1>4, <1>5, <1>6 DEF WholeInv, Filled
  <2> QED
    BY <1>2, <1>5, <2>1, <2>2 DEF Filled, HasRow
<1>11. Fresh'
  BY <1>1, <1>2, <1>5, <1>7, <1>8, Parts DEF WholeInv, Fresh
<1>12. \A v \in Version : HasRow(v) /\ row[v].active =>
         \E u \in Version : HasRow(u)' /\ row'[u].active /\ v <= u
  BY <1>2, Versions DEF HasRow
<1>13. \A n \in Version : n > 1 /\ Trusted(n) => coll'[n] = NoColl \/ coll'[n].holds = Class
  <2>1. coll[w] # NoColl
    BY <1>1 DEF IndexInv, RowsHaveCollections, HasRow, NoColl, w
  <2> QED
    BY <1>6, <2>1 DEF Trusted
<1> QED
  BY <1>2, <1>8, <1>9, <1>10, <1>11, <1>12, <1>13, PassMoves

\* Only a fill without an error goes on to the switch.
LEMMA DoneWhole == ASSUME IndexInv, IndexInv', WholeInv, ClassesDone PROVE WholeInv'
<1>1. /\ pass.pc = "fill" /\ pass.todo = {} /\ UNCHANGED <<row, coll, cache, search>>
      /\ \/ pass' = [pass EXCEPT !.pc = "promote"] /\ ~row[pass.target].active /\ pass.clean
         \/ pass' = Idle
  BY DEF ClassesDone, PassMay, MaySwitch
<1>2. CASE pass' = Idle
  BY <1>1, <1>2, PassRests, IdleTyped
<1>3. CASE pass' = [pass EXCEPT !.pc = "promote"] /\ ~row[pass.target].active /\ pass.clean
  <2>1. pass'.pc = "promote" /\ pass'.target = pass.target /\ ~Makes'
    BY <1>3, Parts DEF Passes, Makes
  <2>2. coll[pass.target].holds = Class
    <3>1. coll[pass.target].holds \subseteq Class
      BY <1>1, Parts DEF IndexInv, Standing, Colls
    <3> QED
      BY <1>1, <1>3, <3>1 DEF WholeInv, Filled
  <2>3. Ordered' /\ Filled' /\ Fresh'
    BY <1>1, <2>1, <2>2 DEF WholeInv, Ordered, Filled, Fresh, HasRow
  <2>4. \A v \in Version : HasRow(v) /\ row[v].active =>
          \E u \in Version : HasRow(u)' /\ row'[u].active /\ v <= u
    BY <1>1, Versions DEF HasRow
  <2> QED
    BY <1>1, <2>3, <2>4, PassMoves DEF Trusted
<1> QED
  BY <1>1, <1>2, <1>3

LEMMA PromoteWhole == ASSUME IndexInv, IndexInv', WholeInv, Promote PROVE WholeInv'
<1>1. /\ pass.pc = "promote" /\ pass.target \in Version /\ HasRow(pass.target)
      /\ ~row[pass.target].active
      /\ row' = [row EXCEPT ![pass.target].active = TRUE]
      /\ pass' = [pass EXCEPT !.pc = "dropRow", !.doomed = Stored.active.version,
                              !.after = "idle"]
      /\ UNCHANGED <<coll, cache, search>>
  BY DEF Promote, PassMay, IndexInv, Standing
<1>2. /\ Stored.active.version \in Version /\ HasRow(Stored.active.version)
      /\ row[Stored.active.version].active
  <2>1. PICK v \in Version : HasRow(v) /\ row[v].active
    BY <1>1 DEF IndexInv, SomeAnswers
  <2> QED
    BY <2>1, StoredIs, Parts
<1>3. Stored.active.version < pass.target
  <2>1. Stored.active.version # pass.target
    BY <1>1, <1>2
  <2> QED
    BY <1>1, <1>2, <2>1 DEF WholeInv, Ordered
<1>4. /\ \A v \in Version : v # pass.target => row'[v] = row[v]
      /\ \A v \in Version : HasRow(v)' <=> HasRow(v)
      /\ row'[pass.target].active
  BY <1>1, Parts DEF Rows, HasRow
<1>5. /\ pass'.pc = "dropRow" /\ pass'.target = pass.target /\ pass'.after = "idle"
      /\ pass'.doomed = Stored.active.version /\ ~Makes'
  BY <1>1, Parts DEF Passes, Makes
<1>6. Ordered'
  <2>1. ASSUME NEW u \in Version, NEW v \in Version, HasRow(u)', HasRow(v)',
               ~row'[v].active, u # v
        PROVE  u < v
    BY <1>4, <2>1 DEF WholeInv, Ordered
  <2> QED
    BY <1>3, <1>5, <2>1 DEF Ordered, HasRow
<1>7. Filled' /\ Fresh'
  <2>1. \A v \in Version : HasRow(v)' /\ row'[v].active /\ v > 1 => coll[v].holds = Class
    BY <1>1, <1>4 DEF WholeInv, Filled
  <2> QED
    BY <1>1, <1>5, <2>1 DEF Filled, Fresh, HasRow
<1>8. \A v \in Version : HasRow(v) /\ row[v].active =>
        \E u \in Version : HasRow(u)' /\ row'[u].active /\ v <= u
  BY <1>4, Versions
<1> QED
  BY <1>1, <1>6, <1>7, <1>8, PassMoves DEF Trusted

\* Where a pass goes on, by what it finds.
LEMMA EnsureWhole ==
  ASSUME IndexInv, IndexInv', WholeInv, ~SlowReads, EnsureVersion PROVE WholeInv'
<1>1. /\ pass.pc = "ensure" /\ UNCHANGED <<row, coll, search>> /\ ~Reading
      /\ pass.todo = Class
  BY DEF EnsureVersion, PassMay, WholeInv, Filled
<1>. DEFINE old == Stored.active
            new == Stored.building
<1>2. /\ \A v \in Version : HasRow(v) /\ row[v].active => old # NoMeta
      /\ \A v \in Version : HasRow(v) /\ ~row[v].active => new # NoMeta /\ v <= new.version
      /\ old # NoMeta => /\ old.version \in Version
                         /\ HasRow(old.version) /\ row[old.version].active
      /\ new # NoMeta => /\ new.version \in Version
                         /\ HasRow(new.version) /\ ~row[new.version].active
  BY StoredIs, Parts
<1>3. \A v \in Version : HasRow(v) /\ ~row[v].active => v = new.version
  <2>1. SUFFICES ASSUME NEW v \in Version, HasRow(v), ~row[v].active, v # new.version
                 PROVE  FALSE
    OBVIOUS
  <2>. DEFINE n == new.version
  <2>2. n \in Version /\ v <= n /\ n < v
    BY <1>2, <2>1 DEF WholeInv, Ordered
  <2>. HIDE DEF n
  <2> QED
    BY <2>1, <2>2, Versions
<1>4. \A a \in Replica : cache'[a].active \in {cache[a].active, NoMeta, Stored'.active}
  <2>1. Stored' = Stored
    BY <1>1, StoredSame
  <2>2. \/ cache' = [cache EXCEPT ![pass.at] = Unknown]
        \/ cache' = Remembering(pass.at, Stored)
    BY DEF EnsureVersion
  <2> QED
    BY <2>1, <2>2, Looked
<1>5. SUFFICES Ordered' /\ Filled' /\ Fresh'
  <2>1. \A v \in Version : HasRow(v) /\ row[v].active =>
          \E u \in Version : HasRow(u)' /\ row'[u].active /\ v <= u
    BY <1>1, Versions DEF HasRow
  <2> QED
    BY <1>1, <1>4, <1>5, <2>1, PassMoves DEF Trusted
<1>6. pass \in Passes /\ \A v \in Version : HasRow(v)' <=> HasRow(v)
  BY <1>1, Parts DEF HasRow
<1>7. CASE old = NoMeta /\ pass' = [pass EXCEPT !.pc = "collection", !.target = 1]
  <2>1. \A v \in Version : ~HasRow(v)
    BY <1>2, <1>7 DEF IndexInv, SomeAnswers
  <2>2. /\ pass'.pc = "collection" /\ pass'.target = 1 /\ pass'.todo = Class
    BY <1>1, <1>6, <1>7 DEF Passes
  <2> QED
    BY <1>1, <1>6, <2>1, <2>2 DEF Ordered, Filled, Fresh, HasRow
<1>8. CASE /\ pass' \in {[pass EXCEPT !.pc = "fill", !.target = m.version] : m \in {old, new}}
           /\ cache' = Remembering(pass.at, Stored) /\ old # NoMeta
  <2>1. /\ pass'.pc = "fill" /\ pass'.todo = Class /\ pass'.at = pass.at /\ ~Makes'
    BY <1>1, <1>6, <1>8 DEF Passes, Makes
  <2>2. Stored' = Stored /\ cache'[pass.at] = Stored
    BY <1>1, <1>8, StoredSame, Looked
  <2>3. Fresh'
    BY <1>1, <2>1, <2>2 DEF Fresh, Reading
  <2> QED
    BY <1>1, <1>6, <2>1, <2>3 DEF WholeInv, Ordered, Filled, HasRow
<1>9. CASE /\ new # NoMeta
           /\ pass' = [pass EXCEPT !.pc = "dropRow", !.target = old.version,
                                   !.doomed = new.version, !.after = "fill"]
  <2>1. /\ pass'.pc = "dropRow" /\ pass'.doomed = new.version /\ pass'.after = "fill"
        /\ ~Makes'
    BY <1>6, <1>9 DEF Passes, Makes
  <2> QED
    BY <1>1, <1>2, <1>6, <1>9, <2>1 DEF WholeInv, Ordered, Filled, Fresh, HasRow
<1>10. CASE /\ old # NoMeta /\ ~Fits(old) /\ ~Fits(new)
            /\ pass' = [pass EXCEPT !.pc = IF new = NoMeta THEN "collection" ELSE "dropRow",
                                    !.target = NextVersion, !.doomed = new.version,
                                    !.after = "collection"]
  <2>1. /\ pass'.pc = IF new = NoMeta THEN "collection" ELSE "dropRow"
        /\ pass'.target = NextVersion /\ pass'.doomed = new.version
        /\ pass'.after = "collection" /\ pass'.todo = Class
    BY <1>1, <1>6, <1>10 DEF Passes
  <2>2. \A v \in Version : HasRow(v) => v < NextVersion
    BY <1>1, <1>10, NextVersionIs
  <2>3. \E v \in Version : HasRow(v) /\ row[v].active
    BY <1>2, <1>10
  <2>4. Ordered'
    BY <1>1, <1>2, <1>3, <1>6, <2>1, <2>2, <2>3 DEF WholeInv, Ordered, HasRow
  <2> QED
    BY <1>1, <1>6, <2>1, <2>4 DEF WholeInv, Filled, Fresh, HasRow
<1>11. Fits(new) => new # NoMeta
  BY DEF Fits
<1> QED
  BY <1>7, <1>8, <1>9, <1>10, <1>11 DEF EnsureVersion

LEMMA WholeKept ==
  ASSUME ~SlowReads
  PROVE  IndexInv /\ IndexInv' /\ WholeInv /\ [VersionsNext]_versionVars => WholeInv'
<1> SUFFICES ASSUME IndexInv, IndexInv', WholeInv, [VersionsNext]_versionVars PROVE WholeInv'
  OBVIOUS
<1>1. CASE PassStep
  BY <1>1, StartWhole, SitOutWhole, EnsureWhole, DropRowWhole, DropCollectionWhole,
     CollectionWhole, WriteRowWhole, FillWhole, DoneWhole, PromoteWhole DEF PassStep
<1>2. CASE \E q \in Search : SearchStep(q)
  BY <1>2, SearchWhole
<1>3. CASE ChangeModel
  BY <1>3, ChangeWhole
<1>4. CASE PassFails
  BY <1>4, FailWhole
<1>5. CASE \E a \in Replica : Restart(a) \/ CacheExpires(a) \/ AskGate(a) \/ ShowStatus(a)
  BY <1>5, AroundWhole DEF ShowStatus
<1>6. CASE UNCHANGED versionVars
  <2>1. Stored' = Stored /\ Recalled' = Recalled
    BY <1>6, StoredSame DEF versionVars, Recalled
  <2>2. Fresh' /\ AnswersAreWhole'
    BY <1>6, <2>1 DEF versionVars, WholeInv, Fresh, AnswersAreWhole
  <2> QED
    BY <1>6, <2>1, <2>2, SameIndex DEF versionVars, WholeInv
<1> QED
  BY <1>1, <1>2, <1>3, <1>4, <1>5, <1>6 DEF VersionsNext

\* The inductive invariant holds in every reachable state.
THEOREM WholeInvariant == ASSUME ~SlowReads PROVE VersionsSpec => []WholeInv
BY InitWhole, WholeKept, IndexInvariant, PTL DEF VersionsSpec

\* Where a pass does not overtake a read of chunks_meta in its own process, no
\* answer comes from a replacement that is not whole, whatever fails while it is
\* filled and however old the versions a replica remembers (_finish_rebuild,
\* activate_version, vector/use_cases/indexer.py).
THEOREM AnswersWhole == ASSUME ~SlowReads PROVE VersionsSpec => []AnswersAreWhole
<1>1. WholeInv => AnswersAreWhole
  BY DEF WholeInv
<1> QED
  BY <1>1, WholeInvariant, PTL

-----------------------------------------------------------------------------
(* The index that answers is replaced in one step by a whole one. *)

\* The newest active version is the one that is served.
LEMMA TopIs ==
  IndexInv => \A v \in Version :
    HasRow(v) /\ row[v].active /\ (\A u \in Version : HasRow(u) /\ row[u].active => u <= v)
      => Stored.active = [version |-> v, model |-> row[v].model]
<1>1. SUFFICES ASSUME IndexInv, NEW v \in Version, HasRow(v), row[v].active,
                      \A u \in Version : HasRow(u) /\ row[u].active => u <= v
               PROVE  Stored.active = [version |-> v, model |-> row[v].model]
  OBVIOUS
<1>2. /\ Stored.active \in [version : Version, model : Model]
      /\ HasRow(Stored.active.version) /\ row[Stored.active.version].active
      /\ row[Stored.active.version].model = Stored.active.model
      /\ v <= Stored.active.version
  BY <1>1, StoredIs, Parts
<1>3. Stored.active.version = v
  <2>. DEFINE n == Stored.active.version
  <2>1. n \in Version /\ n <= v /\ v <= n
    BY <1>1, <1>2
  <2>. HIDE DEF n
  <2>2. n = v
    BY <2>1, Versions
  <2> QED
    BY <2>2 DEF n
<1> QED
  BY <1>2, <1>3

\* What ServedIndex sees of the versions.
Serving == Stored.active.model
IsWhole == Answering /\ coll[Stored.active.version].holds = Class

LEMMA ServedInit == VersionsInit => Served!Init
<1> SUFFICES ASSUME VersionsInit PROVE Served!Init
  OBVIOUS
<1>1. \A v \in Version : ~HasRow(v)
  BY DEF VersionsInit, HasRow, NoRow
<1>2. Stored.active = NoMeta
  BY <1>1, InitIndex, StoredIs, Parts
<1> QED
  BY <1>2 DEF Served!Init, Answering, NoMeta

\* The steps of ServedIndex, in terms of the rows and collections.
ServedStep ==
  \/ UNCHANGED <<Serving, IsWhole>>
  \/ Serving = NoModel /\ Serving' \in Model /\ IsWhole' = FALSE
  \/ Serving # NoModel /\ IsWhole' = TRUE /\ UNCHANGED Serving
  \/ Serving # NoModel /\ Serving' \in Model /\ IsWhole' = TRUE

LEMMA ServedStepIs == ServedStep => [Served!Next]_(Served!servedVars)
BY DEF ServedStep, Serving, IsWhole, Served!Next, Served!servedVars, Served!Open,
       Served!Complete, Served!Switch

\* Nothing of it changes while the version that is served keeps its row and what
\* its collection holds.
LEMMA ServedSame ==
  ASSUME IndexInv, Stored'.active = Stored.active,
         \A v \in Version : HasRow(v) /\ row[v].active => coll'[v].holds = coll[v].holds
  PROVE  ServedStep
<1>1. CASE Stored.active = NoMeta
  BY <1>1 DEF ServedStep, Serving, IsWhole, Answering
<1>2. CASE Stored.active # NoMeta
  BY <1>2, ActiveHasRow DEF ServedStep, Serving, IsWhole, Answering
<1> QED
  BY <1>1, <1>2

LEMMA DropRowServes == ASSUME IndexInv, IndexInv', WholeInv, DropRow PROVE ServedStep
<1>1. /\ pass.pc = "dropRow" /\ pass.doomed \in Version
      /\ pass.after \in {"fill", "idle", "collection"}
      /\ row' = [row EXCEPT ![pass.doomed] = NoRow]
      /\ UNCHANGED coll
  BY DEF DropRow, PassMay, IndexInv, Standing
<1>2. /\ \A v \in Version : v # pass.doomed => row'[v] = row[v]
      /\ \A v \in Version : HasRow(v)' => HasRow(v) /\ v # pass.doomed
      /\ \A v \in Version : HasRow(v) /\ v # pass.doomed => HasRow(v)'
  BY <1>1, Parts DEF HasRow, NoRow, Rows
<1>3. CASE \A v \in Version : ~(HasRow(v) /\ row[v].active)
  <2>1. \A v \in Version : ~(HasRow(v)' /\ row'[v].active)
    BY <1>2, <1>3
  <2>2. Stored.active = NoMeta
    BY <1>3, ActiveHasRow
  <2>3. (IndexInv /\ Stored.active # NoMeta =>
           /\ Stored.active.version \in Version
           /\ HasRow(Stored.active.version)
           /\ row[Stored.active.version].active)'
    BY ActiveHasRow, PTL
  <2>4. Stored'.active = NoMeta
    BY <2>1, <2>3 DEF HasRow
  <2> QED
    BY <1>1, <2>2, <2>4, ServedSame
<1>4. CASE \E v \in Version : HasRow(v) /\ row[v].active
  <2>1. PICK n \in Version :
          /\ n = Stored.active.version
          /\ Stored.active \in [version : Version, model : Model]
          /\ HasRow(n) /\ row[n].active /\ row[n].model = Stored.active.model
          /\ \A v \in Version : HasRow(v) /\ row[v].active => v <= n
    BY <1>4, StoredIs, Parts
  <2>2. n # pass.doomed
    <3>1. CASE pass.after = "idle"
      <4>1. /\ pass.target \in Version /\ HasRow(pass.target) /\ row[pass.target].active
            /\ pass.doomed < pass.target
        BY <1>1, <3>1 DEF IndexInv, Standing, WholeInv, Ordered
      <4>2. pass.target <= n
        BY <2>1, <4>1
      <4> QED
        BY <1>1, <2>1, <4>1, <4>2, Versions
    <3>2. CASE pass.after # "idle"
      BY <1>1, <2>1, <3>2 DEF WholeInv, Ordered
    <3> QED
      BY <3>1, <3>2
  <2>3. (IndexInv => \A v \in Version :
           HasRow(v) /\ row[v].active
             /\ (\A u \in Version : HasRow(u) /\ row[u].active => u <= v)
           => Stored.active = [version |-> v, model |-> row[v].model])'
    BY TopIs, PTL
  <2>4. /\ HasRow(n)' /\ row'[n].active /\ row'[n].model = row[n].model
        /\ \A u \in Version : HasRow(u)' /\ row'[u].active => u <= n
    BY <1>2, <2>1, <2>2
  <2>5. Stored'.active = [version |-> n, model |-> row'[n].model]
    BY <2>1, <2>3, <2>4 DEF HasRow
  <2>6. Stored'.active = Stored.active
    BY <2>1, <2>4, <2>5
  <2> QED
    BY <1>1, <2>6, ServedSame
<1> QED
  BY <1>3, <1>4

\* The first version of the family opens the index; a later one is not served
\* while it is filled.
LEMMA WriteRowServes == ASSUME IndexInv, IndexInv', WholeInv, WriteRow PROVE ServedStep
<1>1. /\ pass.pc = "row" /\ Makes /\ pass.target \in Version /\ ~HasRow(pass.target)
      /\ pass.wants \in Model
      /\ row' = [row EXCEPT ![pass.target] = [model |-> pass.wants, active |-> BornActive]]
      /\ UNCHANGED coll
  BY DEF WriteRow, PassMay, IndexInv, Standing, Makes
<1>2. /\ row'[pass.target] = [model |-> pass.wants, active |-> BornActive]
      /\ pass.wants # NoModel
      /\ \A v \in Version : v # pass.target => row'[v] = row[v] /\ (HasRow(v)' <=> HasRow(v))
  BY <1>1, Parts, IndexAssumption DEF Rows, HasRow
<1>3. (IndexInv => \A v \in Version :
         HasRow(v) /\ row[v].active
           /\ (\A u \in Version : HasRow(u) /\ row[u].active => u <= v)
         => Stored.active = [version |-> v, model |-> row[v].model])'
  BY TopIs, PTL
<1>4. CASE BornActive
  <2>1. \A v \in Version : ~(HasRow(v) /\ row[v].active)
    BY <1>4, StoredIs, Parts DEF BornActive
  <2>2. \A u \in Version : HasRow(u)' /\ row'[u].active => u = pass.target
    BY <1>2, <2>1
  <2>3. \A u \in Version : HasRow(u)' /\ row'[u].active => u <= pass.target
    BY <2>2, <1>1, Versions
  <2>4. PICK v \in Version : v = pass.target
    BY <1>1
  <2>5. HasRow(v)' /\ row'[v].active /\ row'[v].model = pass.wants
    BY <1>2, <1>4, <2>4 DEF HasRow
  <2>6. Stored'.active = [version |-> v, model |-> row'[v].model]
    BY <1>3, <2>3, <2>4, <2>5 DEF HasRow
  <2>7. coll[pass.target].holds = {}
    BY <1>1 DEF WholeInv, Filled
  <2>8. Stored.active = NoMeta
    BY <1>4 DEF BornActive
  <2> QED
    BY <1>1, <2>4, <2>7, <2>8, <2>5, <2>6, IndexAssumption
       DEF ServedStep, Serving, IsWhole, Answering, NoMeta
<1>5. CASE ~BornActive
  <2>1. PICK n \in Version :
          /\ n = Stored.active.version
          /\ Stored.active \in [version : Version, model : Model]
          /\ HasRow(n) /\ row[n].active /\ row[n].model = Stored.active.model
          /\ \A v \in Version : HasRow(v) /\ row[v].active => v <= n
    BY <1>5, StoredIs, Parts DEF BornActive
  <2>2. /\ HasRow(n)' /\ row'[n].active /\ row'[n].model = row[n].model
        /\ \A u \in Version : HasRow(u)' /\ row'[u].active => u <= n
    BY <1>1, <1>2, <1>5, <2>1
  <2>3. Stored'.active = [version |-> n, model |-> row'[n].model]
    BY <1>3, <2>1, <2>2 DEF HasRow
  <2>4. Stored'.active = Stored.active
    BY <2>1, <2>2, <2>3
  <2> QED
    BY <1>1, <2>4, ServedSame
<1> QED
  BY <1>4, <1>5

\* The switch.
LEMMA PromoteServes == ASSUME IndexInv, IndexInv', WholeInv, Promote PROVE ServedStep
<1>1. /\ pass.pc = "promote" /\ pass.target \in Version /\ HasRow(pass.target)
      /\ ~row[pass.target].active
      /\ row' = [row EXCEPT ![pass.target].active = TRUE]
      /\ UNCHANGED coll
  BY DEF Promote, PassMay, IndexInv, Standing
<1>2. /\ \A v \in Version : v # pass.target => row'[v] = row[v]
      /\ \A v \in Version : HasRow(v)' <=> HasRow(v)
      /\ row'[pass.target].active /\ row'[pass.target].model = row[pass.target].model
  BY <1>1, Parts DEF Rows, HasRow
<1>3. \A u \in Version : HasRow(u)' => u <= pass.target
  <2>1. \A u \in Version : HasRow(u) /\ u # pass.target => u < pass.target
    BY <1>1 DEF WholeInv, Ordered
  <2> QED
    BY <1>1, <1>2, <2>1, Versions
<1>4. (IndexInv => \A v \in Version :
         HasRow(v) /\ row[v].active
           /\ (\A u \in Version : HasRow(u) /\ row[u].active => u <= v)
         => Stored.active = [version |-> v, model |-> row[v].model])'
  BY TopIs, PTL
<1>5. Stored'.active = [version |-> pass.target, model |-> row[pass.target].model]
  BY <1>1, <1>2, <1>3, <1>4 DEF HasRow
<1>6. Stored.active # NoMeta /\ Stored.active.model \in Model
  <2>1. PICK v \in Version : HasRow(v) /\ row[v].active
    BY <1>1 DEF IndexInv, SomeAnswers
  <2> QED
    BY <2>1, StoredIs, Parts
<1>7. coll[pass.target].holds = Class
  BY <1>1 DEF WholeInv, Filled
<1>8. row[pass.target].model \in Model
  BY <1>1, Parts DEF Rows, HasRow
<1>9. [version |-> pass.target, model |-> row[pass.target].model] # NoMeta
  BY <1>1, Versions DEF NoMeta
<1> QED
  BY <1>1, <1>5, <1>6, <1>7, <1>8, <1>9, IndexAssumption
     DEF ServedStep, Serving, IsWhole, Answering

\* The version that is served is whole for good.
LEMMA FillServes ==
  ASSUME IndexInv, IndexInv', WholeInv, SweepClass \/ ClassFails PROVE ServedStep
<1>1. pass.pc = "fill" /\ WriteMeta.version \in Version
  BY WriteMetaIs DEF SweepClass, ClassFails, PassMay
<1>. DEFINE w == WriteMeta.version
<1>2. PICK c \in pass.todo :
        /\ UNCHANGED coll \/ coll' = [coll EXCEPT ![w].holds = @ \union {c}]
        /\ UNCHANGED row
  BY DEF SweepClass, ClassFails
<1>3. \A v \in Version : coll[v].holds = Class => coll'[v].holds = Class
  <2>1. pass.todo \subseteq Class
    BY Parts DEF Passes
  <2>. HIDE DEF w
  <2>2. w \in Version
    BY <1>1 DEF w
  <2>3. CASE UNCHANGED coll
    BY <2>3
  <2>4. CASE coll' = [coll EXCEPT ![w].holds = @ \union {c}]
    <3>1. /\ coll'[w].holds = coll[w].holds \union {c}
          /\ \A v \in Version : v # w => coll'[v] = coll[v]
      BY <2>2, <2>4, Parts DEF Colls
    <3> QED
      BY <1>2, <2>1, <3>1
  <2> QED
    BY <1>2, <2>3, <2>4
<1>4. Stored' = Stored
  BY <1>2, StoredSame
<1>5. CASE Stored.active = NoMeta
  BY <1>4, <1>5 DEF ServedStep, Serving, IsWhole, Answering
<1>6. CASE Stored.active # NoMeta
  <2>1. Stored.active.model # NoModel /\ Stored.active.version \in Version
    BY <1>6, ActiveHasRow, StoredIs, Parts DEF HasRow
  <2> QED
    BY <1>3, <1>4, <1>6, <2>1 DEF ServedStep, Serving, IsWhole, Answering
<1> QED
  BY <1>5, <1>6

\* A collection that comes or goes is of a version without a row.
LEMMA CollectionServes ==
  ASSUME IndexInv, IndexInv', WholeInv,
         DropCollection \/ DropOrphan \/ CreateCollection \/ PassFails
  PROVE  ServedStep
<1>1. PICK v \in Version : /\ UNCHANGED coll \/ ~HasRow(v)
                           /\ \A u \in Version : u # v => coll'[u] = coll[u]
                           /\ UNCHANGED row
  <2>1. CASE DropCollection \/ DropOrphan \/ CreateCollection
    <3>1. PICK v \in {pass.doomed, pass.target} :
            /\ v \in Version /\ ~HasRow(v)
            /\ \/ coll' = [coll EXCEPT ![v] = NoColl]
               \/ coll' = [coll EXCEPT ![v] = [model |-> pass.wants, holds |-> {}]]
      BY <2>1 DEF DropCollection, DropOrphan, CreateCollection, PassMay, IndexInv,
                  Standing, Makes
    <3>2. UNCHANGED row
      BY <2>1 DEF DropCollection, DropOrphan, CreateCollection
    <3> QED
      BY <3>1, <3>2, Parts DEF Colls
  <2>2. CASE PassFails
    <3>1. CASE UNCHANGED coll
      BY <2>2, <3>1, Versions DEF PassFails
    <3>2. CASE pass.pc = "dropColl" /\ coll' = [coll EXCEPT ![pass.doomed] = NoColl]
      BY <2>2, <3>2, Parts DEF PassFails, IndexInv, Standing, Colls
    <3> QED
      BY <2>2, <3>1, <3>2 DEF PassFails
  <2> QED
    BY <2>1, <2>2
<1>2. \A u \in Version : HasRow(u) => coll'[u] = coll[u]
  BY <1>1
<1>3. Stored' = Stored
  BY <1>1, StoredSame
<1> QED
  BY <1>2, <1>3, ServedSame

LEMMA StepServes ==
  ASSUME IndexInv, IndexInv', WholeInv, [VersionsNext]_versionVars PROVE [Served!Next]_(Served!servedVars)
<1>1. CASE UNCHANGED <<row, coll>>
  <2>1. Stored' = Stored
    BY <1>1, StoredSame
  <2> QED
    BY <1>1, <2>1, ServedSame, ServedStepIs
<1>2. CASE VersionsNext /\ ~UNCHANGED <<row, coll>>
  <2>1. \/ DropRow \/ WriteRow \/ Promote \/ SweepClass \/ ClassFails
        \/ DropCollection \/ DropOrphan \/ CreateCollection \/ PassFails
    BY <1>2 DEF VersionsNext, PassStep, StartPass, SitOut, EnsureVersion, ClassesDone, SearchStep,
                Ask, RecallVersions, ReadVersions, RememberVersions, Query, ChangeModel,
                Restart, CacheExpires, AskGate, ShowStatus
  <2> QED
    BY <2>1, DropRowServes, WriteRowServes, PromoteServes, FillServes, CollectionServes,
       ServedStepIs
<1> QED
  BY <1>1, <1>2 DEF versionVars

\* Where a pass does not overtake a read of its own process, the versions of a
\* family, with all their rows, collections and interrupted passes, are one
\* index that is replaced in one step by a whole one (ensure_version,
\* activate_version, vector/adapters/qdrant_store.py).
THEOREM ServesOneIndex == ASSUME ~SlowReads PROVE VersionsSpec => RefinesServedIndex
BY InitIndex, ServedInit, StepServes, IndexInvariant, WholeInvariant, PTL
   DEF VersionsSpec, RefinesServedIndex, Served!Spec
=============================================================================
