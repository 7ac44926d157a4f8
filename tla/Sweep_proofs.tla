---------------------------- MODULE Sweep_proofs ----------------------------
(***************************************************************************)
(* Theorems about Sweep, for any classes, objects and texts, any number of *)
(* replicas, any page size and any number of edits, failures and crashes,  *)
(* with passes as slow and classes that drift as much as they like: that   *)
(* sweeps exclude each other, what a reconciliation drops, in which order  *)
(* a pass goes, its types, and that an object that has not changed stays   *)
(* findable.                                                               *)
(*                                                                         *)
(* Two need a condition that the code leaves to its surroundings: that a   *)
(* backfill reads every object, and that no object the index is wrong      *)
(* about is forgotten, hold where a class loses no object while it is      *)
(* being read (~Drifting), the second where no pass outlasts the overlap   *)
(* of the increments (~SlowPasses, the condition Sweep_slow drops).        *)
(***************************************************************************)
EXTENDS Sweep, FiniteSetTheorems, WellFoundedInduction, TLAPS

\* The records of a page, and those of a batch of orphans.
PageRecords == [object : Object, inScope : BOOLEAN, text : Texts, stamp : Time \union {NoTime}]
OrphanRecords == [object : Object]

Passes == [pc : Places, model : Model \union {NoModel}, started : Time, clean : BOOLEAN,
           todo : SUBSET Class, class : Class, since : Int, seen : Time \union {NoTime}, page : Nat,
           last : BOOLEAN, after : Nat, batch : SUBSET (PageRecords \union OrphanRecords),
           gone : SUBSET Object]

IsIndex(f) == f = [o \in Object |-> f[o]]

Typed ==
  /\ clock \in Time
  /\ itop \in [Object -> Record]
  /\ cursor \in [Class -> Time \union {NoTime}]
  /\ lock \in Replica \union {NoOne}
  /\ pass \in [Replica -> Passes]
  /\ IsIndex(index) /\ IsIndex(kept)

\* Nothing is indexed that has never been in iTop, nor is it about to be.
Met(p) == p.pc = "write" => \A x \in p.batch : itop[x.object] # NotYet

MetOnly ==
  /\ \A o \in Object : itop[o] = NotYet => index[o] = NoChunks /\ kept[o] = NoChunks
  /\ \A r \in Replica : Met(pass[r])

\* Where a reconciliation still has to come by an object: it has not done with
\* the class, and in the class it is at, the object follows the last batch, or is
\* in it.
Ahead(p, o) ==
  /\ ~itop[o].there /\ itop[o] # NotYet
  /\ o[1] \in p.todo
  /\ p.after # 0 /\ o[1] = p.class =>
       o[2] > p.after \/ (p.pc = "drop" /\ [object |-> o] \in p.batch)

\* It still has to come by all that was gone when it began and has chunks left.
Reconciles(p) ==
  p.pc \in {"reconcile", "drop"} =>
    \A o \in p.gone : index[o] # NoChunks => Ahead(p, o)

Reconciled == \A r \in Replica : Reconciles(pass[r])

\* The inductive invariant.
SweepInv == Typed /\ OneSweep /\ MetOnly /\ Reconciled

USE SweepAssumption

-----------------------------------------------------------------------------
(* Greatest elements. *)

LEMMA HasMin ==
  ASSUME NEW T, T \subseteq Nat, T # {}
  PROVE  \E t \in T : \A u \in T : ~(u < t)
<1>1. PICK t \in T : \A u \in T : ~(<<u, t>> \in OpToRel(<, Nat))
  BY NatLessThanWellFounded, WFMin
<1> QED
  BY <1>1 DEF OpToRel

\* A set of integers between two bounds has a greatest element, which Max is.
LEMMA HasMax ==
  ASSUME NEW a \in Int, NEW b \in Int, NEW S \in SUBSET (a .. b), S # {}
  PROVE  Max(S) \in S /\ \A y \in S : y <= Max(S)
<1>. DEFINE T == {b - x : x \in S}
<1>1. \A x \in S : x \in Int /\ b - x \in Nat
  OBVIOUS
<1>2. T \subseteq Nat
  BY <1>1
<1>3. T # {}
  OBVIOUS
<1>4. PICK t \in T : \A u \in T : ~(u < t)
  <2>. HIDE DEF T
  <2> QED
    BY <1>2, <1>3, HasMin
<1>5. PICK x \in S : t = b - x
  BY <1>4
<1>6. \A y \in S : x >= y
  <2>1. SUFFICES ASSUME NEW y \in S PROVE x >= y
    OBVIOUS
  <2>2. ~(b - y < b - x)
    BY <1>4, <1>5
  <2> QED
    BY <1>1, <2>2
<1>7. Max(S) \in S /\ \A y \in S : Max(S) >= y
  BY <1>6 DEF Max
<1> QED
  BY <1>1, <1>7

LEMMA MaxOfTwo ==
  ASSUME NEW a \in Int, NEW b \in Int
  PROVE  Max({a, b}) \in Int
<1>1. \E x \in {a, b} : \A y \in {a, b} : x >= y
  <2>1. CASE a >= b
    BY <2>1
  <2>2. CASE b >= a
    BY <2>2
  <2> QED
    BY <2>1, <2>2
<1>2. Max({a, b}) \in {a, b}
  BY <1>1 DEF Max
<1> QED
  BY <1>2

-----------------------------------------------------------------------------
(* Objects, and one batch of the index. *)

LEMMA ObjectIs ==
  /\ \A c \in Class : \A i \in IdsOf[c] : <<c, i>> \in Object /\ i \in Nat /\ i > 0
  /\ \A o \in Object : o = <<o[1], o[2]>> /\ o[1] \in Class /\ o[2] \in IdsOf[o[1]]
<1>1. \A c \in Class : \A i \in IdsOf[c] : i \in Nat /\ i > 0
  OBVIOUS
<1>2. \A c \in Class : \A i \in IdsOf[c] : <<c, i>> \in Object
  BY DEF Object
<1>3. ASSUME NEW o \in Object
      PROVE  o = <<o[1], o[2]>> /\ o[1] \in Class /\ o[2] \in IdsOf[o[1]]
  <2>1. PICK c \in Class : o \in {c} \X IdsOf[c]
    BY DEF Object
  <2> QED
    BY <2>1
<1> QED
  BY <1>1, <1>2, <1>3

\* The smaller of two listed ids comes first.
LEMMA PositionMono ==
  ASSUME NEW S, IsFiniteSet(S), S \subseteq Nat, NEW i \in Nat, NEW j \in Nat, i <= j
  PROVE  Position(i, S) \in Nat /\ Position(j, S) \in Nat /\ Position(i, S) <= Position(j, S)
<1>. DEFINE A == {k \in S : k <= i}
            B == {k \in S : k <= j}
<1>0. \A k \in S : k \in Nat /\ (k <= i => k <= j)
  OBVIOUS
<1>1. A \subseteq B /\ B \subseteq S
  BY <1>0
<1>2. IsFiniteSet(B) /\ IsFiniteSet(A)
  BY <1>1, FS_Subset
<1>3. Cardinality(A) <= Cardinality(B) /\ Cardinality(A) \in Nat /\ Cardinality(B) \in Nat
  BY <1>1, <1>2, FS_Subset, FS_CardinalityType
<1> QED
  BY <1>3 DEF Position

\* A larger listed id comes later.
LEMMA PositionStrict ==
  ASSUME NEW S, IsFiniteSet(S), S \subseteq Nat, NEW i \in S, NEW j \in S, i < j
  PROVE  Position(i, S) < Position(j, S)
<1>. DEFINE A == {k \in S : k <= i}
            B == {k \in S : k <= j}
<1>0. /\ \A k \in S : k \in Nat /\ (k <= i => k <= j)
      /\ j <= j /\ ~(j <= i)
  OBVIOUS
<1>1. A \subseteq B /\ B \subseteq S /\ j \in B /\ j \notin A
  BY <1>0
<1>2. IsFiniteSet(B) /\ IsFiniteSet(A)
  BY <1>1, FS_Subset
<1>3. Cardinality(A) <= Cardinality(B) /\ Cardinality(A) # Cardinality(B)
  BY <1>1, <1>2, FS_Subset
<1>4. Cardinality(A) \in Nat /\ Cardinality(B) \in Nat
  BY <1>2, FS_CardinalityType
<1> QED
  BY <1>3, <1>4 DEF Position

\* One batch of the ids the index holds: bounded, empty only if there is nothing
\* left, and complete up to its last id.
LEMMA BatchIs ==
  ASSUME NEW c \in Class, NEW after \in Nat
  PROVE  LET ids == IndexedIds(c, after)
             held == {i \in IdsOf[c] : index[<<c, i>>] # NoChunks /\ i > after}
         IN  /\ ids \subseteq held
             /\ ids = {} => held = {}
             /\ ids # {} => /\ Max(ids) \in Nat \ {0}
                            /\ \A i \in held : i > Max(ids) \/ i \in ids
<1>. DEFINE ids == IndexedIds(c, after)
            held == {i \in IdsOf[c] : index[<<c, i>>] # NoChunks /\ i > after}
<1>1. ids = {i \in held : Position(i, held) <= PageSize}
  BY DEF IndexedIds, Follows
<1>2. held \subseteq IdsOf[c] /\ IsFiniteSet(held) /\ held \subseteq Nat \ {0}
  BY FS_Subset
<1>. HIDE DEF held
<1>3. ids = {} => held = {}
  <2>1. SUFFICES ASSUME held # {} PROVE ids # {}
    OBVIOUS
  <2>2. PICK m \in held : \A u \in held : ~(u < m)
    BY <1>2, <2>1, HasMin
  <2>3. \A k \in held : k <= m <=> k = m
    BY <1>2, <2>2
  <2>4. {k \in held : k <= m} = {m}
    BY <2>2, <2>3
  <2>5. Position(m, held) = 1
    BY <2>4, FS_Singleton DEF Position
  <2>6. PageSize \in Nat /\ 1 <= PageSize
    OBVIOUS
  <2> QED
    BY <1>1, <2>2, <2>5, <2>6
<1>4. ASSUME ids # {}
      PROVE  /\ Max(ids) \in Nat \ {0}
             /\ \A i \in held : i > Max(ids) \/ i \in ids
  <2>1. ids \subseteq held
    BY <1>1
  <2>. HIDE DEF ids
  <2>2. \A i \in ids : i \in Nat /\ Position(i, held) \in Nat /\ Position(i, held) <= PageSize
    <3>1. SUFFICES ASSUME NEW i \in ids
                   PROVE  i \in Nat /\ Position(i, held) \in Nat /\ Position(i, held) <= PageSize
      OBVIOUS
    <3>2. i \in Nat /\ i <= i /\ held \subseteq Nat
      BY <1>2, <2>1
    <3> QED
      BY <1>1, <1>2, <3>2, PositionMono
  <2>3. Max(ids) \in ids
    <3>. DEFINE T == {PageSize - Position(i, held) : i \in ids}
    <3>1. T \subseteq Nat /\ T # {}
      BY <1>4, <2>2
    <3>2. PICK t \in T : \A u \in T : ~(u < t)
      <4>. HIDE DEF T
      <4> QED
        BY <3>1, HasMin
    <3>3. PICK x \in ids : t = PageSize - Position(x, held)
      BY <3>2
    <3>4. \A y \in ids : x >= y
      <4>1. SUFFICES ASSUME NEW y \in ids, ~(x >= y) PROVE FALSE
        OBVIOUS
      <4>2. ~(PageSize - Position(y, held) < PageSize - Position(x, held))
        BY <3>2, <3>3
      <4>3. x < y
        BY <2>2, <4>1
      <4>4. Position(x, held) < Position(y, held)
        BY <1>2, <2>1, <4>3, PositionStrict
      <4> QED
        BY <2>2, <4>2, <4>4
    <3> QED
      BY <3>4 DEF Max
  <2>4. ASSUME NEW i \in held, ~(i > Max(ids)) PROVE i \in ids
    <3>1. i \in Nat /\ Max(ids) \in Nat /\ i <= Max(ids)
      BY <1>2, <2>1, <2>3, <2>4
    <3>2. Position(i, held) \in Nat /\ Position(Max(ids), held) \in Nat
          /\ Position(i, held) <= Position(Max(ids), held)
      BY <1>2, <3>1, PositionMono
    <3>3. Position(Max(ids), held) <= PageSize
      BY <1>1, <2>3
    <3> QED
      BY <1>1, <3>2, <3>3, <2>4
  <2> QED
    BY <1>2, <2>1, <2>3, <2>4
<1> QED
  BY <1>1, <1>3, <1>4 DEF held

-----------------------------------------------------------------------------
(* The steps of a pass. *)

LEMMA PlacesAre ==
  /\ Working \subseteq Places /\ "idle" \in Places
  /\ {"begin", "reset", "clear", "ensure", "class", "page", "write", "cursor", "reconcile",
      "drop", "release"} = Working
BY DEF Working, Places

LEMMA IdleIs ==
  /\ Idle \in Passes /\ Idle.pc = "idle"
  /\ Time \subseteq Int /\ 0 \in Time /\ NoTime \in Int
<1>1. (CHOOSE c \in Class : TRUE) \in Class
  OBVIOUS
<1>2. Time \subseteq Int /\ 0 \in Time /\ NoTime \in Int
  BY DEF Time, NoTime
<1> QED
  BY <1>1, <1>2 DEF Idle, Passes, Places

LEMMA InitSweep == Init => SweepInv
<1> SUFFICES ASSUME Init PROVE SweepInv
  OBVIOUS
<1>1. \A r \in Replica : pass[r].pc = "idle"
  BY IdleIs DEF Init
<1>2. itop \in [Object -> Record]
  BY IdleIs DEF Init, Record, NotYet
<1>3. Typed
  BY <1>2, IdleIs DEF Init, Typed, IsIndex, EmptyIndex
<1>4. MetOnly /\ Reconciled
  BY <1>1 DEF Init, MetOnly, Met, Reconciled, Reconciles, EmptyIndex
<1>5. OneSweep
  BY <1>1, PlacesAre DEF OneSweep, IsWorking, Working
<1> QED
  BY <1>3, <1>4, <1>5 DEF SweepInv

LEMMA PassIs ==
  ASSUME SweepInv, NEW r \in Replica
  PROVE  /\ pass \in [Replica -> Passes] /\ pass[r] \in Passes
         /\ itop \in [Object -> Record] /\ clock \in Time
         /\ cursor \in [Class -> Time \union {NoTime}]
         /\ IsIndex(index) /\ IsIndex(kept)
         /\ \A o \in Object : itop[o] = NotYet => index[o] = NoChunks /\ kept[o] = NoChunks
         /\ pass[r].pc \notin Working => pass[r].pc = "idle"
         /\ Met(pass[r]) /\ Reconciles(pass[r])
<1>1. pass[r] \in Passes
  BY DEF SweepInv, Typed
<1>2. pass[r].pc \in Places
  BY <1>1 DEF Passes
<1> QED
  BY <1>1, <1>2 DEF SweepInv, Typed, MetOnly, Reconciled, Working

\* The one pass that works goes on.
LEMMA Mine ==
  ASSUME SweepInv, NEW r \in Replica, IsWorking(r), NEW p \in Passes,
         pass' = [pass EXCEPT ![r] = p],
         UNCHANGED <<clock, itop, lock>>,
         cursor' \in [Class -> Time \union {NoTime}],
         IsIndex(index'), IsIndex(kept'),
         \A o \in Object : itop[o] = NotYet => index'[o] = NoChunks /\ kept'[o] = NoChunks,
         Met(p),
         p.pc \in {"reconcile", "drop"} =>
           \A o \in p.gone : index'[o] # NoChunks => Ahead(p, o)
  PROVE  SweepInv'
<1>1. lock = r /\ \A q \in Replica : q # r => pass[q].pc = "idle"
  BY PassIs DEF SweepInv, OneSweep, IsWorking
<1>2. /\ pass' \in [Replica -> Passes] /\ pass'[r] = p
      /\ \A q \in Replica : q # r => pass'[q] = pass[q]
  BY DEF SweepInv, Typed
<1>3. Typed'
  BY <1>2 DEF SweepInv, Typed, IsIndex
<1>4. OneSweep'
  BY <1>1, <1>2, PlacesAre DEF OneSweep, IsWorking, Working
<1>5. MetOnly'
  BY <1>1, <1>2 DEF MetOnly, Met
<1>6. Reconciled'
  <2>1. SUFFICES ASSUME NEW q \in Replica, pass'[q].pc \in {"reconcile", "drop"}
                 PROVE  \A o \in pass'[q].gone : index'[o] # NoChunks => Ahead(pass[q], o)'
    BY DEF Reconciled, Reconciles, Ahead
  <2>2. q = r
    BY <1>1, <1>2, <2>1
  <2> QED
    BY <1>2, <2>1, <2>2 DEF Ahead
<1> QED
  BY <1>3, <1>4, <1>5, <1>6 DEF SweepInv

\* The steps that touch neither the index nor what is known of iTop.
LEMMA AdminSafe ==
  ASSUME SweepInv, NEW r \in Replica,
         Begin(r) \/ ResetCursors(r) \/ ClearFlag(r) \/ ReadCursor(r) \/ MoveCursor(r)
           \/ StampReconciled(r) \/ PassFails(r)
  PROVE  SweepInv'
<1>1. /\ UNCHANGED <<clock, itop, lock, index, kept>>
      /\ IsWorking(r)
  BY PlacesAre DEF Begin, ResetCursors, ClearFlag, ReadCursor, MoveCursor, StampReconciled,
                   PassFails, At, IsWorking, world, qdrant, redis
<1>2. cursor' \in [Class -> Time \union {NoTime}]
  BY PassIs DEF Begin, ResetCursors, ClearFlag, ReadCursor, MoveCursor, StampReconciled,
               PassFails, redis, Passes
<1>3. SUFFICES \E p \in Passes : /\ pass' = [pass EXCEPT ![r] = p]
                                 /\ p.pc \notin {"write", "reconcile", "drop"}
  BY <1>1, <1>2, <1>3, Mine, PassIs DEF Met
<1>. DEFINE s == pass[r]
<1>4. s \in Passes /\ pass \in [Replica -> Passes]
  BY PassIs
<1>5. CASE Begin(r) \/ ResetCursors(r) \/ ClearFlag(r) \/ StampReconciled(r)
  <2>1. PICK place \in {"reset", "clear", "ensure", "release"} :
          pass' = [pass EXCEPT ![r] = [s EXCEPT !.pc = place]]
    BY <1>5 DEF Begin, ResetCursors, ClearFlag, StampReconciled
  <2>2. [s EXCEPT !.pc = place] \in Passes /\ [s EXCEPT !.pc = place].pc = place
    BY <1>4, PlacesAre DEF Passes
  <2> QED
    BY <2>1, <2>2
<1>6. CASE ReadCursor(r)
  <2>1. PICK c \in s.todo :
          pass' = [pass EXCEPT ![r] = [s EXCEPT !.pc = "page", !.class = c, !.page = 1,
                                                !.since = Since(c), !.seen = cursor[c]]]
    BY ZenonT(30), <1>6 DEF ReadCursor
  <2>2. c \in Class /\ cursor[c] \in Time \union {NoTime}
    BY <1>4, <2>1, PassIs DEF Passes
  <2>3. Since(c) \in Int
    <3>1. cursor[c] - Overlap \in Int /\ 0 \in Int
      <4>1. Overlap \in Int
        BY DEF Overlap
      <4>2. cursor[c] \in Int
        BY <2>2, IdleIs
      <4> QED
        BY <4>1, <4>2
    <3>2. Max({0, cursor[c] - Overlap}) \in Int
      BY <3>1, MaxOfTwo
    <3> QED
      BY <3>1, <3>2 DEF Since, Resumes
  <2>. DEFINE p == [s EXCEPT !.pc = "page", !.class = c, !.page = 1,
                             !.since = Since(c), !.seen = cursor[c]]
  <2>4. p \in Passes /\ p.pc = "page"
    BY <1>4, <2>2, <2>3, PlacesAre DEF Passes
  <2> QED
    BY <2>1, <2>4
<1>7. CASE MoveCursor(r)
  <2>1. /\ Leaving(s, s.clean) \in Passes /\ Leaving(s, s.clean).pc = "class"
    BY <1>4, IdleIs, PlacesAre DEF Leaving, Passes
  <2> QED
    BY <1>7, <2>1 DEF MoveCursor
<1>8. CASE PassFails(r)
  <2>1. LET p == [Idle EXCEPT !.pc = "release", !.started = s.started]
        IN  p \in Passes /\ p.pc = "release"
    BY <1>4, IdleIs, PlacesAre DEF Passes
  <2> QED
    BY <1>8, <2>1 DEF PassFails
<1> QED
  BY <1>5, <1>6, <1>7, <1>8

LEMMA EnsureSafe == ASSUME SweepInv, NEW r \in Replica, EnsureVersion(r) PROVE SweepInv'
<1>. DEFINE s == pass[r]
            p == [s EXCEPT !.pc = "class", !.model = NoModel]
<1>1. /\ IsWorking(r) /\ UNCHANGED <<clock, itop, lock, cursor>>
      /\ pass' = [pass EXCEPT ![r] = p]
      /\ index' \in {index, kept, EmptyIndex} /\ kept' \in {index, kept, EmptyIndex}
  BY PlacesAre DEF EnsureVersion, At, IsWorking, world, redis, qdrant
<1>2. p \in Passes /\ p.pc = "class"
  BY PassIs, PlacesAre DEF Passes
<1>3. /\ IsIndex(EmptyIndex)
      /\ \A o \in Object : EmptyIndex[o] = NoChunks
  BY DEF IsIndex, EmptyIndex
<1>4. /\ IsIndex(index') /\ IsIndex(kept')
      /\ \A o \in Object : itop[o] = NotYet => index'[o] = NoChunks /\ kept'[o] = NoChunks
  BY <1>1, <1>3, PassIs DEF IsIndex
<1>. HIDE DEF p
<1> QED
  BY <1>1, <1>2, <1>4, Mine, PassIs DEF Met

\* The records of a page are of objects iTop has.
LEMMA PageIs ==
  ASSUME SweepInv, NEW c \in Class, NEW since, NEW page
  PROVE  /\ Page(c, since, page) \subseteq PageRecords
         /\ \A x \in Page(c, since, page) : itop[x.object] # NotYet /\ x.stamp \in -1 .. MaxTime
<1>1. SUFFICES ASSUME NEW x \in Page(c, since, page)
               PROVE  x \in PageRecords /\ itop[x.object] # NotYet /\ x.stamp \in -1 .. MaxTime
  OBVIOUS
<1>2. PICK i \in Listed(c, since) :
        x = [object |-> <<c, i>>, inScope |-> itop[<<c, i>>].inScope,
             text |-> itop[<<c, i>>].text, stamp |-> itop[<<c, i>>].stamp]
  BY DEF Page
<1>3. i \in IdsOf[c] /\ itop[<<c, i>>].there
  BY DEF Listed
<1>4. <<c, i>> \in Object /\ itop[<<c, i>>] \in Record
  BY <1>3, ObjectIs DEF SweepInv, Typed
<1>5. x.object = <<c, i>> /\ x \in PageRecords
  BY <1>2, <1>4 DEF PageRecords, Record
<1>6. x.stamp \in -1 .. MaxTime
  BY <1>5 DEF PageRecords, Time, NoTime
<1> QED
  BY <1>3, <1>5, <1>6 DEF NotYet

\* Deleting objects leaves the rest of the index as it is.
LEMMA DeletedIs ==
  ASSUME NEW some
  PROVE  /\ IsIndex(DeleteObjects(some))
         /\ \A o \in Object : DeleteObjects(some)[o] = IF o \in some THEN NoChunks ELSE index[o]
BY DEF DeleteObjects, IsIndex

\* Where a pass goes when it has written an object of its page, or has read one.
LEMMA PagedIs ==
  ASSUME NEW p \in Passes
  PROVE  /\ Paged(p) \in Passes
         /\ Paged(p).pc \in {"write", "cursor", "page"}
         /\ Paged(p).batch = p.batch
<1>1. \A place \in {"write", "cursor"} :
        /\ [p EXCEPT !.pc = place] \in Passes
        /\ [p EXCEPT !.pc = place].pc = place
        /\ [p EXCEPT !.pc = place].batch = p.batch
  BY PlacesAre DEF Passes
<1>2. /\ [p EXCEPT !.pc = "page", !.page = @ + 1] \in Passes
      /\ [p EXCEPT !.pc = "page", !.page = @ + 1].pc = "page"
      /\ [p EXCEPT !.pc = "page", !.page = @ + 1].batch = p.batch
  <2>1. p.page + 1 \in Nat
    BY DEF Passes
  <2> QED
    BY <2>1, PlacesAre DEF Passes
<1>3. Paged(p) \in {[p EXCEPT !.pc = "write"], [p EXCEPT !.pc = "cursor"],
                   [p EXCEPT !.pc = "page", !.page = @ + 1]}
  BY DEF Paged
<1> QED
  BY <1>1, <1>2, <1>3

LEMMA ReadPageSafe == ASSUME SweepInv, NEW r \in Replica, ReadPage(r) PROVE SweepInv'
<1>. DEFINE s == pass[r]
            records == Page(s.class, s.since, s.page)
            batch == {x \in records : Leaves(x) \/ Accepted(x.text)}
            seen == Max({s.seen} \union {record.stamp : record \in records})
            p == WithPage(s, records)
<1>1. /\ s.pc = "page" /\ UNCHANGED <<clock, itop, lock, index, kept, cursor>>
      /\ pass' = [pass EXCEPT ![r] = Paged(p)]
  <2>1. s.pc = "page" /\ UNCHANGED <<clock, itop, lock, index, kept, cursor>>
    BY DEF ReadPage, At, world, redis, qdrant
  <2>2. pass' = [pass EXCEPT ![r] = Paged(p)]
    BY Zenon DEF ReadPage
  <2> QED
    BY <2>1, <2>2
<1>2. s \in Passes /\ s.class \in Class /\ IsWorking(r)
  BY <1>1, PassIs, PlacesAre DEF Passes, IsWorking
<1>3. /\ batch \subseteq PageRecords
      /\ \A x \in batch : itop[x.object] # NotYet
  BY <1>2, PageIs
<1>4. seen \in Time \union {NoTime}
  <2>. DEFINE S == {s.seen} \union {record.stamp : record \in records}
  <2>1. s.seen \in -1 .. MaxTime
    BY <1>2 DEF Passes, Time, NoTime
  <2>2. S \in SUBSET (-1 .. MaxTime) /\ S # {}
    <3>1. \A record \in records : record.stamp \in -1 .. MaxTime
      BY <1>2, PageIs
    <3> QED
      BY <2>1, <3>1
  <2>3. Max(S) \in -1 .. MaxTime
    <3>. HIDE DEF S
    <3> QED
      BY <2>2, HasMax
  <2> QED
    BY <2>3 DEF Time, NoTime
<1>5. IsLast(records) \in BOOLEAN
  BY DEF IsLast
<1>6. p \in Passes /\ p.batch = batch
  <2>1. p = [s EXCEPT !.batch = batch, !.last = IsLast(records), !.seen = seen]
    BY DEF WithPage
  <2>. HIDE DEF p, records, batch, seen
  <2> QED
    BY <1>2, <1>3, <1>4, <1>5, <2>1 DEF Passes
<1>. HIDE DEF p, batch
<1> QED
  BY <1>1, <1>2, <1>3, <1>6, PagedIs, Mine, PassIs DEF Met

\* An object of the page is dropped or written, or a write is cut short.
LEMMA WrittenIs ==
  ASSUME SweepInv, NEW r \in Replica, IsWorking(r),
         MaybeHalfWritten(r) \/ DropLeft(r) \/ WriteObject(r)
  PROVE  /\ IsIndex(index')
         /\ \A o \in Object : itop[o] = NotYet => index'[o] = NoChunks
         /\ pass[r].pc # "write" => index' = index
<1>1. CASE UNCHANGED index
  BY <1>1, PassIs
<1>2. CASE /\ At(r, "write")
           /\ \E record \in pass[r].batch : \E held :
                index' = [index EXCEPT ![record.object] = held]
  <2>1. PICK record \in pass[r].batch :
          \E held : index' = [index EXCEPT ![record.object] = held]
    BY <1>2
  <2>2. itop[record.object] # NotYet
    BY <1>2, PassIs DEF Met, At
  <2>3. IsIndex(index)
    BY PassIs
  <2>4. \A o \in Object : o # record.object => index'[o] = index[o]
    BY <2>1, <2>3 DEF IsIndex
  <2>5. IsIndex(index')
    BY <2>1, <2>3 DEF IsIndex
  <2> QED
    BY <1>2, <2>2, <2>4, <2>5, PassIs DEF At
<1> QED
  BY <1>1, <1>2 DEF MaybeHalfWritten, DropLeft, WriteObject, Writing

LEMMA WriteSafe ==
  ASSUME SweepInv, NEW r \in Replica, DropLeft(r) \/ WriteObject(r)
  PROVE  SweepInv'
<1>. DEFINE s == pass[r]
<1>1. /\ s.pc = "write" /\ IsWorking(r) /\ UNCHANGED <<clock, itop, lock, kept, cursor>>
  BY PlacesAre DEF DropLeft, WriteObject, Writing, At, IsWorking, world, redis
<1>2. PICK record \in s.batch :
        pass' = [pass EXCEPT ![r] = Paged(Without(s, record))]
  BY Zenon DEF DropLeft, WriteObject
<1>. DEFINE p == Without(s, record)
<1>3. p \in Passes /\ p.batch \subseteq s.batch
  BY ZenonT(30), PassIs DEF Passes, Without
<1>. HIDE DEF p
<1>4. pass' = [pass EXCEPT ![r] = Paged(p)]
  BY <1>2 DEF p
<1>5. \A x \in p.batch : itop[x.object] # NotYet
  BY <1>1, <1>3, PassIs DEF Met
<1> QED
  BY <1>1, <1>3, <1>4, <1>5, PagedIs, WrittenIs, Mine, PassIs DEF Met

\* A class or the process dies, in the middle of a write perhaps.
LEMMA DeathSafe ==
  ASSUME SweepInv, NEW r \in Replica, ClassFails(r) \/ Crash(r)
  PROVE  SweepInv'
<1>. DEFINE s == pass[r]
<1>1. /\ s \in Passes /\ s.pc # "idle" /\ IsWorking(r)
      /\ UNCHANGED <<clock, itop, lock, kept, cursor>> /\ MaybeHalfWritten(r)
  BY PassIs, PlacesAre DEF ClassFails, Crash, At, IsWorking, world, redis
<1>2. PICK p \in {Idle, Leaving(s, FALSE)} : pass' = [pass EXCEPT ![r] = p]
  BY DEF ClassFails, Crash
<1>3. p \in Passes /\ p.pc \in {"idle", "class"}
  <2>1. Leaving(s, FALSE) \in Passes /\ Leaving(s, FALSE).pc = "class"
    BY <1>1, IdleIs, PlacesAre DEF Leaving, Passes
  <2> QED
    BY <1>2, <2>1, IdleIs
<1> QED
  BY <1>1, <1>2, <1>3, WrittenIs, Mine, PassIs DEF Met

-----------------------------------------------------------------------------
(* The reconciliation. *)

\* It begins with every class, and has all that is gone before it.
LEMMA ClassesSafe == ASSUME SweepInv, NEW r \in Replica, ClassesDone(r) PROVE SweepInv'
<1>. DEFINE s == pass[r]
<1>1. /\ IsWorking(r) /\ UNCHANGED <<clock, itop, lock, cursor, index>>
      /\ kept' \in {kept, EmptyIndex}
  BY PlacesAre DEF ClassesDone, At, IsWorking, world, redis, qdrant
<1>2. /\ IsIndex(kept')
      /\ \A o \in Object : itop[o] = NotYet => index[o] = NoChunks /\ kept'[o] = NoChunks
  BY <1>1, PassIs DEF IsIndex, EmptyIndex
<1>3. PICK p \in {Reconciling(s), [s EXCEPT !.pc = "release"]} : pass' = [pass EXCEPT ![r] = p]
  BY DEF ClassesDone
<1>4. CASE p = [s EXCEPT !.pc = "release"]
  <2>1. p \in Passes /\ p.pc = "release"
    BY <1>4, PassIs, PlacesAre DEF Passes
  <2> QED
    BY <1>1, <1>2, <1>3, <2>1, Mine, PassIs DEF Met
<1>5. CASE p = Reconciling(s)
  <2>1. /\ p \in Passes /\ p.pc = "reconcile" /\ p.todo = Class /\ p.after = 0
        /\ p.gone = {o \in Object : ~itop[o].there}
    BY ZenonT(30), <1>5, PassIs, PlacesAre DEF Passes, Reconciling
  <2>2. ASSUME NEW o \in p.gone, index[o] # NoChunks PROVE Ahead(p, o)
    BY <2>1, <2>2, ObjectIs, PassIs DEF Ahead
  <2> QED
    BY <1>1, <1>2, <1>3, <2>1, <2>2, Mine, PassIs DEF Met
<1> QED
  BY <1>3, <1>4, <1>5

\* A batch that is listed leaves nothing behind: what it skips follows it, and
\* what is gone of it is to be dropped.
LEMMA ListSafe == ASSUME SweepInv, NEW r \in Replica, ListBatch(r) PROVE SweepInv'
<1>. DEFINE s == pass[r]
<1>1. /\ s.pc = "reconcile" /\ IsWorking(r)
      /\ UNCHANGED <<clock, itop, lock, cursor, index, kept>>
  BY PlacesAre DEF ListBatch, At, IsWorking, world, redis, qdrant
<1>2. PICK c \in s.todo :
        /\ s.after = 0 \/ c = s.class
        /\ pass' = [pass EXCEPT ![r] = WithBatch(s, c, IndexedIds(c, s.after))]
  BY DEF ListBatch
<1>. DEFINE ids == IndexedIds(c, s.after)
            held == {i \in IdsOf[c] : index[<<c, i>>] # NoChunks /\ i > s.after}
            p == WithBatch(s, c, ids)
<1>3. /\ s \in Passes /\ c \in Class /\ s.after \in Nat /\ s.todo \subseteq Class
      /\ s.gone \subseteq Object
  BY <1>2, PassIs DEF Passes
<1>4. /\ ids \subseteq held
      /\ ids = {} => held = {}
      /\ ids # {} => /\ Max(ids) \in Nat \ {0}
                     /\ \A i \in held : i > Max(ids) \/ i \in ids
  BY <1>3, BatchIs
<1>5. ASSUME NEW o \in s.gone, index[o] # NoChunks PROVE Ahead(s, o)
  BY <1>1, <1>5, PassIs DEF Reconciles
\* What is gone in this class and has chunks left is held.
<1>6. ASSUME NEW o \in s.gone, index[o] # NoChunks, o[1] = c PROVE o[2] \in held /\ o = <<c, o[2]>>
  <2>1. o = <<c, o[2]>> /\ o[2] \in IdsOf[c] /\ o[2] \in Nat /\ o[2] > 0
    BY <1>3, <1>6, ObjectIs
  <2>2. o[2] > s.after
    BY <1>1, <1>2, <1>3, <1>5, <1>6, <2>1 DEF Ahead
  <2> QED
    BY <1>6, <2>1, <2>2
<1>. HIDE DEF ids, held
<1>0. pass' = [pass EXCEPT ![r] = p] /\ UNCHANGED <<clock, itop, lock, cursor, index, kept>>
  BY <1>1, <1>2 DEF ids
<1>7. CASE ids = {}
  <2>1. p = [s EXCEPT !.class = c, !.after = 0, !.todo = s.todo \ {c}]
    BY <1>7 DEF WithBatch
  <2>. HIDE DEF p
  <2>2. /\ p \in Passes /\ p.pc = "reconcile" /\ p.todo = s.todo \ {c} /\ p.after = 0
        /\ p.gone = s.gone
    BY <1>1, <1>3, <2>1 DEF Passes
  <2>3. ASSUME NEW o \in p.gone, index[o] # NoChunks PROVE Ahead(p, o)
    <3>1. o \in s.gone /\ Ahead(s, o) /\ o[1] # c
      BY <1>4, <1>5, <1>6, <1>7, <2>2, <2>3
    <3> QED
      BY <2>2, <3>1 DEF Ahead
  <2>4. Met(p)
    BY <2>2 DEF Met
  <2> QED
    BY <1>0, <1>1, <2>2, <2>3, <2>4, Mine, PassIs
<1>8. CASE ids # {}
  <2>. DEFINE orphans == {[object |-> <<c, i>>] : i \in ids \ ExistingIds(c, ids)}
  <2>1. p = [s EXCEPT !.pc = "drop", !.class = c, !.after = Max(ids), !.batch = orphans]
    BY <1>8 DEF WithBatch
  <2>2. orphans \subseteq OrphanRecords
    <3>1. \A i \in ids : <<c, i>> \in Object
      BY <1>3, <1>4, ObjectIs DEF held
    <3> QED
      BY <3>1 DEF OrphanRecords
  <2>3. \A i \in ids : ~itop[<<c, i>>].there => [object |-> <<c, i>>] \in orphans
    BY DEF ExistingIds
  <2>. HIDE DEF p, orphans
  <2>4. /\ p \in Passes /\ p.pc = "drop" /\ p.todo = s.todo /\ p.after = Max(ids)
        /\ p.class = c /\ p.gone = s.gone /\ p.batch = orphans
    BY <1>3, <1>4, <1>8, <2>1, <2>2, PlacesAre DEF Passes
  <2>5. ASSUME NEW o \in p.gone, index[o] # NoChunks PROVE Ahead(p, o)
    <3>1. o \in s.gone /\ Ahead(s, o)
      BY <1>5, <2>4, <2>5
    <3>2. CASE o[1] # c
      BY <2>4, <3>1, <3>2 DEF Ahead
    <3>3. CASE o[1] = c
      <4>1. o[2] \in held /\ o = <<c, o[2]>>
        BY <1>6, <2>5, <3>1, <3>3
      <4>2. o[2] > p.after \/ o[2] \in ids
        BY <1>4, <1>8, <2>4, <4>1
      <4>3. o[2] \in ids => [object |-> o] \in p.batch
        BY <2>3, <2>4, <3>1, <4>1 DEF Ahead
      <4> QED
        BY <2>4, <3>1, <4>2, <4>3 DEF Ahead
    <3> QED
      BY <3>2, <3>3
  <2>6. Met(p)
    BY <2>4 DEF Met
  <2> QED
    BY <1>0, <1>1, <2>4, <2>5, <2>6, Mine, PassIs
<1> QED
  BY <1>7, <1>8

\* The orphans of the batch are dropped; the rest follows it.
LEMMA DropSafe == ASSUME SweepInv, NEW r \in Replica, DropOrphans(r) PROVE SweepInv'
<1>. DEFINE s == pass[r]
            some == {x.object : x \in s.batch}
            p == [s EXCEPT !.pc = "reconcile", !.batch = {}]
<1>1. /\ s.pc = "drop" /\ IsWorking(r) /\ UNCHANGED <<clock, itop, lock, cursor, kept>>
      /\ index' = DeleteObjects(some) /\ pass' = [pass EXCEPT ![r] = p]
  BY PlacesAre DEF DropOrphans, At, IsWorking, world, redis
<1>2. /\ p \in Passes /\ p.pc = "reconcile" /\ p.batch = {} /\ p.todo = s.todo
      /\ p.after = s.after /\ p.class = s.class /\ p.gone = s.gone /\ s.gone \subseteq Object
  BY PassIs, PlacesAre DEF Passes
<1>3. /\ IsIndex(index')
      /\ \A o \in Object : index'[o] = IF o \in some THEN NoChunks ELSE index[o]
  BY <1>1, DeletedIs
<1>4. ASSUME NEW o, [object |-> o] \in s.batch PROVE o \in some
  <2>1. [object |-> o].object = o
    OBVIOUS
  <2> QED
    BY <1>4, <2>1
<1>. HIDE DEF p, some
<1>5. ASSUME NEW o \in p.gone, index'[o] # NoChunks PROVE Ahead(p, o)
  <2>1. o \in Object /\ o \in s.gone /\ o \notin some /\ index[o] # NoChunks
    BY <1>2, <1>3, <1>5
  <2>2. Ahead(s, o)
    BY <1>1, <2>1, PassIs DEF Reconciles
  <2> QED
    BY <1>2, <1>4, <2>1, <2>2 DEF Ahead
<1>6. \A o \in Object : itop[o] = NotYet => index'[o] = NoChunks /\ kept'[o] = NoChunks
  BY <1>1, <1>3, PassIs
<1>7. Met(p)
  BY <1>2 DEF Met
<1>8. cursor' \in [Class -> Time \union {NoTime}] /\ IsIndex(kept')
  BY <1>1, PassIs
<1> QED
  BY <1>1, <1>2, <1>3, <1>5, <1>6, <1>7, <1>8, Mine

-----------------------------------------------------------------------------
(* Locks and the world. *)

LEMMA LockSafe ==
  ASSUME SweepInv, NEW r \in Replica, TakeLock(r) \/ Release(r)
  PROVE  SweepInv'
<1>1. /\ UNCHANGED <<clock, itop, cursor, index, kept>>
      /\ \A q \in Replica : q # r => pass[q].pc = "idle"
  <2>1. UNCHANGED <<clock, itop, cursor, index, kept>>
    BY DEF TakeLock, Release, world, redis, qdrant
  <2>2. ASSUME NEW q \in Replica, q # r PROVE pass[q].pc = "idle"
    <3>1. lock # q
      BY <2>2, PlacesAre DEF TakeLock, Release, At, SweepInv, OneSweep, IsWorking
    <3> QED
      BY <3>1, PassIs DEF SweepInv, OneSweep, IsWorking
  <2> QED
    BY <2>1, <2>2
<1>2. PICK p \in Passes : /\ pass' = [pass EXCEPT ![r] = p]
                          /\ p.pc = "idle" \/ (p.pc = "begin" /\ lock' = r)
                          /\ lock' \in Replica \union {NoOne}
  <2>1. CASE TakeLock(r)
    <3>1. PICK m \in Model :
            pass' = [pass EXCEPT ![r] = [Idle EXCEPT !.pc = "begin", !.model = m,
                                                     !.started = clock, !.todo = Class]]
      BY <2>1 DEF TakeLock
    <3>. DEFINE p == [Idle EXCEPT !.pc = "begin", !.model = m, !.started = clock, !.todo = Class]
    <3>2. p \in Passes /\ p.pc = "begin"
      BY IdleIs, PlacesAre, PassIs DEF Passes
    <3> QED
      BY <2>1, <3>1, <3>2 DEF TakeLock
  <2>2. CASE Release(r)
    BY <2>2, IdleIs DEF Release, SweepInv, Typed
  <2> QED
    BY <2>1, <2>2
<1>3. /\ pass' \in [Replica -> Passes] /\ pass'[r] = p
      /\ \A q \in Replica : q # r => pass'[q].pc = "idle"
  BY <1>1, <1>2, PassIs
<1>4. Typed'
  BY <1>1, <1>2, <1>3 DEF SweepInv, Typed, IsIndex
<1>5. OneSweep'
  BY <1>2, <1>3, PlacesAre DEF OneSweep, IsWorking, Working
<1>6. MetOnly'
  BY <1>1, <1>2, <1>3 DEF SweepInv, MetOnly, Met
<1>7. Reconciled'
  BY <1>2, <1>3 DEF Reconciled, Reconciles
<1> QED
  BY <1>4, <1>5, <1>6, <1>7 DEF SweepInv

\* Nobody works under a lock that expires.
LEMMA ExpirySafe == ASSUME SweepInv, LockExpires PROVE SweepInv'
<1>1. UNCHANGED <<clock, itop, cursor, index, kept, pass>> /\ lock' = NoOne
      /\ \A r \in Replica : lock = r => ~IsWorking(r)
  BY DEF LockExpires, OwnerIsDead, world, redis, qdrant
<1>2. Typed'
  BY <1>1 DEF SweepInv, Typed, IsIndex
<1>3. OneSweep'
  BY <1>1 DEF SweepInv, OneSweep, IsWorking
<1>4. MetOnly' /\ Reconciled'
  BY <1>1 DEF SweepInv, MetOnly, Met, Reconciled, Reconciles, Ahead
<1> QED
  BY <1>2, <1>3, <1>4 DEF SweepInv

LEMMA ClockSafe == ASSUME SweepInv, TimePasses PROVE SweepInv'
<1>1. UNCHANGED <<itop, cursor, index, kept, pass, lock>>
  BY DEF TimePasses, redis, qdrant
<1>2. clock' \in Time
  BY DEF TimePasses, SweepInv, Typed, Time
<1>3. Typed'
  BY <1>1, <1>2 DEF SweepInv, Typed, IsIndex
<1>4. OneSweep' /\ MetOnly' /\ Reconciled'
  BY <1>1 DEF SweepInv, OneSweep, IsWorking, MetOnly, Met, Reconciled, Reconciles, Ahead
<1> QED
  BY <1>3, <1>4 DEF SweepInv

\* An object that is gone stays gone, so what is ahead of a reconciliation stays
\* ahead of it whatever happens in iTop.
LEMMA WorldSafe ==
  ASSUME SweepInv, NEW o \in Object, Save(o) \/ Discard(o)
  PROVE  SweepInv'
<1>1. UNCHANGED <<clock, cursor, index, kept, lock, pass>>
  BY DEF Save, Discard, redis, qdrant
<1>2. PICK record \in Record : itop' = [itop EXCEPT ![o] = record] /\ record # NotYet
  <2>1. CASE Save(o)
    <3>1. clock \in Time \union {NoTime}
      BY DEF SweepInv, Typed
    <3>2. \A text \in Texts, inScope \in BOOLEAN :
            LET saved == [there |-> TRUE, inScope |-> inScope, text |-> text, stamp |-> clock]
            IN  saved \in Record /\ saved # NotYet
      BY <3>1 DEF Record, NotYet
    <3> QED
      BY <2>1, <3>2 DEF Save
  <2>2. CASE Discard(o)
    <3>1. Gone \in Record /\ Gone.stamp = 0 /\ NotYet.stamp = -1
      BY IdleIs DEF Gone, NotYet, Record, NoTime
    <3>2. Gone # NotYet /\ itop' = [itop EXCEPT ![o] = Gone]
      BY <2>2, <3>1 DEF Discard
    <3> QED
      BY <3>1, <3>2
  <2> QED
    BY <2>1, <2>2
<1>3. /\ itop' \in [Object -> Record] /\ itop'[o] # NotYet
      /\ \A x \in Object : x # o => itop'[x] = itop[x]
  BY <1>2 DEF SweepInv, Typed
<1>4. \A x \in Object : ~itop[x].there /\ itop[x] # NotYet => itop'[x] = itop[x] \/ ~itop'[x].there
  BY <1>3 DEF Save, Discard, Gone, NotYet
<1>5. Typed'
  BY <1>1, <1>3 DEF SweepInv, Typed, IsIndex
<1>6. OneSweep'
  BY <1>1 DEF SweepInv, OneSweep, IsWorking
<1>7. MetOnly'
  <2>1. \A x \in Object : itop'[x] = NotYet => itop[x] = NotYet
    BY <1>3
  <2>2. ASSUME NEW r \in Replica PROVE Met(pass[r])'
    <3>1. SUFFICES ASSUME pass[r].pc = "write", NEW x \in pass[r].batch
                   PROVE  itop'[x.object] # NotYet
      BY <1>1 DEF Met
    <3>2. itop[x.object] # NotYet
      BY <3>1, PassIs DEF Met
    <3> QED
      BY <1>2, <1>3, <3>2 DEF SweepInv, Typed
  <2> QED
    BY <1>1, <2>1, <2>2 DEF SweepInv, MetOnly
<1>8. Reconciled'
  <2>1. SUFFICES ASSUME NEW r \in Replica, pass[r].pc \in {"reconcile", "drop"},
                        NEW x \in pass[r].gone, index[x] # NoChunks
                 PROVE  Ahead(pass[r], x)'
    BY <1>1 DEF Reconciled, Reconciles
  <2>2. Ahead(pass[r], x) /\ x \in Object
    BY <2>1, PassIs DEF Reconciles, Passes
  <2>3. ~itop'[x].there /\ itop'[x] # NotYet
    BY <1>3, <1>4, <2>2 DEF Ahead
  <2> QED
    BY <1>1, <2>2, <2>3 DEF Ahead
<1> QED
  BY <1>5, <1>6, <1>7, <1>8 DEF SweepInv

LEMMA RequestSafe == ASSUME SweepInv, RequestReindex \/ UNCHANGED vars PROVE SweepInv'
<1>1. UNCHANGED <<clock, itop, cursor, index, kept, lock, pass>>
  BY DEF RequestReindex, vars, qdrant
<1> QED
  BY <1>1 DEF SweepInv, Typed, IsIndex, OneSweep, IsWorking, MetOnly, Met, Reconciled, Reconciles, Ahead

-----------------------------------------------------------------------------
(* The theorems. *)

LEMMA StepSweep == SweepInv /\ [Next]_vars => SweepInv'
<1> SUFFICES ASSUME SweepInv, [Next]_vars PROVE SweepInv'
  OBVIOUS
<1>1. CASE \E r \in Replica : PassStep(r) \/ PassFails(r) \/ Crash(r)
  <2>1. PICK r \in Replica : PassStep(r) \/ PassFails(r) \/ Crash(r)
    BY <1>1
  <2>2. CASE TakeLock(r) \/ Release(r)
    BY <2>2, LockSafe
  <2>3. CASE Begin(r) \/ ResetCursors(r) \/ ClearFlag(r) \/ ReadCursor(r) \/ MoveCursor(r)
               \/ StampReconciled(r) \/ PassFails(r)
    BY <2>3, AdminSafe
  <2>4. CASE EnsureVersion(r)
    BY <2>4, EnsureSafe
  <2>5. CASE ReadPage(r)
    BY <2>5, ReadPageSafe
  <2>6. CASE DropLeft(r) \/ WriteObject(r)
    BY <2>6, WriteSafe
  <2>7. CASE ClassFails(r) \/ Crash(r)
    BY <2>7, DeathSafe
  <2>8. CASE ClassesDone(r)
    BY <2>8, ClassesSafe
  <2>9. CASE ListBatch(r)
    BY <2>9, ListSafe
  <2>10. CASE DropOrphans(r)
    BY <2>10, DropSafe
  <2> QED
    BY <2>1, <2>2, <2>3, <2>4, <2>5, <2>6, <2>7, <2>8, <2>9, <2>10 DEF PassStep
<1>2. CASE LockExpires
  BY <1>2, ExpirySafe
<1>3. CASE TimePasses
  BY <1>3, ClockSafe
<1>4. CASE \E o \in Object : Save(o) \/ Discard(o)
  BY <1>4, WorldSafe
<1>5. CASE RequestReindex \/ UNCHANGED vars
  BY <1>5, RequestSafe
<1> QED
  BY <1>1, <1>2, <1>3, <1>4, <1>5 DEF Next

\* The invariant holds in every state (indexer.py _sweep_locked, _reconcile).
THEOREM SweepInvariant == Spec => []SweepInv
<1>1. SweepInv /\ [Next]_vars => SweepInv'
  BY StepSweep
<1> QED
  BY InitSweep, <1>1, PTL DEF Spec

\* Any number of replicas, dying wherever they like: at most one of them sweeps,
\* and it is the owner of the lock (sync_state.py sweep_lock).
THEOREM SweepsExclude == Spec => []OneSweep
<1>1. SweepInv => OneSweep
  BY DEF SweepInv
<1> QED
  BY <1>1, SweepInvariant, PTL

\* A reconciliation that is stamped has dropped everything that was gone when it
\* began, whatever its batches hold and whatever happens meanwhile (indexer.py
\* _reconcile).
THEOREM OrphansDropped == Spec => []OrphansGo
<1>1. SweepInv => OrphansGo
  <2>1. SUFFICES ASSUME SweepInv, NEW r \in Replica, At(r, "reconcile"), pass[r].todo = {},
                        NEW o \in pass[r].gone, index[o] # NoChunks
                 PROVE  FALSE
    BY DEF OrphansGo
  <2>2. Ahead(pass[r], o)
    BY <2>1, PassIs DEF Reconciles, At
  <2> QED
    BY <2>1, <2>2 DEF Ahead
<1> QED
  BY <1>1, SweepInvariant, PTL

-----------------------------------------------------------------------------
(* Positions in a list, and the pages they fall into. *)

\* Of an element's position: it counts from one and does not pass the end.
LEMMA PositionIn ==
  ASSUME NEW S, IsFiniteSet(S), S \subseteq Nat, NEW i \in S
  PROVE  /\ Position(i, S) \in Nat /\ Position(i, S) >= 1
         /\ Cardinality(S) \in Nat /\ Position(i, S) <= Cardinality(S)
<1>. DEFINE A == {k \in S : k <= i}
<1>1. A \subseteq S /\ i \in A
  OBVIOUS
<1>2. IsFiniteSet(A) /\ Cardinality(A) <= Cardinality(S)
  BY <1>1, FS_Subset
<1>3. Cardinality(A) \in Nat /\ Cardinality(S) \in Nat
  BY <1>2, FS_CardinalityType
<1>4. Cardinality(A) # 0
  BY <1>1, <1>2, FS_EmptySet
<1> QED
  BY <1>2, <1>3, <1>4 DEF Position

LEMMA SizesAre ==
  /\ PageSize \in Nat /\ PageSize >= 1 /\ Interval \in Nat /\ Interval >= 1
  /\ Overlap \in Nat /\ MaxTime \in Nat /\ MaxEvents \in Nat
BY DEF Overlap

\* Where a page begins and where it ends.
LEMMA PagesAre ==
  ASSUME NEW page \in Nat, page >= 1
  PROVE  /\ page * PageSize \in Nat /\ (page - 1) * PageSize \in Nat
         /\ page * PageSize = (page - 1) * PageSize + PageSize
<1>1. \A a, b \in Nat : a * b \in Nat
  OBVIOUS
<1>2. \A b \in Nat : page * b = (page - 1) * b + b
  OBVIOUS
<1> QED
  BY <1>1, <1>2, SizesAre

\* The first k elements are k.
FirstOf(S, k) == {i \in S : Position(i, S) <= k}

LEMMA FirstAre ==
  ASSUME NEW S, IsFiniteSet(S), S \subseteq Nat, NEW n \in Nat, n <= Cardinality(S)
  PROVE  IsFiniteSet(FirstOf(S, n)) /\ Cardinality(FirstOf(S, n)) = n
<1>. DEFINE Wrong == {k \in Nat : k <= Cardinality(S) /\ Cardinality(FirstOf(S, k)) # k}
<1>0. /\ Cardinality(S) \in Nat
      /\ \A i \in S : Position(i, S) \in Nat /\ Position(i, S) >= 1
  BY FS_CardinalityType, PositionIn
<1>1. ASSUME NEW k \in Nat
      PROVE  FirstOf(S, k) \subseteq S /\ IsFiniteSet(FirstOf(S, k))
  <2>1. FirstOf(S, k) \subseteq S
    BY DEF FirstOf
  <2> QED
    BY <2>1, FS_Subset
<1>2. SUFFICES ASSUME Wrong # {} PROVE FALSE
  <2>1. n \notin Wrong
    BY <1>2
  <2> QED
    BY <1>1, <2>1
<1>3. PICK k \in Wrong : \A u \in Wrong : ~(u < k)
  <2>1. Wrong \subseteq Nat
    OBVIOUS
  <2>. HIDE DEF Wrong
  <2> QED
    BY <1>2, <2>1, HasMin
<1>4. CASE k = 0
  <2>1. FirstOf(S, k) = {}
    <3>1. ASSUME NEW i \in FirstOf(S, k) PROVE FALSE
      <4>1. i \in S /\ Position(i, S) <= 0
        BY <1>4 DEF FirstOf
      <4> QED
        BY <1>0, <4>1
    <3> QED
      BY <3>1
  <2> QED
    BY <1>3, <1>4, <2>1, FS_EmptySet
<1>5. CASE k # 0
  <2>. DEFINE A == FirstOf(S, k - 1)
  <2>1. k - 1 \in Nat /\ k \in Nat /\ k - 1 < k /\ k <= Cardinality(S)
    BY <1>0, <1>5
  <2>2. Cardinality(A) = k - 1
    <3>1. k - 1 \notin Wrong
      BY <1>3, <2>1
    <3> QED
      BY <1>0, <2>1, <3>1
  <2>3. A \subseteq S /\ IsFiniteSet(A) /\ S \ A # {} /\ S \ A \subseteq Nat
    <3>1. A \subseteq S /\ IsFiniteSet(A)
      BY <1>1, <2>1
    <3>2. A # S
      BY <1>0, <2>1, <2>2
    <3> QED
      BY <3>1, <3>2
  <2>4. PICK m \in S \ A : \A u \in S \ A : ~(u < m)
    <3>. HIDE DEF A
    <3> QED
      BY <2>3, HasMin
  <2>5. Position(m, S) \in Nat /\ Position(m, S) > k - 1
    <3>1. m \in S /\ m \notin A
      BY <2>4
    <3>2. ~(Position(m, S) <= k - 1)
      BY <3>1 DEF FirstOf
    <3> QED
      BY <1>0, <2>1, <3>1, <3>2
  <2>6. \A j \in S : j <= m <=> j \in A \/ j = m
    <3>1. SUFFICES ASSUME NEW j \in S PROVE j <= m <=> j \in A \/ j = m
      OBVIOUS
    <3>2. j \in Nat /\ m \in Nat
      BY <2>4
    <3>3. CASE j \in A
      <4>1. Position(j, S) \in Nat /\ Position(j, S) <= k - 1
        BY <2>1, <3>3, PositionIn DEF FirstOf
      <4>2. m < j => Position(m, S) < Position(j, S)
        BY <2>4, <3>2, PositionStrict
      <4> QED
        BY <2>1, <2>5, <3>2, <3>3, <4>1, <4>2
    <3>4. CASE j \notin A
      BY <2>4, <3>2, <3>4
    <3> QED
      BY <3>3, <3>4
  <2>7. {j \in S : j <= m} = A \union {m} /\ m \notin A
    BY <2>3, <2>4, <2>6
  <2>8. Cardinality(A \union {m}) = k
    <3>1. Cardinality(A \union {m}) = Cardinality(A) + 1
      <4>. HIDE DEF A
      <4> QED
        BY <2>3, <2>7, FS_AddElement
    <3> QED
      BY <2>1, <2>2, <3>1
  <2>9. Position(m, S) = k
    BY <2>7, <2>8 DEF Position
  <2>10. FirstOf(S, k) = A \union {m}
    <3>1. ASSUME NEW j \in S PROVE Position(j, S) <= k <=> j \in A \union {m}
      <4>1. Position(j, S) \in Nat /\ j \in Nat /\ m \in Nat
        BY <2>4, PositionIn
      <4>2. CASE j \in A
        BY <2>1, <4>1, <4>2 DEF FirstOf
      <4>3. CASE j = m
        BY <2>1, <2>9, <4>3
      <4>4. CASE j \notin A /\ j # m
        <5>1. m < j
          BY <2>4, <4>1, <4>4
        <5>2. Position(m, S) < Position(j, S)
          BY <2>4, <5>1, PositionStrict
        <5> QED
          BY <2>1, <2>9, <4>1, <4>4, <5>2
      <4> QED
        BY <4>2, <4>3, <4>4
    <3>2. A \union {m} \subseteq S
      BY <2>3, <2>4
    <3> QED
      BY <3>1, <3>2 DEF FirstOf
  <2> QED
    BY <2>8, <2>10
<1> QED
  BY <1>4, <1>5

\* The page of a list: empty places only behind its end.
LEMMA PageOf ==
  ASSUME NEW S, IsFiniteSet(S), S \subseteq Nat, NEW page \in Nat, page >= 1,
         NEW I, I = {i \in S : Position(i, S) \in (page - 1) * PageSize + 1 .. page * PageSize}
  PROVE  /\ IsFiniteSet(I) /\ Cardinality(I) \in Nat
         /\ Cardinality(I) < PageSize => \A i \in S : Position(i, S) <= page * PageSize
         /\ Cardinality(I) >= PageSize => page * PageSize <= Cardinality(S)
<1>. DEFINE lo == (page - 1) * PageSize
            hi == page * PageSize
            n == Cardinality(S)
<1>1. lo \in Nat /\ hi \in Nat /\ hi = lo + PageSize /\ PageSize \in Nat /\ PageSize >= 1
  BY SizesAre, PagesAre
<1>2. n \in Nat /\ \A i \in S : Position(i, S) \in Nat /\ Position(i, S) >= 1 /\ Position(i, S) <= n
  BY FS_CardinalityType, PositionIn
<1>3. I = FirstOf(S, hi) \ FirstOf(S, lo) /\ FirstOf(S, lo) \subseteq FirstOf(S, hi)
      /\ FirstOf(S, hi) \subseteq S
  <2>1. ASSUME NEW i \in S
        PROVE  /\ Position(i, S) \in lo + 1 .. hi <=> Position(i, S) <= hi /\ ~(Position(i, S) <= lo)
               /\ Position(i, S) <= lo => Position(i, S) <= hi
    <3>1. Position(i, S) \in Nat
      BY PositionIn
    <3> QED
      BY <1>1, <3>1
  <2> QED
    BY <2>1 DEF FirstOf
<1>4. IsFiniteSet(I) /\ Cardinality(I) \in Nat
  <2>1. I \subseteq S
    BY <1>3
  <2> QED
    BY <2>1, FS_Subset, FS_CardinalityType
<1>. HIDE DEF lo, hi, n
<1>5. ASSUME hi <= n PROVE Cardinality(I) = PageSize
  <2>1. lo <= n
    BY <1>1, <1>2, <1>5
  <2>2. /\ Cardinality(FirstOf(S, lo)) = lo
        /\ Cardinality(FirstOf(S, hi)) = hi /\ IsFiniteSet(FirstOf(S, hi))
    BY <1>1, <1>5, <2>1, FirstAre DEF n
  <2>3. FirstOf(S, hi) \cap FirstOf(S, lo) = FirstOf(S, lo)
    BY <1>3
  <2>4. Cardinality(I) = Cardinality(FirstOf(S, hi)) - Cardinality(FirstOf(S, lo))
    BY <1>3, <2>2, <2>3, FS_Difference
  <2> QED
    BY <1>1, <2>2, <2>4
<1>6. ASSUME Cardinality(I) < PageSize, NEW i \in S PROVE Position(i, S) <= hi
  <2>1. ~(hi <= n)
    BY <1>1, <1>4, <1>5, <1>6
  <2> QED
    BY <1>1, <1>2, <2>1
<1>7. ASSUME Cardinality(I) >= PageSize PROVE hi <= n
  <2>1. SUFFICES ASSUME n < hi PROVE FALSE
    BY <1>1, <1>2
  <2>2. FirstOf(S, hi) = S
    <3>1. \A i \in S : Position(i, S) <= hi
      BY <1>1, <1>2, <2>1
    <3> QED
      BY <3>1 DEF FirstOf
  <2>3. CASE lo <= n
    <3>1. Cardinality(FirstOf(S, lo)) = lo
      BY <1>1, <2>3, FirstAre DEF n
    <3>2. S \cap FirstOf(S, lo) = FirstOf(S, lo)
      BY <1>3, <2>2
    <3>3. Cardinality(I) = n - lo
      <4>1. I = S \ FirstOf(S, lo)
        BY <1>3, <2>2
      <4>2. Cardinality(S \ FirstOf(S, lo)) = Cardinality(S) - Cardinality(S \cap FirstOf(S, lo))
        BY FS_Difference
      <4> QED
        BY <3>1, <3>2, <4>1, <4>2 DEF n
    <3> QED
      BY <1>1, <1>2, <1>7, <2>1, <3>3
  <2>4. CASE n < lo
    <3>1. \A i \in S : Position(i, S) <= lo
      BY <1>1, <1>2, <2>4
    <3>2. I = {}
      BY <1>3, <3>1 DEF FirstOf
    <3> QED
      <4>1. Cardinality(I) = 0
        BY <3>2, FS_EmptySet
      <4> QED
        BY <1>1, <1>7, <4>1
  <2> QED
    BY <1>1, <1>2, <2>3, <2>4
<1> QED
  BY <1>4, <1>6, <1>7 DEF hi, n

\* A list that loses nothing keeps its elements at their places or moves them back.
LEMMA PositionGrows ==
  ASSUME NEW T, IsFiniteSet(T), T \subseteq Nat, NEW S \in SUBSET T, NEW i \in Nat
  PROVE  Position(i, S) \in Nat /\ Position(i, T) \in Nat /\ Position(i, S) <= Position(i, T)
<1>. DEFINE A == {k \in S : k <= i}
            B == {k \in T : k <= i}
<1>1. A \subseteq B /\ B \subseteq T
  OBVIOUS
<1>2. IsFiniteSet(B) /\ IsFiniteSet(A)
  BY <1>1, FS_Subset
<1>3. Cardinality(A) <= Cardinality(B) /\ Cardinality(A) \in Nat /\ Cardinality(B) \in Nat
  BY <1>1, <1>2, FS_Subset, FS_CardinalityType
<1> QED
  BY <1>3 DEF Position

-----------------------------------------------------------------------------
(* What the steps of a pass make of it. *)

LEMMA PassesAre ==
  ASSUME SweepInv, NEW r \in Replica
  PROVE  /\ pass[r] \in Passes
         /\ \A p : pass' = [pass EXCEPT ![r] = p] =>
              pass'[r] = p /\ \A q \in Replica : q # r => pass'[q] = pass[q]
BY PassIs

\* One replica moves; the others are idle and stay as they are.
LEMMA OthersIdle ==
  ASSUME SweepInv, NEW r \in Replica, PassStep(r) \/ PassFails(r) \/ Crash(r),
         NEW q \in Replica, q # r
  PROVE  pass'[q] = pass[q] /\ pass[q].pc = "idle"
<1>1. pass[q].pc = "idle"
  <2>1. CASE TakeLock(r)
    <3>1. lock # q
      BY <2>1 DEF TakeLock
    <3> QED
      BY <3>1, PassIs DEF SweepInv, OneSweep, IsWorking
  <2>2. CASE ~TakeLock(r)
    <3>1. pass[r].pc # "idle"
      BY <2>2, PlacesAre DEF PassStep, PassFails, Crash, At, Begin, ResetCursors, ClearFlag,
         EnsureVersion, ReadCursor, ReadPage, DropLeft, WriteObject, Writing, MoveCursor,
         ClassFails, ClassesDone, ListBatch, DropOrphans, StampReconciled, Release, Working
    <3>2. lock = r
      BY <3>1, PassIs DEF SweepInv, OneSweep, IsWorking
    <3> QED
      BY <3>2, PassIs DEF SweepInv, OneSweep, IsWorking
  <2> QED
    BY <2>1, <2>2
<1>2. \E p : pass' = [pass EXCEPT ![r] = p]
  <2>1. CASE TakeLock(r) \/ ReadCursor(r) \/ DropLeft(r) \/ WriteObject(r) \/ ListBatch(r)
    BY <2>1 DEF TakeLock, ReadCursor, DropLeft, WriteObject, ListBatch
  <2>2. CASE Begin(r) \/ ResetCursors(r) \/ ClearFlag(r) \/ EnsureVersion(r) \/ MoveCursor(r)
               \/ ClassFails(r) \/ ClassesDone(r) \/ DropOrphans(r) \/ StampReconciled(r)
               \/ Release(r) \/ PassFails(r) \/ Crash(r)
    BY <2>2 DEF Begin, ResetCursors, ClearFlag, EnsureVersion, MoveCursor, ClassFails,
       ClassesDone, DropOrphans, StampReconciled, Release, PassFails, Crash
  <2>3. CASE ReadPage(r)
    BY Zenon, <2>3 DEF ReadPage
  <2> QED
    BY <2>1, <2>2, <2>3 DEF PassStep
<1> QED
  BY <1>1, <1>2, PassesAre

\* What does not change with the place a pass is at.
Carries(p, s) ==
  /\ p.started = s.started /\ p.clean = s.clean /\ p.todo = s.todo /\ p.class = s.class
  /\ p.since = s.since /\ p.seen = s.seen /\ p.page = s.page /\ p.last = s.last
  /\ p.batch = s.batch

\* A pass that has begun nothing, or has left its class.
Blank(p) ==
  /\ p.page = 1 /\ p.since = 0 /\ p.seen = NoTime /\ p.last = FALSE /\ p.batch = {}

LEMMA TakeLockIs ==
  ASSUME SweepInv, NEW r \in Replica, TakeLock(r)
  PROVE  LET p == pass'[r]
         IN  p.pc = "begin" /\ p.model \in Model /\ p.started = clock /\ p.clean = TRUE
             /\ p.todo = Class /\ Blank(p)
<1>1. PICK m \in Model :
        pass' = [pass EXCEPT ![r] = [Idle EXCEPT !.pc = "begin", !.model = m,
                                                 !.started = clock, !.todo = Class]]
  BY DEF TakeLock
<1>. DEFINE p == [Idle EXCEPT !.pc = "begin", !.model = m, !.started = clock, !.todo = Class]
<1>2. /\ p.pc = "begin" /\ p.model = m /\ p.started = clock /\ p.clean = TRUE
      /\ p.todo = Class
  BY DEF Idle
<1>3. Blank(p)
  BY DEF Idle, Blank
<1> QED
  BY <1>1, <1>2, <1>3, PassesAre

\* The steps that only go on to another place.
LEMMA PlaceIs ==
  ASSUME SweepInv, NEW r \in Replica,
         Begin(r) \/ ResetCursors(r) \/ ClearFlag(r) \/ StampReconciled(r)
  PROVE  LET p == pass'[r]
             s == pass[r]
         IN  /\ Carries(p, s) /\ p.model = s.model
             /\ Begin(r) => s.pc = "begin" /\ p.pc \in {"reset", "ensure"}
             /\ ResetCursors(r) => s.pc = "reset" /\ p.pc = "clear"
             /\ ClearFlag(r) => s.pc = "clear" /\ p.pc = "ensure"
             /\ StampReconciled(r) => s.pc = "reconcile" /\ p.pc = "release"
<1>. DEFINE s == pass[r]
<1>1. ASSUME NEW place, pass' = [pass EXCEPT ![r] = [s EXCEPT !.pc = place]]
      PROVE  pass'[r].pc = place /\ Carries(pass'[r], s) /\ pass'[r].model = s.model
  <2>1. LET p == [s EXCEPT !.pc = place] IN p.pc = place /\ Carries(p, s) /\ p.model = s.model
    BY PassesAre DEF Passes, Carries
  <2> QED
    BY <1>1, <2>1, PassesAre
<1>2. CASE Begin(r)
  <2>1. PICK place \in {"reset", "ensure"} : pass' = [pass EXCEPT ![r] = [s EXCEPT !.pc = place]]
    BY <1>2 DEF Begin
  <2>2. pass'[r].pc = place /\ Carries(pass'[r], s) /\ pass'[r].model = s.model
    BY <1>1, <2>1
  <2> QED
    BY <1>2, <2>1, <2>2 DEF Begin, ResetCursors, ClearFlag, StampReconciled, At
<1>3. CASE ~Begin(r)
  <2>1. PICK place \in {"clear", "ensure", "release"} :
          /\ pass' = [pass EXCEPT ![r] = [s EXCEPT !.pc = place]]
          /\ ResetCursors(r) => s.pc = "reset" /\ place = "clear"
          /\ ClearFlag(r) => s.pc = "clear" /\ place = "ensure"
          /\ StampReconciled(r) => s.pc = "reconcile" /\ place = "release"
    BY <1>3 DEF ResetCursors, ClearFlag, StampReconciled, At
  <2> QED
    BY <1>1, <1>3, <2>1
<1> QED
  BY <1>2, <1>3

LEMMA EnsureIs ==
  ASSUME SweepInv, NEW r \in Replica, EnsureVersion(r)
  PROVE  pass[r].pc = "ensure" /\ pass'[r].pc = "class" /\ Carries(pass'[r], pass[r])
<1>. DEFINE s == pass[r]
            p == [s EXCEPT !.pc = "class", !.model = NoModel]
<1>1. p.pc = "class" /\ Carries(p, s)
  BY PassesAre DEF Passes, Carries
<1>2. s.pc = "ensure" /\ pass' = [pass EXCEPT ![r] = p]
  BY DEF EnsureVersion, At
<1> QED
  BY <1>1, <1>2, PassesAre

LEMMA ReadCursorIs ==
  ASSUME SweepInv, NEW r \in Replica, ReadCursor(r)
  PROVE  LET p == pass'[r]
             s == pass[r]
         IN  /\ s.pc = "class" /\ p.pc = "page" /\ p.class \in s.todo
             /\ p.page = 1 /\ p.since = Since(p.class) /\ p.seen = cursor[p.class]
             /\ p.started = s.started /\ p.clean = s.clean /\ p.todo = s.todo
             /\ p.last = s.last /\ p.batch = s.batch
<1>. DEFINE s == pass[r]
<1>1. PICK c \in s.todo :
        pass' = [pass EXCEPT ![r] = [s EXCEPT !.pc = "page", !.class = c, !.page = 1,
                                              !.since = Since(c), !.seen = cursor[c]]]
  BY ZenonT(30) DEF ReadCursor
<1>. DEFINE p == [s EXCEPT !.pc = "page", !.class = c, !.page = 1,
                           !.since = Since(c), !.seen = cursor[c]]
<1>2. /\ p.pc = "page" /\ p.class = c
      /\ p.page = 1 /\ p.since = Since(c) /\ p.seen = cursor[c]
      /\ p.started = s.started /\ p.clean = s.clean /\ p.todo = s.todo
      /\ p.last = s.last /\ p.batch = s.batch
  BY PassesAre DEF Passes
<1>3. s.pc = "class"
  BY DEF ReadCursor, At
<1>4. pass'[r] = p
  BY <1>1, PassesAre
<1>. HIDE DEF p
<1> QED
  BY <1>1, <1>2, <1>3, <1>4

\* Where a pass goes with what it has in hand, and what it keeps.
GoesOn(p, s) ==
  /\ p.pc = IF p.batch # {} THEN "write" ELSE IF p.last THEN "cursor" ELSE "page"
  /\ p.page = IF p.pc = "page" THEN s.page + 1 ELSE s.page
  /\ p.started = s.started /\ p.clean = s.clean /\ p.todo = s.todo /\ p.class = s.class
  /\ p.since = s.since

LEMMA PagedGoes ==
  ASSUME NEW p \in Passes
  PROVE  /\ GoesOn(Paged(p), p)
         /\ Paged(p).last = p.last /\ Paged(p).seen = p.seen /\ Paged(p).batch = p.batch
<1>1. CASE p.batch # {}
  BY <1>1 DEF Paged, Passes, GoesOn
<1>2. CASE p.batch = {} /\ p.last
  BY <1>2 DEF Paged, Passes, GoesOn
<1>3. CASE p.batch = {} /\ ~p.last
  BY <1>3 DEF Paged, Passes, GoesOn
<1> QED
  BY <1>1, <1>2, <1>3

LEMMA ReadPageIs ==
  ASSUME SweepInv, NEW r \in Replica, ReadPage(r)
  PROVE  LET p == pass'[r]
             s == pass[r]
             records == Page(s.class, s.since, s.page)
         IN  /\ s.pc = "page" /\ GoesOn(p, s)
             /\ p.batch = {x \in records : Leaves(x) \/ Accepted(x.text)}
             /\ p.last = IsLast(records)
             /\ p.seen = Max({s.seen} \union {record.stamp : record \in records})
             /\ p.seen \in {s.seen} \union {record.stamp : record \in records}
             /\ s.seen <= p.seen /\ \A record \in records : record.stamp <= p.seen
<1>. DEFINE s == pass[r]
            records == Page(s.class, s.since, s.page)
            batch == {x \in records : Leaves(x) \/ Accepted(x.text)}
            S == {s.seen} \union {record.stamp : record \in records}
            p == WithPage(s, records)
<1>1. s.pc = "page" /\ pass' = [pass EXCEPT ![r] = Paged(p)]
  BY Zenon DEF ReadPage, At
<1>2. s \in Passes /\ s.class \in Class
  BY PassesAre DEF Passes
<1>3. records \subseteq PageRecords /\ \A x \in records : x.stamp \in -1 .. MaxTime
  BY <1>2, PageIs
<1>4. Max(S) \in S /\ \A y \in S : y <= Max(S)
  <2>1. s.seen \in -1 .. MaxTime
    BY <1>2 DEF Passes, Time, NoTime
  <2>2. S \in SUBSET (-1 .. MaxTime) /\ S # {}
    BY <1>3, <2>1
  <2>3. MaxTime \in Int /\ -1 \in Int
    OBVIOUS
  <2>. HIDE DEF S, p, batch, records
  <2> QED
    BY <2>2, <2>3, HasMax
<1>5. Max(S) \in Time \union {NoTime}
  <2>1. \A y \in S : y \in Time \union {NoTime}
    BY <1>2, <1>3 DEF Passes, Time, NoTime
  <2> QED
    BY <1>4, <2>1
<1>6. /\ p \in Passes /\ p.batch = batch /\ p.last = IsLast(records) /\ p.seen = Max(S)
      /\ p.page = s.page /\ p.started = s.started /\ p.clean = s.clean /\ p.todo = s.todo
      /\ p.class = s.class /\ p.since = s.since
  <2>1. p = [s EXCEPT !.batch = batch, !.last = IsLast(records), !.seen = Max(S)]
    BY DEF WithPage
  <2>2. IsLast(records) \in BOOLEAN /\ batch \subseteq PageRecords
    BY <1>3 DEF IsLast
  <2>. HIDE DEF p, records, batch, S
  <2> QED
    BY <1>2, <1>5, <2>1, <2>2 DEF Passes
<1>. HIDE DEF p, batch
<1>7. pass'[r] = Paged(p)
  BY <1>1, PassesAre
<1>8. GoesOn(Paged(p), p) /\ Paged(p).last = p.last /\ Paged(p).seen = p.seen /\ Paged(p).batch = p.batch
  BY <1>6, PagedGoes
<1>9. GoesOn(pass'[r], s)
  BY <1>6, <1>7, <1>8 DEF GoesOn
<1> QED
  BY <1>1, <1>4, <1>6, <1>7, <1>8, <1>9 DEF batch

\* An object of the page is dropped or written, as its record says.
Treats(r) == DropLeft(r) \/ WriteObject(r)

Treated(record) ==
  LET held == Digests(record.object)
  IN  IF Leaves(record) THEN NoChunks ELSE Rewritten(record, held, Vanished(record, held))

LEMMA TreatedIs ==
  ASSUME SweepInv, NEW r \in Replica, Treats(r)
  PROVE  LET p == pass'[r]
             s == pass[r]
         IN  /\ s.pc = "write" /\ GoesOn(p, s)
             /\ p.last = s.last /\ p.seen = s.seen
             /\ \E record \in s.batch :
                  /\ p.batch = s.batch \ {record}
                  /\ index' = [index EXCEPT ![record.object] = Treated(record)]
<1>. DEFINE s == pass[r]
<1>1. PICK record \in s.batch :
        /\ pass' = [pass EXCEPT ![r] = Paged(Without(s, record))]
        /\ index' = [index EXCEPT ![record.object] = Treated(record)]
  <2>1. CASE DropLeft(r)
    BY ZenonT(30), <2>1 DEF DropLeft, Treated
  <2>2. CASE WriteObject(r)
    BY ZenonT(30), <2>2 DEF WriteObject, Writing, Treated
  <2> QED
    BY <2>1, <2>2 DEF Treats
<1>. DEFINE p == Without(s, record)
<1>2. /\ p \in Passes /\ p.batch = s.batch \ {record}
      /\ p.last = s.last /\ p.seen = s.seen
      /\ p.page = s.page /\ p.started = s.started /\ p.clean = s.clean /\ p.todo = s.todo
      /\ p.class = s.class /\ p.since = s.since
  <2>1. s \in Passes
    BY PassesAre
  <2>2. p = [s EXCEPT !.batch = s.batch \ {record}]
    BY DEF Without
  <2>. HIDE DEF p
  <2> QED
    BY <2>1, <2>2 DEF Passes
<1>. HIDE DEF p
<1>3. pass'[r] = Paged(p)
  BY <1>1, PassesAre DEF p
<1>4. GoesOn(Paged(p), p) /\ Paged(p).last = p.last /\ Paged(p).seen = p.seen /\ Paged(p).batch = p.batch
  BY <1>2, PagedGoes
<1>5. GoesOn(pass'[r], s) /\ s.pc = "write"
  BY <1>2, <1>3, <1>4 DEF GoesOn, Treats, DropLeft, WriteObject, Writing, At
<1> QED
  BY <1>1, <1>2, <1>3, <1>4, <1>5

\* A class is left, read to its end or failed.
LEMMA LeavingIs ==
  ASSUME SweepInv, NEW r \in Replica, MoveCursor(r) \/ ClassFails(r)
  PROVE  LET p == pass'[r]
             s == pass[r]
         IN  /\ s.pc \in {"page", "write", "cursor"}
             /\ \/ MoveCursor(r) /\ s.pc = "cursor" /\ p.clean = s.clean
                \/ ClassFails(r) /\ p.clean = FALSE
             /\ p.pc = "class" /\ Blank(p)
             /\ p.started = s.started /\ p.todo = s.todo \ {s.class}
<1>. DEFINE s == pass[r]
<1>1. ASSUME NEW clean, pass' = [pass EXCEPT ![r] = Leaving(s, clean)]
      PROVE  /\ pass'[r].clean = clean /\ pass'[r].pc = "class" /\ Blank(pass'[r])
             /\ pass'[r].started = s.started /\ pass'[r].todo = s.todo \ {s.class}
  <2>. DEFINE p == Leaving(s, clean)
  <2>1. /\ p.clean = clean /\ p.pc = "class" /\ p.started = s.started
        /\ p.todo = s.todo \ {s.class}
    BY DEF Idle, Leaving
  <2>2. Blank(p)
    BY DEF Idle, Leaving, Blank
  <2>3. pass'[r] = p
    BY <1>1, PassesAre
  <2>. HIDE DEF p
  <2> QED
    BY <2>1, <2>2, <2>3
<1>2. PICK clean \in BOOLEAN :
        /\ pass' = [pass EXCEPT ![r] = Leaving(s, clean)]
        /\ s.pc \in {"page", "write", "cursor"}
        /\ \/ MoveCursor(r) /\ s.pc = "cursor" /\ clean = s.clean
           \/ ClassFails(r) /\ clean = FALSE
  <2>1. CASE MoveCursor(r)
    <3>1. s.clean \in BOOLEAN
      BY PassesAre DEF Passes
    <3> QED
      BY <2>1, <3>1 DEF MoveCursor, At
  <2>2. CASE ClassFails(r)
    BY <2>2 DEF ClassFails
  <2> QED
    BY <2>1, <2>2
<1> QED
  BY <1>1, <1>2

LEMMA ClassesDoneIs ==
  ASSUME SweepInv, NEW r \in Replica, ClassesDone(r)
  PROVE  LET p == pass'[r]
             s == pass[r]
         IN  /\ s.pc = "class" /\ s.todo = {} /\ p.pc \in {"reconcile", "release"}
             /\ p.started = s.started /\ p.clean = s.clean /\ p.class = s.class
             /\ p.since = s.since /\ p.seen = s.seen /\ p.page = s.page /\ p.last = s.last
             /\ p.batch = s.batch
<1>. DEFINE s == pass[r]
<1>1. PICK p \in {Reconciling(s), [s EXCEPT !.pc = "release"]} : pass' = [pass EXCEPT ![r] = p]
  BY DEF ClassesDone
<1>2. /\ p.pc \in {"reconcile", "release"}
      /\ p.started = s.started /\ p.clean = s.clean /\ p.class = s.class
      /\ p.since = s.since /\ p.seen = s.seen /\ p.page = s.page /\ p.last = s.last
      /\ p.batch = s.batch
  <2>1. s \in Passes
    BY PassesAre
  <2>2. CASE p = Reconciling(s)
    <3>1. /\ p.pc = "reconcile"
          /\ p.started = s.started /\ p.clean = s.clean /\ p.class = s.class
          /\ p.since = s.since /\ p.seen = s.seen /\ p.page = s.page /\ p.last = s.last
          /\ p.batch = s.batch
      BY ZenonT(30), <2>1, <2>2 DEF Passes, Reconciling
    <3> QED
      BY <3>1
  <2>3. CASE p = [s EXCEPT !.pc = "release"]
    BY <2>1, <2>3 DEF Passes
  <2> QED
    BY <2>2, <2>3
<1>3. s.pc = "class" /\ s.todo = {}
  BY DEF ClassesDone, At
<1> QED
  BY <1>1, <1>2, <1>3, PassesAre

LEMMA ListBatchIs ==
  ASSUME SweepInv, NEW r \in Replica, ListBatch(r)
  PROVE  LET p == pass'[r]
             s == pass[r]
         IN  /\ s.pc = "reconcile" /\ p.pc \in {"reconcile", "drop"}
             /\ p.started = s.started /\ p.clean = s.clean
             /\ p.since = s.since /\ p.seen = s.seen /\ p.page = s.page /\ p.last = s.last
             /\ p.pc = "reconcile" => p.batch = s.batch
             /\ p.pc = "drop" => \A x \in p.batch :
                  /\ x.object \in Object /\ x.object[1] = p.class
                  /\ ~itop[x.object].there /\ itop[x.object] # NotYet
<1>. DEFINE s == pass[r]
<1>1. PICK c \in s.todo : pass' = [pass EXCEPT ![r] = WithBatch(s, c, IndexedIds(c, s.after))]
  BY DEF ListBatch
<1>2. s \in Passes /\ c \in Class /\ s.after \in Nat
  BY <1>1, PassesAre DEF Passes
<1>. DEFINE ids == IndexedIds(c, s.after)
            p == WithBatch(s, c, ids)
            orphans == {[object |-> <<c, i>>] : i \in ids \ ExistingIds(c, ids)}
<1>3. ASSUME NEW x \in orphans
      PROVE  /\ x.object \in Object /\ x.object[1] = c
             /\ ~itop[x.object].there /\ itop[x.object] # NotYet
  <2>1. PICK i \in ids \ ExistingIds(c, ids) : x = [object |-> <<c, i>>]
    OBVIOUS
  <2>2. x.object = <<c, i>>
    BY <2>1
  <2>3. i \in IdsOf[c] /\ index[<<c, i>>] # NoChunks
    BY <2>1 DEF IndexedIds
  <2>4. <<c, i>> \in Object /\ ~itop[<<c, i>>].there
    BY <1>2, <2>1, <2>3, ObjectIs DEF ExistingIds
  <2>5. itop[<<c, i>>] # NotYet
    BY <2>3, <2>4, PassIs
  <2> QED
    BY <2>2, <2>4, <2>5
<1>4. CASE ids = {}
  <2>1. p = [s EXCEPT !.class = c, !.after = 0, !.todo = s.todo \ {c}]
    BY <1>4 DEF WithBatch
  <2>2. s.pc = "reconcile" /\ pass'[r] = p
    BY <1>1, PassesAre DEF ListBatch, At
  <2>. HIDE DEF p, ids, orphans
  <2> QED
    BY <1>2, <2>1, <2>2 DEF Passes
<1>5. CASE ids # {}
  <2>1. p = [s EXCEPT !.pc = "drop", !.class = c, !.after = Max(ids), !.batch = orphans]
    BY <1>5 DEF WithBatch
  <2>2. s.pc = "reconcile" /\ pass'[r] = p
    BY <1>1, PassesAre DEF ListBatch, At
  <2>. HIDE DEF p, ids, orphans
  <2>3. /\ p.pc = "drop" /\ p.class = c /\ p.batch = orphans
        /\ p.started = s.started /\ p.clean = s.clean
        /\ p.since = s.since /\ p.seen = s.seen /\ p.page = s.page /\ p.last = s.last
    BY <1>2, <2>1 DEF Passes
  <2> QED
    BY <1>3, <2>2, <2>3
<1> QED
  BY <1>4, <1>5

LEMMA DropIs ==
  ASSUME SweepInv, NEW r \in Replica, DropOrphans(r)
  PROVE  LET p == pass'[r]
             s == pass[r]
         IN  /\ s.pc = "drop" /\ p.pc = "reconcile" /\ p.batch = {}
             /\ p.started = s.started /\ p.clean = s.clean
             /\ p.since = s.since /\ p.seen = s.seen /\ p.page = s.page /\ p.last = s.last
             /\ index' = DeleteObjects({x.object : x \in s.batch})
<1>. DEFINE s == pass[r]
            p == [s EXCEPT !.pc = "reconcile", !.batch = {}]
<1>1. /\ p.pc = "reconcile" /\ p.batch = {}
      /\ p.started = s.started /\ p.clean = s.clean
      /\ p.since = s.since /\ p.seen = s.seen /\ p.page = s.page /\ p.last = s.last
  BY PassesAre DEF Passes
<1>2. /\ s.pc = "drop" /\ pass' = [pass EXCEPT ![r] = p]
      /\ index' = DeleteObjects({x.object : x \in s.batch})
  BY DEF DropOrphans, At
<1>. HIDE DEF p
<1> QED
  BY <1>1, <1>2, PassesAre

\* A pass is over, or fails on its way.
LEMMA EndIs ==
  ASSUME SweepInv, NEW r \in Replica, Release(r) \/ Crash(r) \/ PassFails(r)
  PROVE  LET p == pass'[r]
             s == pass[r]
         IN  /\ Blank(p) /\ p.pc \in {"idle", "release"}
             /\ p.pc = "release" => p.started = s.started /\ s.pc # "idle"
<1>. DEFINE s == pass[r]
<1>1. Blank(Idle) /\ Idle.pc = "idle"
  BY DEF Idle, Blank
<1>2. CASE PassFails(r)
  <2>. DEFINE p == [Idle EXCEPT !.pc = "release", !.started = s.started]
  <2>1. Blank(p)
    BY DEF Idle, Blank
  <2>2. p.pc = "release" /\ p.started = s.started
    BY DEF Idle
  <2>3. pass' = [pass EXCEPT ![r] = p] /\ s.pc # "idle"
    BY <1>2 DEF PassFails, Working
  <2>. HIDE DEF p
  <2> QED
    BY <2>1, <2>2, <2>3, PassesAre
<1>3. CASE Release(r) \/ Crash(r)
  <2>1. pass' = [pass EXCEPT ![r] = Idle]
    BY <1>3 DEF Release, Crash
  <2> QED
    BY <1>1, <2>1, PassesAre
<1> QED
  BY <1>2, <1>3

-----------------------------------------------------------------------------
(* The chunks of an object and what a write makes of them. *)

LEMMA ChunksAre ==
  /\ NoChunks \in Chunks /\ DOMAIN NoChunks = {}
  /\ \A d \in SUBSET Ordinal : [d -> Chunk] \subseteq Chunks
  /\ \A f \in Chunks : /\ DOMAIN f \subseteq Ordinal /\ f = [n \in DOMAIN f |-> f[n]]
                       /\ \A n \in DOMAIN f : f[n] \in Chunk
                       /\ DOMAIN f = {} => f = NoChunks
<1>1. DOMAIN NoChunks = {} /\ NoChunks \in [{} -> Chunk]
  BY DEF NoChunks
<1>2. \A d \in SUBSET Ordinal : [d -> Chunk] \subseteq Chunks
  BY DEF Chunks
<1>3. NoChunks \in Chunks
  BY <1>1, <1>2
<1>4. ASSUME NEW f \in Chunks
      PROVE  /\ DOMAIN f \subseteq Ordinal /\ f = [n \in DOMAIN f |-> f[n]]
             /\ \A n \in DOMAIN f : f[n] \in Chunk
             /\ DOMAIN f = {} => f = NoChunks
  <2>1. PICK d \in SUBSET Ordinal : f \in [d -> Chunk]
    BY DEF Chunks
  <2>2. DOMAIN f = d
    BY <2>1
  <2>3. d = {} => f = NoChunks
    BY <1>1, <2>1
  <2> QED
    BY <2>1, <2>2, <2>3
<1> QED
  BY <1>1, <1>2, <1>3, <1>4

\* What a record has to be for a pass to write it.
Writable(x) ==
  x \in PageRecords /\ x.stamp \in Time /\ x.inScope /\ Accepted(x.text)

\* The chunks of a record.
ChunksOf(x) == [n \in DOMAIN x.text |-> ChunkOf(x, n)]

LEMMA TextIs ==
  ASSUME NEW x, Writable(x)
  PROVE  /\ DOMAIN x.text \subseteq Ordinal /\ DOMAIN x.text # {}
         /\ \A n \in DOMAIN x.text : ChunkOf(x, n) \in Chunk
         /\ ChunksOf(x) \in Chunks /\ ChunksOf(x) # NoChunks
<1>1. x.text \in Texts
  BY DEF Writable, PageRecords
<1>2. x.text \in Seq(Range(x.text)) /\ Len(x.text) \in 1 .. MaxChunks
  BY <1>1, FamilyAssumption DEF Writable, Accepted
<1>3. DOMAIN x.text = 1 .. Len(x.text)
  BY <1>2
<1>4. DOMAIN x.text \subseteq Ordinal /\ 1 \in DOMAIN x.text
  BY <1>2, <1>3 DEF Ordinal
<1>5. ASSUME NEW n \in DOMAIN x.text PROVE ChunkOf(x, n) \in Chunk
  <2>1. x.text[n] \in UNION {Range(t) : t \in Texts}
    BY <1>1 DEF Range
  <2> QED
    BY <2>1 DEF ChunkOf, Chunk, Writable
<1>6. ChunksOf(x) \in [DOMAIN x.text -> Chunk]
  BY <1>5 DEF ChunksOf
<1>7. ChunksOf(x) \in Chunks /\ DOMAIN ChunksOf(x) = DOMAIN x.text
  BY <1>4, <1>6, ChunksAre
<1> QED
  BY <1>4, <1>5, <1>7, ChunksAre

LEMMA UpsertedIs ==
  ASSUME NEW x, Writable(x), NEW held \in Chunks, NEW some, some \subseteq DOMAIN x.text
  PROVE  Upserted(x, held, some) \in Chunks
<1>. DEFINE d == DOMAIN held \union some
<1>1. d \in SUBSET Ordinal
  BY TextIs, ChunksAre
<1>2. Upserted(x, held, some) = [n \in d |-> IF n \in some THEN ChunkOf(x, n) ELSE held[n]]
  BY DEF Upserted
<1>3. \A n \in d : (IF n \in some THEN ChunkOf(x, n) ELSE held[n]) \in Chunk
  BY TextIs, ChunksAre
<1>. HIDE DEF d
<1>4. Upserted(x, held, some) \in [d -> Chunk]
  BY <1>2, <1>3
<1> QED
  BY <1>1, <1>4, ChunksAre

LEMMA RestampedIs ==
  ASSUME NEW x, Writable(x), NEW held \in Chunks, NEW some
  PROVE  LET re == Restamped(x, held, some)
         IN  /\ re \in Chunks /\ DOMAIN re = DOMAIN held
             /\ \A n \in DOMAIN re : /\ re[n].hash = held[n].hash
                                    /\ re[n].stamp = IF n \in some THEN x.stamp ELSE held[n].stamp
<1>. DEFINE re == Restamped(x, held, some)
<1>1. re = [n \in DOMAIN held |-> IF n \in some THEN [held[n] EXCEPT !.stamp = x.stamp] ELSE held[n]]
  BY DEF Restamped
<1>2. \A c \in Chunk : /\ [c EXCEPT !.stamp = x.stamp] \in Chunk
                       /\ [c EXCEPT !.stamp = x.stamp].hash = c.hash
                       /\ [c EXCEPT !.stamp = x.stamp].stamp = x.stamp
  BY DEF Chunk, Writable
<1>3. \A n \in DOMAIN held : held[n] \in Chunk
  BY ChunksAre
<1>. HIDE DEF re
<1>4. re \in [DOMAIN held -> Chunk]
  BY <1>1, <1>2, <1>3
<1>5. DOMAIN held \in SUBSET Ordinal
  BY ChunksAre
<1>6. re \in Chunks /\ DOMAIN re = DOMAIN held
  BY <1>4, <1>5, ChunksAre
<1>7. ASSUME NEW n \in DOMAIN held
      PROVE  /\ re[n].hash = held[n].hash
             /\ re[n].stamp = IF n \in some THEN x.stamp ELSE held[n].stamp
  <2>1. re[n] = IF n \in some THEN [held[n] EXCEPT !.stamp = x.stamp] ELSE held[n]
    BY <1>1
  <2> QED
    BY <1>2, <1>3, <2>1
<1> QED
  BY <1>6, <1>7 DEF re

LEMMA PrunedIs ==
  ASSUME NEW held \in Chunks, NEW some
  PROVE  LET cut == Pruned(held, some)
         IN  /\ cut \in Chunks /\ DOMAIN cut = DOMAIN held \ some
             /\ \A n \in DOMAIN cut : cut[n] = held[n]
<1>. DEFINE cut == Pruned(held, some)
<1>1. cut = [n \in DOMAIN held \ some |-> held[n]]
  BY DEF Pruned
<1>2. cut \in [DOMAIN held \ some -> Chunk] /\ DOMAIN held \ some \in SUBSET Ordinal
  BY <1>1, ChunksAre
<1> QED
  BY <1>1, <1>2, ChunksAre

LEMMA RewrittenIs ==
  ASSUME NEW x, Writable(x), NEW held \in Chunks, NEW some \in SUBSET Vanished(x, held)
  PROVE  LET new == Rewritten(x, held, some)
         IN  /\ new \in Chunks
             /\ DOMAIN new = (DOMAIN held \union DOMAIN x.text) \ some
             /\ \A n \in DOMAIN x.text : n \in DOMAIN new /\ new[n] = ChunkOf(x, n)
<1>. DEFINE changed == Changed(x, held)
            up == Upserted(x, held, changed)
            stale == StaleMeta(x, held)
            re == Restamped(x, up, stale)
            new == Rewritten(x, held, some)
<1>1. changed \subseteq DOMAIN x.text
  BY DEF Changed
<1>. HIDE DEF changed
<1>2. /\ up \in Chunks /\ DOMAIN up = DOMAIN held \union changed
      /\ \A n \in DOMAIN up : up[n] = IF n \in changed THEN ChunkOf(x, n) ELSE held[n]
  <2>1. up \in Chunks
    BY <1>1, UpsertedIs
  <2>2. up = [n \in DOMAIN held \union changed |-> IF n \in changed THEN ChunkOf(x, n) ELSE held[n]]
    BY DEF Upserted
  <2>. HIDE DEF up
  <2> QED
    BY <2>1, <2>2
<1>. HIDE DEF up, stale
<1>3. /\ re \in Chunks /\ DOMAIN re = DOMAIN up
      /\ \A n \in DOMAIN re : /\ re[n].hash = up[n].hash
                             /\ re[n].stamp = IF n \in stale THEN x.stamp ELSE up[n].stamp
  BY <1>2, RestampedIs
<1>4. new = Pruned(re, some)
  BY DEF Rewritten, up, changed, stale
<1>. HIDE DEF re
<1>5. /\ new \in Chunks /\ DOMAIN new = DOMAIN re \ some
      /\ \A n \in DOMAIN new : new[n] = re[n]
  <2>1. LET cut == Pruned(re, some)
        IN  cut \in Chunks /\ DOMAIN cut = DOMAIN re \ some /\ \A n \in DOMAIN cut : cut[n] = re[n]
    BY <1>3, PrunedIs
  <2>. HIDE DEF new
  <2> QED
    BY <1>4, <2>1
<1>. HIDE DEF new
<1>6. \A n \in DOMAIN x.text : n \in DOMAIN held \/ n \in changed
  BY DEF Changed, changed
<1>7. \A n \in DOMAIN x.text : n \in DOMAIN new
  BY <1>2, <1>3, <1>5, <1>6 DEF Vanished
<1>8. ASSUME NEW n \in DOMAIN x.text PROVE new[n] = ChunkOf(x, n)
  <2>1. n \in DOMAIN re /\ new[n] = re[n] /\ new[n] \in Chunk /\ ChunkOf(x, n) \in Chunk
    BY <1>5, <1>7, TextIs, ChunksAre
  <2>2. \A a, b \in Chunk : a.hash = b.hash /\ a.stamp = b.stamp => a = b
    BY DEF Chunk
  <2>3. ChunkOf(x, n).hash = x.text[n] /\ ChunkOf(x, n).stamp = x.stamp
    BY DEF ChunkOf
  <2>4. CASE n \in changed
    <3>1. n \notin stale /\ up[n] = ChunkOf(x, n)
      BY <1>2, <1>3, <2>1, <2>4 DEF StaleMeta, stale, changed
    <3> QED
      BY <1>3, <2>1, <2>2, <2>3, <3>1
  <2>5. CASE n \notin changed
    <3>1. n \in DOMAIN held /\ held[n].hash = x.text[n] /\ up[n] = held[n]
      BY <1>2, <1>3, <2>1, <2>5 DEF Changed, changed
    <3>2. n \notin stale => held[n].stamp = x.stamp
      BY <2>5 DEF StaleMeta, stale, changed
    <3> QED
      BY <1>3, <2>1, <2>2, <2>3, <3>1, <3>2
  <2> QED
    BY <2>4, <2>5
<1>9. DOMAIN new = (DOMAIN held \union DOMAIN x.text) \ some
  BY <1>1, <1>2, <1>3, <1>5, <1>6
<1> QED
  BY <1>5, <1>7, <1>8, <1>9 DEF new

\* A write that is done leaves the chunks of the record, whatever was there.
LEMMA WrittenWhole ==
  ASSUME NEW x, Writable(x), NEW held \in Chunks
  PROVE  Rewritten(x, held, Vanished(x, held)) = ChunksOf(x)
<1>. DEFINE new == Rewritten(x, held, Vanished(x, held))
<1>1. /\ new \in Chunks
      /\ DOMAIN new = (DOMAIN held \union DOMAIN x.text) \ Vanished(x, held)
      /\ \A n \in DOMAIN x.text : n \in DOMAIN new /\ new[n] = ChunkOf(x, n)
  <2>1. Vanished(x, held) \in SUBSET Vanished(x, held)
    OBVIOUS
  <2>. HIDE DEF new
  <2> QED
    BY <2>1, RewrittenIs DEF new
<1>. HIDE DEF new
<1>2. DOMAIN new = DOMAIN x.text
  BY <1>1 DEF Vanished
<1>3. new = [n \in DOMAIN new |-> new[n]]
  BY <1>1, ChunksAre
<1> QED
  BY <1>1, <1>2, <1>3 DEF new, ChunksOf

\* One that is cut short takes nothing from an object that had chunks.
LEMMA WrittenHalf ==
  ASSUME NEW x, Writable(x), NEW held \in Chunks, NEW half \in HalfWritten(x, held)
  PROVE  half \in Chunks /\ (held # NoChunks => half # NoChunks)
<1>. DEFINE changed == Changed(x, held)
            up == Upserted(x, held, changed)
<1>0. changed \subseteq DOMAIN x.text /\ DOMAIN x.text # {}
  BY TextIs DEF Changed
<1>1. /\ up \in Chunks /\ DOMAIN up = DOMAIN held \union changed
  <2>1. up \in Chunks
    BY <1>0, UpsertedIs
  <2>2. DOMAIN up = DOMAIN held \union changed
    BY DEF Upserted
  <2> QED
    BY <2>1, <2>2
<1>2. half \in {Upserted(x, held, some) : some \in SUBSET changed}
        \union {Restamped(x, up, some) : some \in SUBSET StaleMeta(x, held)}
        \union {Rewritten(x, held, some) : some \in SUBSET Vanished(x, held)}
  BY DEF HalfWritten
<1>3. SUFFICES half \in Chunks /\ (DOMAIN held # {} => DOMAIN half # {})
  BY <1>3, ChunksAre
<1>4. CASE half \in {Upserted(x, held, some) : some \in SUBSET changed}
  <2>1. PICK some \in SUBSET changed : half = Upserted(x, held, some)
    BY <1>4
  <2>2. some \subseteq DOMAIN x.text
    BY <1>0
  <2>3. half \in Chunks
    BY <2>1, <2>2, UpsertedIs
  <2>4. DOMAIN half = DOMAIN held \union some
    BY <2>1 DEF Upserted
  <2> QED
    BY <2>3, <2>4
<1>5. CASE half \in {Restamped(x, up, some) : some \in SUBSET StaleMeta(x, held)}
  <2>1. PICK some : half = Restamped(x, up, some)
    BY <1>5
  <2>. HIDE DEF up
  <2> QED
    BY <1>1, <2>1, RestampedIs
<1>6. CASE half \in {Rewritten(x, held, some) : some \in SUBSET Vanished(x, held)}
  <2>1. PICK some \in SUBSET Vanished(x, held) : half = Rewritten(x, held, some)
    BY <1>6
  <2>2. half \in Chunks /\ \A n \in DOMAIN x.text : n \in DOMAIN half
    BY <2>1, RewrittenIs
  <2> QED
    BY <1>0, <2>2
<1> QED
  BY <1>2, <1>4, <1>5, <1>6

-----------------------------------------------------------------------------
(* Pages of a class. *)

LEMMA MaxZero ==
  ASSUME NEW b \in Int
  PROVE  Max({0, b}) \in {0, b} /\ Max({0, b}) >= 0
<1>1. \E x \in {0, b} : \A y \in {0, b} : x >= y
  <2>1. CASE b > 0
    BY <2>1
  <2>2. CASE ~(b > 0)
    BY <2>2
  <2> QED
    BY <2>1, <2>2
<1>2. Max({0, b}) \in {0, b} /\ \A y \in {0, b} : Max({0, b}) >= y
  BY <1>1 DEF Max
<1> QED
  BY <1>2

LEMMA ResumesIs ==
  ASSUME NEW c \in Class, cursor[c] \in Time \union {NoTime}
  PROVE  /\ Resumes(c) \in Time /\ Since(c) \in Time
         /\ cursor[c] = NoTime => Resumes(c) = 0 /\ Since(c) = 0
         /\ Resumes(c) = 0 \/ Resumes(c) = cursor[c] - Overlap
         /\ IsActive => Since(c) = Resumes(c)
         /\ ~IsActive => Since(c) = 0
<1>1. 0 \in Time /\ MaxTime \in Nat /\ Overlap \in Nat
  BY SizesAre DEF Time
<1>2. CASE cursor[c] = NoTime
  BY <1>1, <1>2 DEF Resumes, Since
<1>3. CASE cursor[c] # NoTime
  <2>1. cursor[c] \in 0 .. MaxTime
    BY <1>3 DEF Time
  <2>. DEFINE b == cursor[c] - Overlap
  <2>2. b \in Int /\ b <= MaxTime
    BY <1>1, <2>1
  <2>3. Resumes(c) = Max({0, b})
    BY <1>3 DEF Resumes
  <2>. HIDE DEF b
  <2>4. Max({0, b}) \in {0, b} /\ Max({0, b}) >= 0
    BY <2>2, MaxZero
  <2>5. Resumes(c) \in Time /\ (Resumes(c) = 0 \/ Resumes(c) = b)
    BY <1>1, <2>2, <2>3, <2>4 DEF Time
  <2> QED
    BY <1>1, <1>3, <2>5 DEF Since, b
<1> QED
  BY <1>2, <1>3

\* What a page has of one object.
RecordOf(c, i) ==
  [object |-> <<c, i>>, inScope |-> itop[<<c, i>>].inScope,
   text |-> itop[<<c, i>>].text, stamp |-> itop[<<c, i>>].stamp]

\* The numbers of the places on a page.
Places1(page) == (page - 1) * PageSize + 1 .. page * PageSize

LEMMA ListedIs ==
  ASSUME NEW c \in Class, NEW since
  PROVE  /\ IsFiniteSet(Listed(c, since)) /\ Listed(c, since) \subseteq Nat
         /\ \A i \in Listed(c, since) : <<c, i>> \in Object
<1>1. Listed(c, since) \subseteq IdsOf[c]
  BY DEF Listed
<1>2. IsFiniteSet(IdsOf[c]) /\ IdsOf[c] \subseteq Nat
  OBVIOUS
<1> QED
  BY <1>1, <1>2, FS_Subset, ObjectIs

\* A page that is not full is the last one, and behind a full one there are that
\* many objects.
LEMMA PageHas ==
  ASSUME NEW c \in Class, NEW since, NEW page \in Nat, page >= 1
  PROVE  LET listed == Listed(c, since)
             records == Page(c, since, page)
         IN  /\ \A i \in listed : Position(i, listed) \in Places1(page) => RecordOf(c, i) \in records
             /\ \A x \in records : \E i \in listed :
                  x = RecordOf(c, i) /\ Position(i, listed) \in Places1(page)
             /\ IsLast(records) => \A i \in listed : Position(i, listed) <= page * PageSize
             /\ ~IsLast(records) => page * PageSize <= Cardinality(listed)
<1>. DEFINE listed == Listed(c, since)
            records == Page(c, since, page)
            ids == {i \in listed : Position(i, listed) \in (page - 1) * PageSize + 1 .. page * PageSize}
            f == [i \in ids |-> RecordOf(c, i)]
<1>1. records = {RecordOf(c, i) : i \in ids}
  BY DEF Page, RecordOf
<1>2. IsFiniteSet(listed) /\ listed \subseteq Nat
  BY ListedIs
<1>3. /\ \A i \in listed : Position(i, listed) \in Places1(page) => i \in ids
      /\ \A i \in ids : i \in listed /\ Position(i, listed) \in Places1(page)
  BY DEF Places1
<1>. HIDE DEF records, listed
<1>4. /\ IsFiniteSet(ids) /\ Cardinality(ids) \in Nat
      /\ Cardinality(ids) < PageSize => \A i \in listed : Position(i, listed) <= page * PageSize
      /\ Cardinality(ids) >= PageSize => page * PageSize <= Cardinality(listed)
  BY <1>2, PageOf
<1>. HIDE DEF ids
<1>5. Cardinality(records) = Cardinality(ids)
  <2>1. \A i, j \in ids : RecordOf(c, i) = RecordOf(c, j) => i = j
    <3>1. SUFFICES ASSUME NEW i \in ids, NEW j \in ids, RecordOf(c, i) = RecordOf(c, j)
                   PROVE  i = j
      OBVIOUS
    <3>2. RecordOf(c, i).object = <<c, i>> /\ RecordOf(c, j).object = <<c, j>>
      BY DEF RecordOf
    <3> QED
      BY <3>1, <3>2
  <2>2. f \in Bijection(ids, records)
    BY <1>1, <2>1 DEF Bijection, Injection, Surjection, IsInjective
  <2>3. ExistsBijection(ids, records)
    BY <2>2 DEF ExistsBijection
  <2> QED
    BY <1>4, <2>3, FS_Bijection
<1>6. IsLast(records) <=> Cardinality(ids) < PageSize
  BY <1>5 DEF IsLast
<1>7. ~IsLast(records) => Cardinality(ids) >= PageSize
  BY <1>4, <1>6, SizesAre
<1> QED
  BY <1>1, <1>3, <1>4, <1>6, <1>7 DEF listed, records

\* No class lists more than there is.
LEMMA ListedFew ==
  ASSUME NEW c \in Class, NEW since
  PROVE  /\ Cardinality(Object) \in Nat
         /\ Cardinality(Listed(c, since)) \in Nat
         /\ Cardinality(Listed(c, since)) <= Cardinality(Object)
<1>. DEFINE listed == Listed(c, since)
            some == {<<c, i>> : i \in listed}
            f == [i \in listed |-> <<c, i>>]
            families == {{d} \X IdsOf[d] : d \in Class}
<1>1. IsFiniteSet(Object)
  <2>1. IsFiniteSet(families)
    <3>. DEFINE g == [d \in Class |-> {d} \X IdsOf[d]]
    <3>1. g \in Surjection(Class, families)
      BY DEF Surjection
    <3>. HIDE DEF g, families
    <3> QED
      BY <3>1, FamilyAssumption, FS_Surjection
  <2>2. \A F \in families : IsFiniteSet(F)
    <3>1. ASSUME NEW d \in Class PROVE IsFiniteSet({d} \X IdsOf[d])
      BY FS_Singleton, FS_Product
    <3> QED
      BY <3>1
  <2>. HIDE DEF families
  <2>3. IsFiniteSet(UNION families)
    BY <2>1, <2>2, FS_UNION
  <2> QED
    BY <2>3 DEF Object, families
<1>2. IsFiniteSet(listed) /\ \A i \in listed : <<c, i>> \in Object
  BY ListedIs
<1>. HIDE DEF listed
<1>3. f \in Bijection(listed, some)
  BY DEF Bijection, Injection, Surjection, IsInjective
<1>4. ExistsBijection(listed, some)
  BY <1>3 DEF ExistsBijection
<1>5. Cardinality(some) = Cardinality(listed) /\ some \in SUBSET Object
  BY <1>2, <1>4, FS_Bijection
<1>6. Cardinality(some) <= Cardinality(Object)
  BY <1>1, <1>5, FS_Subset
<1> QED
  BY <1>1, <1>2, <1>5, <1>6, FS_CardinalityType DEF listed

LEMMA DivIs ==
  ASSUME NEW page \in Nat, NEW n \in Nat, page * PageSize <= n
  PROVE  page <= n \div PageSize /\ n \div PageSize \in Nat
<1>1. PageSize \in Nat /\ PageSize >= 1
  BY SizesAre
<1>2. \A p, m \in Nat : \A s \in Nat : s >= 1 /\ p * s <= m => p <= m \div s /\ m \div s \in Nat
  OBVIOUS
<1> QED
  BY <1>1, <1>2

-----------------------------------------------------------------------------
(* The order of a pass, whatever its surroundings do. *)

Reads == {"page", "write", "cursor"}

\* A record that waits to be dropped or written.
Taken(x) ==
  x \in PageRecords /\ x.stamp \in Time /\ (Leaves(x) \/ Writable(x))

Orderly(p) ==
  /\ p.page \in 1 .. MaxPage /\ p.since \in Time
  /\ p.pc \in {"begin", "reset", "clear", "ensure"} => p.model \in Model /\ p.todo = Class
  /\ p.pc = "clear" => \A c \in Class : cursor[c] = NoTime
  /\ p.pc \in Reads => p.class \in p.todo /\ p.since = Since(p.class)
  /\ p.pc \in {"begin", "reset", "clear", "ensure", "class", "page"} => p.last = FALSE
  /\ p.pc = "cursor" => p.last
  /\ p.pc \notin {"write", "drop"} => p.batch = {}
  /\ p.pc = "write" => /\ p.last \/ p.page * PageSize <= Cardinality(Object)
                      /\ \A x \in p.batch : Taken(x) /\ x.object[1] = p.class
  /\ p.pc = "drop" => \A x \in p.batch :
       /\ x.object \in Object /\ x.object[1] = p.class
       /\ ~itop[x.object].there /\ itop[x.object] # NotYet

\* The versions of the index, and a replacement that replaces something.
Versions ==
  /\ index \in Index /\ kept \in Index
  /\ {built, filling} \subseteq Model \union {NoModel}
  /\ filling # NoModel => built \notin {NoModel, filling}

Stamped == \A o \in Object : itop[o].there => itop[o].stamp \in Time

Counted ==
  /\ reindex \in BOOLEAN /\ reconciled \in Time \union {NoTime}
  /\ owed \subseteq Object /\ events \in 0 .. MaxEvents

OrderInv ==
  SweepInv /\ Versions /\ Stamped /\ Counted /\ \A r \in Replica : Orderly(pass[r])

LEMMA FirstPage == 1 \in 1 .. MaxPage /\ MaxPage \in Nat /\ 0 \in Time
<1>1. Cardinality(Object) \in Nat
  BY ListedFew
<1>2. Cardinality(Object) \div PageSize \in Nat
  <2>1. 0 * PageSize <= Cardinality(Object)
    BY <1>1, SizesAre
  <2> QED
    BY <1>1, <2>1, DivIs
<1> QED
  BY <1>2, SizesAre DEF MaxPage, Time

LEMMA BlankOrderly ==
  ASSUME NEW p, Blank(p), p.pc \in {"idle", "class", "release"}
  PROVE  Orderly(p)
BY FirstPage DEF Orderly, Blank, Reads

LEMMA InitOrder == Init => OrderInv
<1> SUFFICES ASSUME Init PROVE OrderInv
  OBVIOUS
<1>1. SweepInv
  BY InitSweep
<1>2. Versions
  <2>1. EmptyIndex \in Index
    BY ChunksAre DEF EmptyIndex, Index
  <2> QED
    BY <2>1 DEF Init, Versions
<1>3. Stamped
  BY FirstPage DEF Init, Stamped, NotYet
<1>4. Counted
  <2>1. 0 \in 0 .. MaxEvents
    BY SizesAre
  <2> QED
    BY <2>1 DEF Init, Counted
<1>5. \A r \in Replica : Orderly(pass[r])
  <2>1. Blank(Idle) /\ Idle.pc = "idle"
    BY DEF Idle, Blank
  <2>2. Orderly(Idle)
    BY <2>1, BlankOrderly
  <2> QED
    BY <2>2 DEF Init
<1> QED
  BY <1>1, <1>2, <1>3, <1>4, <1>5 DEF OrderInv

\* A step of one replica, whose pass stays in order.
LEMMA OneOrderly ==
  ASSUME OrderInv, SweepInv', NEW r \in Replica, PassStep(r) \/ PassFails(r) \/ Crash(r),
         UNCHANGED <<itop, owed>> \/ (itop' = itop /\ owed' \subseteq owed),
         Orderly(pass[r])', Versions',
         reindex' \in BOOLEAN, reconciled' \in Time \union {NoTime}, events' \in 0 .. MaxEvents
  PROVE  OrderInv'
<1>1. ASSUME NEW q \in Replica, q # r PROVE Orderly(pass[q])'
  <2>1. pass'[q] = pass[q] /\ pass[q].pc = "idle" /\ Orderly(pass[q])
    BY <1>1, OthersIdle DEF OrderInv
  <2> QED
    BY <2>1 DEF Orderly, Reads
<1>2. Stamped' /\ Counted'
  BY DEF OrderInv, Stamped, Counted
<1> QED
  BY <1>1, <1>2 DEF OrderInv

LEMMA TakenOrderly == ASSUME OrderInv, NEW r \in Replica, TakeLock(r) PROVE OrderInv'
<1>1. /\ UNCHANGED <<itop, index, kept, built, filling, cursor, reindex, reconciled, owed, events>>
      /\ SweepInv'
  BY LockSafe DEF TakeLock, world, qdrant, redis, OrderInv
<1>2. /\ pass'[r].pc = "begin" /\ pass'[r].model \in Model /\ pass'[r].todo = Class
      /\ Blank(pass'[r])
  BY TakeLockIs DEF OrderInv
<1>3. Orderly(pass[r])'
  BY <1>2, FirstPage DEF Orderly, Blank, Reads
<1> QED
  BY <1>1, <1>3, OneOrderly DEF OrderInv, Versions, Counted, PassStep

LEMMA AdminOrderly ==
  ASSUME OrderInv, NEW r \in Replica,
         Begin(r) \/ ResetCursors(r) \/ ClearFlag(r) \/ StampReconciled(r)
  PROVE  OrderInv'
<1>1. /\ UNCHANGED <<itop, index, kept, built, filling, owed, events>> /\ SweepInv'
      /\ reindex' \in BOOLEAN /\ reconciled' \in Time \union {NoTime}
  BY AdminSafe DEF Begin, ResetCursors, ClearFlag, StampReconciled, world, qdrant, redis,
                   OrderInv, Counted, SweepInv, Typed
<1>2. ResetCursors(r) => \A c \in Class : cursor'[c] = NoTime
  BY DEF ResetCursors
<1>3. ~ResetCursors(r) => UNCHANGED cursor
  BY DEF Begin, ClearFlag, StampReconciled, redis
<1>4. /\ Carries(pass'[r], pass[r]) /\ pass'[r].model = pass[r].model
      /\ Begin(r) => pass[r].pc = "begin" /\ pass'[r].pc \in {"reset", "ensure"}
      /\ ResetCursors(r) => pass[r].pc = "reset" /\ pass'[r].pc = "clear"
      /\ ClearFlag(r) => pass[r].pc = "clear" /\ pass'[r].pc = "ensure"
      /\ StampReconciled(r) => pass[r].pc = "reconcile" /\ pass'[r].pc = "release"
  BY PlaceIs DEF OrderInv
<1>5. Orderly(pass[r])
  BY DEF OrderInv
<1>6. Orderly(pass[r])'
  BY <1>2, <1>4, <1>5 DEF Orderly, Carries, Reads
<1> QED
  BY <1>1, <1>6, OneOrderly DEF OrderInv, Versions, Counted, PassStep

LEMMA EnsureOrderly == ASSUME OrderInv, NEW r \in Replica, EnsureVersion(r) PROVE OrderInv'
<1>1. /\ UNCHANGED <<itop, cursor, reindex, reconciled, owed, events>> /\ SweepInv'
  BY EnsureSafe DEF EnsureVersion, world, redis, OrderInv
<1>2. /\ pass[r].pc = "ensure" /\ pass'[r].pc = "class" /\ Carries(pass'[r], pass[r])
  BY EnsureIs DEF OrderInv
<1>3. Orderly(pass[r])
  BY DEF OrderInv
<1>4. Orderly(pass[r])'
  <2>1. pass[r].last = FALSE
    BY <1>2, <1>3 DEF Orderly
  <2> QED
  BY <1>2, <1>3, <2>1 DEF Orderly, Carries, Reads
<1>5. Versions'
  <2>1. EmptyIndex \in Index
    BY ChunksAre DEF EmptyIndex, Index
  <2>2. pass[r].model \in Model /\ NoModel \notin Model
    BY <1>2, <1>3 DEF Orderly
  <2> QED
    BY <2>1, <2>2 DEF EnsureVersion, OrderInv, Versions, qdrant
<1> QED
  BY <1>1, <1>4, <1>5, OneOrderly DEF OrderInv, Counted, PassStep

LEMMA ReadCursorOrderly == ASSUME OrderInv, NEW r \in Replica, ReadCursor(r) PROVE OrderInv'
<1>1. /\ UNCHANGED <<itop, index, kept, built, filling, cursor, reindex, reconciled, owed, events>>
      /\ SweepInv'
  BY AdminSafe DEF ReadCursor, world, qdrant, redis, OrderInv
<1>. DEFINE s == pass[r]
            p == pass'[r]
<1>2. /\ s.pc = "class" /\ p.pc = "page" /\ p.class \in s.todo
      /\ p.page = 1 /\ p.since = Since(p.class) /\ p.todo = s.todo
      /\ p.last = s.last /\ p.batch = s.batch
  BY ReadCursorIs DEF OrderInv
<1>3. Orderly(s) /\ s \in Passes
  BY PassesAre DEF OrderInv
<1>4. p.class \in Class /\ cursor[p.class] \in Time \union {NoTime}
  BY <1>2, <1>3 DEF Passes, OrderInv, SweepInv, Typed
<1>. PICK c : c = p.class
  OBVIOUS
<1>5. Since(c) \in Time /\ Since(c)' = Since(c)
  BY <1>1, <1>4, ResumesIs DEF Since, Resumes, IsActive
<1>6. Orderly(pass[r])'
  BY <1>2, <1>3, <1>5, FirstPage DEF Orderly, Reads
<1> QED
  BY <1>1, <1>6, OneOrderly DEF OrderInv, Versions, Counted, PassStep

LEMMA IndexStays ==
  ASSUME index \in Index
  PROVE  /\ \A some : DeleteObjects(some) \in Index
         /\ \A o \in Object : \A new \in Chunks : [index EXCEPT ![o] = new] \in Index
         /\ \A o \in Object : index[o] \in Chunks
BY ChunksAre DEF Index, DeleteObjects

\* A pass that goes on with its page, or with the next one.
LEMMA GoesOrderly ==
  ASSUME OrderInv, NEW s, Orderly(s), s.pc \in {"page", "write"}, NEW p, GoesOn(p, s),
         UNCHANGED <<cursor, filling>>,
         p.last \/ s.page * PageSize <= Cardinality(Object), p.last \in BOOLEAN,
         \A x \in p.batch : Taken(x) /\ x.object[1] = s.class
  PROVE  Orderly(p)'
<1>1. s.page \in Nat /\ s.page >= 1 /\ s.page <= MaxPage /\ s.since \in Time
      /\ s.class \in s.todo /\ s.since = Since(s.class)
  BY FirstPage DEF Orderly, Reads
<1>2. Since(s.class)' = Since(s.class)
  BY DEF Since, Resumes, IsActive
<1>3. /\ p.class = s.class /\ p.todo = s.todo /\ p.since = s.since
      /\ p.pc \in Reads
      /\ p.pc = "cursor" => p.last /\ p.batch = {}
      /\ p.pc = "page" => p.last = FALSE /\ p.batch = {}
  BY DEF GoesOn, Reads
<1>4. p.page \in 1 .. MaxPage
  <2>1. CASE p.pc = "page"
    <3>1. s.page * PageSize <= Cardinality(Object) /\ p.page = s.page + 1
      BY <1>3, <2>1 DEF GoesOn
    <3>2. s.page <= Cardinality(Object) \div PageSize /\ Cardinality(Object) \div PageSize \in Nat
      <4>1. Cardinality(Object) \in Nat
        BY ListedFew
      <4> QED
        BY <1>1, <3>1, <4>1, DivIs
    <3> QED
      BY <1>1, <3>1, <3>2 DEF MaxPage
  <2>2. CASE p.pc # "page"
    BY <1>1, <2>2, FirstPage DEF GoesOn
  <2> QED
    BY <2>1, <2>2
<1>5. p.pc = "write" => p.last \/ p.page * PageSize <= Cardinality(Object)
  BY DEF GoesOn
<1> QED
  BY <1>1, <1>2, <1>3, <1>4, <1>5 DEF Orderly, Reads

LEMMA ReadPageOrderly == ASSUME OrderInv, NEW r \in Replica, ReadPage(r) PROVE OrderInv'
<1>. DEFINE s == pass[r]
            p == pass'[r]
            records == Page(s.class, s.since, s.page)
<1>1. /\ UNCHANGED <<itop, index, kept, built, filling, cursor, reindex, reconciled, events>>
      /\ owed' \subseteq owed /\ SweepInv'
  <2>1. UNCHANGED <<itop, index, kept, built, filling, cursor, reindex, reconciled, events>>
    BY DEF ReadPage, world, redis, qdrant
  <2>2. \E some : owed' = owed \ some
    BY Zenon DEF ReadPage
  <2> QED
    BY <2>1, <2>2, ReadPageSafe DEF OrderInv
<1>2. /\ s.pc = "page" /\ GoesOn(p, s)
      /\ p.batch = {x \in records : Leaves(x) \/ Accepted(x.text)}
      /\ p.last = IsLast(records)
  BY ReadPageIs DEF OrderInv
<1>3. Orderly(s) /\ s \in Passes /\ s.class \in Class /\ s.page \in Nat /\ s.page >= 1
  BY PassesAre, FirstPage DEF OrderInv, Passes, Orderly
<1>4. ASSUME NEW x \in p.batch PROVE Taken(x) /\ x.object[1] = s.class
  <2>1. x \in records /\ (Leaves(x) \/ (x.inScope /\ Accepted(x.text))) /\ x \in PageRecords
    <3>1. x \in records /\ (Leaves(x) \/ Accepted(x.text))
      BY <1>2, <1>4
    <3> QED
      BY <1>3, <3>1, PageIs DEF Leaves, OrderInv
  <2>2. PICK i \in Listed(s.class, s.since) : x = RecordOf(s.class, i)
    BY <1>3, <2>1, PageHas
  <2>3. <<s.class, i>> \in Object /\ itop[<<s.class, i>>].there
    BY <1>3, <2>2, ListedIs DEF Listed
  <2>4. x.object = <<s.class, i>> /\ x.stamp \in Time
    BY <2>2, <2>3 DEF RecordOf, OrderInv, Stamped
  <2> QED
    BY <2>1, <2>4 DEF Taken, Writable
<1>5. p.last \/ s.page * PageSize <= Cardinality(Object)
  <2>1. ~IsLast(records) => s.page * PageSize <= Cardinality(Listed(s.class, s.since))
    BY <1>3, PageHas
  <2>2. /\ Cardinality(Object) \in Nat /\ Cardinality(Listed(s.class, s.since)) \in Nat
        /\ Cardinality(Listed(s.class, s.since)) <= Cardinality(Object)
    BY <1>3, ListedFew
  <2>3. s.page * PageSize \in Nat
    BY <1>3, PagesAre
  <2> QED
    BY <1>2, <2>1, <2>2, <2>3
<1>6. Orderly(pass[r])'
  <2>1. p.last \in BOOLEAN
    BY <1>2 DEF IsLast
  <2>2. PICK q, t : q = p /\ t = s
    OBVIOUS
  <2>. HIDE DEF p, s, records
  <2>3. Orderly(t) /\ t.pc \in {"page", "write"} /\ GoesOn(q, t)
    BY <1>2, <1>3, <2>2
  <2>4. Orderly(q)'
    BY <1>1, <1>4, <1>5, <2>1, <2>2, <2>3, GoesOrderly
  <2> QED
    BY <2>2, <2>4 DEF p, Orderly
<1> QED
  BY <1>1, <1>6, OneOrderly DEF OrderInv, Versions, Counted, PassStep

\* What a record that is taken makes of its object.
EndsAs(x) == IF Leaves(x) THEN NoChunks ELSE ChunksOf(x)

LEMMA TreatedEndsAs ==
  ASSUME index \in Index, NEW x, Taken(x)
  PROVE  /\ x.object \in Object /\ Digests(x.object) \in Chunks
         /\ Treated(x) = EndsAs(x) /\ EndsAs(x) \in Chunks
<1>1. x.object \in Object /\ Digests(x.object) \in Chunks
  BY IndexStays DEF Taken, PageRecords, Digests
<1>2. CASE Leaves(x)
  BY <1>1, <1>2, ChunksAre DEF Treated, EndsAs
<1>3. CASE ~Leaves(x)
  <2>1. Writable(x)
    BY <1>3 DEF Taken
  <2> QED
    BY <1>1, <1>3, <2>1, WrittenWhole, TextIs DEF Treated, EndsAs
<1> QED
  BY <1>1, <1>2, <1>3

\* What writes leave is still an index.
LEMMA WrittenIndex ==
  ASSUME OrderInv, NEW r \in Replica, Treats(r) \/ MaybeHalfWritten(r)
  PROVE  index' \in Index
<1>1. index \in Index
  BY DEF OrderInv, Versions
<1>2. ASSUME At(r, "write"), NEW x \in pass[r].batch
      PROVE  Taken(x)
  BY <1>2 DEF OrderInv, Orderly, At
<1>3. CASE Treats(r)
  <2>1. At(r, "write") /\ \E x \in pass[r].batch : index' = [index EXCEPT ![x.object] = Treated(x)]
    BY <1>3, TreatedIs DEF OrderInv, At
  <2>2. PICK x \in pass[r].batch : index' = [index EXCEPT ![x.object] = Treated(x)]
    BY <2>1
  <2> QED
    BY <1>1, <1>2, <2>1, <2>2, TreatedEndsAs, IndexStays
<1>4. CASE MaybeHalfWritten(r) /\ ~UNCHANGED index
  <2>1. Writing(r)
    BY <1>4 DEF MaybeHalfWritten
  <2>2. PICK x \in pass[r].batch :
          \E held \in HalfWritten(x, Digests(x.object)) : index' = [index EXCEPT ![x.object] = held]
    BY Zenon, <1>4 DEF MaybeHalfWritten
  <2>3. PICK held \in HalfWritten(x, Digests(x.object)) : index' = [index EXCEPT ![x.object] = held]
    BY <2>2
  <2>4. Writable(x) /\ x.object \in Object /\ Digests(x.object) \in Chunks
    BY <1>1, <1>2, <2>1, TreatedEndsAs DEF Writing, Taken
  <2>5. held \in Chunks
    BY <2>4, WrittenHalf
  <2> QED
    BY <1>1, <2>3, <2>4, <2>5, IndexStays
<1> QED
  BY <1>1, <1>3, <1>4

LEMMA WriteOrderly == ASSUME OrderInv, NEW r \in Replica, Treats(r) PROVE OrderInv'
<1>. DEFINE s == pass[r]
            p == pass'[r]
<1>1. /\ UNCHANGED <<itop, kept, built, filling, cursor, reindex, reconciled, owed, events>>
      /\ index' \in Index /\ SweepInv'
  <2>1. UNCHANGED <<itop, kept, built, filling, cursor, reindex, reconciled, owed, events>>
    BY DEF Treats, DropLeft, WriteObject, world, redis
  <2> QED
    BY <2>1, WriteSafe, WrittenIndex DEF OrderInv, Treats
<1>2. /\ s.pc = "write" /\ GoesOn(p, s) /\ p.last = s.last /\ p.batch \subseteq s.batch
  <2>1. /\ s.pc = "write" /\ GoesOn(p, s) /\ p.last = s.last
        /\ \E record \in s.batch : p.batch = s.batch \ {record}
    BY TreatedIs DEF OrderInv
  <2> QED
    BY <2>1
<1>3. Orderly(s) /\ s \in Passes
  BY PassesAre DEF OrderInv
<1>4. \A x \in p.batch : Taken(x) /\ x.object[1] = s.class
  BY <1>2, <1>3 DEF Orderly
<1>5. p.last \in BOOLEAN /\ (p.last \/ s.page * PageSize <= Cardinality(Object))
  BY <1>2, <1>3 DEF Orderly, Passes
<1>6. Orderly(pass[r])'
  <2>1. PICK q, t : q = p /\ t = s
    OBVIOUS
  <2>. HIDE DEF p, s
  <2>2. Orderly(t) /\ t.pc \in {"page", "write"} /\ GoesOn(q, t)
    BY <1>2, <1>3, <2>1
  <2>3. Orderly(q)'
    BY <1>1, <1>4, <1>5, <2>1, <2>2, GoesOrderly
  <2> QED
    BY <2>1, <2>3 DEF p, Orderly
<1> QED
  BY <1>1, <1>6, OneOrderly DEF OrderInv, Versions, Counted, PassStep, Treats

\* A pass that ends, or has done with a class, is as good as new.
LEMMA BlankNext ==
  ASSUME NEW r, Blank(pass'[r]), pass'[r].pc \in {"idle", "class", "release"}
  PROVE  Orderly(pass[r])'
BY FirstPage DEF Orderly, Blank, Reads

LEMMA LeavingOrderly ==
  ASSUME OrderInv, NEW r \in Replica, MoveCursor(r) \/ ClassFails(r)
  PROVE  OrderInv'
<1>1. /\ UNCHANGED <<itop, kept, built, filling, reindex, reconciled, owed>>
      /\ index' \in Index /\ SweepInv' /\ events' \in 0 .. MaxEvents
  <2>1. UNCHANGED <<itop, kept, built, filling, reindex, reconciled, owed>>
    BY DEF MoveCursor, ClassFails, world, redis, qdrant
  <2>2. index' \in Index
    BY WrittenIndex DEF MoveCursor, ClassFails, qdrant, OrderInv, Versions
  <2>3. events' \in 0 .. MaxEvents
    <3>1. UNCHANGED events \/ (events < MaxEvents /\ events' = events + 1)
      BY DEF MoveCursor, ClassFails
    <3> QED
      BY <3>1, SizesAre DEF OrderInv, Counted
  <2> QED
    BY <2>1, <2>2, <2>3, AdminSafe, DeathSafe DEF OrderInv
<1>2. pass'[r].pc = "class" /\ Blank(pass'[r])
  BY LeavingIs DEF OrderInv
<1> QED
  BY <1>1, <1>2, BlankNext, OneOrderly DEF OrderInv, Versions, Counted, PassStep

LEMMA EndOrderly ==
  ASSUME OrderInv, NEW r \in Replica, Release(r) \/ Crash(r) \/ PassFails(r)
  PROVE  OrderInv'
<1>1. /\ UNCHANGED <<itop, kept, built, filling, reindex, reconciled, owed>>
      /\ index' \in Index /\ SweepInv' /\ events' \in 0 .. MaxEvents
  <2>1. UNCHANGED <<itop, kept, built, filling, reindex, reconciled, owed>>
    BY DEF Release, Crash, PassFails, world, redis, qdrant
  <2>2. index' \in Index
    BY WrittenIndex DEF Release, Crash, PassFails, qdrant, OrderInv, Versions
  <2>3. events' \in 0 .. MaxEvents
    BY SizesAre DEF Release, Crash, PassFails, OrderInv, Counted
  <2> QED
    BY <2>1, <2>2, <2>3, AdminSafe, DeathSafe, LockSafe DEF OrderInv
<1>2. pass'[r].pc \in {"idle", "release"} /\ Blank(pass'[r])
  BY EndIs DEF OrderInv
<1> QED
  BY <1>1, <1>2, BlankNext, OneOrderly DEF OrderInv, Versions, Counted, PassStep

LEMMA ClassesOrderly == ASSUME OrderInv, NEW r \in Replica, ClassesDone(r) PROVE OrderInv'
<1>1. /\ UNCHANGED <<itop, cursor, reindex, reconciled, owed, events>> /\ SweepInv'
  BY ClassesSafe DEF ClassesDone, world, redis, OrderInv
<1>2. Versions'
  <2>1. EmptyIndex \in Index
    BY ChunksAre DEF EmptyIndex, Index
  <2> QED
    BY <2>1 DEF ClassesDone, OrderInv, Versions, qdrant, IsActive
<1>3. /\ pass[r].pc = "class" /\ pass'[r].pc \in {"reconcile", "release"}
      /\ pass'[r].since = pass[r].since /\ pass'[r].page = pass[r].page
      /\ pass'[r].batch = pass[r].batch
  BY ClassesDoneIs DEF OrderInv
<1>4. Orderly(pass[r])'
  BY <1>3 DEF OrderInv, Orderly, Reads
<1> QED
  BY <1>1, <1>2, <1>4, OneOrderly DEF OrderInv, Counted, PassStep

LEMMA ReconcileOrderly ==
  ASSUME OrderInv, NEW r \in Replica, ListBatch(r) \/ DropOrphans(r)
  PROVE  OrderInv'
<1>1. /\ UNCHANGED <<itop, kept, built, filling, cursor, reindex, reconciled, owed, events>>
      /\ index' \in Index /\ SweepInv'
  <2>1. UNCHANGED <<itop, kept, built, filling, cursor, reindex, reconciled, owed, events>>
    BY DEF ListBatch, DropOrphans, world, qdrant, redis
  <2>2. index' \in Index
    BY IndexStays DEF ListBatch, DropOrphans, qdrant, OrderInv, Versions
  <2> QED
    BY <2>1, <2>2, ListSafe, DropSafe DEF OrderInv
<1>2. Orderly(pass[r])'
  <2>1. Orderly(pass[r])
    BY DEF OrderInv
  <2>2. CASE ListBatch(r)
    <3>1. /\ pass[r].pc = "reconcile" /\ pass'[r].pc \in {"reconcile", "drop"}
          /\ pass'[r].since = pass[r].since /\ pass'[r].page = pass[r].page
          /\ pass'[r].pc = "reconcile" => pass'[r].batch = pass[r].batch
          /\ pass'[r].pc = "drop" => \A x \in pass'[r].batch :
                  /\ x.object \in Object /\ x.object[1] = pass'[r].class
                  /\ ~itop[x.object].there /\ itop[x.object] # NotYet
      BY <2>2, ListBatchIs DEF OrderInv
    <3> QED
      BY <1>1, <2>1, <3>1 DEF Orderly, Reads
  <2>3. CASE DropOrphans(r)
    <3>1. /\ pass'[r].pc = "reconcile" /\ pass'[r].batch = {}
          /\ pass'[r].since = pass[r].since /\ pass'[r].page = pass[r].page
      BY <2>3, DropIs DEF OrderInv
    <3> QED
      BY <2>1, <3>1 DEF Orderly, Reads
  <2> QED
    BY <2>2, <2>3
<1> QED
  BY <1>1, <1>2, OneOrderly DEF OrderInv, Versions, Counted, PassStep

\* Whatever happens outside the passes.
LEMMA WorldOrderly ==
  ASSUME OrderInv, SweepInv',
         LockExpires \/ TimePasses \/ RequestReindex \/ UNCHANGED vars
           \/ \E o \in Object : Save(o) \/ Discard(o)
  PROVE  OrderInv'
<1>1. UNCHANGED <<index, kept, built, filling, cursor, reconciled, pass>>
  BY DEF LockExpires, TimePasses, RequestReindex, vars, Save, Discard, qdrant, redis, world
<1>2. \A o \in Object : ~itop[o].there /\ itop[o] # NotYet => itop'[o] = itop[o]
  <2>1. CASE UNCHANGED itop
    BY <2>1
  <2>2. CASE \E o \in Object : Save(o) \/ Discard(o)
    BY <2>2 DEF Save, Discard, OrderInv, SweepInv, Typed
  <2> QED
    BY <2>1, <2>2 DEF LockExpires, TimePasses, RequestReindex, vars, world
<1>3. \A r \in Replica : Orderly(pass[r])'
  <2>1. SUFFICES ASSUME NEW r \in Replica PROVE Orderly(pass[r])'
    OBVIOUS
  <2>2. Orderly(pass[r])
    BY DEF OrderInv
  <2>. PICK c : c = pass[r].class
    OBVIOUS
  <2>3. Since(c)' = Since(c)
    BY <1>1 DEF Since, Resumes, IsActive
  <2> QED
    BY <1>1, <1>2, <2>2, <2>3 DEF Orderly
<1>4. Stamped'
  <2>1. CASE UNCHANGED itop
    BY <2>1 DEF OrderInv, Stamped
  <2>2. CASE \E o \in Object : Save(o) \/ Discard(o)
    <3>1. PICK o \in Object : Save(o) \/ Discard(o)
      BY <2>2
    <3>2. itop \in [Object -> Record] /\ clock \in Time
      BY DEF OrderInv, SweepInv, Typed
    <3>3. \A x \in Object : x # o => itop'[x] = itop[x]
      BY <3>1, <3>2 DEF Save, Discard
    <3>4. itop'[o].stamp \in Time
      BY <3>1, <3>2, FirstPage DEF Save, Discard, Gone, NotYet
    <3> QED
      BY <3>3, <3>4 DEF OrderInv, Stamped
  <2> QED
    BY <2>1, <2>2 DEF LockExpires, TimePasses, RequestReindex, vars, world
<1>5. Counted'
  <2>1. UNCHANGED events \/ (events < MaxEvents /\ events' = events + 1)
    BY DEF LockExpires, TimePasses, RequestReindex, vars, Save, Discard
  <2>2. events' \in 0 .. MaxEvents
    BY <2>1, SizesAre DEF OrderInv, Counted
  <2>3. reindex' \in BOOLEAN /\ owed' \subseteq Object
    BY DEF LockExpires, TimePasses, RequestReindex, vars, Save, Discard, redis, OrderInv, Counted
  <2> QED
    BY <1>1, <2>2, <2>3 DEF OrderInv, Counted
<1> QED
  BY <1>1, <1>3, <1>4, <1>5 DEF OrderInv, Versions

LEMMA StepOrder == OrderInv /\ [Next]_vars => OrderInv'
<1> SUFFICES ASSUME OrderInv, [Next]_vars PROVE OrderInv'
  OBVIOUS
<1>1. SweepInv'
  BY StepSweep DEF OrderInv
<1>2. CASE \E r \in Replica : PassStep(r) \/ PassFails(r) \/ Crash(r)
  <2>1. PICK r \in Replica : PassStep(r) \/ PassFails(r) \/ Crash(r)
    BY <1>2
  <2> QED
    BY <2>1, TakenOrderly, AdminOrderly, EnsureOrderly, ReadCursorOrderly, ReadPageOrderly,
       WriteOrderly, LeavingOrderly, EndOrderly, ClassesOrderly, ReconcileOrderly DEF PassStep, Treats
<1>3. CASE ~\E r \in Replica : PassStep(r) \/ PassFails(r) \/ Crash(r)
  BY <1>1, <1>3, WorldOrderly DEF Next
<1> QED
  BY <1>2, <1>3

\* The order of the passes holds in every state (indexer.py _sweep_locked).
THEOREM PassesInOrder == Spec => []OrderInv
<1>1. OrderInv /\ [Next]_vars => OrderInv'
  BY StepOrder
<1> QED
  BY InitOrder, <1>1, PTL DEF Spec

\* The variables of Sweep keep their types in every state: pages are counted no
\* further than the objects there are, and an object never has more chunks than the
\* cap (indexer.py max_chunks_per_object).
THEOREM SweepTypes == Spec => []TypeOK
<1>1. OrderInv => TypeOK
  <2> SUFFICES ASSUME OrderInv PROVE TypeOK
    OBVIOUS
  <2>1. ASSUME NEW r \in Replica
        PROVE  /\ pass[r].pc \in Places
               /\ pass[r].page \in 1 .. MaxPage
               /\ pass[r].since \in Time
               /\ pass[r].seen \in Time \union {NoTime}
               /\ pass[r].todo \subseteq Class
               /\ \A x \in pass[r].batch : x.object[1] = pass[r].class
    <3>1. pass[r] \in Passes /\ Orderly(pass[r])
      BY PassesAre DEF OrderInv
    <3>2. \A x \in pass[r].batch : x.object[1] = pass[r].class
      BY <3>1 DEF Orderly
    <3> QED
      BY <3>1, <3>2 DEF Passes, Orderly
  <2> QED
    BY <2>1 DEF TypeOK, OrderInv, SweepInv, Typed, Versions, Counted
<1> QED
  BY <1>1, PassesInOrder, PTL

-----------------------------------------------------------------------------
(* What searches find. *)

\* A write, done or cut short, leaves something of an object there was something of,
\* and what is dropped was seen outside.
LEMMA WriteKeeps ==
  ASSUME OrderInv, NEW r \in Replica, Treats(r) \/ MaybeHalfWritten(r),
         NEW o \in Object, index[o] # NoChunks, ~SeenOutside(o)
  PROVE  index'[o] # NoChunks
<1>1. index \in Index /\ DOMAIN index = Object
  BY DEF OrderInv, Versions, Index
<1>2. ASSUME At(r, "write"), NEW x \in pass[r].batch
      PROVE  Taken(x)
  BY <1>2 DEF OrderInv, Orderly, At
<1>3. CASE Treats(r)
  <2>1. At(r, "write") /\ \E x \in pass[r].batch : index' = [index EXCEPT ![x.object] = Treated(x)]
    BY <1>3, TreatedIs DEF OrderInv, At
  <2>2. PICK x \in pass[r].batch : index' = [index EXCEPT ![x.object] = Treated(x)]
    BY <2>1
  <2>3. CASE x.object = o
    <3>1. ~Leaves(x) /\ Taken(x) /\ Writable(x)
      BY <1>2, <2>1, <2>3 DEF SeenOutside, Leaves, Taken
    <3>2. index'[o] = ChunksOf(x)
      BY <1>1, <2>2, <2>3, <3>1, TreatedEndsAs DEF EndsAs
    <3> QED
      BY <3>1, <3>2, TextIs
  <2>4. CASE x.object # o
    <3>1. index'[o] = index[o]
      BY <1>1, <2>2, <2>4
    <3> QED
      BY <3>1
  <2> QED
    BY <2>3, <2>4
<1>4. CASE MaybeHalfWritten(r) /\ ~UNCHANGED index
  <2>1. Writing(r)
    BY <1>4 DEF MaybeHalfWritten
  <2>2. PICK x \in pass[r].batch :
          \E held \in HalfWritten(x, Digests(x.object)) : index' = [index EXCEPT ![x.object] = held]
    BY Zenon, <1>4 DEF MaybeHalfWritten
  <2>3. PICK half \in HalfWritten(x, Digests(x.object)) : index' = [index EXCEPT ![x.object] = half]
    BY <2>2
  <2>4. CASE x.object = o
    <3>1. Writable(x) /\ Digests(o) \in Chunks /\ Digests(o) # NoChunks
      BY <1>1, <1>2, <2>1, <2>4, TreatedEndsAs DEF Writing, Taken, Digests
    <3>2. half # NoChunks
      BY <2>3, <2>4, <3>1, WrittenHalf
    <3> QED
      BY <1>1, <2>3, <2>4, <3>2
  <2>5. CASE x.object # o
    <3>1. index'[o] = index[o]
      BY <1>1, <2>3, <2>5
    <3> QED
      BY <3>1
  <2> QED
    BY <2>4, <2>5
<1> QED
  BY <1>3, <1>4

\* What the reconciliation deletes is gone.
LEMMA DeletionKeeps ==
  ASSUME OrderInv, NEW r \in Replica, DropOrphans(r), NEW o \in Object, itop[o].there
  PROVE  index'[o] = index[o]
<1>. DEFINE s == pass[r]
<1>1. s.pc = "drop" /\ index' = DeleteObjects({x.object : x \in s.batch})
  BY DropIs DEF OrderInv
<1>2. \A x \in s.batch : x.object # o
  BY <1>1 DEF OrderInv, Orderly
<1> QED
  BY <1>1, <1>2 DEF DeleteObjects

\* A switch of the version that leaves the model leaves the answers.
LEMMA SwitchKeeps ==
  ASSUME OrderInv, NEW r \in Replica, EnsureVersion(r) \/ ClassesDone(r), built' = built
  PROVE  Answering' = Answering
<1>1. CASE EnsureVersion(r)
  <2>1. pass[r].model \in Model /\ NoModel \notin Model
    BY <1>1, EnsureIs DEF OrderInv, Orderly
  <2> QED
    BY <1>1, <2>1 DEF EnsureVersion, Answering, IsActive, qdrant
<1>2. CASE ClassesDone(r)
  <2>1. filling # NoModel => built # filling
    BY DEF OrderInv, Versions
  <2> QED
    BY <1>2, <2>1 DEF ClassesDone, Answering, IsActive, qdrant
<1> QED
  BY <1>1, <1>2

LEMMA StepFindable ==
  ASSUME OrderInv, [Next]_vars, NEW o \in Object, itop[o].there, itop[o].inScope,
         Answering[o] # NoChunks, built' = built, ~SeenOutside(o)
  PROVE  Answering'[o] # NoChunks
<1>1. CASE UNCHANGED qdrant
  BY <1>1 DEF qdrant, Answering, IsActive
<1>2. CASE \E r \in Replica : EnsureVersion(r) \/ ClassesDone(r)
  BY <1>2, SwitchKeeps
<1>3. CASE \E r \in Replica : DropOrphans(r)
  <2>1. index'[o] = index[o]
    BY <1>3, DeletionKeeps
  <2> QED
    BY <1>3, <2>1 DEF DropOrphans, Answering, IsActive
<1>4. CASE \E r \in Replica : Treats(r) \/ ClassFails(r) \/ Crash(r)
  <2>1. index[o] # NoChunks => index'[o] # NoChunks
    BY <1>4, WriteKeeps DEF ClassFails, Crash
  <2>2. UNCHANGED <<kept, filling>>
    BY <1>4 DEF Treats, DropLeft, WriteObject, ClassFails, Crash
  <2> QED
    BY <2>1, <2>2 DEF Answering, IsActive
<1> QED
  BY <1>1, <1>2, <1>3, <1>4 DEF Next, PassStep, Treats, vars, qdrant, TakeLock, Begin,
     ResetCursors, ClearFlag, ReadCursor, ReadPage, MoveCursor, ListBatch, StampReconciled, Release, PassFails,
     LockExpires, TimePasses, Save, Discard, RequestReindex

\* For any texts and pages, however writes are cut short and passes die: an object
\* in scope that searches can find is never out of their reach while its chunks are
\* rewritten, and no deletion takes it but that of a page which shows it outside its
\* scope, read before it came back (indexer.py _sweep_class, _reconcile).
THEOREM ObjectsStayFindable == Spec => StaysFindable
<1>1. OrderInv /\ [Next]_vars =>
        [ \A o \in Object :
            itop[o].there /\ itop[o].inScope /\ itop'[o] = itop[o] /\ Answering[o] # NoChunks
            /\ built' = built /\ ~SeenOutside(o)
              => Answering'[o] # NoChunks ]_vars
  BY StepFindable
<1> QED
  BY PassesInOrder, <1>1, PTL DEF Spec, StaysFindable

-----------------------------------------------------------------------------
(* Nothing is dated in the future. *)

Past ==
  /\ \A c \in Class : cursor[c] <= clock
  /\ \A o \in Object : itop[o].stamp <= clock
  /\ \A r \in Replica : /\ pass[r].seen <= clock
                        /\ pass[r].pc # "idle" => pass[r].started <= clock

\* What the steps of the world do to the times.
LEMMA TimesAre ==
  ASSUME SweepInv
  PROVE  /\ clock \in Nat /\ MaxTime \in Nat /\ Overlap \in Nat /\ NoTime = -1
         /\ \A c \in Class : cursor[c] \in Int /\ cursor[c] >= -1
         /\ \A o \in Object : itop[o].stamp \in Int
         /\ \A r \in Replica : /\ pass[r].seen \in Int /\ pass[r].started \in Nat
                               /\ pass[r].since \in Int
<1>1. clock \in Nat /\ MaxTime \in Nat /\ Overlap \in Nat /\ NoTime = -1
  BY SizesAre DEF SweepInv, Typed, Time, NoTime
<1>2. \A t \in Time \union {NoTime} : t \in Int /\ t >= -1
  BY DEF Time, NoTime
<1>3. \A c \in Class : cursor[c] \in Time \union {NoTime}
  BY DEF SweepInv, Typed
<1>4. \A o \in Object : itop[o].stamp \in Time \union {NoTime}
  BY DEF SweepInv, Typed, Record
<1>5. \A r \in Replica : /\ pass[r].seen \in Time \union {NoTime} /\ pass[r].started \in Time
                         /\ pass[r].since \in Int
  BY DEF SweepInv, Typed, Passes
<1>6. \A t \in Time : t \in Nat
  BY DEF Time
<1> QED
  BY <1>1, <1>2, <1>3, <1>4, <1>5, <1>6

LEMMA InitPast == Init => Past
<1> SUFFICES ASSUME Init PROVE Past
  OBVIOUS
<1>1. SweepInv
  BY InitSweep
<1>2. Idle.pc = "idle" /\ Idle.seen = -1
  BY DEF Idle, NoTime
<1>3. NotYet.stamp = -1
  BY DEF NotYet, NoTime
<1>4. \A o \in Object : itop[o].stamp = 0 \/ itop[o].stamp = -1
  BY <1>3 DEF Init
<1> QED
  BY <1>2, <1>4 DEF Init, Past, NoTime

\* When a pass began, it remembers to its end.
LEMMA StartedIs ==
  ASSUME SweepInv, NEW r \in Replica, PassStep(r) \/ PassFails(r) \/ Crash(r)
  PROVE  \/ pass'[r].pc = "idle"
         \/ TakeLock(r) /\ pass'[r].started = clock
         \/ pass[r].pc # "idle" /\ pass'[r].started = pass[r].started
<1>1. CASE TakeLock(r)
  BY <1>1, TakeLockIs
<1>2. CASE Begin(r) \/ ResetCursors(r) \/ ClearFlag(r) \/ StampReconciled(r)
  BY <1>2, PlaceIs DEF Carries
<1>3. CASE EnsureVersion(r)
  BY <1>3, EnsureIs DEF Carries
<1>4. CASE ReadCursor(r)
  BY <1>4, ReadCursorIs
<1>5. CASE ReadPage(r) \/ Treats(r)
  BY <1>5, ReadPageIs, TreatedIs DEF GoesOn
<1>6. CASE MoveCursor(r) \/ ClassFails(r)
  BY <1>6, LeavingIs
<1>7. CASE ClassesDone(r) \/ ListBatch(r) \/ DropOrphans(r)
  BY <1>7, ClassesDoneIs, ListBatchIs, DropIs
<1>8. CASE Release(r) \/ Crash(r) \/ PassFails(r)
  BY <1>8, EndIs
<1> QED
  BY <1>1, <1>2, <1>3, <1>4, <1>5, <1>6, <1>7, <1>8 DEF PassStep, Treats

\* What it has seen is the date of a cursor or of an object.
LEMMA SeenIs ==
  ASSUME SweepInv, NEW r \in Replica, PassStep(r) \/ PassFails(r) \/ Crash(r)
  PROVE  \/ pass'[r].seen \in {pass[r].seen, NoTime}
         \/ \E c \in Class : pass'[r].seen = cursor[c]
         \/ \E o \in Object : pass'[r].seen = itop[o].stamp
<1>. DEFINE s == pass[r]
            p == pass'[r]
<1>0. s \in Passes /\ s.class \in Class /\ s.todo \subseteq Class
  BY PassesAre DEF Passes
<1>1. CASE TakeLock(r) \/ MoveCursor(r) \/ ClassFails(r) \/ Release(r) \/ Crash(r) \/ PassFails(r)
  BY <1>1, TakeLockIs, LeavingIs, EndIs DEF Blank
<1>2. CASE Begin(r) \/ ResetCursors(r) \/ ClearFlag(r) \/ StampReconciled(r)
  BY <1>2, PlaceIs DEF Carries
<1>3. CASE EnsureVersion(r)
  BY <1>3, EnsureIs DEF Carries
<1>4. CASE ReadCursor(r)
  BY <1>0, <1>4, ReadCursorIs
<1>5. CASE Treats(r) \/ ClassesDone(r) \/ ListBatch(r) \/ DropOrphans(r)
  BY <1>5, TreatedIs, ClassesDoneIs, ListBatchIs, DropIs
<1>6. CASE ReadPage(r)
  <2>. DEFINE records == Page(s.class, s.since, s.page)
  <2>1. p.seen \in {s.seen} \union {record.stamp : record \in records}
    BY <1>6, ReadPageIs
  <2>2. ASSUME NEW x \in records PROVE \E o \in Object : x.stamp = itop[o].stamp
    <3>1. PICK i \in Listed(s.class, s.since) :
            x = [object |-> <<s.class, i>>, inScope |-> itop[<<s.class, i>>].inScope,
                 text |-> itop[<<s.class, i>>].text, stamp |-> itop[<<s.class, i>>].stamp]
      BY DEF Page
    <3>2. <<s.class, i>> \in Object /\ x.stamp = itop[<<s.class, i>>].stamp
      BY <1>0, <3>1, ListedIs
    <3> QED
      BY <3>2
  <2>. HIDE DEF records
  <2> QED
    BY <2>1, <2>2
<1> QED
  BY <1>1, <1>2, <1>3, <1>4, <1>5, <1>6 DEF PassStep, Treats

LEMMA CursorIs ==
  ASSUME SweepInv, NEW r \in Replica, PassStep(r) \/ PassFails(r) \/ Crash(r)
  PROVE  /\ UNCHANGED <<clock, itop>>
         /\ \A c \in Class : \/ cursor'[c] \in {cursor[c], NoTime}
                             \/ MoveCursor(r) /\ c = pass[r].class /\ IsActive
                                /\ cursor'[c] = pass[r].seen
<1>1. UNCHANGED <<clock, itop>>
  BY DEF PassStep, PassFails, Crash, TakeLock, Begin, ResetCursors, ClearFlag, EnsureVersion,
         ReadCursor, ReadPage, DropLeft, WriteObject, MoveCursor, ClassFails, ClassesDone,
         ListBatch, DropOrphans, StampReconciled, Release, world
<1>2. CASE ResetCursors(r)
  BY <1>1, <1>2 DEF ResetCursors
<1>3. CASE MoveCursor(r)
  <2>1. cursor \in [Class -> Time \union {NoTime}]
    BY DEF SweepInv, Typed
  <2> QED
    BY <1>1, <1>3, <2>1 DEF MoveCursor
<1>4. CASE ~ResetCursors(r) /\ ~MoveCursor(r)
  <2>1. UNCHANGED cursor
    BY <1>4 DEF PassStep, PassFails, Crash, TakeLock, Begin, ClearFlag, EnsureVersion,
         ReadCursor, ReadPage, DropLeft, WriteObject, ClassFails, ClassesDone, ListBatch,
         DropOrphans, StampReconciled, Release, redis
  <2> QED
    BY <1>1, <2>1
<1> QED
  BY <1>2, <1>3, <1>4

\* The steps outside the passes: the clock, an object, the request.
LEMMA WorldIs ==
  ASSUME SweepInv,
         LockExpires \/ TimePasses \/ RequestReindex \/ UNCHANGED vars
           \/ \E o \in Object : Save(o) \/ Discard(o)
  PROVE  /\ UNCHANGED <<index, kept, built, filling, cursor, reconciled, pass>>
         /\ clock' = clock \/ (TimePasses /\ clock' = clock + 1)
         /\ \/ itop' = itop
            \/ /\ clock' = clock /\ UNCHANGED <<owed, reindex>>
               /\ \E o \in Object : /\ Save(o) \/ Discard(o)
                                    /\ \A x \in Object : x # o => itop'[x] = itop[x]
                                    /\ Save(o) => /\ itop[o].there \/ itop[o] = NotYet
                                                  /\ itop'[o].there /\ itop'[o].stamp = clock
                                    /\ Discard(o) => itop[o].there /\ itop'[o] = Gone
<1>1. UNCHANGED <<index, kept, built, filling, cursor, reconciled, pass>>
  BY DEF LockExpires, TimePasses, RequestReindex, vars, Save, Discard, qdrant, redis, world
<1>2. clock' = clock \/ (TimePasses /\ clock' = clock + 1)
  <2>1. TimePasses => clock' = clock + 1
    BY DEF TimePasses
  <2>2. LockExpires \/ RequestReindex \/ UNCHANGED vars => clock' = clock
    BY DEF LockExpires, RequestReindex, vars, world
  <2>3. \A o \in Object : Save(o) \/ Discard(o) => clock' = clock
    BY DEF Save, Discard
  <2> QED
    BY <2>1, <2>2, <2>3
<1>3. CASE \E o \in Object : Save(o) \/ Discard(o)
  <2>1. PICK o \in Object : Save(o) \/ Discard(o)
    BY <1>3
  <2>2. DOMAIN itop = Object
    BY DEF SweepInv, Typed
  <2>3. \A x \in Object : x # o => itop'[x] = itop[x]
    BY <2>1, <2>2 DEF Save, Discard
  <2>4. clock' = clock /\ UNCHANGED <<owed, reindex>>
    BY <2>1 DEF Save, Discard, redis
  <2>5. Save(o) => /\ itop[o].there \/ itop[o] = NotYet
                   /\ itop'[o].there /\ itop'[o].stamp = clock
    BY <2>2 DEF Save
  <2>6. Discard(o) => itop[o].there /\ itop'[o] = Gone
    BY <2>2 DEF Discard
  <2> QED
    BY <1>1, <1>2, <2>1, <2>3, <2>4, <2>5, <2>6
<1>4. CASE ~\E o \in Object : Save(o) \/ Discard(o)
  <2>1. itop' = itop
    BY <1>4 DEF LockExpires, TimePasses, RequestReindex, vars, world
  <2> QED
    BY <1>1, <1>2, <2>1
<1> QED
  BY <1>3, <1>4

LEMMA StepPast == SweepInv /\ Past /\ [Next]_vars => Past'
<1> SUFFICES ASSUME SweepInv, Past, [Next]_vars PROVE Past'
  OBVIOUS
<1>1. CASE \E r \in Replica : PassStep(r) \/ PassFails(r) \/ Crash(r)
  <2>1. PICK r \in Replica : PassStep(r) \/ PassFails(r) \/ Crash(r)
    BY <1>1
  <2>2. clock' = clock /\ itop' = itop /\ NoTime <= clock
    BY <2>1, CursorIs, TimesAre
  <2>3. \A c \in Class : cursor'[c] <= clock
    BY <2>1, <2>2, CursorIs DEF Past
  <2>4. pass'[r].seen <= clock
    BY <2>1, <2>2, SeenIs DEF Past
  <2>5. pass'[r].pc # "idle" => pass'[r].started <= clock
    <3>1. clock <= clock
      BY TimesAre
    <3> QED
      BY <2>1, <3>1, StartedIs DEF Past
  <2>6. \A q \in Replica : q # r => pass'[q] = pass[q]
    BY <2>1, OthersIdle
  <2> QED
    BY <2>2, <2>3, <2>4, <2>5, <2>6 DEF Past
<1>2. CASE ~\E r \in Replica : PassStep(r) \/ PassFails(r) \/ Crash(r)
  <2>1. LockExpires \/ TimePasses \/ RequestReindex \/ UNCHANGED vars
           \/ \E o \in Object : Save(o) \/ Discard(o)
    BY <1>2 DEF Next
  <2>2. UNCHANGED <<cursor, pass>> /\ (clock' = clock \/ clock' = clock + 1)
    BY <2>1, WorldIs
  <2>3. \A t \in Int : t <= clock => t <= clock'
    BY <2>2, TimesAre
  <2>4. \A o \in Object : itop'[o].stamp <= clock'
    <3>1. CASE itop' = itop
      BY <2>3, <3>1, TimesAre DEF Past
    <3>2. CASE itop' # itop
      <4>1. PICK o \in Object : /\ clock' = clock
                                /\ \A x \in Object : x # o => itop'[x] = itop[x]
                                /\ itop'[o].stamp = clock \/ itop'[o] = Gone
        BY <2>1, <3>2, WorldIs
      <4>2. Gone.stamp = 0
        BY DEF Gone, NotYet
      <4> QED
        BY <4>1, <4>2, TimesAre DEF Past
    <3> QED
      BY <3>1, <3>2
  <2> QED
    BY <2>2, <2>3, <2>4, TimesAre DEF Past
<1> QED
  BY <1>1, <1>2

LEMMA AlwaysPast == Spec => [](OrderInv /\ Past)
<1>1. OrderInv => SweepInv
  BY DEF OrderInv
<1> QED
  BY <1>1, PassesInOrder, InitPast, StepPast, PTL DEF Spec

-----------------------------------------------------------------------------
(* What a pass has still to read of its class. *)

\* The pages behind it.
Behind(p) == IF p.pc = "page" THEN p.page - 1 ELSE p.page

ToCome(p, o) ==
  /\ p.last = FALSE
  /\ itop[o].stamp >= p.since
  /\ Position(o[2], Listed(p.class, p.since)) > Behind(p) * PageSize

\* A page that is read has the object, or leaves it to come.
LEMMA ReadOrToCome ==
  ASSUME OrderInv, NEW r \in Replica, ReadPage(r),
         NEW o \in Object, o[1] = pass[r].class, itop[o].there, ToCome(pass[r], o)
  PROVE  LET s == pass[r]
         IN  RecordOf(s.class, o[2]) \in Page(s.class, s.since, s.page) \/ ToCome(pass[r], o)'
<1>. DEFINE s == pass[r]
            p == pass'[r]
            listed == Listed(s.class, s.since)
            records == Page(s.class, s.since, s.page)
<1>1. /\ s.pc = "page" /\ GoesOn(p, s) /\ p.last = IsLast(records)
      /\ itop' = itop
  BY ReadPageIs, CursorIs DEF OrderInv, PassStep
<1>2. s.class \in Class /\ s.page \in Nat /\ s.page >= 1
  BY PassesAre, FirstPage DEF OrderInv, Passes, Orderly
<1>3. o = <<s.class, o[2]>> /\ o[2] \in listed
  BY ObjectIs DEF ToCome, Listed
<1>4. Position(o[2], listed) \in Nat /\ s.page * PageSize \in Nat /\ (s.page - 1) * PageSize \in Nat
  <2>1. IsFiniteSet(listed) /\ listed \subseteq Nat
    BY <1>2, ListedIs
  <2>. HIDE DEF listed
  <2> QED
    BY <1>2, <1>3, <2>1, PositionIn, PagesAre
<1>5. Position(o[2], listed) > (s.page - 1) * PageSize
  BY <1>1 DEF ToCome, Behind
<1>6. CASE Position(o[2], listed) <= s.page * PageSize
  <2>1. Position(o[2], listed) \in Places1(s.page)
    BY <1>4, <1>5, <1>6 DEF Places1
  <2> QED
    BY <1>2, <1>3, <2>1, PageHas
<1>7. CASE Position(o[2], listed) > s.page * PageSize
  <2>1. ~IsLast(records)
    BY <1>2, <1>3, <1>4, <1>7, PageHas
  <2>2. /\ p.last = FALSE /\ p.class = s.class /\ p.since = s.since
        /\ Behind(p) = s.page
    <3>1. p.last = FALSE /\ p.class = s.class /\ p.since = s.since
      <4>1. p.last \in BOOLEAN
        BY <1>1 DEF IsLast
      <4>. HIDE DEF records, p, s
      <4> QED
        BY <1>1, <2>1, <4>1 DEF GoesOn
    <3>2. IF p.pc = "page" THEN p.page = s.page + 1 ELSE p.page = s.page
      BY <1>1 DEF GoesOn
    <3> QED
      BY <1>2, <3>1, <3>2 DEF Behind
  <2>3. PICK q : q = p
    OBVIOUS
  <2>4. Listed(q.class, q.since)' = Listed(q.class, q.since)
    BY <1>1 DEF Listed
  <2>5. ToCome(q, o)'
    <3>1. Position(o[2], Listed(q.class, q.since))' = Position(o[2], listed)
      BY <2>2, <2>3, <2>4 DEF Position
    <3> QED
      BY <1>1, <1>7, <2>2, <2>3, <3>1 DEF ToCome, Behind
  <2> QED
    BY <2>3, <2>5 DEF ToCome, Behind
<1> QED
  BY <1>4, <1>6, <1>7

\* A write reads nothing.
LEMMA WriteToCome ==
  ASSUME OrderInv, NEW r \in Replica, Treats(r), NEW o, ToCome(pass[r], o)
  PROVE  ToCome(pass[r], o)'
<1>. DEFINE s == pass[r]
            p == pass'[r]
<1>1. s.pc = "write" /\ GoesOn(p, s) /\ p.last = s.last /\ itop' = itop
  BY TreatedIs, CursorIs DEF OrderInv, PassStep, Treats
<1>2. s.page \in Nat
  BY PassesAre DEF OrderInv, Passes
<1>3. PICK q : q = p
  OBVIOUS
<1>4. q.class = s.class /\ q.since = s.since /\ q.last = FALSE /\ Behind(q) = Behind(s)
  BY <1>1, <1>2, <1>3 DEF GoesOn, Behind, ToCome
<1>5. ToCome(q, o)'
  <2>1. Listed(q.class, q.since)' = Listed(s.class, s.since)
    BY <1>1, <1>4 DEF Listed
  <2>2. Position(o[2], Listed(q.class, q.since))' = Position(o[2], Listed(s.class, s.since))
    BY <2>1 DEF Position
  <2> QED
    BY <1>1, <1>4, <2>2 DEF ToCome, Behind
<1> QED
  BY <1>3, <1>5 DEF ToCome, Behind

\* A pass that begins with a class has before it all that was modified since.
LEMMA BeginsToCome ==
  ASSUME OrderInv, NEW r \in Replica, ReadCursor(r),
         NEW o \in Object, o[1] = pass'[r].class, itop[o].there,
         itop[o].stamp >= pass'[r].since
  PROVE  ToCome(pass[r], o)'
<1>. DEFINE s == pass[r]
            p == pass'[r]
<1>1. /\ s.pc = "class" /\ p.pc = "page" /\ p.class \in s.todo /\ p.page = 1 /\ p.last = s.last
      /\ itop' = itop
  BY ReadCursorIs, CursorIs DEF OrderInv, PassStep
<1>2. s.last = FALSE /\ p.class \in Class
  BY <1>1, PassesAre DEF OrderInv, Orderly, Passes
<1>3. PICK q : q = p
  OBVIOUS
<1>4. ToCome(q, o)'
  <2>. DEFINE listed == Listed(q.class, q.since)
  <2>1. o[2] \in listed
    BY <1>3, ObjectIs DEF Listed
  <2>2. IsFiniteSet(listed) /\ listed \subseteq Nat
    BY <1>2, <1>3, ListedIs
  <2>3. listed' = listed
    BY <1>1 DEF Listed
  <2>4. Position(o[2], listed) \in Nat /\ Position(o[2], listed) >= 1
    <3>. HIDE DEF listed
    <3> QED
      BY <2>1, <2>2, PositionIn
  <2>5. Behind(q) * PageSize = 0
    BY <1>1, <1>3, SizesAre DEF Behind
  <2>6. Position(o[2], listed)' = Position(o[2], listed)
    BY <2>3 DEF Position
  <2> QED
    BY <1>1, <1>2, <1>3, <2>4, <2>5, <2>6 DEF ToCome, Behind
<1> QED
  BY <1>3, <1>4 DEF ToCome, Behind

\* Nothing that happens outside takes it from a pass, as long as nothing of the
\* class is deleted: what is saved moves others back, if anything.
LEMMA WorldToCome ==
  ASSUME OrderInv, Past, ~Drifting, NEW r \in Replica, pass[r].pc \in Reads,
         LockExpires \/ TimePasses \/ RequestReindex \/ UNCHANGED vars
           \/ \E x \in Object : Save(x) \/ Discard(x),
         NEW o \in Object, o[1] = pass[r].class, itop[o].there, ToCome(pass[r], o)
  PROVE  ToCome(pass[r], o)'
<1>. DEFINE p == pass[r]
            listed == Listed(p.class, p.since)
<1>1. pass' = pass
  BY WorldIs DEF OrderInv
<1>2. p.class \in Class /\ p.page \in Nat /\ p.page >= 1 /\ p.since \in Int
  BY PassesAre, FirstPage DEF OrderInv, Passes, Orderly
<1>3. p.since <= clock
  <2>1. p.since = Since(p.class) /\ cursor[p.class] \in Time \union {NoTime}
    BY <1>2 DEF OrderInv, Orderly, SweepInv, Typed
  <2>2. p.since = 0 \/ p.since = cursor[p.class] - Overlap
    BY <1>2, <2>1, ResumesIs
  <2> QED
    BY <1>2, <2>2, TimesAre DEF OrderInv, Past
<1>4. CASE itop' = itop
  BY <1>1, <1>4 DEF ToCome, Behind, Listed, Position
<1>5. CASE itop' # itop
  <2>1. PICK x \in Object : /\ Save(x) \/ Discard(x)
                            /\ \A y \in Object : y # x => itop'[y] = itop[y]
                            /\ Save(x) => itop'[x].there /\ itop'[x].stamp = clock
    BY <1>5, WorldIs DEF OrderInv
  <2>2. /\ itop'[o].stamp >= p.since
        /\ \A i \in IdsOf[p.class] : LET y == <<p.class, i>> IN
             itop[y].there /\ itop[y].stamp >= p.since =>
               itop'[y].there /\ itop'[y].stamp >= p.since
    <3>1. CASE Save(x)
      BY <1>2, <1>3, <2>1, <3>1, TimesAre, ObjectIs DEF OrderInv, ToCome
    <3>2. CASE Discard(x)
      <4>1. p.class # x[1]
        BY <3>2 DEF Discard, Reads
      <4> QED
        BY <1>2, <2>1, <4>1, ObjectIs DEF ToCome
    <3> QED
      BY <2>1, <3>1, <3>2
  <2>3. PICK q : q = p
    OBVIOUS
  <2>4. listed \subseteq Listed(q.class, q.since)'
    BY <2>2, <2>3 DEF Listed
  <2>5. ToCome(q, o)'
    <3>. DEFINE grown == Listed(q.class, q.since)'
    <3>1. IsFiniteSet(grown) /\ grown \subseteq Nat
      <4>1. grown \subseteq IdsOf[p.class]
        BY <2>3 DEF Listed
      <4> QED
        BY <1>2, <4>1, FS_Subset
    <3>. HIDE DEF grown
    <3>2. listed \in SUBSET grown /\ o[2] \in Nat
      BY <1>2, <2>4, ObjectIs DEF grown
    <3>3. /\ Position(o[2], listed) \in Nat /\ Position(o[2], grown) \in Nat
          /\ Position(o[2], listed) <= Position(o[2], grown)
      <4>. HIDE DEF listed
      <4> QED
        BY <3>1, <3>2, PositionGrows
    <3>4. Position(o[2], Listed(q.class, q.since))' = Position(o[2], grown)
      BY DEF Position, grown
    <3>5. Behind(p) * PageSize \in Nat
      <4>1. Behind(p) * PageSize \in {p.page * PageSize, (p.page - 1) * PageSize}
        BY DEF Behind
      <4> QED
        BY <1>2, <4>1, PagesAre
    <3>6. Position(o[2], grown) > Behind(p) * PageSize
      BY <3>3, <3>5 DEF ToCome
    <3> QED
      BY <2>2, <2>3, <3>4, <3>6 DEF ToCome, Behind
  <2> QED
    BY <1>1, <2>3, <2>5 DEF ToCome, Behind
<1> QED
  BY <1>4, <1>5

\* The other steps of a pass leave its class, or have none.
LEMMA QuietIs ==
  ASSUME SweepInv, NEW r \in Replica, PassStep(r) \/ PassFails(r) \/ Crash(r)
  PROVE  \/ pass'[r].pc \notin Reads
         \/ ReadCursor(r) \/ ReadPage(r) \/ Treats(r)
<1>1. CASE TakeLock(r) \/ EnsureVersion(r) \/ MoveCursor(r) \/ ClassFails(r)
  BY <1>1, TakeLockIs, EnsureIs, LeavingIs DEF Reads
<1>2. CASE Begin(r) \/ ResetCursors(r) \/ ClearFlag(r) \/ StampReconciled(r)
  BY <1>2, PlaceIs DEF Reads
<1>3. CASE ClassesDone(r) \/ ListBatch(r) \/ DropOrphans(r) \/ Release(r) \/ Crash(r) \/ PassFails(r)
  BY <1>3, ClassesDoneIs, ListBatchIs, DropIs, EndIs DEF Reads
<1> QED
  BY <1>1, <1>2, <1>3 DEF PassStep, Treats

-----------------------------------------------------------------------------
(* A backfill that was asked for. *)

\* What is owed is covered by the request, or by the reset cursor; a pass that is
\* reading its class still has to come by it.
Owing ==
  \A o \in owed :
    /\ itop[o] # NotYet
    /\ itop[o].there /\ ~reindex =>
         /\ cursor[o[1]] = NoTime
         /\ \A r \in Replica : pass[r].pc \in Reads /\ pass[r].class = o[1] => ToCome(pass[r], o)

\* A step of a pass, given what it makes of the object owed.
LEMMA OwedStays ==
  ASSUME OrderInv, Owing, NEW r \in Replica, PassStep(r) \/ PassFails(r) \/ Crash(r),
         owed' \subseteq owed,
         \A o \in owed' : itop[o].there /\ ~reindex' =>
           /\ cursor'[o[1]] = NoTime
           /\ pass'[r].pc \in Reads /\ pass'[r].class = o[1] => ToCome(pass[r], o)'
  PROVE  Owing'
<1>1. SUFFICES ASSUME NEW o \in owed', itop[o].there, ~reindex',
                      NEW q \in Replica, pass'[q].pc \in Reads, pass'[q].class = o[1], q # r
               PROVE  FALSE
  <2>1. itop' = itop
    BY CursorIs DEF OrderInv
  <2> QED
    BY <1>1, <2>1 DEF Owing
<1>2. pass'[q].pc = "idle"
  BY <1>1, OthersIdle DEF OrderInv
<1> QED
  BY <1>1, <1>2 DEF Reads

LEMMA ResetOwing ==
  ASSUME OrderInv, Owing, NEW r \in Replica, ResetCursors(r) \/ ClearFlag(r)
  PROVE  Owing'
<1>1. owed' = owed /\ owed \subseteq Object
  BY DEF ResetCursors, ClearFlag, OrderInv, Counted
<1>2. \A c \in Class : cursor'[c] = NoTime
  BY DEF ResetCursors, ClearFlag, At, OrderInv, Orderly
<1>3. pass'[r].pc \notin Reads
  BY PlaceIs DEF Reads, OrderInv
<1> QED
  BY <1>1, <1>2, <1>3, OwedStays, ObjectIs DEF PassStep

LEMMA ReadOwing ==
  ASSUME OrderInv, Owing, NEW r \in Replica, ReadCursor(r) \/ ReadPage(r) \/ Treats(r)
  PROVE  Owing'
<1>0. owed \subseteq Object
  BY DEF OrderInv, Counted
<1>1. UNCHANGED <<cursor, reindex>>
  BY DEF ReadCursor, ReadPage, Treats, DropLeft, WriteObject, redis
<1>2. CASE ReadCursor(r)
  <2>1. owed' = owed
    BY <1>2 DEF ReadCursor
  <2>2. ASSUME NEW o \in owed, itop[o].there, ~reindex, pass'[r].class = o[1]
        PROVE  ToCome(pass[r], o)'
    <3>1. cursor[o[1]] = NoTime /\ o[1] \in Class /\ o \in Object
      BY <1>0, <2>2, ObjectIs DEF Owing
    <3>2. pass'[r].since = 0
      BY <1>2, <2>2, <3>1, ReadCursorIs, ResumesIs DEF OrderInv
    <3>3. itop[o].stamp >= 0
      BY <2>2, <3>1 DEF OrderInv, Stamped, Time
    <3> QED
      BY <1>2, <2>2, <3>1, <3>2, <3>3, BeginsToCome
  <2> QED
    BY <1>1, <1>2, <2>1, <2>2, OwedStays DEF PassStep, Owing
<1>3. CASE ReadPage(r)
  <2>. DEFINE s == pass[r]
              records == Page(s.class, s.since, s.page)
  <2>1. owed' = owed \ {record.object : record \in records}
    BY Zenon, <1>3 DEF ReadPage
  <2>2. s.pc = "page" /\ pass'[r].class = s.class
    BY <1>3, ReadPageIs DEF OrderInv, GoesOn
  <2>3. ASSUME NEW o \in owed', itop[o].there, ~reindex, pass'[r].class = o[1]
        PROVE  ToCome(pass[r], o)'
    <3>1. o \in owed /\ o \in Object /\ o = <<o[1], o[2]>>
      BY <1>0, <2>1, ObjectIs
    <3>2. ToCome(s, o)
      BY <2>2, <2>3, <3>1 DEF Owing, Reads
    <3>3. RecordOf(s.class, o[2]) \notin records
      <4>1. RecordOf(s.class, o[2]).object = o
        BY <2>2, <2>3, <3>1 DEF RecordOf
      <4> QED
        BY <2>1, <2>3, <4>1
    <3> QED
      BY <1>3, <2>2, <2>3, <3>1, <3>2, <3>3, ReadOrToCome
  <2>4. owed' \subseteq owed
    BY <2>1
  <2> QED
    BY <1>1, <1>3, <2>3, <2>4, OwedStays DEF PassStep, Owing
<1>4. CASE Treats(r)
  <2>1. owed' = owed
    BY <1>4 DEF Treats, DropLeft, WriteObject
  <2>2. pass[r].pc = "write" /\ pass'[r].class = pass[r].class
    BY <1>4, TreatedIs DEF OrderInv, GoesOn
  <2>3. ASSUME NEW o \in owed, itop[o].there, ~reindex, pass'[r].class = o[1]
        PROVE  ToCome(pass[r], o)'
    <3>1. ToCome(pass[r], o)
      BY <2>2, <2>3 DEF Owing, Reads
    <3> QED
      BY <1>4, <3>1, WriteToCome
  <2> QED
    BY <1>1, <1>4, <2>1, <2>3, OwedStays DEF PassStep, Treats, Owing
<1> QED
  BY <1>2, <1>3, <1>4

\* A class that was read to its end owes nothing.
LEMMA MoveOwing ==
  ASSUME OrderInv, Owing, NEW r \in Replica, MoveCursor(r)
  PROVE  Owing'
<1>1. owed' = owed /\ reindex' = reindex /\ owed \subseteq Object
  BY DEF MoveCursor, OrderInv, Counted
<1>2. pass[r].pc = "cursor" /\ pass[r].last /\ pass'[r].pc \notin Reads
  BY LeavingIs DEF MoveCursor, At, OrderInv, Orderly, Reads
<1>3. ASSUME NEW o \in owed, itop[o].there, ~reindex PROVE cursor'[o[1]] = NoTime
  <2>1. cursor[o[1]] = NoTime /\ o[1] \in Class
    BY <1>1, <1>3, ObjectIs DEF Owing
  <2>2. o[1] # pass[r].class
    BY <1>2, <1>3 DEF Owing, Reads, ToCome
  <2> QED
    BY <2>1, <2>2, CursorIs DEF OrderInv, PassStep
<1> QED
  BY <1>1, <1>2, <1>3, OwedStays DEF PassStep

LEMMA StepOwing ==
  ASSUME OrderInv, Past, ~Drifting, Owing, [Next]_vars
  PROVE  Owing'
<1>1. CASE \E r \in Replica : PassStep(r) \/ PassFails(r) \/ Crash(r)
  <2>1. PICK r \in Replica : PassStep(r) \/ PassFails(r) \/ Crash(r)
    BY <1>1
  <2>2. CASE ResetCursors(r) \/ ClearFlag(r) \/ ReadCursor(r) \/ ReadPage(r) \/ Treats(r)
               \/ MoveCursor(r)
    BY <2>2, ResetOwing, ReadOwing, MoveOwing
  <2>3. CASE ~(ResetCursors(r) \/ ClearFlag(r) \/ ReadCursor(r) \/ ReadPage(r) \/ Treats(r)
               \/ MoveCursor(r))
    <3>1. UNCHANGED <<owed, cursor, reindex>>
      BY <2>1, <2>3 DEF PassStep, Treats, PassFails, Crash, TakeLock, Begin, EnsureVersion, ClassFails,
         ClassesDone, ListBatch, DropOrphans, StampReconciled, Release, redis
    <3>2. pass'[r].pc \notin Reads
      BY <2>1, <2>3, QuietIs DEF OrderInv
    <3> QED
      BY <2>1, <3>1, <3>2, OwedStays DEF Owing
  <2> QED
    BY <2>2, <2>3
<1>2. CASE ~\E r \in Replica : PassStep(r) \/ PassFails(r) \/ Crash(r)
  <2>1. LockExpires \/ TimePasses \/ RequestReindex \/ UNCHANGED vars
           \/ \E o \in Object : Save(o) \/ Discard(o)
    BY <1>2 DEF Next
  <2>2. UNCHANGED <<cursor, pass>>
    BY <2>1, WorldIs DEF OrderInv
  <2>3. CASE RequestReindex
    <3>1. itop' = itop /\ reindex' = TRUE /\ owed' = {o \in Object : itop[o].there}
      BY <2>3 DEF RequestReindex
    <3>2. \A o \in owed' : itop[o] # NotYet
      BY <3>1 DEF NotYet
    <3> QED
      BY <3>1, <3>2 DEF Owing
  <2>4. CASE ~RequestReindex
    <3>1. owed' = owed /\ reindex' = reindex /\ owed \subseteq Object
      BY <2>1, <2>4 DEF LockExpires, TimePasses, vars, Save, Discard, redis, OrderInv, Counted
    <3>2. ASSUME NEW o \in owed
          PROVE  itop'[o] # NotYet /\ (itop'[o].there => itop[o].there)
      <4>1. Gone # NotYet
        BY IdleIs DEF Gone, NotYet, NoTime
      <4>2. itop[o] # NotYet /\ o \in Object
        BY <3>1, <3>2 DEF Owing
      <4>3. CASE itop'[o] = itop[o]
        BY <4>2, <4>3
      <4>4. CASE itop'[o] # itop[o]
        <5>1. \/ itop[o].there /\ itop'[o].there
              \/ itop[o].there /\ itop'[o] = Gone
          BY <2>1, <4>2, <4>4, WorldIs DEF OrderInv
        <5> QED
          BY <4>1, <5>1 DEF NotYet
      <4> QED
        BY <4>3, <4>4
    <3>3. ASSUME NEW o \in owed, itop'[o].there, ~reindex,
                 NEW r \in Replica, pass[r].pc \in Reads, pass[r].class = o[1]
          PROVE  ToCome(pass[r], o)'
      <4>1. o \in Object /\ itop[o].there /\ ToCome(pass[r], o)
        BY <3>1, <3>2, <3>3 DEF Owing
      <4> QED
        BY <2>1, <3>3, <4>1, WorldToCome
    <3> QED
      BY <2>2, <3>1, <3>2, <3>3 DEF Owing
  <2> QED
    BY <2>3, <2>4
<1> QED
  BY <1>1, <1>2

\* As long as no object is deleted while its class is being read, a backfill that
\* was asked for reads every object, whatever fails, dies or is interrupted, and
\* however slow the passes are (sync_state.py reset_cursors).
THEOREM BackfillsHonoured == ASSUME ~Drifting PROVE Spec => []BackfillHonoured
<1>1. Init => Owing
  BY DEF Init, Owing
<1>2. OrderInv /\ Past /\ Owing /\ [Next]_vars => Owing'
  BY StepOwing
<1>3. Owing => BackfillHonoured
  BY DEF Owing, BackfillHonoured
<1> QED
  BY AlwaysPast, <1>1, <1>2, <1>3, PTL DEF Spec

-----------------------------------------------------------------------------
(* What no pass forgets. *)

\* The version being written says of the object what iTop says, or is excused.
Matches(o) ==
  IF itop[o].inScope
    THEN Accepted(itop[o].text) =>
           index[o] = [n \in DOMAIN itop[o].text |->
                         [hash |-> itop[o].text[n], stamp |-> itop[o].stamp]]
    ELSE index[o] = NoChunks

IsCurrent(x) ==
  LET o == x.object
  IN  x.inScope = itop[o].inScope /\ x.text = itop[o].text /\ x.stamp = itop[o].stamp

InHand(p, o) == p.pc = "write" /\ \E x \in p.batch : x.object = o /\ IsCurrent(x)

\* No pass outlasts the overlap of the next.
Timely(p) == p.pc # "idle" => clock <= p.started + Overlap

\* What waits to be written is what iTop says, or has changed since the pass began.
Fresh(p) ==
  p.pc = "write" => \A x \in p.batch :
    /\ itop[x.object].stamp >= p.since
    /\ IsCurrent(x) \/ itop[x.object].stamp >= p.started

\* Of the class it is at, a pass has in hand or still to read what is not up to
\* date;
WillReach(p) ==
  p.pc \in Reads /\ ~reindex =>
    \A o \in Object : o[1] = p.class /\ itop[o].there /\ itop[o].stamp < p.started =>
      Matches(o) \/ ToCome(p, o) \/ InHand(p, o)

\* the classes it has done with are up to date, unless one of them failed.
Done(p) ==
  p.pc \in {"class"} \union Reads /\ p.clean = TRUE /\ ~reindex =>
    \A o \in Object : o[1] \notin p.todo /\ itop[o].there /\ itop[o].stamp < p.started =>
      Matches(o)

Walks(p) == Timely(p) /\ Fresh(p) /\ WillReach(p) /\ Done(p)

WalkInv == NothingForgotten /\ \A r \in Replica : Walks(pass[r])

\* What every step may rely on.
WalkIs == OrderInv /\ Past /\ WalkInv /\ ~Drifting /\ ~SlowPasses

\* The next walk of a class starts no later than the pass that is under way, nor
\* later than now.
LEMMA ResumesEarly ==
  ASSUME OrderInv, Past, NEW c \in Class
  PROVE  /\ Resumes(c) \in Int /\ Resumes(c) <= clock
         /\ \A r \in Replica : Timely(pass[r]) /\ pass[r].pc # "idle" => Resumes(c) <= pass[r].started
<1>1. cursor[c] \in Time \union {NoTime} /\ cursor[c] <= clock
  BY DEF OrderInv, SweepInv, Typed, Past
<1>2. Resumes(c) \in Time /\ (Resumes(c) = 0 \/ Resumes(c) = cursor[c] - Overlap)
  BY <1>1, ResumesIs
<1>3. /\ Resumes(c) \in Int /\ cursor[c] \in Int /\ clock \in Nat /\ Overlap \in Nat
      /\ \A r \in Replica : pass[r].started \in Nat
  BY <1>2, TimesAre DEF Time, OrderInv
<1>4. Resumes(c) <= clock
  BY <1>1, <1>2, <1>3
<1>5. ASSUME NEW r \in Replica, Timely(pass[r]), pass[r].pc # "idle"
      PROVE  Resumes(c) <= pass[r].started
  <2>1. clock <= pass[r].started + Overlap /\ pass[r].started \in Nat
    BY <1>3, <1>5 DEF Timely
  <2>2. cursor[c] - Overlap <= pass[r].started
    BY <1>1, <1>3, <2>1
  <2> QED
    BY <1>2, <2>1, <2>2
<1> QED
  BY <1>3, <1>4, <1>5

\* A step of one pass: the others are idle.
LEMMA WalkStays ==
  ASSUME WalkIs, NEW r \in Replica, PassStep(r) \/ PassFails(r) \/ Crash(r),
         NothingForgotten', (Fresh(pass[r]) /\ WillReach(pass[r]) /\ Done(pass[r]))'
  PROVE  WalkInv'
<1>1. Timely(pass[r])'
  <2>1. clock' = clock /\ clock <= clock + Overlap
    BY CursorIs, TimesAre DEF WalkIs, OrderInv
  <2> QED
    BY <2>1, StartedIs DEF WalkIs, OrderInv, WalkInv, Walks, Timely
<1>2. ASSUME NEW q \in Replica, q # r PROVE Walks(pass[q])'
  <2>1. pass'[q].pc = "idle"
    BY <1>2, OthersIdle DEF WalkIs, OrderInv
  <2> QED
    BY <2>1 DEF Walks, Timely, Fresh, WillReach, Done, Reads
<1> QED
  BY <1>1, <1>2 DEF WalkInv, Walks

\* The steps that leave what answers, iTop and the cursors as they are.
LEMMA SameForgotten ==
  ASSUME NothingForgotten, UNCHANGED <<itop, cursor>>, Answering' = Answering,
         reindex' = reindex
  PROVE  NothingForgotten'
BY DEF NothingForgotten, InSync, Resumes

\* A step that only changes the version being written: what was right stays so, or
\* will be read again.
LEMMA WrittenForgotten ==
  ASSUME NothingForgotten, UNCHANGED <<itop, cursor, reindex, kept, filling>>,
         IsActive => \A o \in Object : itop[o].there =>
           index'[o] = index[o] \/ Matches(o)' \/ itop[o].stamp >= Resumes(o[1])
  PROVE  NothingForgotten'
<1>1. CASE ~IsActive
  <2>1. Answering' = Answering
    BY <1>1 DEF Answering, IsActive
  <2> QED
    BY <2>1, SameForgotten
<1>2. CASE IsActive
  <2>1. SUFFICES ASSUME NEW o \in Object, itop[o].there, ~reindex, ~InSync(o)'
                 PROVE  itop[o].stamp >= Resumes(o[1])
    BY DEF NothingForgotten, Resumes
  <2>2. ~Matches(o)'
    BY <1>2, <2>1 DEF Matches, InSync, Answering, IsActive
  <2>3. CASE index'[o] = index[o]
    <3>1. ~InSync(o)
      BY <1>2, <2>1, <2>3 DEF InSync, Answering, IsActive
    <3> QED
      BY <2>1, <3>1 DEF NothingForgotten
  <2> QED
    BY <1>2, <2>1, <2>2, <2>3
<1> QED
  BY <1>1, <1>2

\* A pass that is not in a class has nothing to keep.
LEMMA WalkAside ==
  ASSUME WalkIs, NEW r \in Replica, PassStep(r) \/ PassFails(r) \/ Crash(r),
         pass'[r].pc \notin {"class"} \union Reads, NothingForgotten'
  PROVE  WalkInv'
<1>1. (Fresh(pass[r]) /\ WillReach(pass[r]) /\ Done(pass[r]))'
  BY DEF Fresh, WillReach, Done, Reads
<1> QED
  BY <1>1, WalkStays

LEMMA QuietWalk ==
  ASSUME WalkIs, NEW r \in Replica,
         TakeLock(r) \/ Begin(r) \/ StampReconciled(r) \/ ListBatch(r) \/ Release(r) \/ PassFails(r)
  PROVE  WalkInv'
<1>1. pass'[r].pc \notin {"class"} \union Reads
  BY TakeLockIs, PlaceIs, ListBatchIs, EndIs DEF WalkIs, OrderInv, Reads
<1>2. UNCHANGED <<itop, cursor, reindex>> /\ Answering' = Answering
  BY DEF TakeLock, Begin, StampReconciled, ListBatch, Release, PassFails, world, redis, qdrant,
         Answering, IsActive
<1>3. NothingForgotten'
  BY <1>2, SameForgotten DEF WalkIs, WalkInv
<1> QED
  BY <1>1, <1>3, WalkAside DEF PassStep

LEMMA ResetWalk ==
  ASSUME WalkIs, NEW r \in Replica, ResetCursors(r) \/ ClearFlag(r)
  PROVE  WalkInv'
<1>1. pass'[r].pc \notin {"class"} \union Reads
  BY PlaceIs DEF WalkIs, OrderInv, Reads
<1>2. \A c \in Class : cursor'[c] = NoTime
  BY DEF ResetCursors, ClearFlag, At, WalkIs, OrderInv, Orderly
<1>3. \A o \in Object : itop'[o].there => itop'[o].stamp >= 0
  <2>1. \A t \in Time : t >= 0
    BY DEF Time
  <2> QED
    BY <2>1, CursorIs DEF WalkIs, OrderInv, Stamped, PassStep
<1>4. NothingForgotten'
  BY <1>2, <1>3, ObjectIs DEF NothingForgotten, Resumes
<1> QED
  BY <1>1, <1>4, WalkAside DEF PassStep

LEMMA EnsureWalk == ASSUME WalkIs, NEW r \in Replica, EnsureVersion(r) PROVE WalkInv'
<1>1. /\ pass[r].pc = "ensure" /\ pass'[r].pc = "class" /\ pass'[r].todo = Class
  BY EnsureIs DEF WalkIs, OrderInv, Orderly, Carries
<1>2. Answering' = Answering
  <2>1. pass[r].model \in Model /\ NoModel \notin Model
    BY <1>1 DEF WalkIs, OrderInv, Orderly
  <2>2. filling # NoModel => built # NoModel
    BY DEF WalkIs, OrderInv, Versions
  <2> QED
    BY <2>1, <2>2 DEF EnsureVersion, Answering, IsActive, qdrant
<1>3. UNCHANGED <<itop, cursor, reindex>>
  BY DEF EnsureVersion, world, redis
<1>4. NothingForgotten'
  BY <1>2, <1>3, SameForgotten DEF WalkIs, WalkInv
<1>5. (Fresh(pass[r]) /\ WillReach(pass[r]) /\ Done(pass[r]))'
  BY <1>1, ObjectIs DEF Fresh, WillReach, Done, Reads
<1> QED
  BY <1>4, <1>5, WalkStays DEF PassStep

\* The version that is switched to was filled by a pass without errors, and what
\* changed since it began will be read again.
LEMMA DoneWalk == ASSUME WalkIs, NEW r \in Replica, ClassesDone(r) PROVE WalkInv'
<1>. DEFINE s == pass[r]
<1>1. s.pc = "class" /\ s.todo = {} /\ pass'[r].pc \notin {"class"} \union Reads
  BY ClassesDoneIs DEF WalkIs, OrderInv, Reads
<1>2. UNCHANGED <<itop, cursor, reindex>>
  BY DEF ClassesDone, world, redis
<1>3. NothingForgotten'
  <2>1. CASE UNCHANGED qdrant
    <3>1. Answering' = Answering
      BY <2>1 DEF qdrant, Answering, IsActive
    <3> QED
      BY <1>2, <3>1, SameForgotten DEF WalkIs, WalkInv
  <2>2. CASE ~UNCHANGED qdrant
    <3>1. s.clean = TRUE /\ Answering' = index
      <4>1. s.clean \in BOOLEAN
        BY PassesAre DEF WalkIs, OrderInv, Passes
      <4> QED
        BY <2>2, <4>1 DEF ClassesDone, Answering, IsActive
    <3>2. SUFFICES ASSUME NEW o \in Object, itop[o].there, ~reindex, ~InSync(o)'
                   PROVE  itop[o].stamp >= Resumes(o[1])
      BY <1>2 DEF NothingForgotten, Resumes
    <3>3. ~Matches(o)
      BY <1>2, <3>1, <3>2 DEF InSync, Matches
    <3>4. Done(s) /\ Timely(s)
      BY DEF WalkIs, WalkInv, Walks
    <3>5. ~(itop[o].stamp < s.started)
      BY <1>1, <3>1, <3>2, <3>3, <3>4 DEF Done
    <3>6. Resumes(o[1]) <= s.started /\ Resumes(o[1]) \in Int
      BY <1>1, <3>4, ObjectIs, ResumesEarly DEF WalkIs
    <3> QED
      BY <3>5, <3>6, TimesAre DEF WalkIs, OrderInv
  <2> QED
    BY <2>1, <2>2
<1> QED
  BY <1>1, <1>3, WalkAside DEF PassStep

LEMMA DropWalk == ASSUME WalkIs, NEW r \in Replica, DropOrphans(r) PROVE WalkInv'
<1>. DEFINE s == pass[r]
<1>1. /\ s.pc = "drop" /\ pass'[r].pc \notin {"class"} \union Reads
      /\ index' = DeleteObjects({x.object : x \in s.batch})
  BY DropIs DEF WalkIs, OrderInv, Reads
<1>2. \A x \in s.batch : ~itop[x.object].there
  BY <1>1 DEF WalkIs, OrderInv, Orderly
<1>3. \A o \in Object : itop[o].there => index'[o] = index[o]
  BY <1>1, <1>2 DEF DeleteObjects
<1>4. UNCHANGED <<itop, cursor, reindex, kept, filling>>
  BY DEF DropOrphans, world, redis
<1>5. NothingForgotten'
  BY <1>3, <1>4, WrittenForgotten DEF WalkIs, WalkInv
<1> QED
  BY <1>1, <1>5, WalkAside DEF PassStep

\* A write that is cut short leaves an object the next walk comes by.
LEMMA DeathWalk == ASSUME WalkIs, NEW r \in Replica, ClassFails(r) \/ Crash(r) PROVE WalkInv'
<1>. DEFINE s == pass[r]
<1>1. UNCHANGED <<itop, cursor, reindex, kept, filling>> /\ MaybeHalfWritten(r)
  BY DEF ClassFails, Crash, world, redis
<1>2. ASSUME IsActive, NEW o \in Object, itop[o].there, index'[o] # index[o]
      PROVE  itop[o].stamp >= Resumes(o[1])
  <2>1. At(r, "write")
    BY <1>1, <1>2 DEF MaybeHalfWritten, Writing
  <2>2. PICK x \in s.batch :
          \E held \in HalfWritten(x, Digests(x.object)) : index' = [index EXCEPT ![x.object] = held]
    BY Zenon, <1>1, <1>2 DEF MaybeHalfWritten
  <2>3. x.object = o
    BY <1>2, <2>2 DEF WalkIs, OrderInv, Versions, Index
  <2>4. itop[o].stamp >= s.since /\ s.since = Since(o[1])
    BY <2>1, <2>2, <2>3 DEF At, WalkIs, WalkInv, Walks, Fresh, OrderInv, Orderly, Reads
  <2> QED
    BY <1>2, <2>4 DEF Since
<1>3. NothingForgotten'
  BY <1>1, <1>2, WrittenForgotten DEF WalkIs, WalkInv
<1>4. CASE ClassFails(r)
  <2>1. pass'[r].pc = "class" /\ pass'[r].clean = FALSE
    <3>1. pass' = [pass EXCEPT ![r] = Leaving(s, FALSE)]
      BY <1>4 DEF ClassFails
    <3>2. Leaving(s, FALSE).pc = "class" /\ Leaving(s, FALSE).clean = FALSE
      BY DEF Idle, Leaving
    <3> QED
      BY <3>1, <3>2, PassesAre DEF WalkIs, OrderInv
  <2>2. (Fresh(pass[r]) /\ WillReach(pass[r]) /\ Done(pass[r]))'
    BY <2>1 DEF Fresh, WillReach, Done, Reads
  <2> QED
    BY <1>3, <1>4, <2>2, WalkStays DEF PassStep
<1>5. CASE Crash(r)
  <2>1. pass'[r].pc \notin {"class"} \union Reads
    BY <1>5, EndIs DEF WalkIs, OrderInv, Reads
  <2> QED
    BY <1>3, <1>5, <2>1, WalkAside
<1> QED
  BY <1>4, <1>5

\* Where the next walk starts, given the new cursor.
LEMMA ResumesFrom ==
  ASSUME SweepInv, NEW c \in Class, cursor'[c] \in Time \union {NoTime}, cursor'[c] <= clock
  PROVE  Resumes(c)' \in Int /\ (Resumes(c)' = 0 \/ Resumes(c)' = cursor'[c] - Overlap)
<1>1. PICK t : t = cursor'[c]
  OBVIOUS
<1>2. t - Overlap \in Int
  BY <1>1, SizesAre DEF Time, NoTime
<1>3. Max({0, t - Overlap}) \in {0, t - Overlap}
  BY <1>2, MaxZero
<1>4. Resumes(c)' = IF t = NoTime THEN 0 ELSE Max({0, t - Overlap})
  BY <1>1 DEF Resumes
<1> QED
  BY <1>1, <1>2, <1>3, <1>4

\* What a class that was read to its end has left out was changed since the pass
\* began, and the cursor is not further than the overlap from there.
LEMMA MoveWalk == ASSUME WalkIs, NEW r \in Replica, MoveCursor(r) PROVE WalkInv'
<1>. DEFINE s == pass[r]
            p == pass'[r]
<1>1. s.pc = "cursor" /\ s.last /\ s.class \in s.todo
  BY DEF MoveCursor, At, WalkIs, OrderInv, Orderly, Reads
<1>2. p.pc = "class" /\ p.started = s.started /\ p.todo = s.todo \ {s.class}
  BY LeavingIs DEF WalkIs, OrderInv
<1>3. p.clean = s.clean
  <2>1. pass' = [pass EXCEPT ![r] = Leaving(s, s.clean)]
    BY DEF MoveCursor
  <2>2. Leaving(s, s.clean).clean = s.clean
    BY DEF Idle, Leaving
  <2> QED
    BY <2>1, <2>2, PassesAre DEF WalkIs, OrderInv
<1>4. UNCHANGED <<clock, itop, qdrant, reindex>>
  BY DEF MoveCursor, world
<1>5. Timely(s) /\ WillReach(s) /\ Done(s)
  BY DEF WalkIs, WalkInv, Walks
<1>6. ASSUME ~reindex, NEW o \in Object, o[1] = s.class, itop[o].there, itop[o].stamp < s.started
      PROVE  Matches(o)
  BY <1>1, <1>5, <1>6 DEF WillReach, Reads, ToCome, InHand
<1>7. \A o \in Object : Matches(o)' = Matches(o) /\ InSync(o)' = InSync(o)
                        /\ (IsActive => InSync(o) = Matches(o))
  BY <1>4 DEF Matches, InSync, Answering, IsActive, qdrant
<1>8. NothingForgotten'
  <2>1. SUFFICES ASSUME NEW o \in Object, itop[o].there, ~reindex, ~InSync(o)
                 PROVE  itop[o].stamp >= Resumes(o[1])'
    BY <1>4, <1>7 DEF NothingForgotten
  <2>2. o[1] \in Class
    BY ObjectIs
  <2>3. CASE cursor'[o[1]] = cursor[o[1]]
    <3>1. Resumes(o[1])' = Resumes(o[1])
      BY <2>3 DEF Resumes
    <3> QED
      BY <2>1, <3>1 DEF WalkIs, WalkInv, NothingForgotten
  <2>4. CASE cursor'[o[1]] = NoTime
    <3>1. Resumes(o[1])' = 0 /\ itop[o].stamp >= 0
      BY <2>1, <2>4 DEF Resumes, WalkIs, OrderInv, Stamped, Time
    <3> QED
      BY <3>1
  <2>5. CASE o[1] = s.class /\ IsActive /\ cursor'[o[1]] = s.seen
    <3>1. ~(itop[o].stamp < s.started)
      BY <1>6, <1>7, <2>1, <2>5
    <3>2. clock <= s.started + Overlap
      BY <1>1, <1>5 DEF Timely
    <3>3. s.seen \in Time \union {NoTime} /\ s.seen <= clock
      BY PassesAre DEF WalkIs, OrderInv, Passes, Past
    <3>4. Resumes(o[1])' \in Int /\ (Resumes(o[1])' = 0 \/ Resumes(o[1])' = s.seen - Overlap)
      BY <2>2, <2>5, <3>3, ResumesFrom DEF WalkIs, OrderInv
    <3>5. itop[o].stamp \in Int /\ itop[o].stamp >= 0
      BY <2>1, TimesAre DEF WalkIs, OrderInv, Stamped, Time
    <3>6. clock \in Int /\ Overlap \in Int /\ s.started \in Int /\ s.seen \in Int
      BY TimesAre DEF WalkIs, OrderInv
    <3>7. s.seen - Overlap <= s.started
      BY <3>2, <3>3, <3>6
    <3> QED
      BY <3>1, <3>4, <3>5, <3>6, <3>7
  <2> QED
    BY <2>2, <2>3, <2>4, <2>5, CursorIs DEF WalkIs, OrderInv, PassStep
<1>9. (Fresh(pass[r]) /\ WillReach(pass[r]))'
  BY <1>2 DEF Fresh, WillReach, Reads
<1>10. Done(pass[r])'
  <2>1. SUFFICES ASSUME s.clean = TRUE, ~reindex, NEW o \in Object,
                        o[1] \notin s.todo \ {s.class}, itop[o].there, itop[o].stamp < s.started
                 PROVE  Matches(o)
    BY <1>2, <1>3, <1>4, <1>7 DEF Done
  <2>2. CASE o[1] = s.class
    BY <1>6, <2>1, <2>2
  <2>3. CASE o[1] # s.class
    BY <1>1, <1>5, <2>1, <2>3 DEF Done, Reads
  <2> QED
    BY <2>2, <2>3
<1> QED
  BY <1>8, <1>9, <1>10, WalkStays DEF PassStep

\* A pass that begins with a class has all of it to come that is not up to date.
LEMMA CursorWalk == ASSUME WalkIs, NEW r \in Replica, ReadCursor(r) PROVE WalkInv'
<1>. DEFINE s == pass[r]
            p == pass'[r]
<1>1. /\ s.pc = "class" /\ p.pc = "page" /\ p.class \in s.todo
      /\ p.since = Since(p.class)
      /\ p.started = s.started /\ p.clean = s.clean /\ p.todo = s.todo
  BY ReadCursorIs DEF WalkIs, OrderInv
<1>2. UNCHANGED <<itop, qdrant, cursor, reindex>>
  BY DEF ReadCursor, world, redis
<1>3. \A o \in Object : Matches(o)' = Matches(o) /\ (IsActive => InSync(o) = Matches(o))
  BY <1>2 DEF Matches, InSync, Answering, IsActive, qdrant
<1>4. NothingForgotten'
  <2>1. Answering' = Answering
    BY <1>2 DEF qdrant, Answering, IsActive
  <2> QED
    BY <1>2, <2>1, SameForgotten DEF WalkIs, WalkInv
<1>5. Fresh(pass[r])'
  BY <1>1 DEF Fresh
<1>6. WillReach(pass[r])'
  <2>1. SUFFICES ASSUME ~reindex, NEW o \in Object, o[1] = p.class, itop[o].there,
                        itop[o].stamp < s.started, ~Matches(o)
                 PROVE  ToCome(pass[r], o)'
    BY <1>1, <1>2, <1>3 DEF WillReach
  <2>2. itop[o].stamp >= p.since
    <3>1. CASE IsActive
      <4>1. ~InSync(o)
        BY <1>3, <2>1, <3>1
      <4>2. itop[o].stamp >= Resumes(o[1])
        BY <2>1, <4>1 DEF WalkIs, WalkInv, NothingForgotten
      <4> QED
        BY <1>1, <2>1, <3>1, <4>2 DEF Since
    <3>2. CASE ~IsActive
      <4>1. p.since = 0
        BY <1>1, <3>2 DEF Since
      <4> QED
        BY <2>1, <4>1 DEF WalkIs, OrderInv, Stamped, Time
    <3> QED
      BY <3>1, <3>2
  <2> QED
    BY <2>1, <2>2, BeginsToCome DEF WalkIs
<1>7. Done(pass[r])'
  <2>1. Done(s)
    BY DEF WalkIs, WalkInv, Walks
  <2> QED
    BY <1>1, <1>2, <1>3, <2>1 DEF Done
<1> QED
  BY <1>4, <1>5, <1>6, <1>7, WalkStays DEF PassStep

\* A pass has in hand what it reads, but for what is excused.
LEMMA PageWalk == ASSUME WalkIs, NEW r \in Replica, ReadPage(r) PROVE WalkInv'
<1>. DEFINE s == pass[r]
            p == pass'[r]
            records == Page(s.class, s.since, s.page)
<1>1. /\ s.pc = "page" /\ GoesOn(p, s)
      /\ p.batch = {x \in records : Leaves(x) \/ Accepted(x.text)}
  BY ReadPageIs DEF WalkIs, OrderInv
<1>2. UNCHANGED <<itop, cursor, reindex, index, kept, filling>>
  BY DEF ReadPage, world, redis, qdrant
<1>3. s.class \in Class /\ s.page \in Nat /\ s.page >= 1
  BY PassesAre, FirstPage DEF WalkIs, OrderInv, Passes, Orderly
<1>4. ASSUME NEW x \in records
      PROVE  x.object \in Object /\ IsCurrent(x) /\ itop[x.object].stamp >= s.since
  <2>1. PICK i \in Listed(s.class, s.since) : x = RecordOf(s.class, i)
    BY <1>3, PageHas
  <2>2. /\ x.object = <<s.class, i>> /\ x.inScope = itop[<<s.class, i>>].inScope
        /\ x.text = itop[<<s.class, i>>].text /\ x.stamp = itop[<<s.class, i>>].stamp
    BY <2>1 DEF RecordOf
  <2>3. <<s.class, i>> \in Object /\ itop[<<s.class, i>>].stamp >= s.since
    BY <1>3, ListedIs DEF Listed
  <2> QED
    BY <2>2, <2>3 DEF IsCurrent
<1>6. \A o \in Object : Matches(o)' = Matches(o)
  BY <1>2 DEF Matches
<1>7. NothingForgotten'
  BY <1>2, WrittenForgotten DEF WalkIs, WalkInv
<1>8. Fresh(pass[r])'
  <2>1. ASSUME NEW x \in p.batch
        PROVE  itop'[x.object].stamp >= p.since /\ IsCurrent(x)'
    <3>1. x \in records
      BY <1>1
    <3>2. IsCurrent(x) /\ itop[x.object].stamp >= s.since
      BY <1>4, <3>1
    <3> QED
      BY <1>1, <1>2, <3>2 DEF GoesOn, IsCurrent
  <2> QED
    BY <2>1 DEF Fresh
<1>9. WillReach(pass[r])'
  <2>1. SUFFICES ASSUME ~reindex, NEW o \in Object, o[1] = s.class, itop[o].there,
                        itop[o].stamp < s.started, ~Matches(o)', ~ToCome(pass[r], o)'
                 PROVE  InHand(pass[r], o)'
    BY <1>1, <1>2 DEF WillReach, GoesOn
  <2>2. ToCome(s, o)
    BY <1>1, <1>6, <2>1 DEF WalkIs, WalkInv, Walks, WillReach, Reads, InHand
  <2>. DEFINE x == RecordOf(s.class, o[2])
  <2>3. x \in records
    BY <2>1, <2>2, ReadOrToCome DEF WalkIs
  <2>4. x.object = o /\ o = <<o[1], o[2]>>
    BY <2>1, ObjectIs DEF RecordOf
  <2>5. IsCurrent(x)
    BY <1>4, <2>3
  <2>. HIDE DEF x, records
  <2>7. Leaves(x) \/ Accepted(x.text)
    BY <1>6, <2>1, <2>4, <2>5 DEF Matches, IsCurrent, Leaves
  <2>8. x \in p.batch /\ p.pc = "write"
    BY <1>1, <2>3, <2>7 DEF GoesOn
  <2>9. PICK y : y = x
    OBVIOUS
  <2>10. IsCurrent(y)'
    BY <1>2, <2>5, <2>9 DEF IsCurrent
  <2> QED
    BY <2>4, <2>8, <2>9, <2>10 DEF InHand
<1>10. Done(pass[r])'
  <2>1. Done(s)
    BY DEF WalkIs, WalkInv, Walks
  <2>2. p.clean = s.clean /\ p.todo = s.todo /\ p.started = s.started
    BY <1>1 DEF GoesOn
  <2> QED
    BY <1>1, <1>2, <1>6, <2>1, <2>2 DEF Done, Reads
<1> QED
  BY <1>7, <1>8, <1>9, <1>10, WalkStays DEF PassStep

\* An object that is dropped or written is up to date, or has changed since the pass
\* began.
LEMMA WriteWalk == ASSUME WalkIs, NEW r \in Replica, Treats(r) PROVE WalkInv'
<1>. DEFINE s == pass[r]
            p == pass'[r]
<1>1. s.pc = "write" /\ GoesOn(p, s)
  BY TreatedIs DEF WalkIs, OrderInv
<1>2. PICK x \in s.batch :
        p.batch = s.batch \ {x} /\ index' = [index EXCEPT ![x.object] = Treated(x)]
  BY TreatedIs DEF WalkIs, OrderInv
<1>3. UNCHANGED <<itop, cursor, reindex, kept, filling>>
  BY DEF Treats, DropLeft, WriteObject, world, redis
<1>4. /\ Taken(x) /\ x.object[1] = s.class /\ x.object \in Object
      /\ s.class \in s.todo
  BY <1>1 DEF WalkIs, OrderInv, Orderly, Reads, Taken, PageRecords
<1>5. /\ Fresh(s) /\ Timely(s) /\ WillReach(s) /\ Done(s)
  BY DEF WalkIs, WalkInv, Walks
<1>6. /\ index'[x.object] = EndsAs(x)
      /\ \A o \in Object : o # x.object => index'[o] = index[o]
  <2>1. index \in Index /\ DOMAIN index = Object
    BY DEF WalkIs, OrderInv, Versions, Index
  <2>2. Treated(x) = EndsAs(x)
    BY <1>4, <2>1, TreatedEndsAs
  <2> QED
    BY <1>2, <1>4, <2>1, <2>2
<1>7. IsCurrent(x) \/ itop[x.object].stamp >= s.started
  BY <1>1, <1>5 DEF Fresh
<1>8. IsCurrent(x) => Matches(x.object)'
  <2>1. IsCurrent(x) => IsCurrent(x)'
    BY <1>3 DEF IsCurrent
  <2>2. IsCurrent(x)' => Matches(x.object)'
    <3>1. CASE Leaves(x)
      BY <1>6, <3>1 DEF EndsAs, Leaves, IsCurrent, Matches
    <3>2. CASE ~Leaves(x)
      BY <1>6, <3>2 DEF EndsAs, Leaves, IsCurrent, Matches, ChunksOf, ChunkOf
    <3> QED
      BY <3>1, <3>2
  <2> QED
    BY <2>1, <2>2
<1>9. NothingForgotten'
  <2>1. Resumes(s.class) <= s.started /\ Resumes(s.class) \in Int
    BY <1>1, <1>4, <1>5, ObjectIs, ResumesEarly DEF WalkIs
  <2>2. itop[x.object].stamp >= s.started => itop[x.object].stamp >= Resumes(s.class)
    BY <1>4, <2>1, TimesAre DEF WalkIs, OrderInv
  <2> QED
    BY <1>3, <1>4, <1>6, <1>7, <1>8, <2>2, WrittenForgotten DEF WalkIs, WalkInv
<1>10. Fresh(pass[r])'
  BY <1>1, <1>2, <1>3, <1>5 DEF Fresh, GoesOn, IsCurrent
<1>11. ASSUME NEW o \in Object, Matches(o), itop[o].stamp < s.started PROVE Matches(o)'
  <2>1. CASE o = x.object
    <3>1. ~(itop[o].stamp >= s.started)
      BY <1>11, TimesAre DEF WalkIs, OrderInv
    <3> QED
      BY <1>7, <1>8, <2>1, <3>1
  <2>2. CASE o # x.object
    BY <1>3, <1>6, <1>11, <2>2 DEF Matches
  <2> QED
    BY <2>1, <2>2
<1>12. WillReach(pass[r])'
  <2>1. SUFFICES ASSUME ~reindex, NEW o \in Object, o[1] = s.class, itop[o].there,
                        itop[o].stamp < s.started, ~Matches(o)', ~ToCome(pass[r], o)'
                 PROVE  InHand(pass[r], o)'
    BY <1>1, <1>3 DEF WillReach, GoesOn
  <2>2. InHand(s, o)
    <3>1. ~Matches(o) /\ ~ToCome(s, o)
      BY <1>11, <2>1, WriteToCome DEF WalkIs
    <3> QED
      BY <1>1, <1>5, <2>1, <3>1 DEF WillReach, Reads
  <2>3. PICK y \in s.batch : y.object = o /\ IsCurrent(y)
    BY <2>2 DEF InHand
  <2>4. y # x
    BY <1>8, <2>1, <2>3
  <2>5. y \in p.batch /\ p.pc = "write"
    BY <1>1, <1>2, <2>4 DEF GoesOn
  <2>6. IsCurrent(y)'
    BY <1>3, <2>3 DEF IsCurrent
  <2> QED
    BY <2>3, <2>5, <2>6 DEF InHand
<1>13. Done(pass[r])'
  <2>1. p.clean = s.clean /\ p.todo = s.todo /\ p.started = s.started
    BY <1>1 DEF GoesOn
  <2> QED
    BY <1>1, <1>3, <1>5, <1>11, <2>1 DEF Done, Reads
<1> QED
  BY <1>9, <1>10, <1>12, <1>13, WalkStays DEF PassStep, Treats

\* What happens outside is dated now: the pass under way need not see it, the next
\* one will.
LEMMA WorldWalk ==
  ASSUME WalkIs,
         LockExpires \/ TimePasses \/ RequestReindex \/ UNCHANGED vars
           \/ \E o \in Object : Save(o) \/ Discard(o)
  PROVE  WalkInv'
<1>1. /\ UNCHANGED <<index, kept, filling, cursor, pass>>
      /\ clock' = clock \/ (TimePasses /\ clock' = clock + 1)
  BY WorldIs DEF WalkIs, OrderInv
<1>2. reindex => reindex'
  BY DEF LockExpires, TimePasses, RequestReindex, vars, Save, Discard, redis
<1>3. ASSUME NEW o \in Object, itop'[o] # itop[o]
      PROVE  /\ itop'[o].there => itop'[o].stamp = clock
             /\ \A r \in Replica : pass[r].pc \in Reads /\ pass[r].class = o[1] => itop'[o].there
  <2>1. Save(o) \/ Discard(o)
    BY <1>3, WorldIs DEF WalkIs, OrderInv
  <2>2. CASE itop'[o].there /\ itop'[o].stamp = clock
    BY <2>2
  <2>3. CASE ~(itop'[o].there /\ itop'[o].stamp = clock)
    <3>1. Discard(o) /\ itop'[o] = Gone
      BY <1>3, <2>1, <2>3, WorldIs DEF WalkIs, OrderInv
    <3>2. ~itop'[o].there
      BY <3>1 DEF Gone, NotYet
    <3> QED
      BY <3>1, <3>2 DEF Discard, Reads, WalkIs
  <2> QED
    BY <2>2, <2>3
<1>4. \A o \in Object : itop'[o] = itop[o] => Matches(o)' = Matches(o) /\ InSync(o)' = InSync(o)
  BY <1>1 DEF Matches, InSync, Answering, IsActive
<1>5. NothingForgotten'
  <2>1. SUFFICES ASSUME NEW o \in Object, itop'[o].there, ~InSync(o)', ~reindex
                 PROVE  itop'[o].stamp >= Resumes(o[1])
    BY <1>1, <1>2 DEF NothingForgotten, Resumes
  <2>2. CASE itop'[o] = itop[o]
    BY <1>4, <2>1, <2>2 DEF WalkIs, WalkInv, NothingForgotten
  <2>3. CASE itop'[o] # itop[o]
    <3>1. Resumes(o[1]) \in Int /\ Resumes(o[1]) <= clock
      BY ObjectIs, ResumesEarly DEF WalkIs
    <3> QED
      BY <1>3, <2>1, <2>3, <3>1, TimesAre DEF WalkIs, OrderInv
  <2> QED
    BY <2>2, <2>3
<1>6. ASSUME NEW r \in Replica PROVE Walks(pass[r])'
  <2>. DEFINE p == pass[r]
  <2>1. Timely(p) /\ Fresh(p) /\ WillReach(p) /\ Done(p)
    BY DEF WalkIs, WalkInv, Walks
  <2>2. p.pc # "idle" => p.started <= clock
    BY DEF WalkIs, Past
  <2>3. Timely(pass[r])'
    <3>1. p.pc # "idle" /\ TimePasses => clock < p.started + Overlap
      <4>1. p.pc \in Places
        BY PassesAre DEF WalkIs, OrderInv, Passes
      <4> QED
        BY <4>1 DEF TimePasses, IsWorking, Working, WalkIs
    <3> QED
      BY <1>1, <2>1, <3>1, TimesAre DEF WalkIs, OrderInv, Timely
  <2>4. ASSUME NEW o \in Object, p.pc \in Reads, o[1] = p.class, itop'[o] # itop[o]
        PROVE  itop'[o].stamp >= p.since /\ itop'[o].stamp >= p.started
    <3>1. itop'[o].stamp = clock /\ p.started <= clock
      BY <1>3, <2>2, <2>4 DEF Reads
    <3>2. p.since <= clock
      <4>1. p.since = Since(p.class) /\ p.class \in Class /\ cursor[p.class] \in Time \union {NoTime}
        BY <2>4, PassesAre DEF WalkIs, OrderInv, Orderly, Passes, SweepInv, Typed
      <4>2. p.since = 0 \/ p.since = Resumes(p.class)
        BY <4>1 DEF Since
      <4>3. Resumes(p.class) <= clock
        BY <4>1, ResumesEarly DEF WalkIs
      <4> QED
        BY <4>2, <4>3, TimesAre DEF WalkIs, OrderInv
    <3> QED
      BY <3>1, <3>2, TimesAre DEF WalkIs, OrderInv
  <2>5. Fresh(pass[r])'
    <3>1. SUFFICES ASSUME p.pc = "write", NEW x \in p.batch
                   PROVE  /\ itop'[x.object].stamp >= p.since
                          /\ IsCurrent(x)' \/ itop'[x.object].stamp >= p.started
      BY <1>1 DEF Fresh
    <3>2. x.object \in Object /\ x.object[1] = p.class
      BY <3>1 DEF WalkIs, OrderInv, Orderly, Taken, PageRecords
    <3>3. CASE itop'[x.object] = itop[x.object]
      <4>1. IsCurrent(x) => IsCurrent(x)'
        BY <3>3 DEF IsCurrent
      <4> QED
        BY <2>1, <3>1, <3>3, <4>1 DEF Fresh
    <3>4. CASE itop'[x.object] # itop[x.object]
      BY <2>4, <3>1, <3>2, <3>4 DEF Reads
    <3> QED
      BY <3>3, <3>4
  <2>6. ASSUME NEW o \in Object, p.pc # "idle", itop'[o].there, itop'[o].stamp < p.started
        PROVE  itop'[o] = itop[o]
    BY <1>3, <2>2, <2>6, TimesAre DEF WalkIs, OrderInv
  <2>7. WillReach(pass[r])'
    <3>1. SUFFICES ASSUME p.pc \in Reads, ~reindex, NEW o \in Object, o[1] = p.class,
                          itop'[o].there, itop'[o].stamp < p.started, ~Matches(o)'
                   PROVE  ToCome(pass[r], o)' \/ InHand(pass[r], o)'
      BY <1>1, <1>2 DEF WillReach
    <3>2. itop'[o] = itop[o]
      BY <2>6, <3>1 DEF Reads
    <3>3. ToCome(p, o) \/ InHand(p, o)
      BY <1>4, <2>1, <3>1, <3>2 DEF WillReach
    <3>4. ToCome(p, o) => ToCome(pass[r], o)'
      BY <3>1, <3>2, WorldToCome DEF WalkIs
    <3>5. InHand(p, o) => InHand(pass[r], o)'
      BY <1>1, <3>2 DEF InHand, IsCurrent
    <3> QED
      BY <3>3, <3>4, <3>5
  <2>8. Done(pass[r])'
    <3>1. SUFFICES ASSUME p.pc \in {"class"} \union Reads, p.clean = TRUE, ~reindex,
                          NEW o \in Object, o[1] \notin p.todo,
                          itop'[o].there, itop'[o].stamp < p.started
                   PROVE  Matches(o)'
      BY <1>1, <1>2 DEF Done
    <3>2. itop'[o] = itop[o]
      BY <2>6, <3>1 DEF Reads
    <3> QED
      BY <1>4, <2>1, <3>1, <3>2 DEF Done
  <2> QED
    BY <2>3, <2>5, <2>7, <2>8 DEF Walks
<1> QED
  BY <1>5, <1>6 DEF WalkInv

LEMMA StepWalk == WalkIs /\ [Next]_vars => WalkInv'
<1> SUFFICES ASSUME WalkIs, [Next]_vars PROVE WalkInv'
  OBVIOUS
<1>1. CASE \E r \in Replica : PassStep(r) \/ PassFails(r) \/ Crash(r)
  <2>1. PICK r \in Replica : PassStep(r) \/ PassFails(r) \/ Crash(r)
    BY <1>1
  <2> QED
    BY <2>1, QuietWalk, ResetWalk, EnsureWalk, CursorWalk, PageWalk, WriteWalk, MoveWalk,
       DeathWalk, DoneWalk, DropWalk DEF PassStep, Treats
<1>2. CASE ~\E r \in Replica : PassStep(r) \/ PassFails(r) \/ Crash(r)
  BY <1>2, WorldWalk DEF Next
<1> QED
  BY <1>1, <1>2

LEMMA InitWalk == Init => WalkInv
<1> SUFFICES ASSUME Init PROVE WalkInv
  OBVIOUS
<1>1. Idle.pc = "idle"
  BY DEF Idle
<1>2. \A r \in Replica : Walks(pass[r])
  BY <1>1 DEF Init, Walks, Timely, Fresh, WillReach, Done, Reads
<1>3. NothingForgotten
  <2>1. SUFFICES ASSUME NEW o \in Object, itop[o].there PROVE itop[o].stamp >= Resumes(o[1])
    BY DEF NothingForgotten
  <2>2. itop[o].stamp = 0
    BY <2>1 DEF Init, NotYet
  <2>3. Resumes(o[1]) = 0
    BY ObjectIs DEF Init, Resumes
  <2> QED
    BY <2>2, <2>3
<1> QED
  BY <1>2, <1>3 DEF WalkInv

\* As long as no object is deleted while its class is being read, and no pass
\* outlasts the overlap of the next: an object the index is wrong about is read by
\* a coming pass, whatever fails, is cut short, dies, is rebuilt or changes
\* meanwhile (indexer.py _sweep_class).
THEOREM NothingIsForgotten ==
  ASSUME ~Drifting, ~SlowPasses PROVE Spec => []NothingForgotten
<1>1. OrderInv /\ Past /\ WalkInv /\ [Next]_vars => WalkInv'
  BY StepWalk DEF WalkIs
<1>2. WalkInv => NothingForgotten
  BY DEF WalkInv
<1> QED
  BY AlwaysPast, InitWalk, <1>1, <1>2, PTL DEF Spec

==============================================================================
