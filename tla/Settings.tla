------------------------------ MODULE Settings ------------------------------
(***************************************************************************)
(* The runtime settings: sections kept in Redis over the defaults of the   *)
(* environment (settings/config_store.py), the requests of the admin       *)
(* screens that read, merge and write them (admin/setup.py,                *)
(* admin/router.py), and the moment the setup wizard is finished.          *)
(*                                                                         *)
(* A section is a function from its fields to values; Redis holds the      *)
(* fields of an override, all of them after a write, what is left after a  *)
(* reset.  A gate section is complete when its required fields are set;    *)
(* the mapping of a family is a field of the section "mappings".           *)
(*                                                                         *)
(* Left out: a stored section that a newer build does not accept any more, *)
(* which is read as the defaults.                                          *)
(***************************************************************************)
EXTENDS Integers, Functions

CONSTANTS
  FieldsOf,      \* per section its fields
  Gates,         \* the sections missing_setup reads
  Required,      \* what must be set in them: pairs of section and field
  Wholesale,     \* sections of modules, which are replaced and not merged
  Nested,        \* sections whose fields are the entries of one dictionary
  Value,         \* values of a field, Default among them
  Default,       \* what the environment says: for a required field, nothing
  Request,       \* requests under way at a time
  MaxRequests,   \* bound on requests
  MaxBlips       \* bound on failed reads and writes of Redis

Section == DOMAIN FieldsOf

ASSUME SettingsAssumption ==
  /\ Default \in Value
  /\ (Gates \union Wholesale \union Nested) \subseteq Section
  /\ {MaxRequests, MaxBlips} \subseteq Nat

VARIABLES
  stored,      \* Redis: per section the fields of its override
  request,     \* the requests
  noted,       \* Redis: the setup day is recorded
  expected,    \* what the requests answered so far have said of the sections
  undone,      \* per section the fields a request has put back since they were edited
  finished,    \* the last edit that completed the setup has been a PATCH
  unmade,      \* a section of the setup that was complete has become incomplete
  requests, blips

settingsVars == <<stored, request, noted, expected, undone, finished, unmade, requests, blips>>

Configs(s) == [FieldsOf[s] -> Value]
IsOverride(s, o) == DOMAIN o \subseteq FieldsOf[s] /\ \A f \in DOMAIN o : o[f] \in Value
Over(defaults, body) == [f \in DOMAIN defaults |-> IF f \in DOMAIN body THEN body[f] ELSE defaults[f]]
Defaults(s) == [f \in FieldsOf[s] |-> Default]
NoOverride == <<>>

\* RedisConfigStore.get: the override over the defaults ...
Effective(s) == Over(Defaults(s), stored[s])
\* ... or the defaults alone when Redis does not answer.
Answers(s) == {Effective(s)} \union (IF blips < MaxBlips THEN {Defaults(s)} ELSE {})
Blip(answer, s) == blips' = IF answer = Effective(s) THEN blips ELSE blips + 1

SectionReady(s, config) == \A f \in FieldsOf[s] : <<s, f>> \in Required => config[f] # Default
Complete(all) == \A s \in Gates : SectionReady(s, all[s])
Sections(redis_) == [s \in Section |-> Over(Defaults(s), redis_[s])]

NoRequest == [at |-> "none", kind |-> "none", section |-> "none", body |-> NoOverride,
              todo |-> {}, before |-> {}, after |-> {}, incomplete |-> FALSE,
              values |-> NoOverride, missed |-> {}]

SettingsTypeOK ==
  /\ \A s \in Section : IsOverride(s, stored[s])
  /\ \A h \in Request :
       /\ request[h].at \in {"none", "before", "current", "write", "after", "note"}
       /\ request[h].at # "none" => request[h].section \in Section
       /\ request[h].before \subseteq Gates /\ request[h].after \subseteq Gates
  /\ \A s \in Section : expected[s] \in Configs(s) /\ undone[s] \subseteq FieldsOf[s]
  /\ {noted, finished, unmade} \subseteq BOOLEAN
  /\ requests \in 0 .. MaxRequests
  /\ blips \in 0 .. MaxBlips

SettingsInit ==
  /\ stored = [s \in Section |-> NoOverride]
  /\ request = [h \in Request |-> NoRequest]
  /\ noted = FALSE
  /\ expected = [s \in Section |-> Defaults(s)]
  /\ undone = [s \in Section |-> {}]
  /\ finished = FALSE
  /\ unmade = FALSE
  /\ requests = 0
  /\ blips = 0

promised == <<expected, undone>>
ghosts == <<promised, finished, unmade>>
Asks(h, change) == request' = [request EXCEPT ![h] = change]

-----------------------------------------------------------------------------
(***************************************************************************)
(* A request arrives.                                                      *)
(***************************************************************************)

Arrives(h, new) ==
  /\ request[h].at = "none"
  /\ requests < MaxRequests
  /\ requests' = requests + 1
  /\ Asks(h, new)
  /\ UNCHANGED <<stored, noted, ghosts, blips>>

\* PATCH of a section, or of one family of the mappings: one that can finish
\* the setup first asks whether it is incomplete.
Patch(h) ==
  \E s \in Section \ Wholesale : \E f \in FieldsOf[s], v \in Value :
    Arrives(h, [NoRequest EXCEPT !.at = IF s \in Gates THEN "before" ELSE "current",
                                 !.kind = "patch", !.section = s, !.body = [x \in {f} |-> v],
                                 !.todo = IF s \in Gates THEN Gates ELSE {}])

\* PUT of the configuration of a module: the body over the defaults.
Put(h) ==
  \E s \in Wholesale : \E config \in Configs(s) :
    Arrives(h, [NoRequest EXCEPT !.at = "write", !.kind = "put", !.section = s,
                                 !.body = config, !.values = config])

\* DELETE with some fields: they are taken out of the stored override.  (The
\* DELETE of one family is a PATCH of it to what the environment says.)
ResetFields(h) ==
  \E s \in Section \ (Wholesale \union Nested) : \E f \in FieldsOf[s] :
    Arrives(h, [NoRequest EXCEPT !.at = "current", !.kind = "reset", !.section = s,
                                 !.body = [x \in {f} |-> Default]])

\* DELETE of the whole section.
ResetSection(h) ==
  \E s \in Section :
    Arrives(h, [NoRequest EXCEPT !.at = "write", !.kind = "put", !.section = s,
                                 !.body = Defaults(s), !.values = NoOverride])

-----------------------------------------------------------------------------
(***************************************************************************)
(* Its steps.                                                              *)
(***************************************************************************)

\* _setup_missing reads the gate sections one after the other.
ReadGate(h) ==
  /\ request[h].at \in {"before", "after"}
  /\ request[h].todo # {}
  /\ LET s == CHOOSE x \in request[h].todo : TRUE IN
     \E answer \in Answers(s) :
       LET ready == IF SectionReady(s, answer) THEN {s} ELSE {} IN
       /\ Blip(answer, s)
       /\ Asks(h, IF request[h].at = "before"
                  THEN [request[h] EXCEPT !.todo = @ \ {s}, !.before = @ \union ready]
                  ELSE [request[h] EXCEPT !.todo = @ \ {s}, !.after = @ \union ready])
  /\ UNCHANGED <<stored, noted, ghosts, requests>>

KnowsBefore(h) ==
  /\ request[h].at = "before"
  /\ request[h].todo = {}
  /\ Asks(h, [request[h] EXCEPT !.at = "current", !.incomplete = request[h].before # Gates])
  /\ UNCHANGED <<stored, noted, ghosts, requests, blips>>

\* _merged_with_current: a field the body does not name keeps its value.
\* Mutant: the body over the defaults, as for a module.
MergedOverDefaults(current, h) == Over(Defaults(request[h].section), request[h].body)
Merged(current, h) == Over(current, request[h].body)

\* The fields two configurations of a section differ in.
Differing(one, other) == {f \in DOMAIN one : one[f] # other[f]}

\* The section is read and merged; values that do not validate, or name what
\* the code does not have, end the request before anything is written.
ReadCurrent(h) ==
  /\ request[h].at = "current"
  /\ request[h].kind = "patch"
  /\ \E answer \in Answers(request[h].section) :
       /\ Blip(answer, request[h].section)
       /\ \/ Asks(h, [request[h] EXCEPT !.at = "write", !.values = Merged(answer, h),
                                        !.missed = Differing(answer, Effective(request[h].section))])
          \/ Asks(h, NoRequest)
  /\ UNCHANGED <<stored, noted, ghosts, requests>>

\* A request is answered: of the fields it names what it says counts; of the
\* others it has put back those that it missed.
RequestAnswered(h) ==
  LET s == request[h].section
      named == DOMAIN request[h].body IN
  /\ expected' = [expected EXCEPT ![s] = Over(@, request[h].body)]
  /\ undone' = [undone EXCEPT ![s] = (@ \union request[h].missed) \ named]

\* reset(fields) reads what is stored, raises if it cannot, and has nothing to
\* do when nothing is.
ReadStored(h) ==
  /\ request[h].at = "current"
  /\ request[h].kind = "reset"
  /\ LET s == request[h].section
         left == Restrict(stored[s], DOMAIN stored[s] \ DOMAIN request[h].body) IN
     IF stored[s] = NoOverride
     THEN Asks(h, NoRequest) /\ RequestAnswered(h)
     ELSE Asks(h, [request[h] EXCEPT !.at = "write", !.values = left]) /\ UNCHANGED promised
  /\ UNCHANGED <<stored, noted, finished, unmade, requests, blips>>

\* SET, or DELETE when nothing is left: one command either way.  Whoever has
\* read the section and is about to write it misses what this changes.
Write(h) ==
  /\ request[h].at = "write"
  /\ LET s == request[h].section
         written == [stored EXCEPT ![s] = request[h].values]
         was == Complete(Sections(stored))
         is == Complete(Sections(written)) IN
     /\ stored' = written
     /\ RequestAnswered(h)
     /\ finished' = IF was # is THEN is /\ request[h].kind = "patch" ELSE finished
     /\ unmade' = (unmade \/ \E g \in Gates : SectionReady(g, Sections(stored)[g])
                                              /\ ~SectionReady(g, Sections(written)[g]))
     /\ request' = [g \in Request |->
          IF g = h
          THEN IF request[h].incomplete
               THEN [request[h] EXCEPT !.at = "after", !.todo = Gates, !.values = NoOverride,
                                       !.missed = {}]
               ELSE NoRequest
          ELSE IF request[g].section = s /\ request[g].at = "write" /\ request[g].kind # "put"
               THEN [request[g] EXCEPT
                       !.missed = @ \union Differing(Effective(s), Sections(written)[s])]
               ELSE request[g]]
  /\ UNCHANGED <<noted, requests, blips>>

\* Redis refuses: the request answers an error, nothing is written.
WriteFails(h) ==
  /\ request[h].at = "write"
  /\ blips < MaxBlips
  /\ blips' = blips + 1
  /\ Asks(h, NoRequest)
  /\ UNCHANGED <<stored, noted, ghosts, requests>>

\* The setup was incomplete and no longer is.  Mutant: the other gate section
\* is taken as it was read before the write.
FinishesAsSeenBefore(h) ==
  Gates \subseteq request[h].before \union (request[h].after \intersect {request[h].section})
Finishes(h) == Gates \subseteq request[h].after

KnowsAfter(h) ==
  /\ request[h].at = "after"
  /\ request[h].todo = {}
  /\ Asks(h, IF Finishes(h) THEN [request[h] EXCEPT !.at = "note"] ELSE NoRequest)
  /\ UNCHANGED <<stored, noted, ghosts, requests, blips>>

\* _note_wizard_finished: the setup day is recorded and the sender woken; a
\* failure is logged, for the section is saved by now.
Note(h) ==
  /\ request[h].at = "note"
  /\ Asks(h, NoRequest)
  /\ \/ noted' = TRUE /\ UNCHANGED blips
     \/ blips < MaxBlips /\ blips' = blips + 1 /\ UNCHANGED noted
  /\ UNCHANGED <<stored, ghosts, requests>>

RequestStep(h) ==
  \/ Patch(h) \/ Put(h) \/ ResetFields(h) \/ ResetSection(h)
  \/ ReadGate(h) \/ KnowsBefore(h) \/ ReadCurrent(h) \/ ReadStored(h)
  \/ Write(h) \/ WriteFails(h) \/ KnowsAfter(h) \/ Note(h)

SettingsNext == \E h \in Request : RequestStep(h)

SettingsSpec == SettingsInit /\ [][SettingsNext]_settingsVars

-----------------------------------------------------------------------------
(***************************************************************************)
(* What the settings promise.                                              *)
(***************************************************************************)

\* An edit that was answered stands, and its fields with it, but for those that a
\* later request has put back: fields that changed between that request's read of
\* the section and its write, or, where Redis failed the read, that were not at
\* their defaults.  So forms that overlap cost each other the fields edited
\* meanwhile and no others, and the secrets a form never sees survive its round
\* trips (_merged_with_current in admin/setup.py, reset in settings/config_store.py).
EditsStand ==
  \A s \in Section : \A f \in FieldsOf[s] \ undone[s] : Effective(s)[f] = expected[s][f]

\* "Absent field = keep current value" (_merged_with_current).  Does not hold: the
\* section is read before it is written, and nothing keeps another write out.
AbsentFieldsKept == \A s \in Section : Effective(s) = expected[s]

\* The wizard is noticed: a setup completed by PATCHes, in whatever order they
\* overlap, is on record once they are answered, unless Redis failed one of
\* them or a section was taken apart again meanwhile (the sections are read one
\* after the other: a setup may look complete that never was).
WizardNoted ==
  finished /\ ~unmade /\ blips = 0 /\ (\A h \in Request : request[h].at = "none") => noted
=============================================================================
