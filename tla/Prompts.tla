------------------------------ MODULE Prompts ------------------------------
(***************************************************************************)
(* The prompt templates of a module: packaged ones, files of the           *)
(* deployment over them, edits of the admin screen over both               *)
(* (settings/prompt_store.py), their validation                            *)
(* (settings/prompt_validation.py), the check at startup (main.py) and the *)
(* requests of the admin screen (admin/router.py).                         *)
(*                                                                         *)
(* A build is what it packages and, per template its code registers, the   *)
(* texts whose placeholders it knows; an upgrade installs another build    *)
(* over the same files and the same Redis.                                 *)
(***************************************************************************)
EXTENDS Integers, Functions, FiniteSets

CONSTANTS
  Name,        \* names a template may have, packaged or not
  Text,        \* texts
  Builds,      \* builds: [packaged : templates, accepts : names to sets of texts]
  MaxEdits     \* bound on edits, restarts and failed reads of Redis

Templates == UNION {[N -> Text] : N \in SUBSET Name}

ASSUME PromptsAssumption ==
  /\ \A b \in Builds : b.packaged \in Templates /\ DOMAIN b.accepts \subseteq Name
  /\ MaxEdits \in Nat

VARIABLES
  build,       \* the installed build
  files,       \* prompts_dir/<module>: a template per file ...
  unreadable,  \* ... but for what is there and cannot be read: not UTF-8, a directory
  runtime,     \* Redis: the edited templates
  service,     \* is the process down, starting, up, or has it refused to start?
  edit,        \* a PUT under way
  reading,     \* the templates as the startup, the PUT and a run have read them
  edits

promptVars == <<build, files, unreadable, runtime, service, edit, reading, edits>>

\* The union of two sets of templates, those of the second over the first.
Shadowed(below, above) ==
  [n \in DOMAIN below \union DOMAIN above |-> IF n \in DOMAIN above THEN above[n] ELSE below[n]]

NoTemplates == <<>>
NoEdit == [at |-> "none", name |-> "none", text |-> "none"]
Reader == {"boot", "edit", "run"}
NoReading == [at |-> "none", files |-> NoTemplates, ok |-> TRUE]

PromptsTypeOK ==
  /\ build \in Builds
  /\ files \in Templates /\ runtime \in Templates /\ unreadable \subseteq Name
  /\ service \in {"down", "starting", "up", "refused"}
  /\ edit.at \in {"none", "read", "write"}
  /\ reading \in [Reader -> [at : {"none", "runtime"}, files : Templates, ok : BOOLEAN]]
  /\ edits \in 0 .. MaxEdits

PromptsInit ==
  /\ build \in Builds
  /\ files = NoTemplates
  /\ unreadable = {}
  /\ runtime = NoTemplates
  /\ service = "down"
  /\ edit = NoEdit
  /\ reading = [r \in Reader |-> NoReading]
  /\ edits = 0

-----------------------------------------------------------------------------
(***************************************************************************)
(* Reading and validating.                                                 *)
(***************************************************************************)

\* An override shadows a packaged template or is ignored.
Known(b, overrides) == Restrict(overrides, DOMAIN overrides \intersect DOMAIN b.packaged)
Ignored(b, overrides) == DOMAIN overrides \ DOMAIN b.packaged

\* RedisPromptStore.get, with the files it has read and what HGETALL answered:
\* nothing when Redis fails.
PromptSet(read, stored) == [files |-> read, runtime |-> Known(build, stored)]
EffectiveOf(set) == Shadowed(build.packaged, Shadowed(set.files, set.runtime))
Hgetall == {runtime} \union (IF edits < MaxEdits THEN {NoTemplates} ELSE {})
Failed(stored) == edits' = IF stored = runtime THEN edits ELSE edits + 1

\* check_templates: missing, not registered, or with placeholders unknown.
Broken(b, raw) ==
  (DOMAIN b.accepts \ DOMAIN raw) \union (DOMAIN raw \ DOMAIN b.accepts)
    \union {n \in DOMAIN raw \intersect DOMAIN b.accepts : raw[n] \notin b.accepts[n]}

\* The layer a template comes from; one nobody has is ours.  Mutant: a name
\* we package is ours.
OriginByName(set, n) ==
  IF n \in DOMAIN build.packaged THEN "default"
  ELSE IF n \in DOMAIN set.runtime THEN "runtime"
  ELSE IF n \in DOMAIN set.files THEN "file" ELSE "default"
OriginOf(set, n) ==
  IF n \in DOMAIN set.runtime THEN "runtime"
  ELSE IF n \in DOMAIN set.files THEN "file" ELSE "default"

\* Who is about to read the templates.
Wants(r) ==
  CASE r = "boot" -> service = "starting"
    [] r = "edit" -> edit.at = "read"
    [] r = "run" -> service = "up"

\* FilePromptStore.get comes first: every file of the directory is read, ...
ReadFiles(r) ==
  /\ Wants(r)
  /\ reading[r].at = "none"
  /\ unreadable = {}
  /\ reading' = [reading EXCEPT ![r] =
                   [NoReading EXCEPT !.at = "runtime", !.files = Known(build, files)]]
  /\ UNCHANGED <<build, files, unreadable, runtime, service, edit, edits>>

\* ... and one that cannot be ends the startup, the PUT or the run.
FilesFail(r) ==
  /\ Wants(r)
  /\ reading[r].at = "none"
  /\ unreadable # {}
  /\ reading' = [reading EXCEPT ![r] = [NoReading EXCEPT !.ok = FALSE]]
  /\ service' = IF r = "boot" THEN "refused" ELSE service
  /\ edit' = IF r = "edit" THEN NoEdit ELSE edit
  /\ UNCHANGED <<build, files, unreadable, runtime, edits>>

-----------------------------------------------------------------------------
(***************************************************************************)
(* Startup: check_module_prompts.                                          *)
(***************************************************************************)

Start ==
  /\ service = "down"
  /\ service' = "starting"
  /\ UNCHANGED <<build, files, unreadable, runtime, edit, reading, edits>>

\* A broken template of ours refuses the boot, a broken override does not.
CheckPrompts ==
  /\ reading["boot"].at = "runtime"
  /\ \E stored \in Hgetall :
       LET set == PromptSet(reading["boot"].files, stored)
           broken == Broken(build, EffectiveOf(set)) IN
       /\ Failed(stored)
       /\ service' = IF \E n \in broken : OriginOf(set, n) = "default" THEN "refused" ELSE "up"
  /\ reading' = [reading EXCEPT !["boot"] = NoReading]
  /\ UNCHANGED <<build, files, unreadable, runtime, edit>>

\* The process ends, and another build may be installed.
StopAndUpgrade ==
  /\ edits < MaxEdits
  /\ service \in {"up", "refused"}
  /\ edits' = edits + 1
  /\ service' = "down"
  /\ build' \in Builds
  /\ edit' = NoEdit
  /\ reading' = [r \in Reader |-> NoReading]
  /\ UNCHANGED <<files, unreadable, runtime>>

-----------------------------------------------------------------------------
(***************************************************************************)
(* The admin screen and the people with a shell.                           *)
(***************************************************************************)

\* PUT: the templates are read, the new text is validated among them; what
\* is broken elsewhere does not block it, and an unknown name is refused.
PutPrompt ==
  /\ edits < MaxEdits
  /\ service = "up"
  /\ edit.at = "none"
  /\ edits' = edits + 1
  /\ \E n \in Name, t \in Text : edit' = [at |-> "read", name |-> n, text |-> t]
  /\ UNCHANGED <<build, files, unreadable, runtime, service, reading>>

ValidateEdit ==
  /\ edit.at = "read"
  /\ reading["edit"].at = "runtime"
  /\ \E stored \in Hgetall :
       LET prompts == EffectiveOf(PromptSet(reading["edit"].files, stored))
           edited == Shadowed(prompts, [n \in {edit.name} |-> edit.text]) IN
       /\ Failed(stored)
       /\ edit' = IF edit.name \in DOMAIN prompts /\ edit.name \notin Broken(build, edited)
                  THEN [edit EXCEPT !.at = "write"] ELSE NoEdit
  /\ reading' = [reading EXCEPT !["edit"] = NoReading]
  /\ UNCHANGED <<build, files, unreadable, runtime, service>>

\* RedisPromptStore.set reads the files once more, for the names we package.
WriteEdit ==
  /\ edit.at = "write"
  /\ edit' = NoEdit
  /\ runtime' = IF unreadable = {} THEN Shadowed(runtime, [n \in {edit.name} |-> edit.text])
                                   ELSE runtime
  /\ UNCHANGED <<build, files, unreadable, service, reading, edits>>

\* DELETE: reset, of any name.
ResetPrompt ==
  /\ edits < MaxEdits
  /\ service = "up"
  /\ \E n \in DOMAIN runtime : runtime' = Restrict(runtime, DOMAIN runtime \ {n})
  /\ edits' = edits + 1
  /\ UNCHANGED <<build, files, unreadable, service, edit, reading>>

\* GET answers at any time the files can be read: the verdict is computed, never
\* remembered.
Verdict == [broken |-> Broken(build, EffectiveOf(PromptSet(Known(build, files), runtime))),
            ignored |-> Ignored(build, files) \union Ignored(build, runtime)]

\* Files change under the service's feet, to any text or to what is not one.
EditFile ==
  /\ edits < MaxEdits
  /\ edits' = edits + 1
  /\ \E n \in Name :
       \/ /\ \E t \in Text : files' = Shadowed(files, [x \in {n} |-> t])
          /\ unreadable' = unreadable \ {n}
       \/ /\ files' = Restrict(files, DOMAIN files \ {n})
          /\ unreadable' \in {unreadable \ {n}, unreadable \union {n}}
  /\ UNCHANGED <<build, runtime, service, edit, reading>>

\* A run: one broken template fails it.
ReadRuntime ==
  /\ reading["run"].at = "runtime"
  /\ \E stored \in Hgetall :
       LET set == PromptSet(reading["run"].files, stored) IN
       /\ Failed(stored)
       /\ reading' = [reading EXCEPT !["run"] =
                        [NoReading EXCEPT !.ok = Broken(build, EffectiveOf(set)) = {}]]
  /\ UNCHANGED <<build, files, unreadable, runtime, service, edit>>

PromptsNext ==
  \/ \E r \in Reader : ReadFiles(r) \/ FilesFail(r)
  \/ Start \/ CheckPrompts \/ StopAndUpgrade
  \/ PutPrompt \/ ValidateEdit \/ WriteEdit \/ ResetPrompt \/ EditFile \/ ReadRuntime

PromptsSpec == PromptsInit /\ [][PromptsNext]_promptVars

-----------------------------------------------------------------------------
(***************************************************************************)
(* What the layers promise.                                                *)
(***************************************************************************)

\* No text a deployment has written, or written for an older build, keeps the
\* service from starting and with it the screen it could be mended in: a boot is
\* refused only by a build whose own templates do not pass its own check, or
\* where a mounted file could not be read (check_module_prompts in main.py).
TextsNeverStopTheBoot ==
  service = "refused" /\ reading["boot"].ok => Broken(build, build.packaged) # {}

\* "A broken *override* only warns" (check_module_prompts).  Does not hold for a
\* file that cannot be read: the store raises before anything is validated.
OverridesNeverStopTheBoot == service = "refused" => Broken(build, build.packaged) # {}
=============================================================================
