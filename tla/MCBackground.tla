--------------------------- MODULE MCBackground ---------------------------
(***************************************************************************)
(* Small instances of what runs beside the tickets, for TLC: the sweep and *)
(* the eight services around it.  They share the process and no state that *)
(* their properties speak of, so a behaviour is a behaviour of one of them *)
(* (part says of which) with the others at rest, and the run checks the    *)
(* sum of their state spaces instead of the product.                       *)
(***************************************************************************)
EXTENDS Sweep, Pacing, SweepLock, Telemetry, Settings, Prompts, Connection, Provisioning,
        Chunks, TLC

VARIABLE part

Parts == {"sweep", "pacing", "lock", "telemetry", "settings", "prompts", "connection",
          "provisioning", "chunks"}

\* One class with two pages.
MCIdsOf == [c \in Class |-> {1, 2}]

\* Nothing, one chunk, two chunks.
MCTwoTexts == {<<>>, <<1>>, <<2, 1>>}
MCFirstText == <<1>>

\* The gate sections with one optional field, the mappings of two families,
\* the configuration of a module.
MCFieldsOf == [itop |-> {"url", "pwd"}, llm |-> {"model"},
               mappings |-> {"tickets", "faq"}, intake |-> {"limit"}]
MCRequired == {<<"itop", "url">>, <<"llm", "model">>}

\* A build, one with a template more and other placeholders, one that has
\* dropped a template, one that does not pass its own check.
MCFirstBuild == [packaged |-> [n \in {"ask"} |-> "old"], accepts |-> [n \in {"ask"} |-> {"old"}]]
MCBuilds ==
  {MCFirstBuild,
   [packaged |-> [n \in {"ask", "note"} |-> "new"], accepts |-> [n \in {"ask", "note"} |-> {"new"}]],
   [packaged |-> [n \in {"note"} |-> "new"], accepts |-> [n \in {"note"} |-> {"old", "new"}]],
   [packaged |-> [n \in {"ask"} |-> "new"], accepts |-> [n \in {"ask", "note"} |-> {"old"}]]}

\* A short field, and one of up to two paragraphs of up to two sentences, that fill
\* the budget of 8 (3 and 3 with a blank line), exceed it (8 with anything) or need
\* three slices (17).
MCFieldOrder == <<"title", "body">>
MCTextsOf ==
  [title |-> {<<>>, <<<<3>>>>},
   body |-> BoundedSeq({<<a>> : a \in {3, 8, 17}} \union {<<3, b>> : b \in {3, 4, 8, 17}}, 2)]

MCFirstAccount == CHOOSE x \in Account : TRUE

MCSymmetry == Permutations(Replica) \union Permutations(Model)

BackgroundInit ==
  /\ part \in Parts
  /\ Init /\ PacingInit /\ SweepLockInit /\ TelemetryInit
  /\ SettingsInit /\ PromptsInit /\ ConnectionInit /\ ProvisioningInit /\ ChunksInit
  /\ build = MCFirstBuild
  /\ section = MCFirstAccount
  /\ part # "sweep" => \A o \in Object : itop[o] = NotYet

Rest(p, variables) == IF part = p THEN TRUE ELSE UNCHANGED variables

BackgroundNext ==
  /\ UNCHANGED part
  /\ Rest("sweep", vars) /\ Rest("pacing", pacingVars) /\ Rest("lock", lockVars)
  /\ Rest("telemetry", telemetryVars) /\ Rest("settings", settingsVars)
  /\ Rest("prompts", promptVars) /\ Rest("connection", connectionVars)
  /\ Rest("provisioning", provisionVars) /\ Rest("chunks", chunksVars)
  /\ \/ part = "sweep" /\ Next
     \/ part = "pacing" /\ PacingNext
     \/ part = "lock" /\ SweepLockNext
     \/ part = "telemetry" /\ TelemetryNext
     \/ part = "settings" /\ SettingsNext
     \/ part = "prompts" /\ PromptsNext
     \/ part = "connection" /\ ConnectionNext
     \/ part = "provisioning" /\ ProvisioningNext
     \/ part = "chunks" /\ ChunksNext

BackgroundSpec == BackgroundInit /\ [][BackgroundNext]_<<part, vars, pacingVars, lockVars,
  telemetryVars, settingsVars, promptVars, connectionVars, provisionVars, chunksVars>>

\* The types of the sweep and the services; those at rest keep their initial state.
BackgroundTypeOK ==
  /\ part = "sweep" => TypeOK
  /\ part = "pacing" => PacingTypeOK
  /\ part = "lock" => SweepLockTypeOK
  /\ part = "telemetry" => TelemetryTypeOK
  /\ part = "settings" => SettingsTypeOK
  /\ part = "prompts" => PromptsTypeOK
  /\ part = "connection" => ConnectionTypeOK
  /\ part = "provisioning" => ProvisioningTypeOK
  /\ part = "chunks" => ChunksTypeOK

\* The chunks of an object follow its content (ChunksFollowTheText); asked of its own
\* part only, since it tries every way of packing.
TextsAreKept == part = "chunks" => ChunksFollowTheText
=============================================================================
