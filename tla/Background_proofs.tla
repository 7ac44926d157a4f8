-------------------------- MODULE Background_proofs --------------------------
(***************************************************************************)
(* The sum of the background parts, as MCBackground composes it: each of   *)
(* its behaviours is a behaviour of every part (all but one at rest), so   *)
(* what is proved of the parts holds of the sum, their types among it.     *)
(***************************************************************************)
EXTENDS MCBackground, Sweep_proofs, Periodic_proofs, Services_proofs, Chunks_proofs

\* All parts.
all == <<part, vars, pacingVars, lockVars, telemetryVars, settingsVars, promptVars,
         connectionVars, provisionVars, chunksVars>>

\* A step of the sum is, for every part, a step of that part or none.
LEMMA StepOfEach ==
  [BackgroundNext]_all =>
    /\ [Next]_vars /\ [PacingNext]_pacingVars /\ [SweepLockNext]_lockVars
    /\ [TelemetryNext]_telemetryVars /\ [SettingsNext]_settingsVars
    /\ [PromptsNext]_promptVars /\ [ConnectionNext]_connectionVars
    /\ [ProvisioningNext]_provisionVars /\ [ChunksNext]_chunksVars
<1> SUFFICES ASSUME [BackgroundNext]_all
             PROVE  /\ [Next]_vars /\ [PacingNext]_pacingVars /\ [SweepLockNext]_lockVars
                    /\ [TelemetryNext]_telemetryVars /\ [SettingsNext]_settingsVars
                    /\ [PromptsNext]_promptVars /\ [ConnectionNext]_connectionVars
                    /\ [ProvisioningNext]_provisionVars /\ [ChunksNext]_chunksVars
  OBVIOUS
<1>1. CASE UNCHANGED all
  BY <1>1 DEF all
<1>2. CASE BackgroundNext
  <2>1. /\ part # "sweep" => UNCHANGED vars
        /\ part # "pacing" => UNCHANGED pacingVars
        /\ part # "lock" => UNCHANGED lockVars
        /\ part # "telemetry" => UNCHANGED telemetryVars
        /\ part # "settings" => UNCHANGED settingsVars
        /\ part # "prompts" => UNCHANGED promptVars
        /\ part # "connection" => UNCHANGED connectionVars
        /\ part # "provisioning" => UNCHANGED provisionVars
        /\ part # "chunks" => UNCHANGED chunksVars
    BY <1>2 DEF BackgroundNext, Rest
  <2>2. \/ part = "sweep" /\ Next
        \/ part = "pacing" /\ PacingNext
        \/ part = "lock" /\ SweepLockNext
        \/ part = "telemetry" /\ TelemetryNext
        \/ part = "settings" /\ SettingsNext
        \/ part = "prompts" /\ PromptsNext
        \/ part = "connection" /\ ConnectionNext
        \/ part = "provisioning" /\ ProvisioningNext
        \/ part = "chunks" /\ ChunksNext
    BY <1>2 DEF BackgroundNext
  <2> QED
    BY <2>1, <2>2
<1> QED
  BY <1>1, <1>2

\* A behaviour of the sum is a behaviour of every part.
THEOREM SumOfTheParts ==
  BackgroundSpec => /\ Spec /\ PacingSpec /\ SweepLockSpec /\ TelemetrySpec /\ SettingsSpec
                    /\ PromptsSpec /\ ConnectionSpec /\ ProvisioningSpec /\ ChunksSpec
<1>1. BackgroundInit =>
        /\ Init /\ PacingInit /\ SweepLockInit /\ TelemetryInit /\ SettingsInit
        /\ PromptsInit /\ ConnectionInit /\ ProvisioningInit /\ ChunksInit
  BY DEF BackgroundInit
<1>2. BackgroundSpec => BackgroundInit /\ [][BackgroundNext]_all
  BY DEF BackgroundSpec, all
<1> QED
  BY <1>1, <1>2, StepOfEach, PTL
  DEF Spec, PacingSpec, SweepLockSpec, TelemetrySpec, SettingsSpec, PromptsSpec,
      ConnectionSpec, ProvisioningSpec, ChunksSpec

\* Whatever runs beside the tickets keeps its state well formed, for every value of the
\* constants: the state of the sweep and the index, of the locks and loops, of the
\* documents about the installation, of the settings, templates and connection, of the
\* iTop side and of the texts that are cut into chunks.
THEOREM BackgroundTyped == BackgroundSpec => []BackgroundTypeOK
<1>1. /\ TypeOK /\ PacingTypeOK /\ SweepLockTypeOK /\ TelemetryTypeOK /\ SettingsTypeOK
      /\ PromptsTypeOK /\ ConnectionTypeOK /\ ProvisioningTypeOK /\ ChunksTypeOK
      => BackgroundTypeOK
  BY DEF BackgroundTypeOK
<1> QED
  BY <1>1, SumOfTheParts, SweepTypes, PacingTyped, LockTyped, TelemetryTyped, SettingsTyped,
     PromptsTyped, ConnectionTyped, ProvisioningTyped, ChunksTyped, PTL

\* The chunks of an object follow its content, whatever its fields, texts and log, for
\* any budget and any entries per window: split_text and _window_chunks.
THEOREM TextsKept == BackgroundSpec => []TextsAreKept
<1>1. ChunksFollowTheText => TextsAreKept
  BY DEF TextsAreKept
<1> QED
  BY <1>1, SumOfTheParts, ChunksFollow, PTL
=============================================================================
