SPECIFICATION PromptsSpec
CONSTANTS
  Name = {"ask"}
  Text = {"old", "new"}
  Builds <- MCBuild
  MaxEdits = 2
INVARIANT OverridesNeverStopTheBoot
CHECK_DEADLOCK FALSE
