\* Two episodes in a row, the first perhaps abandoned: dialogue, edits and
\* failing launches.
SPECIFICATION Spec
CONSTANTS
  MAX_TURNS = 4
  EMOTIONAL_TURN = 3
  NLines = 2
  Tests = {"t1", "t2"}
  RunInputs = {"t1", ""}
  FailingSets <- T1
  FollowupCounts = {3}
  UserCorrect = {TRUE, FALSE}
  FixLines = {0, 1, 2}
  FixEdits = {"fix", "junk"}
  OtherTools = {"read_code"}
  ActionTypes = {"tool_call"}
  WarningCounts = {0}
  SandboxOutcomes = {"ran", "TIMEOUT"}
  MaxResets = 2
  MaxOverrun = 0
  NoScenario = NoScenario
INVARIANTS TypeOK HeardInOrder CaveForfeitsBonus FixAndCaveSeparated FreshVerdict
INVARIANTS PushbackFollowsItsTrigger ResistanceCountsTurns
PROPERTIES ImplementsProtocol FarmingNeverPays
\* The client may stop after the last episode.
CHECK_DEADLOCK FALSE
