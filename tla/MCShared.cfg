\* Two threads behind either endpoint: steps overlap steps and resets.
SPECIFICATION Spec
CONSTANTS
  Servers = {"http", "websocket"}
  Threads = {"a", "b"}
  MAX_TURNS = 2
  EMOTIONAL_TURN = 2
  Messages = 2
  Tools = {"run_tests", "run_code", "apply_fix"}
  EditsMade <- FixOrBreak
  Flaws = {"new_code", "input_value"}
  NLines = 2
  BUG_LINE = 1
  MaxResets = 2
  MaxOverrun = 0
INVARIANTS LimitIsKept ConsumedOnce EditsAreOnRecord EveryTurnOnRecord
PROPERTY ImplementsProtocol
\* The client may stop after its last episode.
CHECK_DEADLOCK FALSE
