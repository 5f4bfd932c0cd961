\* Whole episodes of a model that also gets arguments wrong, and that writes
\* anything at all in its first turn.
SPECIFICATION Spec
CONSTANTS
  MAX_TURNS = 5
  HISTORY_KEEP = 2
  Policies = {"llm", "heuristic"}
  Completions <- AnyThenPlayed
INVARIANTS HeaderDecides FallbackIsWarned CleanMeansComplete HeuristicIsClean
PROPERTY EpisodesEnd
\* An exception ends the run.
CHECK_DEADLOCK FALSE
