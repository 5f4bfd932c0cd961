\* The code's own constants: a training of eight rollouts an iteration by an
\* agent that is always right, and the evaluations of some pairs of agents.
SPECIFICATION ESpec
CONSTANTS
  AxisOrder <- AllAxes
  HISTORY = 20
  AXIS_WINDOW = 50
  MIN_SIGNAL = 5
  WARMUP = 30
  SCHED = 80
  MaxLevel = 10
  RatioCap = 3
  Presets = {"easy", "medium"}
  Results = {TRUE}
  Regrades = FALSE
  ROLLOUTS_PER_ITER = 8
  EASY_UNTIL = 50
  MEDIUM_UNTIL = 150
  Programs = {"grpo", "dry_run", "eval", "eval_llm"}
  EPISODES = 100
  Agents <- SomeAgents
INVARIANTS IdenticalWhileScheduled PicksAddUp 
\* The evaluations end.
CHECK_DEADLOCK FALSE
