\* Any stages in any order on one repository, with failures and kills.
SPECIFICATION Spec
CONSTANTS
  Stages = {"sft", "sanity", "grpo", "eval", "baseline", "all"}
  SANITY_ITERS = 2
  GRPO_ITERS = 7
  SAVE_EVERY = 3
  MaxFaults = 4
INVARIANTS GrpoStartsWarm CrashLosesLittle
PROPERTIES WarmupIsNotLost StagewiseTrains
