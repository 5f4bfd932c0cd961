\* Jobs that nothing fails.
SPECIFICATION Spec
CONSTANTS
  Stages = {"sft", "grpo"}
  SANITY_ITERS = 1
  GRPO_ITERS = 5
  SAVE_EVERY = 2
  MaxFaults = 0
INVARIANT TrainedAdapterIsSaved
