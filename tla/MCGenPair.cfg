\* Two evaluations of two episodes with one seed; a bug no test notices is
\* drawn now and then, and a launch may be late.
SPECIFICATION Spec
CONSTANTS
  Templates <- TwoFunctions
  FAVOURED = 1
  Difficulties <- EasyAndHard
  Rolls = {0, 9}
  EPISODES = 2
  MAX_DRAWS = 16
  MAX_LATE = 1
INVARIANTS SeedDecidesScenario ScenarioIsSound
\* The evaluations end, or draw no more.
CHECK_DEADLOCK FALSE
