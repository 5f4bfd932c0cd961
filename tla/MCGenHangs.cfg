\* A bug that the repository has, with every launch in time.
SPECIFICATION Spec
CONSTANTS
  Templates <- BinarySearch
  FAVOURED = 5
  Difficulties <- Easy
  Rolls = {0, 9}
  EPISODES = 1
  MAX_DRAWS = 16
  MAX_LATE = 0
INVARIANT FailuresAreReal
CHECK_DEADLOCK FALSE
