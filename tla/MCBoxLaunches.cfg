\* Launches without end in either mode: the timer, a crash or a failing
\* launch at any point, for every program on three tests.
SPECIFICATION Spec
CONSTANTS
  Modes = {TRUE, FALSE}
  Tests <- ThreeTests
  Programs <- ThreeTestPrograms
  Kinds = {"run_tests", "run_code"}
INVARIANTS EveryTestAnswered AnswersAreItsOwn NoWorkerOutlivesItsCall
PROPERTIES KeepsItsPromise EveryCallReturns
