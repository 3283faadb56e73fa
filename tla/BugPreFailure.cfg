CONSTANTS
  postgres = postgres
  mysql = mysql
  Hooks <- TwoHooks
  MaxRuns = 1
  MaxFlips = 0
  ProbeFails = FALSE
  Killable = FALSE
  Hangs <- NoHooks
SPECIFICATION Spec
CHECK_DEADLOCK FALSE
INVARIANT NothingToTearDown
