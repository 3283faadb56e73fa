CONSTANTS
  postgres = postgres
  mysql = mysql
  Hooks <- TwoHooks
  MaxRuns = 2
  MaxFlips = 1
  ProbeFails = FALSE
  Killable = TRUE
  Hangs <- NoHooks
SPECIFICATION FairSpec
CHECK_DEADLOCK FALSE
INVARIANTS TypeOK SteadySource Thawed NothingLeftBehind
PROPERTIES HooksInOrder Ends
