\* Three rows, two seconds of experiment, one of margin.
SPECIFICATION FairSpec
CONSTANTS
  Rows = 3
  Duration = 2
  Margin = 1
  MaxClock = 4
INVARIANTS
  TypeOK
  SuccessLeavesNothingRunning
  FailureHasCause
  OrphansOnlyAfterDie
  LateFailureReported
PROPERTY ScriptEnds
