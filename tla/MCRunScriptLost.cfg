\* The verdict of the script against what became of the processes.
SPECIFICATION Spec
CONSTANTS
  Rows = 3
  Duration = 2
  Margin = 1
  MaxClock = 4
INVARIANT AllJobsSucceeded
