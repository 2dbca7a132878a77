SPECIFICATION FairSpec
CONSTANTS
  MaxRuns = 3
  Budget = 2
  MaxFaults = 2
INVARIANTS OwnExitCode ReportedIsOver
PROPERTIES RunReturns
CHECK_DEADLOCK FALSE
