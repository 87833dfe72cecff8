\* Two commands at a time: two submits race for the result.
SPECIFICATION MCSpec
CONSTANTS
  Actions <- MCActions
  MaxRuns = 4
  MaxConcurrent = 2
INVARIANTS
  ResultStands
CHECK_DEADLOCK FALSE
