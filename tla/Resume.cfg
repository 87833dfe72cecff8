\* One command at a time: a prover is killed.
SPECIFICATION MCSpec
CONSTANTS
  Actions <- MCActions
  MaxRuns = 3
  MaxConcurrent = 1
INVARIANTS
  ProvingCanResume
CHECK_DEADLOCK FALSE
