\* One command at a time and two at a time, killed anywhere, four invocations.
SPECIFICATION MCSpec
CONSTANTS
  Actions <- MCActions
  MaxRuns = 4
  MaxConcurrent = 2
INVARIANTS
  StatusBacked
  PreparedComplete
  ResultHasFixtures
  StateFileStaysWhole
  StatusStaysEarned
  ResultStaysRecorded
PROPERTIES
  ProofsStand
  StatusAdvances
CHECK_DEADLOCK FALSE
