SPECIFICATION Spec
CONSTANTS
  GROUP = 3
  INT = 8
  Files <- MCFiles
INVARIANTS
  DieRight
  Navigates
