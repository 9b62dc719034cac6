\* Words given up half way, and a leave stack of 2 cells.
SPECIFICATION CFSpec
CONSTANTS
  Vocabulary <- MCEverything
  LeaveCells = 2
  CanAbandon = TRUE
  MaxTokens = 5
  MaxJunk = 1
INVARIANTS BranchesMatch LeavesOfThisWord
