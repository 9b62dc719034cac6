CONSTANTS
  Vocabulary <- MCEverything
  LeaveCells = 32
  CanAbandon = FALSE
  MaxTokens = 6
  MaxJunk = 2
SPECIFICATION Spec
INVARIANTS TypeOK BranchesMatch StacksBalanced FrameDiscipline
