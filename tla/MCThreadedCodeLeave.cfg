CONSTANTS
  Vocabulary <- MCNested
  LeaveCells = 32
  CanAbandon = FALSE
  MaxTokens = 6
  MaxJunk = 2
SPECIFICATION Spec
INVARIANTS WordsReturn
