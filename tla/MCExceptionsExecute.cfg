\* Does CATCH run the word it is given?
SPECIFICATION Spec
CONSTANTS
  Values = {3}
  Returns = 11
  Room = 12
  MaxDepth = 3
  MaxCalls = 4
INVARIANT ExecuteContinues
CHECK_DEADLOCK FALSE
