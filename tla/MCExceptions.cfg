\* Programs that throw, protect and keep values on either stack.
SPECIFICATION Spec
CONSTANTS
  Values = {3}
  Returns = 11
  Room = 12
  MaxDepth = 3
  MaxCalls = 4
VIEW Live
INVARIANTS UncaughtOnlyOutside CrashesKnown
PROPERTIES ProtectedCallReturns ThrowEnds
CHECK_DEADLOCK FALSE
