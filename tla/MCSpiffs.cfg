SPECIFICATION Spec
CONSTANTS
  Blocks = 4
  Entries = 3
  PageUnits = 2
  HdrIxLen = 3
  GcMaxRuns = 5
  WordBits = 6
  MaxPasses = 6
  MaxObj = 2
  Writes <- MCWrites
  MaxLosses = 2
INVARIANTS FreeTail StatsAgree NothingHalfDone CallsKeepPromise
PROPERTIES MendedIsConsistent OthersSurvive NoThirdOutcome
CONSTRAINT UntilRestart
