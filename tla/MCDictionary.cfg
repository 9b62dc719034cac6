\* Names of 3 characters and a segment that runs out.
SPECIFICATION Spec
CONSTANTS
  Names = {a, b}
  BaseWord = base
  LongNames = {}
  NameLen <- MCNameLen
  SegCells = 7
  MemTop = 13
INVARIANTS TypeOK ChainSound NoDanglingReference CodewordFound WalkFinds VisibleComplete
VIEW Reachable
SYMMETRY NameSymmetry
PROPERTY ReferencesKeepTheirMeaning
