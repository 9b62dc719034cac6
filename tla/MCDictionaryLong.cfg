\* One of the names has 32 characters.
SPECIFICATION Spec
CONSTANTS
  Names = {a, b}
  BaseWord = base
  LongNames = {b}
  NameLen <- MCNameLen
  SegCells = 20
  MemTop = 18
VIEW Reachable
SYMMETRY NameSymmetry
INVARIANT CodewordFound
