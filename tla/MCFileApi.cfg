\* Two files, two descriptors: the same file twice or both.
SPECIFICATION Spec
CONSTANTS
  Names = {A, B}
  Bytes = {x, y}
  Modes <- MCModes
  None = None
  PageSize = 2
  FdCount = 2
  CachePages = 3
  MaxSize = 3
  MaxWrite = 2
  Careless = {}
INVARIANTS PagesOwned SizesAgree
PROPERTIES CloseIsDurable AppendsAtEnd KeepsPromise
VIEW WithoutAnswer
SYMMETRY NamesAndBytes
CONSTRAINT FewBytes
