\* Two sessions and the serial line.
SPECIFICATION Spec
CONSTANTS
  Conns = {A, B}
  Serial = Serial
  NULL = NULL
  QueueCap = 2
  MaxPacket = 2
  Chunks <- MCChunks
  MaxChunks = 1
  MaxSerial = 1
  MaxEmits = 2
  BufSize = 4
VIEW WithoutSent
SYMMETRY SessionSymmetry
INVARIANTS TypeOK BuffersBounded FlagFollowsSession
PROPERTY InputIsStream
