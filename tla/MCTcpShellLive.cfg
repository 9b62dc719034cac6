\* Two sessions: callbacks end, and the only session there is gets served.
SPECIFICATION FairSpec
CONSTANTS
  Conns = {A, B}
  Serial = Serial
  NULL = NULL
  QueueCap = 2
  MaxPacket = 1
  Chunks <- MCChunks
  MaxChunks = 1
  MaxSerial = 0
  MaxEmits = 0
  BufSize = 4
INVARIANT EchoAtSource
PROPERTY CallbackReturns InputServed
