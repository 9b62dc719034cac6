\* The end of the boot, then five characters typed.
SPECIFICATION Spec
CONSTANTS
  Rom <- MCRom
  Window = 4
  Keys <- MCKeys
  InitDone <- MCInitDone
  TrueWord <- MCTrue
  EchoWord <- MCEcho
  KeyWord <- MCKey
  OtherWords <- MCOther
  WordSize = 4
  FifoSize = 3
  BufSize = 2
  Base = 14
  Modulus = 4
  MaxTyped = 5
INVARIANTS TypeOK NothingSkipped WordsAreTheText NumbersRead
