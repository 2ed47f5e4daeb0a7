SPECIFICATION BufferSpec
CONSTANTS
  Byte = {0, 1}
  NUL = 0
  PageSize = 2
  InitSize = 2
  ExtraSize = 2
  SizeMod = 16
  Inputs <- MCInputs
  Lengths = {0, 1, 2, 3}
  MaxBytes = 6
CHECK_DEADLOCK FALSE
INVARIANTS ReadableIsWritten
