SPECIFICATION FairClientSpec
CONSTANTS
  name = name  addr = addr  number = number
  Columns = {name, addr, number}
  Strings = {name, addr}
  Nullable = {addr}
  Null = Null
  None = None
  NoStatement = NoStatement
  FirstSize = 2
  Half = 2
  Statements <- MCStatements
INVARIANTS ClientTypeOK BoundIsLive InSync
PROPERTIES ImplementsCall CallsAdvance CallsReturn
CHECK_DEADLOCK FALSE
