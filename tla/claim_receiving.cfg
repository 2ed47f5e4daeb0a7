SPECIFICATION LayerSpec
CONSTANTS
  c1 = c1  c2 = c2
  Conns = {c1}
  NoConn = NoConn
  FirstId = 10001
  MaxFailures = 1
  MaxPackets = 2
  Bare = {2}
  Polite = {}
  Window = 1
  SndBuf = 1
CHECK_DEADLOCK FALSE
INVARIANTS OpenIsReceiving
