SPECIFICATION LayerSpec
CONSTANTS
  c1 = c1  c2 = c2
  Conns = {c1}
  NoConn = NoConn
  FirstId = 10001
  MaxFailures = 1
  MaxPackets = 3
  Bare = {2}
  Polite = {}
  Window = 3
  SndBuf = 1
CHECK_DEADLOCK FALSE
INVARIANTS RepliesIntact
