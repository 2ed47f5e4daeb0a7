SPECIFICATION FairLayerSpec
CONSTANTS
  c1 = c1  c2 = c2
  Conns = {c1, c2}
  NoConn = NoConn
  FirstId = 10001
  MaxFailures = 1
  MaxPackets = 2
  Bare = {2}
  Polite = {c1}
  Window = 2
  SndBuf = 2
CHECK_DEADLOCK FALSE
INVARIANTS LayerTypeOK RepliesInOrder AnswersMatch PoliteNeverStranded DeafOnlyIfTorn
PROPERTIES PacketsAnswered
