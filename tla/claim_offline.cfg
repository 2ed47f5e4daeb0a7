SPECIFICATION ClusterSpec
CONSTANTS
  m1 = m1  m2 = m2  noInfo = noInfo  k1 = k1  k2 = k2
  pwEmpty = pwEmpty  pwA = pwA
  UserIds = {1}
  Passports = {100}
  Passwords = {pwEmpty, pwA}
  StorablePasswords = {pwEmpty, pwA}
  EmptyPassword = pwEmpty
  Levels = {0}
  ServerIds = {7}
  Machines = {m1}
  LinuxPwds = {k1}
  NoInfo = noInfo
  Stamps = {0, 8, 9, 10, 11}
  OldStamp = 0
  TimeMod = 1024
  StartTime = 8
  MaxTime = 10
  InitUsers <- RootOnly
  Requests <- Watched
  SubRequests <- NoRequests
  Ports = {}
  Skew <- Ahead
  SudoPwds <- OwnSudo
  ReadsMayFail = FALSE
  WritesMayFail = FALSE
  MainMayCrash = FALSE
  SubMayCrash = FALSE
INVARIANTS DisconnectedIsSilent
