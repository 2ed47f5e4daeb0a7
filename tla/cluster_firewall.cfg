SPECIFICATION ClusterSpec
CONSTANTS
  m1 = m1  m2 = m2  noInfo = noInfo  k1 = k1  k2 = k2
  pwEmpty = pwEmpty  pwA = pwA
  UserIds = {1, 2, 3}
  Passports = {100, 101, 102}
  Passwords = {pwEmpty, pwA}
  StorablePasswords = {pwEmpty, pwA}
  EmptyPassword = pwEmpty
  Levels = {0, 2, 3}
  ServerIds = {2, 3}
  Machines = {m1}
  LinuxPwds = {k1, k2}
  NoInfo = noInfo
  Stamps = {0, 8}
  OldStamp = 0
  TimeMod = 1024
  StartTime = 8
  MaxTime = 8
  InitUsers <- AllUsers
  Requests <- AddDel
  SubRequests <- FirewallRequests
  Ports = {80}
  Skew <- Same
  SudoPwds <- OwnSudo
  ReadsMayFail = TRUE
  WritesMayFail = TRUE
  MainMayCrash = FALSE
  SubMayCrash = TRUE
INVARIANTS SubTypeOK
PROPERTIES FirewallAuthorised
