SPECIFICATION ClusterSpec
CONSTANTS
  m1 = m1  m2 = m2  noInfo = noInfo  k1 = k1  k2 = k2
  pwEmpty = pwEmpty  pwA = pwA
  UserIds = {1, 2, 3}
  Passports = {100, 101, 102}
  Passwords = {pwEmpty, pwA}
  StorablePasswords = {pwEmpty, pwA}
  EmptyPassword = pwEmpty
  Levels = {0, 2, 3}
  ServerIds = {1, 2}
  Machines = {m1, m2}
  LinuxPwds = {k1, k2}
  NoInfo = noInfo
  Stamps = {0, 8}
  OldStamp = 0
  TimeMod = 1024
  StartTime = 8
  MaxTime = 8
  InitUsers <- AllUsers
  Requests <- OwnPasswords
  SubRequests <- FirewallRequests
  Ports = {80}
  Skew <- Same
  SudoPwds <- OwnSudo
  ReadsMayFail = FALSE
  WritesMayFail = FALSE
  MainMayCrash = FALSE
  SubMayCrash = FALSE
INVARIANTS PasswordIsOwn
