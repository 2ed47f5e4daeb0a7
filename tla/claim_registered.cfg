SPECIFICATION MainSpec
CONSTANTS
  m1 = m1  noInfo = noInfo  k1 = k1
  pwEmpty = pwEmpty  pwA = pwA  pwB = pwB  pwLong = pwLong
  UserIds = {1, 2, 3}
  Passports = {100, 101, 102}
  Passwords <- MCPasswords
  StorablePasswords = {pwEmpty, pwA, pwB}
  EmptyPassword = pwEmpty
  Levels = {1, 2}
  ServerIds = {7}
  Machines = {m1}
  LinuxPwds = {k1}
  NoInfo = noInfo
  Stamps = {0}
  OldStamp = 0
  TimeMod = 1024
  StartTime = 8
  MaxTime = 8
  InitUsers <- MCInitUsers
  Requests <- AllRequests
  ReadsMayFail = FALSE
  WritesMayFail = TRUE
  MainMayCrash = FALSE
INVARIANTS RegisteredExists
