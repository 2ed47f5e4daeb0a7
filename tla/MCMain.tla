------------------------------- MODULE MCMain -------------------------------
(* Small instances of the main server for TLC.                              *)
EXTENDS MainServer

CONSTANTS m1, noInfo, pwEmpty, pwA, pwB, pwLong, k1

(* An administrator and an ordinary account, put there when the database is *)
(* set up; levels 1 and 2 are the two sides of the limit.                   *)
Root  == [user_id |-> 1, passport |-> 100, password |-> pwA, qx_level |-> 1]
Guest == [user_id |-> 2, passport |-> 101, password |-> pwA, qx_level |-> 2]

MCInitUsers == {Root, Guest}

(* Passwords: empty, two ordinary ones, one too long for the column.        *)
MCPasswords == {pwEmpty, pwA, pwB, pwLong}

AccountRequests(Uids) ==
  [op : {"PassportInfoLogin"}, passport : Passports, password : {pwA, pwB}]
    \cup
  [op : {"RegisterNewPassport"}, uid : Uids, passport : Passports,
   password : {pwEmpty, pwA, pwLong}, level : Levels]
    \cup
  [op : {"UpdatePassword"}, uid : Uids, newpassword1 : {pwEmpty, pwA, pwB, pwLong},
   newpassword2 : {pwEmpty, pwB, pwLong}]
    \cup
  [op : {"GetUserInfoList"}, uid : Uids]
    \cup
  [op : {"HasQuanxian"}, uid : Uids, level : Levels]

MachineRequests(Uids) ==
  [op : {"AddServerInfo"}, uid : Uids, sid : ServerIds, ip : Machines, linux_pwd : LinuxPwds]
    \cup
  [op : {"SearchServerInfo", "DelServer"}, uid : Uids, sid : ServerIds]
    \cup
  [op : {"NginxTest"}, uid : Uids]
    \cup
  [op : {"GetServerIPBySid"}, sid : ServerIds]
    \cup
  [op : {"GetAllServerInfoList", "ReloadNginx"}]

(* Every packet, from the two accounts, a third that may be registered, and *)
(* an id nobody has.                                                        *)
AllRequests == AccountRequests({1, 2, 3, 9}) \cup MachineRequests({1, 2, 3, 9})
=============================================================================
