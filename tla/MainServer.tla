----------------------------- MODULE MainServer -----------------------------
(***************************************************************************)
(* The main server: MainServer::Session's packet handlers and the DBHelper *)
(* methods they call.  One thread runs the event loop, so one handler runs *)
(* at a time, to its end; but a handler is a sequence of SQL statements,   *)
(* and between two of them the sub servers write to the same tables and    *)
(* the clock moves.  An action is what a handler does from one statement   *)
(* up to the next; pc names the action that comes next.                    *)
(***************************************************************************)
EXTENDS SharedDB, Sequences, FiniteSets

CONSTANTS
  Requests,     \* the packets clients send
  MainMayCrash  \* may the process be killed?

VARIABLES
  pc,    \* the handler's next step, "idle" between packets, "down" after a crash
  req,   \* the packet being handled
  found, \* rows of an earlier statement the handler still holds
  reply  \* the packet being built

mainVars == <<pc, req, found, reply>>

(* The packets, by handler.  UpdatePassword's old password is read from the *)
(* packet and then never looked at.                                        *)
Request ==
  [op : {"PassportInfoLogin"}, passport : Passports, password : Passwords]
    \cup
  [op : {"RegisterNewPassport"}, uid : Int, passport : Passports,
   password : Passwords, level : Levels]
    \cup
  [op : {"AddServerInfo"}, uid : Int, sid : ServerIds, ip : Machines,
   linux_pwd : LinuxPwds]
    \cup
  [op : {"UpdatePassword"}, uid : Int, newpassword1 : Passwords,
   newpassword2 : Passwords]
    \cup
  [op : {"SearchServerInfo", "DelServer"}, uid : Int, sid : ServerIds]
    \cup
  [op : {"GetUserInfoList", "NginxTest"}, uid : Int]
    \cup
  [op : {"HasQuanxian"}, uid : Int, level : Levels]
    \cup
  [op : {"GetServerIPBySid"}, sid : ServerIds]
    \cup
  [op : {"GetAllServerInfoList", "ReloadNginx"}]

NoRequest == [op |-> "none"]

ASSUME MainAssumption ==
  /\ Requests \subseteq Request
  /\ MainMayCrash \in BOOLEAN

(* status: the integers written; rows: the server rows described in text;   *)
(* online: those of them a list shows as on line.                           *)
Reply == [status : Seq(Int), rows : SUBSET ServerRow, online : SUBSET ServerRow]

NoReply == [status |-> <<>>, rows |-> {}, online |-> {}]

MainInit ==
  /\ DBInit
  /\ pc = "idle" /\ req = NoRequest /\ found = {} /\ reply = NoReply

-----------------------------------------------------------------------------
(* What a step may end with.                                                *)

Goto(step, rows) ==
  /\ pc' = step /\ found' = rows
  /\ UNCHANGED <<req, reply>>

AnswerRows(status, rows) ==
  /\ pc' = "SendPacket" /\ found' = {}
  /\ reply' = [reply EXCEPT !.status = @ \o status, !.rows = rows]
  /\ UNCHANGED req

Answer(status) == AnswerRows(status, {})

(* An uncaught exception or a read through a null pointer.                  *)
Die ==
  /\ pc' = "down" /\ found' = {} /\ reply' = NoReply /\ req' = NoRequest

(* Mutant: the limit one too high.                                          *)
PrivilegedTooFar(u) == u.qx_level <= 2

Privileged(u) == u.qx_level <= 1

TimedOut(s) == Elapsed(s) > 3

(* The statement each handler begins with.                                  *)
Entry(op) ==
  CASE op = "RegisterNewPassport"  -> "RegisterFindPassport"
    [] op = "AddServerInfo"        -> "AddServerFindUser"
    [] op = "SearchServerInfo"     -> "SearchServerFind"
    [] op = "UpdatePassword"       -> "UpdatePasswordFindUser"
    [] op = "GetAllServerInfoList" -> "ListServersFind"
    [] op = "NginxTest"            -> "NginxTestFindUser"
    [] op = "DelServer"            -> "DelServerFindUser"
    [] OTHER                       -> op

Dispatch ==
  /\ pc = "idle"
  /\ \E r \in Requests : req' = r /\ pc' = Entry(r.op)
  /\ UNCHANGED <<found, reply, tables>>

(* The reply is handed to the socket, and the loop waits for a packet.      *)
SendPacket ==
  /\ pc = "SendPacket"
  /\ pc' = "idle" /\ req' = NoRequest /\ found' = {} /\ reply' = NoReply
  /\ UNCHANGED tables

-----------------------------------------------------------------------------
(* Accounts                                                                 *)

PassportInfoLogin ==
  /\ pc = "PassportInfoLogin"
  /\ \E rows \in Select(UsersByPassport(req.passport)) :
       \/ rows = {} /\ Answer(<<2, -1>>)
       \/ \E u \in rows : u.password = req.password /\ Answer(<<0, u.user_id>>)
       \/ \E u \in rows : u.password # req.password /\ Answer(<<1, u.user_id>>)
  /\ UNCHANGED tables

RegisterFindPassport ==
  /\ pc = "RegisterFindPassport"
  /\ \E rows \in Select(UsersByPassport(req.passport)) : Goto("RegisterFindUser", rows)
  /\ UNCHANGED tables

(* found holds the accounts that have the new passport.  A requester       *)
(* without the level has 5 written to the reply, but the handler goes on   *)
(* to User_SetUserInfo, which looks at the level again.                     *)
RegisterFindUser ==
  /\ pc = "RegisterFindUser"
  /\ \E rows \in Select(UsersByUid(req.uid)) :
       \/ found # {} /\ Answer(<<2>>)
       \/ found = {} /\ rows = {} /\ Answer(<<4>>)
       \/ /\ found = {}
          /\ \E u \in rows :
               reply' = [reply EXCEPT !.status = IF Privileged(u) THEN <<>> ELSE <<5>>]
          /\ pc' = "SetUserLevel" /\ UNCHANGED <<req, found>>
  /\ UNCHANGED tables

(* Mutant: the level has been looked at already.                            *)
SetUserLevelTrusting ==
  /\ pc = "SetUserLevel"
  /\ \/ ReadsMayFail /\ Answer(<<4>>)
     \/ UsersByUid(req.uid) = {} /\ Answer(<<4>>)
     \/ UsersByUid(req.uid) # {} /\ Goto("SetUserPassport", {})
  /\ UNCHANGED tables

(* User_SetUserInfo: the requester's level, the passport, the insertion.    *)
SetUserLevel ==
  /\ pc = "SetUserLevel"
  /\ \/ ReadsMayFail /\ Answer(<<4>>)
     \/ UsersByUid(req.uid) = {} /\ Answer(<<4>>)
     \/ \E u \in UsersByUid(req.uid) :
          \/ ~Privileged(u) /\ Answer(<<5>>)
          \/ Privileged(u) /\ Goto("SetUserPassport", {})
  /\ UNCHANGED tables

SetUserPassport ==
  /\ pc = "SetUserPassport"
  /\ \E rows \in Select(UsersByPassport(req.passport)) :
       \/ rows # {} /\ Answer(<<2>>)
       \/ rows = {} /\ req.password = EmptyPassword /\ Answer(<<3>>)
       \/ rows = {} /\ req.password # EmptyPassword /\ Goto("SetUserInsert", {})
  /\ UNCHANGED tables

(* runCommand reports a failure by returning false, which is ignored here: *)
(* the handler expects an exception, and answers 1 whatever happened.       *)
SetUserInsert ==
  /\ pc = "SetUserInsert"
  /\ \E c \in RunCommand(req.password \in StorablePasswords /\ FreshUserIds # {}) :
       \/ ~c.applied /\ users' = users
       \/ /\ c.applied
          /\ \E id \in FreshUserIds :
               users' = WithUser(id, req.passport, req.password, req.level)
  /\ Answer(<<1>>)
  /\ UNCHANGED servers

UpdatePasswordFindUser ==
  /\ pc = "UpdatePasswordFindUser"
  /\ \E rows \in Select(UsersByUid(req.uid)) :
       \/ rows = {} /\ Answer(<<3>>)
       \/ \E u \in rows :
            \/ req.newpassword1 = u.password /\ Answer(<<2>>)
            \/ /\ req.newpassword1 # u.password
               /\ req.newpassword1 # req.newpassword2
               /\ Answer(<<5>>)
            \/ /\ req.newpassword1 # u.password
               /\ req.newpassword1 = req.newpassword2
               /\ Goto("UpdatePasswordUpdate", {u})
  /\ UNCHANGED tables

(* The level is written back as it was read.                                *)
UpdatePasswordUpdate ==
  /\ pc = "UpdatePasswordUpdate"
  /\ \E c \in RunCommand(req.newpassword1 \in StorablePasswords), u \in found :
       /\ users' = IF c.applied THEN WithPassword(req.uid, req.newpassword1, u.qx_level)
                                ELSE users
       /\ IF c.ok THEN Answer(<<1>>) ELSE Answer(<<4>>)
  /\ UNCHANGED servers

(* For an unknown uid the handler writes 2, goes on and reads result_vec[0]. *)
GetUserInfoList ==
  /\ pc = "GetUserInfoList"
  /\ \E rows \in Select(UsersByUid(req.uid)) :
       \/ rows = {} /\ Die
       \/ \E u \in rows : Answer(<<1, u.user_id, u.passport, u.qx_level>>)
  /\ UNCHANGED tables

HasQuanxian ==
  /\ pc = "HasQuanxian"
  /\ \E rows \in Select(UsersByUid(req.uid)) :
       \/ rows = {} /\ Answer(<<2>>)
       \/ \E u \in rows : u.qx_level > req.level /\ Answer(<<1>>)
       \/ \E u \in rows : u.qx_level <= req.level /\ Answer(<<0>>)
  /\ UNCHANGED tables

-----------------------------------------------------------------------------
(* Machines                                                                 *)

AddServerFindUser ==
  /\ pc = "AddServerFindUser"
  /\ \E rows \in Select(UsersByUid(req.uid)) :
       \/ rows = {} /\ Answer(<<1>>)
       \/ \E u \in rows :
            \/ ~Privileged(u) /\ Answer(<<3>>)
            \/ Privileged(u) /\ Goto("RepeatFindUser", {})
  /\ UNCHANGED tables

(* Server_UIDANDSID_Is_Repeat: is the user there, and does one of that      *)
(* user's own rows have the id?                                             *)
RepeatFindUser ==
  /\ pc = "RepeatFindUser"
  /\ \/ ReadsMayFail /\ Answer(<<2>>)
     \/ UsersByUid(req.uid) = {} /\ Answer(<<1>>)
     \/ UsersByUid(req.uid) # {} /\ Goto("RepeatFindServers", {})
  /\ UNCHANGED tables

RepeatFindServers ==
  /\ pc = "RepeatFindServers"
  /\ \/ ReadsMayFail /\ Answer(<<2>>)
     \/ /\ \E s \in ServersOf(req.uid) : s.server_id = req.sid
        /\ Answer(<<4>>)
     \/ /\ \A s \in ServersOf(req.uid) : s.server_id # req.sid
        /\ Goto("AddServerInsert", {})
  /\ UNCHANGED tables

(* The primary key refuses an id that another user's row has.               *)
AddServerInsert ==
  /\ pc = "AddServerInsert"
  /\ \E c \in RunCommand(ServersBySid(req.sid) = {}) :
       /\ servers' = IF c.applied THEN WithServer(req.uid, req.sid, req.ip, req.linux_pwd)
                                  ELSE servers
       /\ IF c.ok THEN Answer(<<0>>) ELSE Answer(<<2>>)
  /\ UNCHANGED users

SearchServerFind ==
  /\ pc = "SearchServerFind"
  /\ \E rows \in Select(ServersOf(req.uid) \cap ServersBySid(req.sid)) :
       \/ rows = {} /\ Answer(<<1>>)
       \/ \E s \in rows : Goto("SearchServerTime", {s})
  /\ UNCHANGED tables

(* The clock is read after the row.  A timed-out row has 2 written to the   *)
(* reply, but the handler goes on to write 0 and the information.           *)
SearchServerTime ==
  /\ pc = "SearchServerTime"
  /\ \E s \in found : IF TimedOut(s) THEN AnswerRows(<<2, 0>>, {s})
                                  ELSE AnswerRows(<<0>>, {s})
  /\ UNCHANGED tables

ListServersFind ==
  /\ pc = "ListServersFind"
  /\ \E rows \in Select(servers) : Goto("ListServersLine", rows)
  /\ UNCHANGED tables

(* One line of the list; the clock is read again for every line.            *)
ListServersLine ==
  /\ pc = "ListServersLine"
  /\ \/ found = {} /\ pc' = "SendPacket" /\ UNCHANGED <<req, found, reply>>
     \/ \E s \in found :
          /\ found' = found \ {s}
          /\ reply' = [reply EXCEPT !.rows = @ \cup {s},
                                    !.online = IF TimedOut(s) THEN @ ELSE @ \cup {s}]
          /\ UNCHANGED <<pc, req>>
  /\ UNCHANGED tables

GetServerIPBySid ==
  /\ pc = "GetServerIPBySid"
  /\ \E rows \in Select(servers) :
       \/ \E s \in rows : s.server_id = req.sid /\ AnswerRows(<<1>>, {s})
       \/ (\A s \in rows : s.server_id # req.sid) /\ Answer(<<2>>)
  /\ UNCHANGED tables

DelServerFindUser ==
  /\ pc = "DelServerFindUser"
  /\ \E rows \in Select(UsersByUid(req.uid)) :
       \/ rows = {} /\ Answer(<<2>>)
       \/ \E u \in rows :
            \/ ~Privileged(u) /\ Answer(<<3>>)
            \/ Privileged(u) /\ Goto("DelServerFind", {})
  /\ UNCHANGED tables

DelServerFind ==
  /\ pc = "DelServerFind"
  /\ \E rows \in Select(ServersOf(req.uid) \cap ServersBySid(req.sid)) :
       \/ rows = {} /\ Answer(<<4>>)
       \/ rows # {} /\ Goto("DelServerDelete", {})
  /\ UNCHANGED tables

(* The row was looked up by owner and id; the DELETE names the id only.     *)
DelServerDelete ==
  /\ pc = "DelServerDelete"
  /\ \E c \in RunCommand(TRUE) :
       /\ servers' = IF c.applied THEN WithoutServer(req.sid) ELSE servers
       /\ IF c.ok THEN Answer(<<1>>) ELSE Answer(<<5>>)
  /\ UNCHANGED users

-----------------------------------------------------------------------------
(* nginx.  The scripts print 0 or 1, or nothing when they cannot be run:    *)
(* std::stoi then throws out of the event loop.                             *)

NginxTestFindUser ==
  /\ pc = "NginxTestFindUser"
  /\ \E rows \in Select(UsersByUid(req.uid)) :
       \/ rows = {} /\ Answer(<<1>>)
       \/ \E u \in rows :
            \/ ~Privileged(u) /\ Answer(<<2>>)
            \/ Privileged(u) /\ Goto("NginxTestScript", {})
  /\ UNCHANGED tables

NginxTestScript ==
  /\ pc = "NginxTestScript"
  /\ (\E status \in {0, 3} : Answer(<<status>>)) \/ Die
  /\ UNCHANGED tables

ReloadNginx ==
  /\ pc = "ReloadNginx"
  /\ (\E out \in {0, 1} : Answer(<<out>>)) \/ Die
  /\ UNCHANGED tables

-----------------------------------------------------------------------------

CrashMain ==
  /\ MainMayCrash /\ pc # "down"
  /\ Die
  /\ UNCHANGED tables

RestartMain ==
  /\ pc = "down"
  /\ pc' = "idle" /\ UNCHANGED <<req, found, reply, tables>>

AccountStep ==
  \/ PassportInfoLogin \/ HasQuanxian \/ GetUserInfoList
  \/ RegisterFindPassport \/ RegisterFindUser
  \/ SetUserLevel \/ SetUserPassport \/ SetUserInsert
  \/ UpdatePasswordFindUser \/ UpdatePasswordUpdate

MachineStep ==
  \/ AddServerFindUser \/ RepeatFindUser \/ RepeatFindServers \/ AddServerInsert
  \/ SearchServerFind \/ SearchServerTime
  \/ ListServersFind \/ ListServersLine \/ GetServerIPBySid
  \/ DelServerFindUser \/ DelServerFind \/ DelServerDelete

NginxStep == NginxTestFindUser \/ NginxTestScript \/ ReloadNginx

MainNext ==
  /\ \/ Dispatch \/ SendPacket
     \/ AccountStep \/ MachineStep \/ NginxStep
     \/ CrashMain \/ RestartMain
  /\ UNCHANGED now

(* What the main server has to expect of the rest: time passes, and sub     *)
(* servers write their own columns of any row.                              *)
SubServerReports ==
  /\ \E s \in servers, m \in Machines, stamp \in Stamps :
       servers' = WithReport(s.user_id, s.server_id, m, stamp)
  /\ UNCHANGED <<users, now>>

Environment ==
  /\ SubServerReports \/ (Tick /\ UNCHANGED tables)
  /\ UNCHANGED mainVars

allVars == <<tables, now, mainVars>>

MainSpec == MainInit /\ [][MainNext \/ Environment]_allVars

-----------------------------------------------------------------------------
(* Properties                                                               *)

Steps ==
  {"idle", "down", "SendPacket", "PassportInfoLogin", "HasQuanxian", "GetUserInfoList",
   "RegisterFindPassport", "RegisterFindUser", "SetUserLevel", "SetUserPassport",
   "SetUserInsert", "UpdatePasswordFindUser", "UpdatePasswordUpdate",
   "AddServerFindUser", "RepeatFindUser", "RepeatFindServers", "AddServerInsert",
   "SearchServerFind", "SearchServerTime", "ListServersFind", "ListServersLine",
   "GetServerIPBySid", "DelServerFindUser", "DelServerFind", "DelServerDelete",
   "NginxTestFindUser", "NginxTestScript", "ReloadNginx"}

(* Types.  The rows a handler holds between two statements are rows of the  *)
(* table it reads, and it holds a packet exactly while it runs.             *)
MainTypeOK ==
  /\ DBTypeOK
  /\ pc \in Steps
  /\ req \in Requests \cup {NoRequest}
  /\ pc \in {"idle", "down"} <=> req = NoRequest
  /\ IF pc \in {"RegisterFindUser", "UpdatePasswordUpdate"}
       THEN found \subseteq UserRow ELSE found \subseteq ServerRow
  /\ reply \in Reply

(* No two accounts have the same name, although the column is not a key:    *)
(* registration looks the name up twice and then inserts, and passwords are *)
(* updated in place.                                                        *)
PassportUnique == UniquePassports(users)

(* Every machine is under the care of an account that exists and may        *)
(* administer, whatever fails: AddServerInfo's checks and its INSERT are    *)
(* separate statements, and the tables have no foreign key.                 *)
OwnersPrivileged ==
  \A s \in servers : \E u \in users : u.user_id = s.user_id /\ u.qx_level <= 1

(* What a reply claims is true of the tables when it is sent: a login, a    *)
(* permission, an addition, a password change, a removal.                   *)
SuccessIsReal ==
  pc = "SendPacket" =>
    /\ req.op = "PassportInfoLogin" /\ reply.status[1] = 0 =>
         \E u \in users : /\ u.user_id = reply.status[2]
                          /\ u.passport = req.passport /\ u.password = req.password
    /\ req.op = "HasQuanxian" /\ reply.status = <<0>> =>
         \E u \in users : u.user_id = req.uid /\ u.qx_level <= req.level
    /\ req.op = "AddServerInfo" /\ reply.status = <<0>> =>
         \E s \in servers : /\ s.server_id = req.sid /\ s.user_id = req.uid
                            /\ s.server_ip = req.ip
    /\ req.op = "UpdatePassword" /\ reply.status = <<1>> =>
         \E u \in users : u.user_id = req.uid /\ u.password = req.newpassword2
    /\ req.op = "DelServer" /\ reply.status = <<1>> =>
         \A s \in servers : s.server_id # req.sid

(* Who may change what, with requests interleaved with reports and crashes: *)
(* an account appears only for a registration by an administrator, and its  *)
(* id, name and level never change; a password changes only in a request    *)
(* for that account; a machine appears only for the administrator who asks, *)
(* and disappears only when its owner asks.                                 *)
WritesAreAuthorised ==
  [][ /\ \A u \in users : \E v \in users' :
           /\ [v EXCEPT !.password = u.password] = u
           /\ u.password # v.password => req.op = "UpdatePassword" /\ req.uid = u.user_id
      /\ \A v \in users' : (\A u \in users : u.user_id # v.user_id) =>
           /\ req.op = "RegisterNewPassport"
           /\ \E u \in users : u.user_id = req.uid /\ u.qx_level <= 1
      /\ \A s \in servers' : (\A t \in servers : t.server_id # s.server_id) =>
           /\ req.op = "AddServerInfo" /\ s.user_id = req.uid
           /\ \E u \in users : u.user_id = req.uid /\ u.qx_level <= 1
      /\ \A t \in servers : (\A s \in servers' : s.server_id # t.server_id) =>
           /\ req.op = "DelServer" /\ req.uid = t.user_id
    ]_allVars

(* A break is missing where a registration is refused for lack of level: 5  *)
(* is written to the reply and the handler goes on.  The second look at the *)
(* level comes to the same or fails; no other verdict ever follows, and a   *)
(* registration that is not refused so is answered by one number.           *)
RefusalsStand ==
  pc = "SendPacket" /\ req.op = "RegisterNewPassport" =>
    reply.status \in {<<1>>, <<2>>, <<3>>, <<4>>, <<5, 5>>, <<5, 4>>}

Registry == INSTANCE Registry

(* As long as SELECTs do not fail, the handlers' statements, interleaved    *)
(* with reports and cut by crashes, change the tables as the register does. *)
ImplementsRegistry == Registry!RegistrySpec

-----------------------------------------------------------------------------
(* What comments say, and the code does not keep.                           *)

(* "sql执行失败 ... return sql_error" (DBHelper.cc:193): a registration is     *)
(* answered 1 only when the account was inserted.  runCommand returns false *)
(* and never throws, so the failure is not noticed.                         *)
RegisteredExists ==
  pc = "SendPacket" /\ req.op = "RegisterNewPassport" /\ reply.status = <<1>> =>
    \E u \in users : u.passport = req.passport /\ u.password = req.password
=============================================================================
