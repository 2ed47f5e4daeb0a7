------------------------- MODULE MainServerAnswers -------------------------
(***************************************************************************)
(* What the main server tells its clients is true when the packet is sent,  *)
(* and what it writes has been asked for by someone who may, for every set  *)
(* of accounts, machines and packets.                                       *)
(***************************************************************************)
EXTENDS MainServerProofs

-----------------------------------------------------------------------------
(* The inductive invariant                                                  *)

(* The steps of the handlers whose answers claim something.                 *)
ClaimSteps ==
  {"PassportInfoLogin", "HasQuanxian"}
    \cup UpdatePasswordSteps \cup AddServerSteps \cup DelServerSteps

ClaimOps ==
  {"PassportInfoLogin", "HasQuanxian", "UpdatePassword", "AddServerInfo", "DelServer"}

(* Whose packet the steps that OpInv does not name are for.                 *)
StepOps ==
  /\ pc \in {"PassportInfoLogin", "HasQuanxian", "GetUserInfoList", "GetServerIPBySid",
             "ReloadNginx"} => req.op = pc
  /\ pc \in {"SearchServerFind", "SearchServerTime", "ListServersFind", "ListServersLine",
             "NginxTestFindUser", "NginxTestScript"} =>
       req.op \notin ClaimOps \cup {"RegisterNewPassport"}

(* Nothing is written to such an answer before its last step.               *)
Unanswered == pc \in ClaimSteps \cup {"idle", "down"} => reply = NoReply

(* What UpdatePassword has compared before its UPDATE.                      *)
PasswordsAgree ==
  pc = "UpdatePasswordUpdate" => req.newpassword1 = req.newpassword2

AnswerInv == OwnersInv /\ StepOps /\ Unanswered /\ PasswordsAgree /\ SuccessIsReal

-----------------------------------------------------------------------------

LEMMA StatusOne ==
  ASSUME reply = NoReply, NEW a, Answer(<< a >>)
  PROVE  reply'.status = <<a>>
<1>1. <<a>> \in Seq({a}) /\ <<>> \o <<a>> = <<a>>
  OBVIOUS
<1> QED
  BY <1>1 DEF Answer, AnswerRows, NoReply

LEMMA StatusTwo ==
  ASSUME reply = NoReply, NEW a, NEW b, Answer(<< a, b >>)
  PROVE  reply'.status = <<a, b>>
<1>1. <<a, b>> \in Seq({a, b}) /\ <<>> \o <<a, b>> = <<a, b>>
  OBVIOUS
<1> QED
  BY <1>1 DEF Answer, AnswerRows, NoReply

(* The bookkeeping: which packet a step is for, and when answers are begun. *)
LEMMA StepsKeep ==
  ASSUME AnswerInv, MainNext
  PROVE  StepOps' /\ Unanswered' /\ PasswordsAgree'
<1> USE DEF AnswerInv, OwnersInv, TypeInv, OpInv, StepOps, Unanswered, PasswordsAgree,
            ClaimSteps, ClaimOps, RegisterSteps, UpdatePasswordSteps, AddServerSteps,
            DelServerSteps, Goto, Answer, AnswerRows, Die
<1>1. CASE Dispatch
  <2>1. PICK r \in Requests : req' = r /\ pc' = Entry(r.op)
    BY <1>1 DEF Dispatch
  <2>2. r.op \in {"PassportInfoLogin", "RegisterNewPassport", "AddServerInfo",
                  "UpdatePassword", "SearchServerInfo", "DelServer", "GetUserInfoList",
                  "NginxTest", "HasQuanxian", "GetServerIPBySid", "GetAllServerInfoList",
                  "ReloadNginx"}
    BY MainAssumption DEF Request
  <2>3. reply' = NoReply
    BY <1>1 DEF Dispatch
  <2> QED
    BY <2>1, <2>2, <2>3 DEF Entry
<1>2. CASE SendPacket \/ CrashMain \/ RestartMain
  BY <1>2 DEF SendPacket, CrashMain, RestartMain
<1>3. CASE AccountStep
  BY <1>3 DEF AccountStep, PassportInfoLogin, HasQuanxian, GetUserInfoList,
    RegisterFindPassport, RegisterFindUser, SetUserLevel, SetUserPassport, SetUserInsert,
    UpdatePasswordFindUser, UpdatePasswordUpdate
<1>4. CASE MachineStep
  BY <1>4 DEF MachineStep, AddServerFindUser, RepeatFindUser, RepeatFindServers,
    AddServerInsert, SearchServerFind, SearchServerTime, ListServersFind, ListServersLine,
    GetServerIPBySid, DelServerFindUser, DelServerFind, DelServerDelete
<1>5. CASE NginxStep
  BY <1>5 DEF NginxStep, NginxTestFindUser, NginxTestScript, ReloadNginx
<1> QED
  BY <1>1, <1>2, <1>3, <1>4, <1>5 DEF MainNext

(* Who answers a packet of a kind that claims something.                    *)
LEMMA Answerers ==
  ASSUME AnswerInv, MainNext, pc' = "SendPacket", req'.op \in ClaimOps
  PROVE  /\ req' = req /\ reply = NoReply
         /\ \/ PassportInfoLogin /\ req.op = "PassportInfoLogin"
            \/ HasQuanxian /\ req.op = "HasQuanxian"
            \/ /\ UpdatePasswordFindUser \/ UpdatePasswordUpdate
               /\ req.op = "UpdatePassword"
            \/ /\ AddServerFindUser \/ RepeatFindUser \/ RepeatFindServers \/ AddServerInsert
               /\ req.op = "AddServerInfo"
            \/ /\ DelServerFindUser \/ DelServerFind \/ DelServerDelete
               /\ req.op = "DelServer"
<1> USE DEF AnswerInv, OwnersInv, TypeInv, OpInv, StepOps, Unanswered,
            ClaimSteps, ClaimOps, RegisterSteps, UpdatePasswordSteps, AddServerSteps,
            DelServerSteps, Goto, Answer, AnswerRows, Die
<1>1. CASE Dispatch
  <2>1. PICK r \in Requests : pc' = Entry(r.op)
    BY <1>1 DEF Dispatch
  <2>2. r.op \in {"PassportInfoLogin", "RegisterNewPassport", "AddServerInfo",
                  "UpdatePassword", "SearchServerInfo", "DelServer", "GetUserInfoList",
                  "NginxTest", "HasQuanxian", "GetServerIPBySid", "GetAllServerInfoList",
                  "ReloadNginx"}
    BY MainAssumption DEF Request
  <2> QED
    BY <2>1, <2>2 DEF Entry
<1>2. CASE SendPacket \/ CrashMain \/ RestartMain
  BY <1>2 DEF SendPacket, CrashMain, RestartMain
<1>3. CASE AccountStep
  BY <1>3 DEF AccountStep, PassportInfoLogin, HasQuanxian, GetUserInfoList,
    RegisterFindPassport, RegisterFindUser, SetUserLevel, SetUserPassport, SetUserInsert,
    UpdatePasswordFindUser, UpdatePasswordUpdate
<1>4. CASE MachineStep
  BY <1>4 DEF MachineStep, AddServerFindUser, RepeatFindUser, RepeatFindServers,
    AddServerInsert, SearchServerFind, SearchServerTime, ListServersFind, ListServersLine,
    GetServerIPBySid, DelServerFindUser, DelServerFind, DelServerDelete
<1>5. CASE NginxStep
  BY <1>5 DEF NginxStep, NginxTestFindUser, NginxTestScript, ReloadNginx
<1> QED
  BY <1>1, <1>2, <1>3, <1>4, <1>5 DEF MainNext

-----------------------------------------------------------------------------
(* One lemma per claim                                                      *)

LEMMA LoginClaim ==
  ASSUME PassportInfoLogin, reply = NoReply, reply'.status[1] = 0
  PROVE  \E u \in users' : /\ u.user_id = reply'.status[2]
                           /\ u.passport = req'.passport /\ u.password = req'.password
<1>1. PICK rows \in Select(UsersByPassport(req.passport)) :
        \/ Answer(<<2, -1>>)
        \/ \E u \in rows : u.password = req.password /\ Answer(<<0, u.user_id>>)
        \/ \E u \in rows : Answer(<<1, u.user_id>>)
  BY DEF PassportInfoLogin
<1>2. \A a, b : Answer(<<a, b>>) => reply'.status[1] = a /\ reply'.status[2] = b
  BY StatusTwo
<1>3. ~Answer(<<2, -1>>) /\ \A b : ~Answer(<<1, b>>)
  BY <1>2
<1>4. PICK u \in rows : u.password = req.password /\ Answer(<<0, u.user_id>>)
  BY <1>1, <1>3
<1>5. u \in users /\ u.passport = req.passport
  BY SelectedRows DEF UsersByPassport
<1> QED
  BY <1>2, <1>4, <1>5 DEF PassportInfoLogin, Answer, AnswerRows, tables

LEMMA LevelClaim ==
  ASSUME HasQuanxian, reply = NoReply, reply'.status = << 0 >>
  PROVE  \E u \in users' : u.user_id = req'.uid /\ u.qx_level <= req'.level
<1>1. PICK rows \in Select(UsersByUid(req.uid)) :
        \/ Answer(<<2>>) \/ Answer(<<1>>)
        \/ \E u \in rows : u.qx_level <= req.level /\ Answer(<<0>>)
  BY DEF HasQuanxian
<1>2. ~Answer(<< 1 >>) /\ ~Answer(<< 2 >>)
  <2>1. \A a : Answer(<<a>>) => reply'.status[1] = a
    BY StatusOne
  <2> QED
    BY <2>1
<1>3. PICK u \in rows : u.qx_level <= req.level /\ Answer(<<0>>)
  BY <1>1, <1>2
<1>4. u \in users /\ u.user_id = req.uid
  BY SelectedRows DEF UsersByUid
<1> QED
  BY <1>3, <1>4 DEF HasQuanxian, Answer, AnswerRows, tables

LEMMA AdditionClaim ==
  ASSUME AddServerFindUser \/ RepeatFindUser \/ RepeatFindServers \/ AddServerInsert,
         pc' = "SendPacket", reply = NoReply, reply'.status = << 0 >>
  PROVE  \E s \in servers' : /\ s.server_id = req'.sid /\ s.user_id = req'.uid
                             /\ s.server_ip = req'.ip
<1>1. ~Answer(<< 1 >>) /\ ~Answer(<< 2 >>) /\ ~Answer(<< 3 >>) /\ ~Answer(<< 4 >>)
  <2>1. \A a : Answer(<<a>>) => reply'.status[1] = a
    BY StatusOne
  <2> QED
    BY <2>1
<1>2. AddServerInsert
  BY <1>1 DEF AddServerFindUser, RepeatFindUser, RepeatFindServers, Goto
<1>3. PICK c \in RunCommand(ServersBySid(req.sid) = {}) :
        /\ servers' = IF c.applied THEN WithServer(req.uid, req.sid, req.ip, req.linux_pwd)
                                   ELSE servers
        /\ IF c.ok THEN Answer(<<0>>) ELSE Answer(<<2>>)
  BY <1>2 DEF AddServerInsert
<1>4. c.applied /\ req' = req
  BY <1>1, <1>3 DEF RunCommand, Answer, AnswerRows
<1> DEFINE s == [server_id |-> req.sid, user_id |-> req.uid, server_ip |-> req.ip,
                 linux_pwd |-> req.linux_pwd, server_info |-> NoInfo,
                 last_update_time |-> OldStamp]
<1>5. s \in servers'
  BY <1>3, <1>4 DEF WithServer
<1>6. s.server_id = req.sid /\ s.user_id = req.uid /\ s.server_ip = req.ip
  OBVIOUS
<1> HIDE DEF s
<1> QED
  BY <1>4, <1>5, <1>6

LEMMA PasswordClaim ==
  ASSUME AnswerInv, UpdatePasswordFindUser \/ UpdatePasswordUpdate,
         pc' = "SendPacket", reply = NoReply, reply'.status = << 1 >>
  PROVE  \E u \in users' : u.user_id = req'.uid /\ u.password = req'.newpassword2
<1>1. ~Answer(<< 2 >>) /\ ~Answer(<< 3 >>) /\ ~Answer(<< 4 >>) /\ ~Answer(<< 5 >>)
  <2>1. \A a : Answer(<<a>>) => reply'.status[1] = a
    BY StatusOne
  <2> QED
    BY <2>1
<1>2. UpdatePasswordUpdate
  BY <1>1 DEF UpdatePasswordFindUser, Goto
<1>3. PICK c \in RunCommand(req.newpassword1 \in StorablePasswords), u \in found :
        /\ users' = IF c.applied THEN WithPassword(req.uid, req.newpassword1, u.qx_level)
                                 ELSE users
        /\ IF c.ok THEN Answer(<<1>>) ELSE Answer(<<4>>)
  BY <1>2 DEF UpdatePasswordUpdate
<1>4. c.applied /\ req' = req
  BY <1>1, <1>3 DEF RunCommand, Answer, AnswerRows
<1>5. u \in users /\ u.user_id = req.uid /\ u \in UserRow
  BY <1>2 DEF UpdatePasswordUpdate, AnswerInv, OwnersInv, LearntInv, TypeInv, MainTypeOK,
              DBTypeOK
<1> DEFINE v == [u EXCEPT !.password = req.newpassword1, !.qx_level = u.qx_level]
<1>6. v \in users'
  BY <1>3, <1>4, <1>5 DEF WithPassword
<1>7. v.user_id = req.uid /\ v.password = req.newpassword1
  BY <1>5 DEF UserRow
<1>8. req.newpassword1 = req.newpassword2
  BY <1>2 DEF UpdatePasswordUpdate, AnswerInv, PasswordsAgree
<1> QED
  BY <1>4, <1>6, <1>7, <1>8

LEMMA RemovalClaim ==
  ASSUME DelServerFindUser \/ DelServerFind \/ DelServerDelete,
         pc' = "SendPacket", reply = NoReply, reply'.status = << 1 >>
  PROVE  \A s \in servers' : s.server_id # req'.sid
<1>1. ~Answer(<< 2 >>) /\ ~Answer(<< 3 >>) /\ ~Answer(<< 4 >>) /\ ~Answer(<< 5 >>)
  <2>1. \A a : Answer(<<a>>) => reply'.status[1] = a
    BY StatusOne
  <2> QED
    BY <2>1
<1>2. DelServerDelete
  BY <1>1 DEF DelServerFindUser, DelServerFind, Goto
<1>3. PICK c \in RunCommand(TRUE) :
        /\ servers' = IF c.applied THEN WithoutServer(req.sid) ELSE servers
        /\ IF c.ok THEN Answer(<<1>>) ELSE Answer(<<5>>)
  BY <1>2 DEF DelServerDelete
<1>4. c.applied /\ req' = req
  BY <1>1, <1>3 DEF RunCommand, Answer, AnswerRows
<1> QED
  BY <1>3, <1>4 DEF WithoutServer, ServersBySid

LEMMA SuccessStep ==
  ASSUME AnswerInv, MainNext
  PROVE  SuccessIsReal'
<1> SUFFICES ASSUME pc' = "SendPacket", req'.op \in ClaimOps PROVE SuccessIsReal'
  BY DEF SuccessIsReal, ClaimOps
<1>1. CASE req'.op = "PassportInfoLogin"
  BY <1>1, Answerers, LoginClaim DEF SuccessIsReal
<1>2. CASE req'.op = "HasQuanxian"
  BY <1>2, Answerers, LevelClaim DEF SuccessIsReal
<1>3. CASE req'.op = "AddServerInfo"
  BY <1>3, Answerers, AdditionClaim DEF SuccessIsReal
<1>4. CASE req'.op = "UpdatePassword"
  BY <1>4, Answerers, PasswordClaim DEF SuccessIsReal
<1>5. CASE req'.op = "DelServer"
  BY <1>5, Answerers, RemovalClaim DEF SuccessIsReal
<1> QED
  BY <1>1, <1>2, <1>3, <1>4, <1>5 DEF ClaimOps

(* A report changes neither whose a row is nor its id or address.           *)
LEMMA ReportKeepsRows ==
  ASSUME DBTypeOK, SubServerReports
  PROVE  /\ \A s \in servers : \E t \in servers' : /\ t.server_id = s.server_id
                                                   /\ t.user_id = s.user_id
                                                   /\ t.server_ip = s.server_ip
         /\ \A t \in servers' : \E s \in servers : /\ t.server_id = s.server_id
                                                   /\ t.user_id = s.user_id
                                                   /\ t.server_ip = s.server_ip
<1>1. PICK r \in servers, m \in Machines, stamp \in Stamps :
        servers' = WithReport(r.user_id, r.server_id, m, stamp)
  BY DEF SubServerReports
<1> DEFINE new(s) == IF s.server_id = r.server_id /\ s.user_id = r.user_id
                       THEN [s EXCEPT !.server_info = m, !.last_update_time = stamp] ELSE s
<1>2. servers' = {new(s) : s \in servers}
  BY <1>1 DEF WithReport
<1>3. \A s \in servers : /\ new(s).server_id = s.server_id /\ new(s).user_id = s.user_id
                         /\ new(s).server_ip = s.server_ip
  BY DEF DBTypeOK, ServerRow
<1> HIDE DEF new
<1> QED
  BY <1>2, <1>3

LEMMA EnvironmentAnswers ==
  ASSUME AnswerInv, Environment
  PROVE  AnswerInv'
<1>1. UNCHANGED <<users, mainVars>> /\ OwnersInv' /\ DBTypeOK
  BY EnvironmentOwnersInv
     DEF AnswerInv, OwnersInv, TypeInv, MainTypeOK, Environment, SubServerReports, tables
<1>2. StepOps' /\ Unanswered' /\ PasswordsAgree'
  BY <1>1 DEF AnswerInv, StepOps, Unanswered, PasswordsAgree, mainVars
<1>3. SuccessIsReal'
  <2>1. CASE SubServerReports
    BY <1>1, <2>1, ReportKeepsRows DEF AnswerInv, SuccessIsReal, mainVars
  <2>2. CASE UNCHANGED tables
    BY <1>1, <2>2 DEF AnswerInv, SuccessIsReal, mainVars, tables
  <2> QED
    BY <2>1, <2>2 DEF Environment
<1> QED
  BY <1>1, <1>2, <1>3 DEF AnswerInv

LEMMA AnswerInvariance == MainSpec => []AnswerInv
<1>1. MainInit => AnswerInv
  BY InitOwnersInv DEF MainInit, AnswerInv, StepOps, Unanswered, PasswordsAgree, SuccessIsReal
<1>2. ASSUME AnswerInv, [MainNext \/ Environment]_allVars PROVE AnswerInv'
  <2>1. CASE MainNext
    BY <1>2, <2>1, OwnersInvStep, StepsKeep, SuccessStep DEF AnswerInv
  <2>2. CASE Environment
    BY <1>2, <2>2, EnvironmentAnswers
  <2>3. CASE UNCHANGED allVars
    <3>1. OwnersInv'
      BY <1>2, OwnersInvStep DEF AnswerInv
    <3> QED
      BY <1>2, <2>3, <3>1 DEF AnswerInv, StepOps, Unanswered, PasswordsAgree, SuccessIsReal,
                              allVars, mainVars, tables
  <2> QED
    BY <1>2, <2>1, <2>2, <2>3
<1> QED
  BY <1>1, <1>2, PTL DEF MainSpec

(* A client that is told a login, a permission, an addition, a changed      *)
(* password or a removal finds it in the tables when the packet is sent,    *)
(* whichever statements have failed and whatever sub servers have written.  *)
THEOREM SuccessesAreReal == MainSpec => []SuccessIsReal
<1>1. AnswerInv => SuccessIsReal
  BY DEF AnswerInv
<1> QED
  BY <1>1, AnswerInvariance, PTL

-----------------------------------------------------------------------------
(* The verdict of a registration                                            *)

(* What the first look has written, and that the second will find the same: *)
(* nobody's level changes in between.                                       *)
VerdictInv ==
  /\ pc \in {"idle", "down"} \cup (RegisterSteps \ {"SetUserLevel"}) => reply.status = << >>
  /\ pc = "SetUserLevel" =>
       \/ reply.status = << >> /\ IsAdministrator(req.uid)
       \/ reply.status = << 5 >> /\ ~IsAdministrator(req.uid)
  /\ RefusalsStand

(* An id names one account, so one row settles who administers.             *)
LEMMA RowSettles ==
  ASSUME OwnersInv, NEW u \in UsersByUid(req.uid)
  PROVE  IsAdministrator(req.uid) <=> Privileged(u)
BY DEF OwnersInv, UniqueUserIds, UsersByUid, IsAdministrator, Privileged

LEMMA StatusJoined ==
  ASSUME reply \in Reply, NEW status, NEW rows, AnswerRows(status, rows)
  PROVE  reply'.status = reply.status \o status
BY DEF AnswerRows, Reply

LEMMA SeqEqual ==
  ASSUME NEW S, NEW s \in Seq(S), NEW t \in Seq(S), Len(s) = Len(t),
         \A i \in 1 .. Len(s) : s[i] = t[i]
  PROVE  s = t
OBVIOUS

(* One number is added to what has been written: nothing, or the 5.         *)
LEMMA VerdictAdded ==
  ASSUME reply \in Reply, reply.status \in {<< >>, << 5 >>}, NEW a \in Int, Answer(<< a >>)
  PROVE  /\ pc' = "SendPacket"
         /\ reply.status = << >> => reply'.status = << a >>
         /\ reply.status = << 5 >> => reply'.status = << 5, a >>
<1>1. reply'.status = reply.status \o << a >>
  BY StatusJoined DEF Answer
<1>2. << >> \o << a >> = << a >>
  <2>1. << a >> \in Seq(Int)
    OBVIOUS
  <2> QED
    BY <2>1
<1>3. << 5 >> \o << a >> = << 5, a >>
  <2> DEFINE one == << 5 >> \o << a >>
             two == << 5, a >>
  <2>1. << 5 >> \in Seq(Int) /\ << a >> \in Seq(Int) /\ two \in Seq(Int)
    OBVIOUS
  <2>2. one \in Seq(Int) /\ Len(one) = 2 /\ one[1] = 5 /\ one[2] = a
    BY <2>1
  <2>3. Len(two) = 2 /\ two[1] = 5 /\ two[2] = a
    OBVIOUS
  <2>4. ASSUME NEW i \in 1 .. Len(one) PROVE one[i] = two[i]
    <3>1. i = 1 \/ i = 2
      BY <2>2
    <3> QED
      BY <3>1, <2>2, <2>3
  <2> HIDE DEF one, two
  <2>5. one = two
    BY <2>1, <2>2, <2>3, <2>4, SeqEqual
  <2> QED
    BY <2>5 DEF one, two
<1>4. pc' = "SendPacket"
  BY DEF Answer, AnswerRows
<1> QED
  BY <1>1, <1>2, <1>3, <1>4

(* Who answers a registration, and who leads to its later steps.            *)
LEMMA Registrars ==
  ASSUME AnswerInv, MainNext
  PROVE  /\ pc' = "SendPacket" /\ req'.op = "RegisterNewPassport" =>
              RegisterFindUser \/ SetUserLevel \/ SetUserPassport \/ SetUserInsert
         /\ pc' = "SetUserLevel" => RegisterFindUser
         /\ pc' \in RegisterSteps \ {"SetUserLevel"} =>
              Dispatch \/ RegisterFindPassport \/ SetUserLevel \/ SetUserPassport
         /\ pc' \in {"idle", "down"} => reply' = NoReply
<1> USE DEF AnswerInv, OwnersInv, TypeInv, OpInv, StepOps, Unanswered, ClaimSteps, ClaimOps,
            RegisterSteps, UpdatePasswordSteps, AddServerSteps, DelServerSteps,
            Goto, Answer, AnswerRows, Die
<1>1. CASE Dispatch
  <2>1. PICK r \in Requests : pc' = Entry(r.op)
    BY <1>1 DEF Dispatch
  <2>2. r.op \in {"PassportInfoLogin", "RegisterNewPassport", "AddServerInfo",
                  "UpdatePassword", "SearchServerInfo", "DelServer", "GetUserInfoList",
                  "NginxTest", "HasQuanxian", "GetServerIPBySid", "GetAllServerInfoList",
                  "ReloadNginx"}
    BY MainAssumption DEF Request
  <2> QED
    BY <1>1, <2>1, <2>2 DEF Entry
<1>2. CASE SendPacket \/ CrashMain \/ RestartMain
  BY <1>2 DEF SendPacket, CrashMain, RestartMain
<1>3. CASE AccountStep
  BY <1>3 DEF AccountStep, PassportInfoLogin, HasQuanxian, GetUserInfoList,
    RegisterFindPassport, RegisterFindUser, SetUserLevel, SetUserPassport, SetUserInsert,
    UpdatePasswordFindUser, UpdatePasswordUpdate
<1>4. CASE MachineStep
  BY <1>4 DEF MachineStep, AddServerFindUser, RepeatFindUser, RepeatFindServers,
    AddServerInsert, SearchServerFind, SearchServerTime, ListServersFind, ListServersLine,
    GetServerIPBySid, DelServerFindUser, DelServerFind, DelServerDelete
<1>5. CASE NginxStep
  BY <1>5 DEF NginxStep, NginxTestFindUser, NginxTestScript, ReloadNginx
<1> QED
  BY <1>1, <1>2, <1>3, <1>4, <1>5 DEF MainNext

LEMMA FirstLook ==
  ASSUME AnswerInv, VerdictInv, RegisterFindUser
  PROVE  \/ /\ pc' = "SetUserLevel"
            /\ \/ reply'.status = << >> /\ IsAdministrator(req.uid)'
               \/ reply'.status = << 5 >> /\ ~IsAdministrator(req.uid)'
         \/ pc' = "SendPacket" /\ reply'.status \in {<< 2 >>, << 4 >>}
<1>1. reply \in Reply /\ reply.status = << >> /\ OwnersInv
  BY DEF AnswerInv, OwnersInv, TypeInv, MainTypeOK, VerdictInv, RegisterFindUser, RegisterSteps
<1>2. PICK rows \in Select(UsersByUid(req.uid)) :
        \/ Answer(<< 2 >>)
        \/ Answer(<< 4 >>)
        \/ /\ \E u \in rows :
               reply' = [reply EXCEPT !.status = IF Privileged(u) THEN << >> ELSE << 5 >>]
           /\ pc' = "SetUserLevel" /\ UNCHANGED <<req, found>>
  BY DEF RegisterFindUser
<1>3. ASSUME Answer(<< 2 >>) \/ Answer(<< 4 >>)
      PROVE  pc' = "SendPacket" /\ reply'.status \in {<< 2 >>, << 4 >>}
  BY <1>1, <1>3, VerdictAdded
<1>4. ASSUME NEW u \in rows,
             reply' = [reply EXCEPT !.status = IF Privileged(u) THEN << >> ELSE << 5 >>],
             pc' = "SetUserLevel", UNCHANGED <<req, found>>
      PROVE  \/ reply'.status = << >> /\ IsAdministrator(req.uid)'
             \/ reply'.status = << 5 >> /\ ~IsAdministrator(req.uid)'
  <2>1. IsAdministrator(req.uid) <=> Privileged(u)
    BY <1>1, RowSettles, SelectedRows
  <2>2. IsAdministrator(req.uid)' <=> IsAdministrator(req.uid)
    BY <1>4 DEF RegisterFindUser, IsAdministrator, tables
  <2>3. reply'.status = IF Privileged(u) THEN << >> ELSE << 5 >>
    BY <1>1, <1>4 DEF Reply
  <2> QED
    BY <2>1, <2>2, <2>3
<1>5. CASE Answer(<< 2 >>) \/ Answer(<< 4 >>)
  BY <1>3, <1>5
<1>6. CASE /\ \E u \in rows :
               reply' = [reply EXCEPT !.status = IF Privileged(u) THEN << >> ELSE << 5 >>]
           /\ pc' = "SetUserLevel" /\ UNCHANGED <<req, found>>
  <2>1. PICK u \in rows :
          reply' = [reply EXCEPT !.status = IF Privileged(u) THEN << >> ELSE << 5 >>]
    BY <1>6
  <2>2. \/ reply'.status = << >> /\ IsAdministrator(req.uid)'
        \/ reply'.status = << 5 >> /\ ~IsAdministrator(req.uid)'
    BY <2>1, <1>4, <1>6
  <2> QED
    BY <2>2, <1>6
<1> QED
  BY <1>2, <1>5, <1>6

(* What each later step of a registration may leave.                        *)
LEMMA SecondLook ==
  ASSUME AnswerInv, VerdictInv, SetUserLevel
  PROVE  \/ pc' = "SetUserPassport" /\ reply'.status = << >>
         \/ pc' = "SendPacket" /\ reply'.status \in {<< 4 >>, << 5, 4 >>, << 5, 5 >>}
<1>1. /\ reply \in Reply /\ reply.status \in {<< >>, << 5 >>} /\ OwnersInv
      /\ reply.status = << >> <=> IsAdministrator(req.uid)
  BY DEF AnswerInv, OwnersInv, TypeInv, MainTypeOK, VerdictInv, SetUserLevel
<1>2. CASE Answer(<< 4 >>)
  <2>1. CASE reply.status = << >>
    BY <1>1, <1>2, <2>1, VerdictAdded
  <2>2. CASE reply.status = << 5 >>
    <3>1. pc' = "SendPacket" /\ reply'.status = << 5, 4 >>
      BY <1>1, <1>2, <2>2, VerdictAdded
    <3> QED
      BY <3>1
  <2> QED
    BY <1>1, <2>1, <2>2
<1>3. ASSUME NEW u \in UsersByUid(req.uid), ~Privileged(u), Answer(<< 5 >>)
      PROVE  pc' = "SendPacket" /\ reply'.status = << 5, 5 >>
  <2>1. reply.status # << >>
    BY <1>1, <1>3, RowSettles
  <2> QED
    BY <1>1, <1>3, <2>1, VerdictAdded
<1>4. ASSUME NEW u \in UsersByUid(req.uid), Privileged(u), Goto("SetUserPassport", {})
      PROVE  pc' = "SetUserPassport" /\ reply'.status = << >>
  BY <1>1, <1>4, RowSettles DEF Goto
<1> QED
  BY <1>2, <1>3, <1>4 DEF SetUserLevel

LEMMA LastSteps ==
  ASSUME AnswerInv, VerdictInv, SetUserPassport \/ SetUserInsert
  PROVE  \/ pc' = "SetUserInsert" /\ reply'.status = << >>
         \/ pc' = "SendPacket" /\ reply'.status \in {<< 1 >>, << 2 >>, << 3 >>}
<1>1. reply \in Reply /\ reply.status = << >>
  BY DEF AnswerInv, OwnersInv, TypeInv, MainTypeOK, VerdictInv, SetUserPassport, SetUserInsert,
         RegisterSteps
<1>2. \/ Answer(<< 1 >>) \/ Answer(<< 2 >>) \/ Answer(<< 3 >>)
      \/ Goto("SetUserInsert", {})
  BY DEF SetUserPassport, SetUserInsert
<1>3. CASE Answer(<< 1 >>) \/ Answer(<< 2 >>) \/ Answer(<< 3 >>)
  BY <1>1, <1>3, VerdictAdded
<1> QED
  BY <1>1, <1>2, <1>3 DEF Goto

LEMMA VerdictStep ==
  ASSUME AnswerInv, VerdictInv, MainNext
  PROVE  VerdictInv'
<1>1. CASE RegisterFindUser
  BY <1>1, FirstLook DEF VerdictInv, RefusalsStand, RegisterSteps
<1>2. CASE SetUserLevel
  BY <1>2, SecondLook DEF VerdictInv, RefusalsStand, RegisterSteps
<1>3. CASE SetUserPassport \/ SetUserInsert
  BY <1>3, LastSteps DEF VerdictInv, RefusalsStand, RegisterSteps
<1>4. CASE ~(RegisterFindUser \/ SetUserLevel \/ SetUserPassport \/ SetUserInsert)
  <2>1. /\ pc' # "SetUserLevel"
        /\ ~(pc' = "SendPacket" /\ req'.op = "RegisterNewPassport")
        /\ pc' \in RegisterSteps => Dispatch \/ RegisterFindPassport
        /\ pc' \in {"idle", "down"} => reply' = NoReply
    BY <1>4, Registrars DEF RegisterSteps
  <2>2. Dispatch \/ RegisterFindPassport => reply'.status = << >>
    BY DEF Dispatch, RegisterFindPassport, Goto, VerdictInv, RegisterSteps
  <2> QED
    BY <2>1, <2>2 DEF VerdictInv, RefusalsStand, NoReply
<1> QED
  BY <1>1, <1>2, <1>3, <1>4

(* A registration that has been refused for lack of level stays refused:    *)
(* the handler goes on after it has written the 5, but finds the account as *)
(* it was, and no account is opened.                                        *)
THEOREM RefusalsAreFinal == MainSpec => []RefusalsStand
<1>1. MainInit => VerdictInv
  BY DEF MainInit, VerdictInv, RefusalsStand, RegisterSteps, NoReply
<1>2. ASSUME AnswerInv, VerdictInv, [MainNext \/ Environment]_allVars PROVE VerdictInv'
  <2>1. CASE UNCHANGED <<users, mainVars>>
    BY <1>2, <2>1 DEF VerdictInv, RefusalsStand, IsAdministrator, mainVars
  <2> QED
    BY <1>2, <2>1, VerdictStep DEF Environment, SubServerReports, allVars, tables
<1>3. VerdictInv => RefusalsStand
  BY DEF VerdictInv
<1> QED
  BY <1>1, <1>2, <1>3, AnswerInvariance, PTL DEF MainSpec

-----------------------------------------------------------------------------
(* Who has asked for a write                                                *)

UniqueServerIds == \A s, t \in servers : s.server_id = t.server_id => s = t

(* What registration has learnt of its requester, and a removal of its row. *)
AskedInv ==
  /\ pc \in {"SetUserPassport", "SetUserInsert"} => IsAdministrator(req.uid)
  /\ pc = "DelServerDelete" =>
       \A s \in servers : s.server_id = req.sid => s.user_id = req.uid

WritesInv == OwnersInv /\ UniqueServerIds /\ AskedInv

LEMMA Askers ==
  ASSUME MainNext
  PROVE  /\ pc' \in {"SetUserPassport", "SetUserInsert"} => SetUserLevel \/ SetUserPassport
         /\ pc' = "DelServerDelete" => DelServerFind
<1> USE DEF Goto, Answer, AnswerRows, Die
<1>1. CASE AccountStep
  BY <1>1 DEF AccountStep, PassportInfoLogin, HasQuanxian, GetUserInfoList,
    RegisterFindPassport, RegisterFindUser, SetUserLevel, SetUserPassport, SetUserInsert,
    UpdatePasswordFindUser, UpdatePasswordUpdate
<1>2. CASE MachineStep
  BY <1>2 DEF MachineStep, AddServerFindUser, RepeatFindUser, RepeatFindServers,
    AddServerInsert, SearchServerFind, SearchServerTime, ListServersFind, ListServersLine,
    GetServerIPBySid, DelServerFindUser, DelServerFind, DelServerDelete
<1>3. CASE NginxStep
  BY <1>3 DEF NginxStep, NginxTestFindUser, NginxTestScript, ReloadNginx
<1>4. CASE Dispatch
  <2>1. PICK r \in Requests : pc' = Entry(r.op)
    BY <1>4 DEF Dispatch
  <2>2. r.op \in {"PassportInfoLogin", "RegisterNewPassport", "AddServerInfo",
                  "UpdatePassword", "SearchServerInfo", "DelServer", "GetUserInfoList",
                  "NginxTest", "HasQuanxian", "GetServerIPBySid", "GetAllServerInfoList",
                  "ReloadNginx"}
    BY MainAssumption DEF Request
  <2> QED
    BY <2>1, <2>2 DEF Entry
<1> QED
  BY <1>1, <1>2, <1>3, <1>4 DEF MainNext, SendPacket, CrashMain, RestartMain

LEMMA AskedStep ==
  ASSUME WritesInv, MainNext
  PROVE  AskedInv'
<1>1. ASSUME SetUserLevel, pc' \in {"SetUserPassport", "SetUserInsert"}
      PROVE  IsAdministrator(req.uid)'
  <2>1. PICK u \in UsersByUid(req.uid) : Privileged(u) /\ req' = req
    BY <1>1 DEF SetUserLevel, Answer, AnswerRows, Goto
  <2> QED
    BY <1>1, <2>1 DEF SetUserLevel, UsersByUid, Privileged, IsAdministrator, tables
<1>2. ASSUME SetUserPassport
      PROVE  IsAdministrator(req.uid)'
  BY <1>2 DEF SetUserPassport, WritesInv, AskedInv, IsAdministrator, tables, Answer,
              AnswerRows, Goto
<1>3. ASSUME DelServerFind, pc' = "DelServerDelete"
      PROVE  \A s \in servers' : s.server_id = req'.sid => s.user_id = req'.uid
  <2>1. PICK rows \in Select(ServersOf(req.uid) \cap ServersBySid(req.sid)) :
          rows # {} /\ req' = req
    BY <1>3 DEF DelServerFind, Answer, AnswerRows, Goto
  <2>2. PICK s \in servers : s.user_id = req.uid /\ s.server_id = req.sid
    BY <2>1, SelectedRows DEF ServersOf, ServersBySid
  <2> QED
    BY <1>3, <2>1, <2>2 DEF DelServerFind, WritesInv, UniqueServerIds, tables
<1> QED
  BY <1>1, <1>2, <1>3, Askers DEF AskedInv

LEMMA ServerIdsStep ==
  ASSUME WritesInv, MainNext
  PROVE  UniqueServerIds'
<1>1. CASE servers' \subseteq servers
  BY <1>1 DEF WritesInv, UniqueServerIds
<1>2. CASE AddServerInsert /\ ~UNCHANGED servers
  <2>1. /\ servers' = WithServer(req.uid, req.sid, req.ip, req.linux_pwd)
        /\ ServersBySid(req.sid) = {}
    BY <1>2 DEF AddServerInsert, RunCommand
  <2>2. \A s \in servers : s.server_id # req.sid
    BY <2>1 DEF ServersBySid
  <2>3. \A s, t \in servers' :
          s.server_id = t.server_id => s = t
    BY <2>1, <2>2 DEF WithServer, WritesInv, UniqueServerIds
  <2> QED
    BY <2>3 DEF UniqueServerIds
<1>3. DelServerDelete => servers' \subseteq servers
  BY DEF DelServerDelete, WithoutServer
<1> QED
  BY <1>1, <1>2, <1>3, Writers

LEMMA EnvironmentWrites ==
  ASSUME WritesInv, Environment
  PROVE  WritesInv'
<1>1. UNCHANGED <<users, mainVars>> /\ OwnersInv' /\ DBTypeOK
  BY EnvironmentOwnersInv
     DEF WritesInv, OwnersInv, TypeInv, MainTypeOK, Environment, SubServerReports, tables
<1>2. CASE SubServerReports
  <2>1. PICK r \in servers, m \in Machines, stamp \in Stamps :
          servers' = WithReport(r.user_id, r.server_id, m, stamp)
    BY <1>2 DEF SubServerReports
  <2> DEFINE new(s) == IF s.server_id = r.server_id /\ s.user_id = r.user_id
                         THEN [s EXCEPT !.server_info = m, !.last_update_time = stamp] ELSE s
  <2>2. servers' = {new(s) : s \in servers}
    BY <2>1 DEF WithReport
  <2>3. \A s \in servers : new(s).server_id = s.server_id
    BY <1>1 DEF DBTypeOK, ServerRow
  <2> HIDE DEF new
  <2>4. UniqueServerIds'
    BY <2>2, <2>3 DEF WritesInv, UniqueServerIds
  <2>5. \A t \in servers' : \E s \in servers : /\ t.server_id = s.server_id
                                                /\ t.user_id = s.user_id
    BY <1>1, <1>2, ReportKeepsRows
  <2>6. AskedInv'
    BY <1>1, <2>5 DEF WritesInv, AskedInv, IsAdministrator, mainVars
  <2> QED
    BY <1>1, <2>4, <2>6 DEF WritesInv
<1>3. CASE UNCHANGED tables
  BY <1>1, <1>3 DEF WritesInv, UniqueServerIds, AskedInv, IsAdministrator, mainVars, tables
<1> QED
  BY <1>2, <1>3 DEF Environment

LEMMA WritesInvariance == MainSpec => []WritesInv
<1>1. MainInit => WritesInv
  BY InitOwnersInv DEF MainInit, DBInit, WritesInv, UniqueServerIds, AskedInv
<1>2. ASSUME WritesInv, [MainNext \/ Environment]_allVars PROVE WritesInv'
  <2>1. CASE MainNext
    BY <1>2, <2>1, OwnersInvStep, AskedStep, ServerIdsStep DEF WritesInv
  <2>2. CASE Environment
    BY <1>2, <2>2, EnvironmentWrites
  <2>3. CASE UNCHANGED allVars
    <3>1. OwnersInv'
      BY <1>2, OwnersInvStep DEF WritesInv
    <3> QED
      BY <1>2, <2>3, <3>1 DEF WritesInv, UniqueServerIds, AskedInv, IsAdministrator, allVars,
                              mainVars, tables
  <2> QED
    BY <1>2, <2>1, <2>2, <2>3
<1> QED
  BY <1>1, <1>2, PTL DEF MainSpec

-----------------------------------------------------------------------------
(* The four parts of WritesAreAuthorised, as what a step of the server may  *)
(* not do.                                                                  *)

AccountsKept ==
  \A u \in users : \E v \in users' :
    /\ [v EXCEPT !.password = u.password] = u
    /\ u.password # v.password => req.op = "UpdatePassword" /\ req.uid = u.user_id

AccountsAsked ==
  \A v \in users' : (\A u \in users : u.user_id # v.user_id) =>
    /\ req.op = "RegisterNewPassport"
    /\ \E u \in users : u.user_id = req.uid /\ u.qx_level <= 1

MachinesAsked ==
  \A s \in servers' : (\A t \in servers : t.server_id # s.server_id) =>
    /\ req.op = "AddServerInfo" /\ s.user_id = req.uid
    /\ \E u \in users : u.user_id = req.uid /\ u.qx_level <= 1

RemovalsAsked ==
  \A t \in servers : (\A s \in servers' : s.server_id # t.server_id) =>
    /\ req.op = "DelServer" /\ req.uid = t.user_id

LEMMA SameAccount ==
  ASSUME NEW u \in UserRow
  PROVE  [u EXCEPT !.password = u.password] = u
BY DEF UserRow

LEMMA AccountWrites ==
  ASSUME WritesInv, MainNext
  PROVE  AccountsKept /\ AccountsAsked
<1>1. users \subseteq UserRow /\ OwnersInv
  BY DEF WritesInv, OwnersInv, TypeInv, MainTypeOK, DBTypeOK
<1>2. CASE UNCHANGED users
  BY <1>1, <1>2, SameAccount DEF AccountsKept, AccountsAsked
<1>3. CASE UpdatePasswordUpdate /\ ~UNCHANGED users
  <2> DEFINE new(u) == IF u.user_id = req.uid THEN [u EXCEPT !.password = req.newpassword1]
                                              ELSE u
  <2>1. users' = {new(u) : u \in users}
    BY <1>1, <1>3, UpdateKeepsAccounts
  <2>2. req.op = "UpdatePassword"
    BY <1>1, <1>3 DEF UpdatePasswordUpdate, OwnersInv, TypeInv, OpInv, UpdatePasswordSteps
  <2>3. ASSUME NEW u \in users
        PROVE  /\ new(u) \in users' /\ new(u).user_id = u.user_id
               /\ [new(u) EXCEPT !.password = u.password] = u
               /\ u.password # new(u).password => req.uid = u.user_id
    <3>1. u \in UserRow
      BY <1>1
    <3> QED
      BY <2>1, <3>1 DEF UserRow
  <2> HIDE DEF new
  <2> QED
    BY <2>1, <2>2, <2>3 DEF AccountsKept, AccountsAsked
<1>4. CASE SetUserInsert /\ ~UNCHANGED users
  <2>1. PICK id : users' = WithUser(id, req.passport, req.password, req.level)
    BY <1>4 DEF SetUserInsert
  <2>2. users \subseteq users'
    BY <2>1 DEF WithUser
  <2>3. req.op = "RegisterNewPassport" /\ IsAdministrator(req.uid)
    BY <1>1, <1>4 DEF SetUserInsert, WritesInv, AskedInv, OwnersInv, TypeInv, OpInv,
                      RegisterSteps
  <2> QED
    BY <1>1, <2>2, <2>3, SameAccount DEF AccountsKept, AccountsAsked, IsAdministrator
<1> QED
  BY <1>2, <1>3, <1>4, Writers

LEMMA MachineWrites ==
  ASSUME WritesInv, MainNext
  PROVE  MachinesAsked /\ RemovalsAsked
<1>1. CASE UNCHANGED servers
  BY <1>1 DEF MachinesAsked, RemovalsAsked
<1>2. CASE AddServerInsert /\ ~UNCHANGED servers
  <2>1. servers' = WithServer(req.uid, req.sid, req.ip, req.linux_pwd)
    BY <1>2 DEF AddServerInsert
  <2>2. /\ servers \subseteq servers'
        /\ \A s \in servers' : s \in servers \/ s.user_id = req.uid
    BY <2>1 DEF WithServer
  <2>3. req.op = "AddServerInfo" /\ IsAdministrator(req.uid)
    BY <1>2 DEF AddServerInsert, WritesInv, OwnersInv, LearntInv, TypeInv, OpInv,
                AddServerSteps, CheckedSteps
  <2> QED
    BY <2>2, <2>3 DEF MachinesAsked, RemovalsAsked, IsAdministrator
<1>3. CASE DelServerDelete /\ ~UNCHANGED servers
  <2>1. servers' = WithoutServer(req.sid)
    BY <1>3 DEF DelServerDelete
  <2>2. /\ servers' \subseteq servers
        /\ \A t \in servers \ servers' : t.server_id = req.sid
    BY <2>1 DEF WithoutServer, ServersBySid
  <2>3. /\ req.op = "DelServer"
        /\ \A s \in servers : s.server_id = req.sid => s.user_id = req.uid
    BY <1>3 DEF DelServerDelete, WritesInv, AskedInv, OwnersInv, TypeInv, OpInv,
                DelServerSteps
  <2> QED
    BY <2>2, <2>3 DEF MachinesAsked, RemovalsAsked
<1> QED
  BY <1>1, <1>2, <1>3, Writers

LEMMA EnvironmentWritesNothing ==
  ASSUME WritesInv, Environment
  PROVE  AccountsKept /\ AccountsAsked /\ MachinesAsked /\ RemovalsAsked
<1>1. UNCHANGED users /\ DBTypeOK
  BY DEF WritesInv, OwnersInv, TypeInv, MainTypeOK, Environment, SubServerReports, tables
<1>2. AccountsKept /\ AccountsAsked
  BY <1>1, SameAccount DEF AccountsKept, AccountsAsked, DBTypeOK
<1>3. CASE SubServerReports
  BY <1>1, <1>2, <1>3, ReportKeepsRows DEF MachinesAsked, RemovalsAsked
<1>4. CASE UNCHANGED tables
  BY <1>2, <1>4 DEF MachinesAsked, RemovalsAsked, tables
<1> QED
  BY <1>3, <1>4 DEF Environment

(* Whatever is interleaved, fails or crashes: an account appears only for   *)
(* a registration by an administrator and keeps its id, name and level, its *)
(* password changes only in a request for it, and a machine appears and     *)
(* disappears only for the one in whose care it is.                         *)
THEOREM WritesHaveBeenAsked == MainSpec => WritesAreAuthorised
<1>1. ASSUME WritesInv, MainNext \/ Environment
      PROVE  AccountsKept /\ AccountsAsked /\ MachinesAsked /\ RemovalsAsked
  BY <1>1, AccountWrites, MachineWrites, EnvironmentWritesNothing
<1>2. WritesInv /\ [MainNext \/ Environment]_allVars =>
        [AccountsKept /\ AccountsAsked /\ MachinesAsked /\ RemovalsAsked]_allVars
  BY <1>1
<1> QED
  BY <1>2, WritesInvariance, PTL
     DEF MainSpec, WritesAreAuthorised, AccountsKept, AccountsAsked, MachinesAsked,
         RemovalsAsked
=============================================================================
