-------------------------- MODULE MainServerProofs --------------------------
(***************************************************************************)
(* Proofs about the main server for every set of accounts, machines and    *)
(* packets, with statements failing and the process killed at will.        *)
(***************************************************************************)
EXTENDS MainServer, TLAPS

-----------------------------------------------------------------------------
(* The inductive invariant.                                                 *)

RegisterSteps == {"RegisterFindPassport", "RegisterFindUser", "SetUserLevel",
                  "SetUserPassport", "SetUserInsert"}
UpdatePasswordSteps == {"UpdatePasswordFindUser", "UpdatePasswordUpdate"}
AddServerSteps == {"AddServerFindUser", "RepeatFindUser", "RepeatFindServers",
                   "AddServerInsert"}
DelServerSteps == {"DelServerFindUser", "DelServerFind", "DelServerDelete"}
CheckedSteps == {"RepeatFindUser", "RepeatFindServers", "AddServerInsert"}

(* A step of a handler runs for that handler's packet, and past the first   *)
(* SELECT of AddServerInfo its uid is an account's.                         *)
OpInv ==
  /\ pc \in RegisterSteps => req.op = "RegisterNewPassport"
  /\ pc \in UpdatePasswordSteps => req.op = "UpdatePassword"
  /\ pc \in AddServerSteps => req.op = "AddServerInfo"
  /\ pc \in DelServerSteps => req.op = "DelServer"
  /\ pc \in CheckedSteps => req.uid \in UserIds

TypeInv == MainTypeOK /\ OpInv

(* What a handler has learnt about an account stays true until it acts on it. *)
IsAdministrator(uid) == \E u \in users : u.user_id = uid /\ u.qx_level <= 1

LearntInv ==
  /\ pc \in CheckedSteps => IsAdministrator(req.uid)
  /\ pc = "UpdatePasswordUpdate" =>
       \A u \in found : u \in users /\ u.user_id = req.uid

OwnersInv == TypeInv /\ UniqueUserIds(users) /\ LearntInv /\ OwnersPrivileged

-----------------------------------------------------------------------------

(* The fields of a packet, by handler. *)
LEMMA RequestFields ==
  ASSUME NEW r \in Requests
  PROVE  /\ r.op = "RegisterNewPassport" =>
              /\ r.uid \in Int /\ r.passport \in Passports
              /\ r.password \in Passwords /\ r.level \in Levels
         /\ r.op = "UpdatePassword" =>
              /\ r.uid \in Int
              /\ r.newpassword1 \in Passwords /\ r.newpassword2 \in Passwords
         /\ r.op = "AddServerInfo" =>
              /\ r.uid \in Int /\ r.sid \in ServerIds
              /\ r.ip \in Machines /\ r.linux_pwd \in LinuxPwds
         /\ r.op = "DelServer" => r.uid \in Int /\ r.sid \in ServerIds
         /\ r.op # "none"
BY MainAssumption DEF Request

(* The numbers in an account row are integers. *)
LEMMA UserNumbers ==
  ASSUME NEW u \in UserRow
  PROVE  u.user_id \in Int /\ u.passport \in Int /\ u.qx_level \in Int
<1>1. u.user_id \in UserIds /\ u.passport \in Passports /\ u.qx_level \in Levels
  BY DEF UserRow
<1>2. UserIds \subseteq Int /\ Passports \subseteq Int /\ Levels \subseteq Int
  BY DBAssumption
<1> QED
  BY <1>1, <1>2

LEMMA InitTypeInv == MainInit => TypeInv
BY DBAssumption DEF MainInit, DBInit, TypeInv, MainTypeOK, DBTypeOK, OpInv, Steps, NoReply,
  Reply, NoRequest, RegisterSteps, UpdatePasswordSteps, AddServerSteps, DelServerSteps, CheckedSteps

(* What an answer of integers leaves is a well-formed reply.                *)
AnswerStep ==
  reply' \in Reply /\ pc' = "SendPacket" /\ found' = {} /\ req' = req

LEMMA AnswerRowsStep ==
  ASSUME reply \in Reply, NEW status \in Seq(Int), NEW rows \in SUBSET ServerRow,
         AnswerRows(status, rows)
  PROVE  AnswerStep
<1>1. reply.status \in Seq(Int) /\ reply.online \in SUBSET ServerRow
  BY DEF Reply
<1>2. reply.status \o status \in Seq(Int)
  BY <1>1
<1>3. reply' = [status |-> reply.status \o status, rows |-> rows, online |-> reply.online]
  BY DEF AnswerRows, Reply
<1>4. reply' \in Reply
  BY <1>1, <1>2, <1>3 DEF Reply
<1> QED
  BY <1>4 DEF AnswerRows, AnswerStep

LEMMA AnswerOne ==
  ASSUME reply \in Reply, NEW a \in Int, Answer(<<a>>)
  PROVE  AnswerStep
<1>1. <<a>> \in Seq(Int) /\ {} \in SUBSET ServerRow
  OBVIOUS
<1> QED
  BY <1>1, AnswerRowsStep, Zenon DEF Answer

LEMMA AnswerTwo ==
  ASSUME reply \in Reply, NEW a \in Int, NEW b \in Int, Answer(<<a, b>>)
  PROVE  AnswerStep
<1>1. <<a, b>> \in Seq(Int) /\ {} \in SUBSET ServerRow
  OBVIOUS
<1> QED
  BY <1>1, AnswerRowsStep, Zenon DEF Answer

LEMMA AnswerOneRow ==
  ASSUME reply \in Reply, NEW a \in Int, NEW s \in ServerRow, AnswerRows(<<a>>, {s})
  PROVE  AnswerStep
<1>1. <<a>> \in Seq(Int) /\ {s} \in SUBSET ServerRow
  OBVIOUS
<1> QED
  BY <1>1, AnswerRowsStep, Zenon

-----------------------------------------------------------------------------
(* Types: what each way to end a step preserves.                            *)

LEMMA AnswerTypeInv ==
  ASSUME TypeInv, pc \notin {"idle", "down"}, DBTypeOK', AnswerStep
  PROVE  TypeInv'
BY DEF AnswerStep, TypeInv, MainTypeOK, OpInv, Steps, RegisterSteps, UpdatePasswordSteps,
  AddServerSteps, DelServerSteps, CheckedSteps

LEMMA GotoTypeInv ==
  ASSUME TypeInv, pc \notin {"idle", "down"}, DBTypeOK',
         NEW step \in Steps \ {"idle", "down"}, NEW rows,
         IF step \in {"RegisterFindUser", "UpdatePasswordUpdate"}
           THEN rows \subseteq UserRow ELSE rows \subseteq ServerRow,
         step \in RegisterSteps => req.op = "RegisterNewPassport",
         step \in UpdatePasswordSteps => req.op = "UpdatePassword",
         step \in AddServerSteps => req.op = "AddServerInfo",
         step \in DelServerSteps => req.op = "DelServer",
         step \in CheckedSteps => req.uid \in UserIds,
         Goto(step, rows)
  PROVE  TypeInv'
BY DEF TypeInv, MainTypeOK, OpInv, Goto

LEMMA DieTypeInv ==
  ASSUME TypeInv, DBTypeOK', Die
  PROVE  TypeInv'
BY DEF TypeInv, MainTypeOK, OpInv, Die, Steps, NoRequest, NoReply, Reply, RegisterSteps,
  UpdatePasswordSteps, AddServerSteps, DelServerSteps, CheckedSteps

(* Rows a SELECT returns are rows of the table.                             *)
LEMMA SelectedRows ==
  ASSUME NEW rows, NEW result \in Select(rows)
  PROVE  result \subseteq rows
BY DEF Select

LEMMA DispatchTypeInv ==
  ASSUME TypeInv, Dispatch, UNCHANGED now
  PROVE  TypeInv'
<1>1. PICK r \in Requests : req' = r /\ pc' = Entry(r.op)
  BY DEF Dispatch
<1>2. r.op \in {"PassportInfoLogin", "RegisterNewPassport", "AddServerInfo", "UpdatePassword",
                "SearchServerInfo", "DelServer", "GetUserInfoList", "NginxTest", "HasQuanxian",
                "GetServerIPBySid", "GetAllServerInfoList", "ReloadNginx"}
  BY MainAssumption DEF Request
<1>3. /\ pc' \in Steps \ {"idle", "down"}
      /\ pc' \notin {"RegisterFindUser", "UpdatePasswordUpdate"}
      /\ OpInv'
  BY <1>1, <1>2 DEF Entry, OpInv, Steps, RegisterSteps, UpdatePasswordSteps, AddServerSteps,
    DelServerSteps, CheckedSteps
<1>4. r # NoRequest
  BY <1>2 DEF NoRequest
<1> QED
  BY <1>1, <1>3, <1>4 DEF TypeInv, MainTypeOK, DBTypeOK, Dispatch, tables

LEMMA AccountStepTypeInv ==
  ASSUME TypeInv, AccountStep, UNCHANGED now
  PROVE  TypeInv'
<1>1. reply \in Reply /\ DBTypeOK
  BY DEF TypeInv, MainTypeOK
<1>2. UNCHANGED tables => DBTypeOK'
  BY <1>1 DEF DBTypeOK, tables
<1>3. \A u \in users : u \in UserRow /\ u.user_id \in Int /\ u.passport \in Int
                     /\ u.qx_level \in Int
  BY <1>1, UserNumbers DEF DBTypeOK
<1>4. CASE PassportInfoLogin
  <2>1. ASSUME Answer(<<2, -1>>) PROVE AnswerStep
    BY <1>1, <2>1, AnswerTwo
  <2>2. ASSUME NEW u \in users, Answer(<<0, u.user_id>>) \/ Answer(<<1, u.user_id>>)
        PROVE  AnswerStep
    BY <1>1, <1>3, <2>2, AnswerTwo
  <2>3. AnswerStep
    BY <1>4, <2>1, <2>2, SelectedRows DEF PassportInfoLogin, UsersByPassport
  <2> QED
    BY <1>2, <1>4, <2>3, AnswerTypeInv DEF PassportInfoLogin
<1>5. CASE HasQuanxian
  <2>1. AnswerStep
    BY <1>1, <1>5, AnswerOne DEF HasQuanxian
  <2> QED
    BY <1>2, <1>5, <2>1, AnswerTypeInv DEF HasQuanxian
<1>6. CASE GetUserInfoList
  <2>1. ASSUME NEW u \in users, Answer(<<1, u.user_id, u.passport, u.qx_level>>)
        PROVE  AnswerStep
    <3>1. <<1, u.user_id, u.passport, u.qx_level>> \in Seq(Int) /\ {} \in SUBSET ServerRow
      BY <1>3
    <3> QED
      BY <1>1, <2>1, <3>1, AnswerRowsStep, Zenon DEF Answer
  <2>2. AnswerStep \/ Die
    BY <1>6, <2>1, SelectedRows DEF GetUserInfoList, UsersByUid
  <2> QED
    BY <1>2, <1>6, <2>2, AnswerTypeInv, DieTypeInv DEF GetUserInfoList
<1>7. CASE SetUserLevel
  <2>1. AnswerStep \/ Goto("SetUserPassport", {})
    BY <1>1, <1>7, AnswerOne DEF SetUserLevel
  <2>2. req.op = "RegisterNewPassport" /\ pc \notin {"idle", "down"} /\ DBTypeOK'
    BY <1>2, <1>7 DEF SetUserLevel, TypeInv, OpInv, RegisterSteps, UpdatePasswordSteps,
      AddServerSteps, DelServerSteps, CheckedSteps
  <2> QED
    BY <2>1, <2>2, AnswerTypeInv, GotoTypeInv DEF Steps, RegisterSteps, UpdatePasswordSteps,
      AddServerSteps, DelServerSteps, CheckedSteps
<1>8. CASE SetUserPassport
  <2>1. AnswerStep \/ Goto("SetUserInsert", {})
    BY <1>1, <1>8, AnswerOne DEF SetUserPassport
  <2>2. req.op = "RegisterNewPassport" /\ pc \notin {"idle", "down"} /\ DBTypeOK'
    BY <1>2, <1>8 DEF SetUserPassport, TypeInv, OpInv, RegisterSteps, UpdatePasswordSteps,
      AddServerSteps, DelServerSteps, CheckedSteps
  <2> QED
    BY <2>1, <2>2, AnswerTypeInv, GotoTypeInv DEF Steps, RegisterSteps, UpdatePasswordSteps,
      AddServerSteps, DelServerSteps, CheckedSteps
<1>9. CASE RegisterFindPassport
  <2>1. PICK rows \in SUBSET UserRow : Goto("RegisterFindUser", rows)
    BY <1>1, <1>9, SelectedRows DEF RegisterFindPassport, UsersByPassport, DBTypeOK
  <2>2. req.op = "RegisterNewPassport" /\ pc \notin {"idle", "down"} /\ DBTypeOK'
    BY <1>2, <1>9 DEF RegisterFindPassport, TypeInv, OpInv, RegisterSteps
  <2> QED
    BY <2>1, <2>2, GotoTypeInv DEF Steps, RegisterSteps, UpdatePasswordSteps, AddServerSteps,
      DelServerSteps, CheckedSteps
<1>10. CASE RegisterFindUser
  <2>1. CASE pc' = "SetUserLevel" /\ found = {} /\ UNCHANGED <<req, found>>
    <3>1. reply' \in Reply
      <4>1. /\ <<>> \in Seq(Int) /\ <<5>> \in Seq(Int)
            /\ reply.rows \in SUBSET ServerRow /\ reply.online \in SUBSET ServerRow
        BY <1>1 DEF Reply
      <4>2. \E status \in {<<>>, <<5>>} : reply' = [reply EXCEPT !.status = status]
        BY <1>10, <2>1 DEF RegisterFindUser, Answer, AnswerRows
      <4> QED
        BY <1>1, <4>1, <4>2 DEF Reply
    <3> QED
      BY <1>2, <1>10, <2>1, <3>1 DEF RegisterFindUser, TypeInv, MainTypeOK, OpInv, Steps,
        RegisterSteps, UpdatePasswordSteps, AddServerSteps, DelServerSteps, CheckedSteps
  <2>2. CASE AnswerStep
    BY <1>2, <1>10, <2>2, AnswerTypeInv DEF RegisterFindUser
  <2> QED
    BY <1>1, <1>10, <2>1, <2>2, AnswerOne DEF RegisterFindUser
<1>11. CASE SetUserInsert
  <2>1. /\ req.op = "RegisterNewPassport" /\ pc \notin {"idle", "down"}
        /\ req \in Requests
    BY <1>11 DEF SetUserInsert, TypeInv, MainTypeOK, OpInv, RegisterSteps, NoRequest
  <2>2. ASSUME NEW id \in UserIds, req.password \in StorablePasswords
        PROVE  WithUser(id, req.passport, req.password, req.level) \subseteq UserRow
    <3>1. req.passport \in Passports /\ req.level \in Levels
      BY <2>1, RequestFields
    <3> QED
      BY <1>1, <2>2, <3>1 DEF WithUser, UserRow, DBTypeOK
  <2>3. users' \subseteq UserRow
    BY <1>1, <1>11, <2>2 DEF SetUserInsert, RunCommand, FreshUserIds, DBTypeOK
  <2>4. DBTypeOK'
    BY <1>1, <1>11, <2>3 DEF SetUserInsert, DBTypeOK
  <2>5. AnswerStep
    BY <1>1, <1>11, AnswerOne DEF SetUserInsert
  <2> QED
    BY <2>1, <2>4, <2>5, AnswerTypeInv
<1>12. CASE UpdatePasswordFindUser
  <2>1. AnswerStep \/ \E u \in users : Goto("UpdatePasswordUpdate", {u})
    <3>1. ASSUME Answer(<< 2 >>) \/ Answer(<< 3 >>) \/ Answer(<< 5 >>)
          PROVE  AnswerStep
      BY <1>1, <3>1, AnswerOne
    <3>2. \/ Answer(<<2>>) \/ Answer(<<3>>) \/ Answer(<<5>>)
          \/ \E rows \in Select(UsersByUid(req.uid)) :
               \E u \in rows : Goto("UpdatePasswordUpdate", {u})
      BY <1>12 DEF UpdatePasswordFindUser
    <3> QED
      BY <3>1, <3>2, SelectedRows DEF UsersByUid
  <2>2. req.op = "UpdatePassword" /\ pc \notin {"idle", "down"} /\ DBTypeOK'
    BY <1>2, <1>12 DEF UpdatePasswordFindUser, TypeInv, OpInv, UpdatePasswordSteps
  <2>3. ASSUME NEW u \in users, Goto("UpdatePasswordUpdate", {u})
        PROVE  TypeInv'
    <3>1. {u} \subseteq UserRow
      BY <1>3
    <3> QED
      BY <2>2, <2>3, <3>1, GotoTypeInv DEF Steps, RegisterSteps, UpdatePasswordSteps,
        AddServerSteps, DelServerSteps, CheckedSteps
  <2> QED
    BY <2>1, <2>2, <2>3, AnswerTypeInv
<1>13. CASE UpdatePasswordUpdate
  <2>1. pc \notin {"idle", "down"} /\ found \subseteq UserRow
    BY <1>13 DEF UpdatePasswordUpdate, TypeInv, MainTypeOK
  <2>2. ASSUME NEW u \in found, req.newpassword1 \in StorablePasswords
        PROVE  WithPassword(req.uid, req.newpassword1, u.qx_level) \subseteq UserRow
    <3>1. u.qx_level \in Levels
      BY <2>1, <2>2 DEF UserRow
    <3>2. ASSUME NEW v \in users
          PROVE  [v EXCEPT !.password = req.newpassword1, !.qx_level = u.qx_level] \in UserRow
      BY <1>3, <2>2, <3>1 DEF UserRow
    <3> QED
      BY <1>3, <3>2 DEF WithPassword
  <2>3. users' \subseteq UserRow
    BY <1>1, <1>13, <2>2 DEF UpdatePasswordUpdate, RunCommand, DBTypeOK
  <2>4. DBTypeOK'
    BY <1>1, <1>13, <2>3 DEF UpdatePasswordUpdate, DBTypeOK
  <2>5. AnswerStep
    BY <1>1, <1>13, AnswerOne DEF UpdatePasswordUpdate
  <2> QED
    BY <2>1, <2>4, <2>5, AnswerTypeInv
<1> QED
  BY <1>4, <1>5, <1>6, <1>7, <1>8, <1>9, <1>10, <1>11, <1>12, <1>13 DEF AccountStep

LEMMA MachineStepTypeInv ==
  ASSUME TypeInv, MachineStep, UNCHANGED now
  PROVE  TypeInv'
<1>1. reply \in Reply /\ DBTypeOK
  BY DEF TypeInv, MainTypeOK
<1>2. UNCHANGED tables => DBTypeOK'
  BY <1>1 DEF DBTypeOK, tables
<1>3. CASE AddServerFindUser
  <2>1. AnswerStep \/ (req.uid \in UserIds /\ Goto("RepeatFindUser", {}))
    BY <1>1, <1>3, AnswerOne, SelectedRows DEF AddServerFindUser, UsersByUid, DBTypeOK, UserRow
  <2>2. req.op = "AddServerInfo" /\ pc \notin {"idle", "down"} /\ DBTypeOK'
    BY <1>2, <1>3 DEF AddServerFindUser, TypeInv, OpInv, AddServerSteps
  <2> QED
    BY <2>1, <2>2, AnswerTypeInv, GotoTypeInv DEF Steps, RegisterSteps, UpdatePasswordSteps,
      AddServerSteps, DelServerSteps, CheckedSteps
<1>4. CASE RepeatFindUser
  <2>1. AnswerStep \/ Goto("RepeatFindServers", {})
    BY <1>1, <1>4, AnswerOne DEF RepeatFindUser
  <2>2. /\ req.op = "AddServerInfo" /\ req.uid \in UserIds
        /\ pc \notin {"idle", "down"} /\ DBTypeOK'
    BY <1>2, <1>4 DEF RepeatFindUser, TypeInv, OpInv, AddServerSteps, CheckedSteps
  <2> QED
    BY <2>1, <2>2, AnswerTypeInv, GotoTypeInv DEF Steps, RegisterSteps, UpdatePasswordSteps,
      AddServerSteps, DelServerSteps, CheckedSteps
<1>5. CASE RepeatFindServers
  <2>1. AnswerStep \/ Goto("AddServerInsert", {})
    BY <1>1, <1>5, AnswerOne DEF RepeatFindServers
  <2>2. /\ req.op = "AddServerInfo" /\ req.uid \in UserIds
        /\ pc \notin {"idle", "down"} /\ DBTypeOK'
    BY <1>2, <1>5 DEF RepeatFindServers, TypeInv, OpInv, AddServerSteps, CheckedSteps
  <2> QED
    BY <2>1, <2>2, AnswerTypeInv, GotoTypeInv DEF Steps, RegisterSteps, UpdatePasswordSteps,
      AddServerSteps, DelServerSteps, CheckedSteps
<1>6. CASE DelServerFindUser
  <2>1. AnswerStep \/ Goto("DelServerFind", {})
    BY <1>1, <1>6, AnswerOne DEF DelServerFindUser
  <2>2. req.op = "DelServer" /\ pc \notin {"idle", "down"} /\ DBTypeOK'
    BY <1>2, <1>6 DEF DelServerFindUser, TypeInv, OpInv, RegisterSteps, UpdatePasswordSteps,
      AddServerSteps, DelServerSteps, CheckedSteps
  <2> QED
    BY <2>1, <2>2, AnswerTypeInv, GotoTypeInv DEF Steps, RegisterSteps, UpdatePasswordSteps,
      AddServerSteps, DelServerSteps, CheckedSteps
<1>7. CASE DelServerFind
  <2>1. AnswerStep \/ Goto("DelServerDelete", {})
    BY <1>1, <1>7, AnswerOne DEF DelServerFind
  <2>2. req.op = "DelServer" /\ pc \notin {"idle", "down"} /\ DBTypeOK'
    BY <1>2, <1>7 DEF DelServerFind, TypeInv, OpInv, RegisterSteps, UpdatePasswordSteps,
      AddServerSteps, DelServerSteps, CheckedSteps
  <2> QED
    BY <2>1, <2>2, AnswerTypeInv, GotoTypeInv DEF Steps, RegisterSteps, UpdatePasswordSteps,
      AddServerSteps, DelServerSteps, CheckedSteps
<1>8. CASE AddServerInsert
  <2>1. /\ pc \notin {"idle", "down"}
        /\ req.uid \in UserIds /\ req.sid \in ServerIds /\ req.ip \in Machines
        /\ req.linux_pwd \in LinuxPwds
    BY <1>8, RequestFields DEF AddServerInsert, TypeInv, MainTypeOK, OpInv, AddServerSteps,
      CheckedSteps, NoRequest
  <2>2. WithServer(req.uid, req.sid, req.ip, req.linux_pwd) \subseteq ServerRow
    BY <1>1, <2>1, DBAssumption DEF WithServer, ServerRow, DBTypeOK
  <2>3. DBTypeOK'
    BY <1>1, <1>8, <2>2 DEF AddServerInsert, DBTypeOK
  <2>4. AnswerStep
    BY <1>1, <1>8, AnswerOne DEF AddServerInsert
  <2> QED
    BY <2>1, <2>3, <2>4, AnswerTypeInv
<1>9. CASE DelServerDelete
  <2>1. servers' \subseteq servers
    BY <1>9 DEF DelServerDelete, WithoutServer
  <2>2. DBTypeOK' /\ pc \notin {"idle", "down"}
    BY <1>1, <1>9, <2>1 DEF DelServerDelete, DBTypeOK
  <2>3. AnswerStep
    BY <1>1, <1>9, AnswerOne DEF DelServerDelete
  <2> QED
    BY <2>2, <2>3, AnswerTypeInv
<1>10. CASE SearchServerFind
  <2>1. AnswerStep \/ \E s \in servers : Goto("SearchServerTime", {s})
    <3>1. ASSUME Answer(<< 1 >>) PROVE AnswerStep
      BY <1>1, <3>1, AnswerOne
    <3>2. \/ Answer(<<1>>)
          \/ \E rows \in Select(ServersOf(req.uid) \cap ServersBySid(req.sid)) :
               \E s \in rows : Goto("SearchServerTime", {s})
      BY <1>10 DEF SearchServerFind
    <3> QED
      BY <3>1, <3>2, SelectedRows DEF ServersOf
  <2>2. DBTypeOK' /\ pc \notin {"idle", "down"}
    BY <1>2, <1>10 DEF SearchServerFind
  <2>3. ASSUME NEW s \in servers, Goto("SearchServerTime", {s})
        PROVE  TypeInv'
    <3>1. {s} \subseteq ServerRow
      BY <1>1 DEF DBTypeOK
    <3> QED
      BY <2>2, <2>3, <3>1, GotoTypeInv DEF Steps, RegisterSteps, UpdatePasswordSteps,
        AddServerSteps, DelServerSteps, CheckedSteps
  <2> QED
    BY <2>1, <2>2, <2>3, AnswerTypeInv
<1>11. CASE SearchServerTime
  <2>1. found \subseteq ServerRow /\ DBTypeOK' /\ pc \notin {"idle", "down"}
    BY <1>2, <1>11 DEF SearchServerTime, TypeInv, MainTypeOK
  <2>2. ASSUME NEW s \in found, AnswerRows(<<2, 0>>, {s})
        PROVE  AnswerStep
    <3>1. <<2, 0>> \in Seq(Int) /\ {s} \in SUBSET ServerRow
      BY <2>1
    <3> QED
      BY <1>1, <2>2, <3>1, AnswerRowsStep, Zenon
  <2>3. AnswerStep
    BY <1>1, <1>11, <2>1, <2>2, AnswerOneRow DEF SearchServerTime
  <2> QED
    BY <2>1, <2>3, AnswerTypeInv
<1>12. CASE ListServersFind
  <2>1. PICK rows \in SUBSET ServerRow : Goto("ListServersLine", rows)
    BY <1>1, <1>12, SelectedRows DEF ListServersFind, DBTypeOK
  <2>2. DBTypeOK' /\ pc \notin {"idle", "down"}
    BY <1>2, <1>12 DEF ListServersFind
  <2> QED
    BY <2>1, <2>2, GotoTypeInv DEF Steps, RegisterSteps, UpdatePasswordSteps, AddServerSteps,
      DelServerSteps, CheckedSteps
<1>13. CASE ListServersLine
  <2>1. found \subseteq ServerRow /\ DBTypeOK'
    BY <1>2, <1>13 DEF ListServersLine, TypeInv, MainTypeOK
  <2>2. CASE pc' = "SendPacket" /\ UNCHANGED <<req, found, reply>>
    BY <1>13, <2>1, <2>2 DEF ListServersLine, TypeInv, MainTypeOK, OpInv, Steps, RegisterSteps,
      UpdatePasswordSteps, AddServerSteps, DelServerSteps, CheckedSteps
  <2>3. ASSUME NEW s \in found, found' = found \ {s}, UNCHANGED <<pc, req>>,
               reply' = [reply EXCEPT !.rows = @ \cup {s},
                           !.online = IF TimedOut(s) THEN @ ELSE @ \cup {s}]
        PROVE  TypeInv'
    <3>1. reply' \in Reply
      BY <1>1, <2>1, <2>3 DEF Reply
    <3> QED
      BY <1>13, <2>1, <2>3, <3>1 DEF ListServersLine, TypeInv, MainTypeOK, OpInv
  <2> QED
    BY <1>13, <2>2, <2>3 DEF ListServersLine
<1>14. CASE GetServerIPBySid
  <2>1. DBTypeOK' /\ pc \notin {"idle", "down"}
    BY <1>2, <1>14 DEF GetServerIPBySid
  <2>2. AnswerStep
    <3>1. ASSUME Answer(<< 2 >>) PROVE AnswerStep
      BY <1>1, <3>1, AnswerOne
    <3>2. ASSUME NEW s \in servers, AnswerRows(<< 1 >>, {s}) PROVE AnswerStep
      BY <1>1, <3>2, AnswerOneRow DEF DBTypeOK
    <3>3. Answer(<<2>>) \/ \E rows \in Select(servers) : \E s \in rows : AnswerRows(<<1>>, {s})
      BY <1>14 DEF GetServerIPBySid
    <3> QED
      BY <3>1, <3>2, <3>3, SelectedRows
  <2> QED
    BY <2>1, <2>2, AnswerTypeInv
<1> QED
  BY <1>3, <1>4, <1>5, <1>6, <1>7, <1>8, <1>9, <1>10, <1>11, <1>12, <1>13, <1>14 DEF MachineStep

LEMMA NginxStepTypeInv ==
  ASSUME TypeInv, NginxStep, UNCHANGED now
  PROVE  TypeInv'
<1>1. reply \in Reply /\ DBTypeOK
  BY DEF TypeInv, MainTypeOK
<1>2. UNCHANGED tables => DBTypeOK'
  BY <1>1 DEF DBTypeOK, tables
<1>3. CASE NginxTestFindUser
  <2>1. AnswerStep \/ Goto("NginxTestScript", {})
    BY <1>1, <1>3, AnswerOne DEF NginxTestFindUser
  <2>2. pc \notin {"idle", "down"} /\ DBTypeOK'
    BY <1>2, <1>3 DEF NginxTestFindUser
  <2> QED
    BY <2>1, <2>2, AnswerTypeInv, GotoTypeInv DEF Steps, RegisterSteps, UpdatePasswordSteps,
      AddServerSteps, DelServerSteps, CheckedSteps
<1>4. CASE NginxTestScript
  <2>1. AnswerStep \/ Die
    BY <1>1, <1>4, AnswerOne DEF NginxTestScript
  <2> QED
    BY <1>2, <1>4, <2>1, AnswerTypeInv, DieTypeInv DEF NginxTestScript
<1>5. CASE ReloadNginx
  <2>1. AnswerStep \/ Die
    BY <1>1, <1>5, AnswerOne DEF ReloadNginx
  <2> QED
    BY <1>2, <1>5, <2>1, AnswerTypeInv, DieTypeInv DEF ReloadNginx
<1> QED
  BY <1>3, <1>4, <1>5 DEF NginxStep

LEMMA MainNextTypeInv ==
  ASSUME TypeInv, MainNext
  PROVE  TypeInv'
<1>1. DBTypeOK /\ UNCHANGED now
  BY DEF TypeInv, MainTypeOK, MainNext
<1>2. UNCHANGED tables => DBTypeOK'
  BY <1>1 DEF DBTypeOK, tables
<1>3. CASE SendPacket
  BY <1>2, <1>3 DEF SendPacket, TypeInv, MainTypeOK, OpInv, Steps, NoRequest, NoReply, Reply,
    RegisterSteps, UpdatePasswordSteps, AddServerSteps, DelServerSteps, CheckedSteps
<1>4. CASE CrashMain
  BY <1>2, <1>4, DieTypeInv DEF CrashMain
<1>5. CASE RestartMain
  BY <1>2, <1>5 DEF RestartMain, TypeInv, MainTypeOK, OpInv, Steps, RegisterSteps,
    UpdatePasswordSteps, AddServerSteps, DelServerSteps, CheckedSteps
<1> QED
  BY <1>1, <1>3, <1>4, <1>5, DispatchTypeInv, AccountStepTypeInv, MachineStepTypeInv,
    NginxStepTypeInv DEF MainNext

LEMMA EnvironmentTypeInv ==
  ASSUME TypeInv, Environment
  PROVE  TypeInv'
<1>1. DBTypeOK /\ UNCHANGED mainVars
  BY DEF TypeInv, MainTypeOK, Environment
<1>2. CASE SubServerReports
  <2>1. PICK s \in servers, m \in Machines, stamp \in Stamps :
          servers' = WithReport(s.user_id, s.server_id, m, stamp)
    BY <1>2 DEF SubServerReports
  <2>2. ASSUME NEW t \in servers
        PROVE  [t EXCEPT !.server_info = m, !.last_update_time = stamp] \in ServerRow
    BY <1>1 DEF ServerRow, DBTypeOK
  <2>3. servers' \subseteq ServerRow
    BY <1>1, <2>1, <2>2 DEF WithReport, DBTypeOK
  <2> QED
    BY <1>1, <1>2, <2>3 DEF SubServerReports, DBTypeOK, TypeInv, MainTypeOK, OpInv, mainVars
<1>3. CASE Tick /\ UNCHANGED tables
  BY <1>1, <1>3 DEF Tick, tables, DBTypeOK, TypeInv, MainTypeOK, OpInv, mainVars
<1> QED
  BY <1>2, <1>3 DEF Environment

LEMMA StutterTypeInv ==
  ASSUME TypeInv, UNCHANGED allVars
  PROVE  TypeInv'
BY DEF TypeInv, MainTypeOK, DBTypeOK, OpInv, allVars, mainVars, tables

(* Types hold whatever the accounts, machines and packets are.              *)
THEOREM TypeCorrect == MainSpec => []MainTypeOK
<1>1. MainInit => TypeInv
  BY InitTypeInv
<1>2. TypeInv /\ [MainNext \/ Environment]_allVars => TypeInv'
  BY MainNextTypeInv, EnvironmentTypeInv, StutterTypeInv
<1>3. TypeInv => MainTypeOK
  BY DEF TypeInv
<1> QED
  BY <1>1, <1>2, <1>3, PTL DEF MainSpec

-----------------------------------------------------------------------------
(* Which steps write, and which lead where something has been learnt.       *)

LEMMA Writers ==
  ASSUME MainNext
  PROVE  /\ UNCHANGED users \/ SetUserInsert \/ UpdatePasswordUpdate
         /\ UNCHANGED servers \/ AddServerInsert \/ DelServerDelete
<1> USE DEF tables
<1>1. CASE AccountStep
  BY <1>1 DEF AccountStep, PassportInfoLogin, HasQuanxian, GetUserInfoList,
    RegisterFindPassport, RegisterFindUser, SetUserLevel, SetUserPassport, SetUserInsert,
    UpdatePasswordFindUser, UpdatePasswordUpdate
<1>2. CASE MachineStep
  BY <1>2 DEF MachineStep, AddServerFindUser, RepeatFindUser, RepeatFindServers,
    AddServerInsert, SearchServerFind, SearchServerTime, ListServersFind, ListServersLine,
    GetServerIPBySid, DelServerFindUser, DelServerFind, DelServerDelete
<1>3. CASE NginxStep
  BY <1>3 DEF NginxStep, NginxTestFindUser, NginxTestScript, ReloadNginx
<1> QED
  BY <1>1, <1>2, <1>3 DEF MainNext, Dispatch, SendPacket, CrashMain, RestartMain

LEMMA Learners ==
  ASSUME MainNext
  PROVE  /\ pc' \in CheckedSteps => AddServerFindUser \/ RepeatFindUser \/ RepeatFindServers
         /\ pc' = "UpdatePasswordUpdate" => UpdatePasswordFindUser
         /\ pc' = "SetUserInsert" => SetUserPassport
<1> USE DEF CheckedSteps, Goto, Answer, AnswerRows, Die
<1>1. CASE AccountStep
  BY <1>1 DEF AccountStep, PassportInfoLogin, HasQuanxian, GetUserInfoList,
    RegisterFindPassport, RegisterFindUser, SetUserLevel, SetUserPassport, SetUserInsert,
    UpdatePasswordFindUser, UpdatePasswordUpdate
<1>2. CASE MachineStep
  BY <1>2 DEF MachineStep, AddServerFindUser, RepeatFindUser, RepeatFindServers,
    AddServerInsert, SearchServerFind, SearchServerTime, ListServersFind, ListServersLine,
    GetServerIPBySid, DelServerFindUser, DelServerFind, DelServerDelete
<1>3. CASE NginxStep
  BY <1>3 DEF NginxStep, NginxTestFindUser, NginxTestScript, ReloadNginx
<1>4. CASE Dispatch
  <2>1. PICK r \in Requests : pc' = Entry(r.op)
    BY <1>4 DEF Dispatch
  <2>2. r.op \in {"PassportInfoLogin", "RegisterNewPassport", "AddServerInfo", "UpdatePassword",
                  "SearchServerInfo", "DelServer", "GetUserInfoList", "NginxTest",
                  "HasQuanxian", "GetServerIPBySid", "GetAllServerInfoList", "ReloadNginx"}
    BY MainAssumption DEF Request
  <2> QED
    BY <2>1, <2>2 DEF Entry
<1> QED
  BY <1>1, <1>2, <1>3, <1>4 DEF MainNext, SendPacket, CrashMain, RestartMain

(* A changed password leaves an account its id, its name and its level.     *)
LEMMA UpdateKeepsAccounts ==
  ASSUME OwnersInv, UpdatePasswordUpdate, ~UNCHANGED users
  PROVE  users' = {IF u.user_id = req.uid THEN [u EXCEPT !.password = req.newpassword1] ELSE u :
                     u \in users}
<1>1. PICK w \in found : users' = WithPassword(req.uid, req.newpassword1, w.qx_level)
  BY DEF UpdatePasswordUpdate
<1>2. w \in users /\ w.user_id = req.uid
  BY DEF UpdatePasswordUpdate, OwnersInv, LearntInv
<1>3. ASSUME NEW u \in users, u.user_id = req.uid
      PROVE  [u EXCEPT !.password = req.newpassword1, !.qx_level = w.qx_level]
               = [u EXCEPT !.password = req.newpassword1]
  <2>1. u = w
    BY <1>2, <1>3 DEF OwnersInv, UniqueUserIds
  <2>2. u \in UserRow
    BY DEF OwnersInv, TypeInv, MainTypeOK, DBTypeOK
  <2> QED
    BY <2>1, <2>2 DEF UserRow
<1> QED
  BY <1>1, <1>3 DEF WithPassword

(* Accounts stay: each keeps an entry with its id and its level.            *)
AccountsStay ==
  \A u \in users : \E v \in users' : v.user_id = u.user_id /\ v.qx_level = u.qx_level

LEMMA UsersStep ==
  ASSUME OwnersInv, MainNext
  PROVE  UniqueUserIds(users') /\ AccountsStay
<1>1. users \subseteq UserRow /\ UniqueUserIds(users)
  BY DEF OwnersInv, TypeInv, MainTypeOK, DBTypeOK
<1>2. CASE UNCHANGED users
  BY <1>1, <1>2 DEF UniqueUserIds, AccountsStay
<1>3. CASE UpdatePasswordUpdate /\ ~UNCHANGED users
  <2> DEFINE new(u) == IF u.user_id = req.uid THEN [u EXCEPT !.password = req.newpassword1]
                                              ELSE u
  <2>1. users' = {new(u) : u \in users}
    BY <1>3, UpdateKeepsAccounts
  <2>2. \A u \in users : new(u).user_id = u.user_id /\ new(u).qx_level = u.qx_level
    BY <1>1 DEF UserRow
  <2> HIDE DEF new
  <2> QED
    BY <1>1, <2>1, <2>2 DEF UniqueUserIds, AccountsStay
<1>4. CASE SetUserInsert /\ ~UNCHANGED users
  <2>1. PICK id \in FreshUserIds :
          users' = WithUser(id, req.passport, req.password, req.level)
    BY <1>4 DEF SetUserInsert
  <2>2. \A u \in users : u.user_id # id
    <3>1. ASSUME NEW u \in users PROVE u.user_id \in Int /\ u.user_id < id
      BY <1>1, <2>1, UserNumbers DEF FreshUserIds
    <3> QED
      BY <3>1
  <2> QED
    BY <1>1, <2>1, <2>2 DEF WithUser, UniqueUserIds, AccountsStay
<1> QED
  BY <1>2, <1>3, <1>4, Writers

LEMMA LearntStep ==
  ASSUME OwnersInv, MainNext
  PROVE  LearntInv'
<1>1. ASSUME AddServerFindUser, pc' \in CheckedSteps
      PROVE  IsAdministrator(req.uid)'
  <2>1. PICK rows \in Select(UsersByUid(req.uid)) :
          \E u \in rows : Privileged(u) /\ Goto("RepeatFindUser", {})
    BY <1>1 DEF AddServerFindUser, Answer, AnswerRows, CheckedSteps
  <2>2. PICK u \in users : /\ u.user_id = req.uid
                          /\ Privileged(u) /\ Goto("RepeatFindUser", {})
    BY <2>1, SelectedRows DEF UsersByUid
  <2> QED
    BY <1>1, <2>1, <2>2 DEF AddServerFindUser, Goto, Privileged, IsAdministrator, tables
<1>2. ASSUME RepeatFindUser \/ RepeatFindServers, pc' \in CheckedSteps
      PROVE  IsAdministrator(req.uid)'
  <2>1. pc \in CheckedSteps /\ UNCHANGED <<users, req>>
    BY <1>2 DEF RepeatFindUser, RepeatFindServers, Answer, AnswerRows, Goto, CheckedSteps, tables
  <2> QED
    BY <2>1 DEF OwnersInv, LearntInv, IsAdministrator
<1>3. ASSUME UpdatePasswordFindUser, pc' = "UpdatePasswordUpdate"
      PROVE  \A u \in found' : u \in users' /\ u.user_id = req'.uid
  <2>1. PICK rows \in Select(UsersByUid(req.uid)) :
          \E u \in rows : Goto("UpdatePasswordUpdate", {u})
    BY <1>3 DEF UpdatePasswordFindUser, Answer, AnswerRows
  <2>2. PICK u \in users : u.user_id = req.uid /\ Goto("UpdatePasswordUpdate", {u})
    BY <2>1, SelectedRows DEF UsersByUid
  <2> QED
    BY <1>3, <2>1, <2>2 DEF UpdatePasswordFindUser, Goto, tables
<1> QED
  BY <1>1, <1>2, <1>3, Learners DEF LearntInv

LEMMA OwnersStep ==
  ASSUME OwnersInv, MainNext
  PROVE  OwnersPrivileged'
<1>1. AccountsStay /\ OwnersPrivileged
  BY UsersStep DEF OwnersInv
<1>2. CASE servers' \subseteq servers
  BY <1>1, <1>2 DEF AccountsStay, OwnersPrivileged
<1>3. CASE AddServerInsert /\ ~UNCHANGED servers
  <2>1. IsAdministrator(req.uid) /\ UNCHANGED users
    BY <1>3 DEF AddServerInsert, OwnersInv, LearntInv, CheckedSteps
  <2>2. servers' = WithServer(req.uid, req.sid, req.ip, req.linux_pwd)
    BY <1>3 DEF AddServerInsert
  <2>3. \A s \in servers' : s \in servers \/ s.user_id = req.uid
    BY <2>2 DEF WithServer
  <2> QED
    BY <1>1, <2>1, <2>3 DEF OwnersPrivileged, IsAdministrator
<1>4. DelServerDelete => servers' \subseteq servers
  BY DEF DelServerDelete, WithoutServer
<1> QED
  BY <1>2, <1>3, <1>4, Writers

LEMMA InitOwnersInv == MainInit => OwnersInv
BY InitTypeInv, DBAssumption DEF MainInit, DBInit, OwnersInv, LearntInv, CheckedSteps,
  OwnersPrivileged

LEMMA EnvironmentOwnersInv ==
  ASSUME OwnersInv, Environment
  PROVE  OwnersInv'
<1>1. TypeInv' /\ UNCHANGED <<users, mainVars>>
  BY EnvironmentTypeInv DEF OwnersInv, Environment, SubServerReports, tables
<1>2. \A s \in servers' : \E t \in servers : s.user_id = t.user_id
  <2>1. CASE SubServerReports
    <3>1. PICK s \in servers, m \in Machines, stamp \in Stamps :
            servers' = WithReport(s.user_id, s.server_id, m, stamp)
      BY <2>1 DEF SubServerReports
    <3>2. \A t \in servers :
            [t EXCEPT !.server_info = m, !.last_update_time = stamp].user_id = t.user_id
      BY DEF OwnersInv, TypeInv, MainTypeOK, DBTypeOK, ServerRow
    <3> QED
      BY <3>1, <3>2 DEF WithReport
  <2> QED
    BY <2>1 DEF Environment, tables
<1> QED
  BY <1>1, <1>2 DEF OwnersInv, LearntInv, IsAdministrator, OwnersPrivileged, mainVars

LEMMA OwnersInvStep ==
  ASSUME OwnersInv, [MainNext \/ Environment]_allVars
  PROVE  OwnersInv'
<1>1. CASE MainNext
  BY <1>1, MainNextTypeInv, UsersStep, LearntStep, OwnersStep DEF OwnersInv
<1>2. CASE Environment
  BY <1>2, EnvironmentOwnersInv
<1>3. CASE UNCHANGED allVars
  BY <1>3, StutterTypeInv DEF OwnersInv, LearntInv, IsAdministrator, OwnersPrivileged, allVars,
    mainVars, tables
<1> QED
  BY <1>1, <1>2, <1>3

(* AddServerInfo's level check and its INSERT are four statements apart and *)
(* the tables have no foreign key; still no machine is ever in the care of  *)
(* an account that does not exist or may not administer, whatever fails.    *)
THEOREM OwnersAlwaysPrivileged == MainSpec => []OwnersPrivileged
<1>1. OwnersInv => OwnersPrivileged
  BY DEF OwnersInv
<1> QED
  BY <1>1, InitOwnersInv, OwnersInvStep, PTL DEF MainSpec

-----------------------------------------------------------------------------
(* Account names                                                            *)

(* The second look for the new name still holds when the INSERT comes.      *)
PassportInv ==
  /\ OwnersInv
  /\ UniquePassports(users)
  /\ pc = "SetUserInsert" => \A u \in users : u.passport # req.passport

LEMMA PassportInvMain ==
  ASSUME ~ReadsMayFail, PassportInv, MainNext
  PROVE  UniquePassports(users') /\ (pc' = "SetUserInsert" =>
                                       \A u \in users' : u.passport # req'.passport)
<1>1. users \subseteq UserRow /\ UniquePassports(users) /\ OwnersInv
  BY DEF PassportInv, OwnersInv, TypeInv, MainTypeOK, DBTypeOK
<1>2. UniquePassports(users')
  <2>1. CASE UpdatePasswordUpdate /\ ~UNCHANGED users
    <3> DEFINE new(u) == IF u.user_id = req.uid
                           THEN [u EXCEPT !.password = req.newpassword1] ELSE u
    <3>1. users' = {new(u) : u \in users}
      BY <1>1, <2>1, UpdateKeepsAccounts
    <3>2. \A u \in users : new(u).passport = u.passport
      BY <1>1 DEF UserRow
    <3> HIDE DEF new
    <3> QED
      BY <1>1, <3>1, <3>2 DEF UniquePassports
  <2>2. CASE SetUserInsert /\ ~UNCHANGED users
    <3>1. PICK id : users' = WithUser(id, req.passport, req.password, req.level)
      BY <2>2 DEF SetUserInsert
    <3>2. \A u \in users : u.passport # req.passport
      BY <2>2 DEF SetUserInsert, PassportInv
    <3> QED
      BY <1>1, <3>1, <3>2 DEF WithUser, UniquePassports
  <2> QED
    BY <1>1, <2>1, <2>2, Writers DEF UniquePassports
<1>3. ASSUME SetUserPassport, pc' = "SetUserInsert"
      PROVE  \A u \in users' : u.passport # req'.passport
  <2>1. Select(UsersByPassport(req.passport)) = {UsersByPassport(req.passport)}
    BY DEF Select
  <2>2. UsersByPassport(req.passport) = {} /\ UNCHANGED <<users, req>>
    BY <1>3, <2>1 DEF SetUserPassport, Answer, AnswerRows, Goto, tables
  <2> QED
    BY <2>2 DEF UsersByPassport
<1> QED
  BY <1>2, <1>3, Learners

(* As long as SELECTs do not fail, two accounts never have the same name,   *)
(* although the column is not a key.                                        *)
THEOREM PassportsStayUnique ==
  ASSUME ~ReadsMayFail
  PROVE  MainSpec => []PassportUnique
<1>1. MainInit => PassportInv
  BY InitOwnersInv, DBAssumption DEF MainInit, DBInit, PassportInv
<1>2. ASSUME PassportInv, [MainNext \/ Environment]_allVars
      PROVE  PassportInv'
  <2>1. OwnersInv'
    BY <1>2, OwnersInvStep DEF PassportInv
  <2>2. CASE MainNext
    BY <1>2, <2>1, <2>2, PassportInvMain DEF PassportInv
  <2>3. CASE Environment \/ UNCHANGED allVars
    <3>1. UNCHANGED <<users, pc, req>>
      BY <2>3 DEF Environment, SubServerReports, allVars, mainVars, tables
    <3> QED
      BY <1>2, <2>1, <3>1 DEF PassportInv
  <2> QED
    BY <1>2, <2>2, <2>3
<1>3. PassportInv => PassportUnique
  BY DEF PassportInv, PassportUnique
<1> QED
  BY <1>1, <1>2, <1>3, PTL DEF MainSpec
=============================================================================
