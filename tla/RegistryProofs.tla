--------------------------- MODULE RegistryProofs ---------------------------
(***************************************************************************)
(* As long as SELECTs do not fail, the main server's statements, with sub   *)
(* servers' reports between them, are the steps of a register.              *)
(***************************************************************************)
EXTENDS MainServerAnswers

(* What the handlers have learnt and what the tables keep, with what        *)
(* registration has found out about the new password.                       *)
RegisterInv ==
  /\ PassportInv /\ WritesInv
  /\ pc = "SetUserInsert" => req.password # EmptyPassword

LEMMA PasswordGiven ==
  ASSUME ~ReadsMayFail, MainNext, pc' = "SetUserInsert"
  PROVE  req'.password # EmptyPassword
<1>1. SetUserPassport
  BY Learners
<1> QED
  BY <1>1 DEF SetUserPassport, Answer, AnswerRows, Goto

LEMMA RegisterInvariance ==
  ASSUME ~ReadsMayFail
  PROVE  MainSpec => []RegisterInv
<1>1. MainInit => RegisterInv
  BY InitOwnersInv, DBAssumption
     DEF MainInit, DBInit, RegisterInv, PassportInv, WritesInv, UniqueServerIds, AskedInv
<1>2. ASSUME RegisterInv, [MainNext \/ Environment]_allVars PROVE RegisterInv'
  <2>1. OwnersInv'
    BY <1>2, OwnersInvStep DEF RegisterInv, PassportInv
  <2>2. CASE MainNext
    BY <1>2, <2>1, <2>2, PassportInvMain, AskedStep, ServerIdsStep, PasswordGiven
       DEF RegisterInv, PassportInv, WritesInv
  <2>3. CASE Environment
    <3>1. UNCHANGED <<users, pc, req>>
      BY <2>3 DEF Environment, SubServerReports, mainVars, tables
    <3> QED
      BY <1>2, <2>1, <2>3, <3>1, EnvironmentWrites DEF RegisterInv, PassportInv
  <2>4. CASE UNCHANGED allVars
    BY <1>2, <2>1, <2>4 DEF RegisterInv, PassportInv, WritesInv, UniqueServerIds, AskedInv,
                            IsAdministrator, allVars, mainVars, tables
  <2> QED
    BY <1>2, <2>2, <2>3, <2>4
<1> QED
  BY <1>1, <1>2, PTL DEF MainSpec

-----------------------------------------------------------------------------
(* One lemma per statement that writes                                      *)

LEMMA InsertIsCreation ==
  ASSUME RegisterInv, SetUserInsert, ~UNCHANGED users
  PROVE  Registry!CreateAccount
<1>1. PICK id \in FreshUserIds :
        /\ users' = WithUser(id, req.passport, req.password, req.level)
        /\ req.password \in StorablePasswords
  BY DEF SetUserInsert, RunCommand
<1> DEFINE u == [user_id |-> id, passport |-> req.passport, password |-> req.password,
                 qx_level |-> req.level]
<1>2. req \in Requests /\ req.op = "RegisterNewPassport"
  BY DEF SetUserInsert, RegisterInv, PassportInv, OwnersInv, TypeInv, MainTypeOK, OpInv,
         RegisterSteps, NoRequest
<1>3. req.passport \in Passports /\ req.level \in Levels
  BY <1>2, RequestFields
<1>4. u \in UserRow
  BY <1>1, <1>3 DEF UserRow, FreshUserIds
<1>5. u.password # EmptyPassword
  BY DEF SetUserInsert, RegisterInv
<1>6. \A v \in users : v.passport # u.passport /\ v.user_id < u.user_id
  BY <1>1 DEF SetUserInsert, RegisterInv, PassportInv, FreshUserIds
<1>7. users' = users \cup {u}
  BY <1>1 DEF WithUser
<1>8. Registry!Administrators # {}
  BY DEF SetUserInsert, RegisterInv, WritesInv, AskedInv, IsAdministrator,
         Registry!Administrators
<1>9. UNCHANGED servers
  BY DEF SetUserInsert
<1> HIDE DEF u
<1> QED
  BY <1>4, <1>5, <1>6, <1>7, <1>8, <1>9 DEF Registry!CreateAccount, UserRow, Registry!UserRow

LEMMA UpdateIsChange ==
  ASSUME RegisterInv, UpdatePasswordUpdate, ~UNCHANGED users
  PROVE  Registry!ChangePassword
<1>1. OwnersInv /\ UNCHANGED servers
  BY DEF RegisterInv, WritesInv, UpdatePasswordUpdate
<1>2. PICK u \in found : u \in users /\ u.user_id = req.uid
  BY <1>1 DEF UpdatePasswordUpdate, OwnersInv, LearntInv
<1>3. req.newpassword1 \in StorablePasswords
  BY DEF UpdatePasswordUpdate, RunCommand
<1>4. \A v \in users : v.user_id = req.uid <=> v = u
  BY <1>1, <1>2 DEF OwnersInv, UniqueUserIds
<1> DEFINE w == [u EXCEPT !.password = req.newpassword1]
<1>5. users' = {IF v.user_id = req.uid THEN [v EXCEPT !.password = req.newpassword1] ELSE v :
                  v \in users}
  BY <1>1, UpdateKeepsAccounts
<1>6. users' = {IF v = u THEN w ELSE v : v \in users}
  BY <1>4, <1>5
<1> HIDE DEF w
<1>7. users' = (users \ {u}) \cup {w}
  BY <1>2, <1>6
<1> QED
  BY <1>1, <1>2, <1>3, <1>7 DEF Registry!ChangePassword, w

LEMMA InsertIsAddition ==
  ASSUME RegisterInv, AddServerInsert, ~UNCHANGED servers
  PROVE  Registry!AddServer
<1> DEFINE s == [server_id |-> req.sid, user_id |-> req.uid, server_ip |-> req.ip,
                 linux_pwd |-> req.linux_pwd, server_info |-> NoInfo,
                 last_update_time |-> OldStamp]
<1>1. servers' = servers \cup {s} /\ UNCHANGED users /\ ServersBySid(req.sid) = {}
  BY DEF AddServerInsert, RunCommand, WithServer
<1>2. /\ req \in Requests /\ req.op = "AddServerInfo" /\ req.uid \in UserIds
      /\ IsAdministrator(req.uid)
  BY DEF AddServerInsert, RegisterInv, WritesInv, OwnersInv, LearntInv, TypeInv, MainTypeOK,
         OpInv, AddServerSteps, CheckedSteps, NoRequest
<1>3. req.sid \in ServerIds /\ req.ip \in Machines /\ req.linux_pwd \in LinuxPwds
  BY <1>2, RequestFields
<1>4. s \in ServerRow
  BY <1>2, <1>3, DBAssumption DEF ServerRow
<1>5. \E u \in Registry!Administrators : u.user_id = s.user_id
  BY <1>2 DEF IsAdministrator, Registry!Administrators
<1>6. \A t \in servers : t.server_id # s.server_id
  BY <1>1 DEF ServersBySid
<1>7. s.server_info = NoInfo /\ s.last_update_time = OldStamp
  OBVIOUS
<1> HIDE DEF s
<1> QED
  BY <1>1, <1>4, <1>5, <1>6, <1>7 DEF Registry!AddServer, ServerRow, Registry!ServerRow

LEMMA DeleteIsRemoval ==
  ASSUME RegisterInv, DelServerDelete, ~UNCHANGED servers
  PROVE  Registry!RemoveServer
<1>1. servers' = servers \ ServersBySid(req.sid) /\ UNCHANGED users
  BY DEF DelServerDelete, WithoutServer
<1>2. PICK s \in servers : s.server_id = req.sid
  BY <1>1 DEF ServersBySid
<1>3. ServersBySid(req.sid) = {s}
  BY <1>2 DEF ServersBySid, RegisterInv, WritesInv, UniqueServerIds
<1>4. \E u \in Registry!Administrators : u.user_id = s.user_id
  BY <1>2 DEF RegisterInv, WritesInv, OwnersInv, OwnersPrivileged, Registry!Administrators
<1> QED
  BY <1>1, <1>2, <1>3, <1>4 DEF Registry!RemoveServer

LEMMA ReportIsReport ==
  ASSUME RegisterInv, SubServerReports
  PROVE  Registry!Report
<1>1. PICK s \in servers, m \in Machines, stamp \in Stamps :
        servers' = WithReport(s.user_id, s.server_id, m, stamp)
  BY DEF SubServerReports
<1> DEFINE w == [s EXCEPT !.server_info = m, !.last_update_time = stamp]
<1>2. \A t \in servers : t.server_id = s.server_id /\ t.user_id = s.user_id <=> t = s
  BY DEF RegisterInv, WritesInv, UniqueServerIds
<1>3. servers' = {IF t = s THEN w ELSE t : t \in servers}
  BY <1>1, <1>2 DEF WithReport
<1>4. servers' = (servers \ {s}) \cup {w}
  <2> HIDE DEF w
  <2> QED
    BY <1>3
<1>5. UNCHANGED users
  BY DEF SubServerReports
<1> QED
  BY <1>1, <1>4, <1>5 DEF Registry!Report

LEMMA RegisterStep ==
  ASSUME RegisterInv, [MainNext \/ Environment]_allVars
  PROVE  [Registry!RegistryNext]_tables
<1>1. CASE MainNext
  <2>1. UNCHANGED users \/ UNCHANGED servers
    BY <1>1, Writers DEF SetUserInsert, UpdatePasswordUpdate, AddServerInsert,
                         DelServerDelete
  <2> QED
    BY <1>1, <2>1, Writers, InsertIsCreation, UpdateIsChange, InsertIsAddition,
       DeleteIsRemoval DEF Registry!RegistryNext, tables
<1>2. CASE Environment
  BY <1>2, ReportIsReport DEF Environment, Registry!RegistryNext
<1>3. CASE UNCHANGED allVars
  BY <1>3 DEF allVars
<1> QED
  BY <1>1, <1>2, <1>3

(* Names looked up twice before an INSERT, levels checked four statements   *)
(* before one, a DELETE that names half of the key that was checked: if     *)
(* SELECTs do not fail, each write is still one change of a register by     *)
(* someone who may make it, whichever writes fail and wherever the process  *)
(* is killed.                                                               *)
THEOREM HandlersAreARegister ==
  ASSUME ~ReadsMayFail
  PROVE  MainSpec => ImplementsRegistry
<1>1. MainInit => Registry!RegistryInit
  BY DEF MainInit, DBInit, Registry!RegistryInit
<1> QED
  BY <1>1, RegisterStep, RegisterInvariance, PTL
     DEF MainSpec, ImplementsRegistry, Registry!RegistrySpec, tables, Registry!tables
=============================================================================
