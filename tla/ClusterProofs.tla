--------------------------- MODULE ClusterProofs ---------------------------
(***************************************************************************)
(* Proofs about the deployment, for every set of machines and however the  *)
(* statements of main server and sub servers fall between each other.      *)
(***************************************************************************)
EXTENDS Cluster, RegistryProofs

-----------------------------------------------------------------------------
(* Types of the sub servers                                                 *)

PacketSteps ==
  {"Client_Ping", "FindUser", "Server_GetRootpwd", "Decide", "ExecuteCMD", "SendPacket"}

(* SubTypeOK for one machine.                                               *)
ThreadOK(m) ==
  /\ subpc[m] \in SubSteps
  /\ subreq[m] \in SubRequests \cup {NoSubRequest}
  /\ ident[m] \in SUBSET [uid : UserIds, sid : ServerIds]
  /\ stamp[m] \in Stamps
  /\ level[m] \in Levels \cup {0}
  /\ pwd[m] \in SUBSET LinuxPwds
  /\ answer[m] \in Seq(Int)
  /\ fw[m] \in Firewall
  /\ (ident[m] # {}) <=> subpc[m] \in {"CollectInfo", "SetServerInfo"}
  /\ (subreq[m] # NoSubRequest) <=> subpc[m] \in PacketSteps

Domains ==
  /\ subpc = [m \in Machines |-> subpc[m]] /\ subreq = [m \in Machines |-> subreq[m]]
  /\ ident = [m \in Machines |-> ident[m]] /\ stamp = [m \in Machines |-> stamp[m]]
  /\ level = [m \in Machines |-> level[m]] /\ pwd = [m \in Machines |-> pwd[m]]
  /\ answer = [m \in Machines |-> answer[m]] /\ fw = [m \in Machines |-> fw[m]]

ThreadVars(m) ==
  <<subpc[m], subreq[m], ident[m], stamp[m], level[m], pwd[m], answer[m], fw[m]>>

LEMMA TypesByMachine == SubTypeOK <=> Domains /\ \A m \in Machines : ThreadOK(m)
<1>1. SubSteps \ {"idle", "down", "ServerIsRegister", "CollectInfo", "SetServerInfo"}
        = PacketSteps
  BY DEF SubSteps, PacketSteps
<1>2. ASSUME SubTypeOK PROVE Domains /\ \A m \in Machines : ThreadOK(m)
  BY <1>1, <1>2 DEF SubTypeOK, Domains, ThreadOK
<1>3. ASSUME Domains, \A m \in Machines : ThreadOK(m) PROVE SubTypeOK
  BY <1>1, <1>3 DEF SubTypeOK, Domains, ThreadOK
<1> QED
  BY <1>2, <1>3

(* What a step of one machine's thread may do: nothing to the others.       *)
SubStepOf(m) ==
  \/ OnTime1s(m) \/ ReportStep(m) \/ SubDispatch(m) \/ PacketStep(m)
  \/ CrashSub(m) \/ RestartSub(m)

LEMMA OthersStay ==
  ASSUME Domains, NEW m \in Machines, SubStepOf(m)
  PROVE  Domains' /\ \A n \in Machines \ {m} : ThreadVars(n)' = ThreadVars(n)
<1> USE DEF Domains, ThreadVars, SubGoto, SubAnswer, SubDie
<1>1. CASE OnTime1s(m)
  BY <1>1 DEF OnTime1s
<1>2. CASE ReportStep(m)
  BY <1>2 DEF ReportStep, ServerIsRegister, CollectInfo, SetServerInfo
<1>3. CASE SubDispatch(m)
  BY <1>3 DEF SubDispatch
<1>4. CASE Client_Ping(m) \/ SubSendPacket(m)
  BY <1>4 DEF Client_Ping, SubSendPacket
<1>5. CASE FindUser(m)
  BY <1>5 DEF FindUser
<1>6. CASE Server_GetRootpwd(m)
  BY <1>6 DEF Server_GetRootpwd
<1>7. CASE Decide(m)
  BY <1>7 DEF Decide
<1>8. CASE ExecuteCMD(m)
  BY <1>8 DEF ExecuteCMD
<1>9. CASE CrashSub(m) \/ RestartSub(m)
  BY <1>9 DEF CrashSub, RestartSub
<1> QED
  BY <1>1, <1>2, <1>3, <1>4, <1>5, <1>6, <1>7, <1>8, <1>9 DEF SubStepOf, PacketStep

LEMMA SubPacketFields ==
  ASSUME NEW r \in SubRequests
  PROVE  /\ r.op \in {"Client_Ping", "ufw_portinfo", "ufw_close", "ufw_open",
                      "addport", "delport"}
         /\ r.op # "Client_Ping" => r.uid \in Int
         /\ r.op \in {"addport", "delport"} => r.port \in Ports
         /\ r # NoSubRequest
<1>1. r \in SubRequest
  BY SubAssumption
<1>2. r.op \in {"Client_Ping", "ufw_portinfo", "ufw_close", "ufw_open", "addport", "delport"}
  BY <1>1 DEF SubRequest
<1>3. r # NoSubRequest
  BY <1>2 DEF NoSubRequest
<1> QED
  BY <1>1, <1>2, <1>3 DEF SubRequest

LEMMA AnswerAppends ==
  ASSUME Domains, NEW m \in Machines, answer[m] \in Seq(Int),
         NEW status \in Seq(Int), SubAnswer(m, status)
  PROVE  /\ subpc'[m] = "SendPacket" /\ answer'[m] \in Seq(Int)
<1>1. answer[m] \o status \in Seq(Int)
  OBVIOUS
<1> QED
  BY <1>1 DEF SubAnswer, SubGoto, Domains

LEMMA DieThreadOK ==
  ASSUME Domains, NEW m \in Machines, ThreadOK(m), SubDie(m)
  PROVE  ThreadOK(m)'
<1>1. <<>> \in Seq(Int)
  OBVIOUS
<1> QED
  BY <1>1 DEF SubDie, SubGoto, Domains, ThreadOK, SubSteps, PacketSteps, NoSubRequest

LEMMA ReportThreadOK ==
  ASSUME DBTypeOK, Domains, NEW m \in Machines, ThreadOK(m), OnTime1s(m) \/ ReportStep(m)
  PROVE  ThreadOK(m)'
<1> USE DEF Domains, ThreadOK, SubGoto, SubSteps, PacketSteps
<1>1. CASE OnTime1s(m)
  BY <1>1 DEF OnTime1s
<1>2. CASE ServerIsRegister(m)
  <2>1. CASE UNCHANGED ident /\ SubGoto(m, "idle")
    BY <1>2, <2>1 DEF ServerIsRegister
  <2>2. ASSUME NEW s \in ServersAt(m),
               ident' = [ident EXCEPT ![m] = {[uid |-> s.user_id, sid |-> s.server_id]}],
               SubGoto(m, "CollectInfo")
        PROVE  ThreadOK(m)'
    <3>1. s \in ServerRow
      BY DEF ServersAt, DBTypeOK
    <3>2. [uid |-> s.user_id, sid |-> s.server_id] \in [uid : UserIds, sid : ServerIds]
      BY <3>1 DEF ServerRow
    <3> QED
      BY <1>2, <2>2, <3>2 DEF ServerIsRegister
  <2> QED
    BY <1>2, <2>1, <2>2 DEF ServerIsRegister
<1>3. CASE CollectInfo(m)
  BY <1>3 DEF CollectInfo
<1>4. CASE SetServerInfo(m)
  BY <1>4 DEF SetServerInfo
<1> QED
  BY <1>1, <1>2, <1>3, <1>4 DEF ReportStep

LEMMA PacketThreadOK ==
  ASSUME DBTypeOK, Domains, NEW m \in Machines, ThreadOK(m), SubDispatch(m) \/ PacketStep(m)
  PROVE  ThreadOK(m)'
<1> USE DEF Domains, ThreadOK, SubGoto, SubSteps, PacketSteps
<1>a. << 0 >> \in Seq(Int) /\ << 1 >> \in Seq(Int) /\ << 2 >> \in Seq(Int)
  OBVIOUS
<1>1. CASE SubDispatch(m)
  <2>1. PICK r \in SubRequests :
          /\ subreq' = [subreq EXCEPT ![m] = r]
          /\ SubGoto(m, CASE r.op = "Client_Ping"  -> "Client_Ping"
                          [] r.op = "ufw_portinfo" -> "Server_GetRootpwd"
                          [] OTHER                 -> "FindUser")
    BY <1>1 DEF SubDispatch
  <2>2. subpc'[m] \in {"Client_Ping", "Server_GetRootpwd", "FindUser"}
    BY <2>1
  <2> QED
    BY <1>1, <2>1, <2>2, SubPacketFields DEF SubDispatch
<1>2. CASE Client_Ping(m)
  BY <1>2, <1>a, AnswerAppends DEF Client_Ping
<1>3. CASE FindUser(m)
  <2>1. PICK rows \in Select(UsersByUid(subreq[m].uid)) :
          \/ SubDie(m)
          \/ /\ \E u \in rows : level' = [level EXCEPT ![m] = u.qx_level]
             /\ SubGoto(m, "Server_GetRootpwd")
             /\ UNCHANGED <<subreq, ident, stamp, pwd, answer, fw, tables>>
    BY <1>3 DEF FindUser
  <2>2. \A u \in rows : u.qx_level \in Levels
    BY SelectedRows DEF UsersByUid, DBTypeOK, UserRow
  <2> QED
    BY <1>3, <2>1, <2>2, DieThreadOK DEF FindUser
<1>4. CASE Server_GetRootpwd(m)
  <2>1. PICK rows \in Select(ServersBySid(subreq[m].uid)) :
          pwd' = [pwd EXCEPT ![m] = {s.linux_pwd : s \in rows}]
    BY <1>4 DEF Server_GetRootpwd
  <2>2. {s.linux_pwd : s \in rows} \subseteq LinuxPwds
    BY SelectedRows DEF ServersBySid, DBTypeOK, ServerRow
  <2> QED
    BY <1>4, <2>1, <2>2 DEF Server_GetRootpwd
<1>5. CASE Decide(m)
  <2>1. CASE SubDie(m)
    BY <2>1, DieThreadOK
  <2>2. CASE SubGoto(m, "ExecuteCMD") /\ UNCHANGED <<subreq, ident, stamp, level, pwd, answer, fw>>
    BY <1>5, <2>2 DEF Decide
  <2>3. ASSUME NEW status \in Seq(Int), SubAnswer(m, status),
               UNCHANGED <<subreq, ident, stamp, level, pwd, fw>>
        PROVE  ThreadOK(m)'
    BY <1>5, <2>3, AnswerAppends DEF Decide
  <2> QED
    BY <1>5, <1>a, <2>1, <2>2, <2>3 DEF Decide
<1>6. CASE ExecuteCMD(m)
  <2>1. subreq[m] \in SubRequests
    BY <1>6 DEF ExecuteCMD
  <2>2. Ufw(fw[m], subreq[m]) \in Firewall
    <3>1. fw[m].on \in BOOLEAN /\ fw[m].allowed \subseteq Ports /\ fw[m] = [on |-> fw[m].on, allowed |-> fw[m].allowed]
      BY DEF Firewall
    <3>2. subreq[m].op \in {"addport", "delport"} => subreq[m].port \in Ports
      BY <2>1, SubPacketFields
    <3> QED
      BY <3>1, <3>2 DEF Ufw, Firewall
  <2>3. fw'[m] \in Firewall
    BY <1>6, <2>2 DEF ExecuteCMD
  <2>4. answer'[m] \in Seq(Int) /\ subpc'[m] = "SendPacket"
    BY <1>6, <1>a, AnswerAppends DEF ExecuteCMD
  <2> QED
    BY <1>6, <2>3, <2>4 DEF ExecuteCMD
<1>7. CASE SubSendPacket(m)
  <2>1. <<>> \in Seq(Int)
    OBVIOUS
  <2> QED
    BY <1>7, <2>1 DEF SubSendPacket
<1> QED
  BY <1>1, <1>2, <1>3, <1>4, <1>5, <1>6, <1>7 DEF PacketStep

LEMMA SubTypeStep ==
  ASSUME DBTypeOK, SubTypeOK, NEW m \in Machines, SubStepOf(m)
  PROVE  SubTypeOK'
<1>1. Domains /\ \A n \in Machines : ThreadOK(n)
  BY TypesByMachine
<1>2. Domains' /\ \A n \in Machines \ {m} : ThreadVars(n)' = ThreadVars(n)
  BY <1>1, OthersStay
<1>3. \A n \in Machines \ {m} : ThreadOK(n)'
  BY <1>1, <1>2 DEF ThreadVars, ThreadOK
<1>4. ThreadOK(m)'
  <2>1. CASE CrashSub(m)
    BY <1>1, <2>1, DieThreadOK DEF CrashSub
  <2>2. CASE RestartSub(m)
    BY <1>1, <2>2
       DEF RestartSub, SubGoto, Domains, ThreadOK, SubSteps, PacketSteps
  <2> QED
    BY <1>1, <2>1, <2>2, ReportThreadOK, PacketThreadOK DEF SubStepOf
<1>5. SubTypeOK' <=> Domains' /\ \A n \in Machines : ThreadOK(n)'
  <2>1. SubSteps \ {"idle", "down", "ServerIsRegister", "CollectInfo", "SetServerInfo"}
          = PacketSteps
    BY DEF SubSteps, PacketSteps
  <2>2. ASSUME Domains', \A n \in Machines : ThreadOK(n)' PROVE SubTypeOK'
    BY <2>1, <2>2 DEF SubTypeOK, Domains, ThreadOK
  <2>3. ASSUME SubTypeOK' PROVE Domains' /\ \A n \in Machines : ThreadOK(n)'
    BY <2>1, <2>3 DEF SubTypeOK, Domains, ThreadOK
  <2> QED
    BY <2>2, <2>3
<1> QED
  BY <1>2, <1>3, <1>4, <1>5

LEMMA SubNextIsAStep ==
  ASSUME SubNext
  PROVE  /\ UNCHANGED <<users, now>> /\ \E m \in Machines : SubStepOf(m)
         /\ UNCHANGED servers \/ \E m \in Machines : SetServerInfo(m)
<1>1. PICK m \in Machines : SubStepOf(m)
  BY DEF SubNext, SubStepOf
<1>2. UNCHANGED tables \/ (SetServerInfo(m) /\ UNCHANGED users)
  BY <1>1 DEF SubStepOf, OnTime1s, ReportStep, ServerIsRegister, CollectInfo, SetServerInfo,
    SubDispatch, PacketStep, Client_Ping, FindUser, Server_GetRootpwd, Decide, ExecuteCMD,
    SubSendPacket, CrashSub, RestartSub, SubDie
<1> QED
  BY <1>1, <1>2 DEF SubNext, tables

-----------------------------------------------------------------------------
(* The cluster is a main server among sub servers that keep to reports.     *)

(* A report is one the main server allows for, or matches no row.           *)
LEMMA ReportIsExpected ==
  ASSUME SubTypeOK, NEW m \in Machines, SetServerInfo(m), UNCHANGED now
  PROVE  SubServerReports \/ UNCHANGED tables
<1>1. PICK c \in RunCommand(TRUE), row \in ident[m] :
        servers' = IF c.applied THEN WithReport(row.uid, row.sid, m, stamp[m]) ELSE servers
  BY DEF SetServerInfo
<1>2. stamp[m] \in Stamps
  BY DEF SubTypeOK
<1>3. CASE \E s \in servers : s.server_id = row.sid /\ s.user_id = row.uid
  BY <1>1, <1>2, <1>3 DEF SetServerInfo, SubServerReports, tables
<1>4. CASE \A s \in servers : ~(s.server_id = row.sid /\ s.user_id = row.uid)
  BY <1>1, <1>4 DEF SetServerInfo, WithReport, tables
<1> QED
  BY <1>3, <1>4

LEMMA ClusterStep ==
  ASSUME SubTypeOK, [ClusterNext]_clusterVars
  PROVE  [MainNext \/ Environment]_allVars
<1>1. CASE SubNext /\ UNCHANGED mainVars
  <2>1. UNCHANGED <<users, now>>
    BY <1>1, SubNextIsAStep
  <2>2. UNCHANGED tables \/ SubServerReports
    BY <1>1, <2>1, SubNextIsAStep, ReportIsExpected DEF tables
  <2> QED
    BY <1>1, <2>1, <2>2 DEF Environment, allVars
<1>2. CASE Tick /\ UNCHANGED <<tables, mainVars, subVars>>
  BY <1>2 DEF Environment
<1>3. CASE UNCHANGED clusterVars
  BY <1>3 DEF clusterVars, allVars
<1> QED
  BY <1>1, <1>2, <1>3 DEF ClusterNext

ClusterInv == OwnersInv /\ SubTypeOK

LEMMA SubInitTypes == SubInit => SubTypeOK
<1> SUFFICES ASSUME SubInit PROVE SubTypeOK
  OBVIOUS
<1>1. <<>> \in Seq(Int)
  OBVIOUS
<1>2. OldStamp \in Stamps
  BY DBAssumption
<1> QED
  BY <1>1, <1>2 DEF SubInit, SubTypeOK, SubSteps, Firewall

LEMMA ClusterInvariance == ClusterSpec => []ClusterInv
<1>1. ClusterInit => ClusterInv
  BY InitOwnersInv, SubInitTypes DEF ClusterInit, ClusterInv
<1>2. ASSUME ClusterInv, [ClusterNext]_clusterVars PROVE ClusterInv'
  <2>1. OwnersInv'
    BY <1>2, ClusterStep, OwnersInvStep DEF ClusterInv
  <2>2. SubTypeOK'
    <3>1. CASE SubNext
      BY <1>2, <3>1, SubNextIsAStep, SubTypeStep DEF ClusterInv, OwnersInv, TypeInv, MainTypeOK
    <3>2. CASE UNCHANGED subVars
      BY <1>2, <3>2 DEF ClusterInv, SubTypeOK, subVars
    <3> QED
      BY <1>2, <3>1, <3>2 DEF ClusterNext, clusterVars
  <2> QED
    BY <2>1, <2>2 DEF ClusterInv
<1> QED
  BY <1>1, <1>2, PTL DEF ClusterSpec

(* A sub server's thread holds the key of a row just while a report is on   *)
(* its way and a packet just while it handles one, on every machine.        *)
THEOREM SubTypesHold == ClusterSpec => []SubTypeOK
<1>1. ClusterInv => SubTypeOK
  BY DEF ClusterInv
<1> QED
  BY <1>1, ClusterInvariance, PTL

(* The sub servers' statements are all of the kind the main server's        *)
(* specification allows for: what is proved of it holds in the cluster.     *)
THEOREM ClusterIsAMainServer == ClusterSpec => ClusterIsMainSystem
<1>1. ClusterInit => MainInit
  BY DEF ClusterInit
<1>2. ClusterInv /\ [ClusterNext]_clusterVars => [MainNext \/ Environment]_allVars
  BY ClusterStep DEF ClusterInv
<1> QED
  BY <1>1, <1>2, ClusterInvariance, PTL DEF ClusterSpec, ClusterIsMainSystem, MainSpec

(* So the main server's promises hold in the deployment, however reports    *)
(* fall between its statements: machines are in the care of administrators, *)
(* what a reply claims is true, and every change has been asked for.        *)
THEOREM ClusterKeepsPromises ==
  ClusterSpec => [](OwnersPrivileged /\ SuccessIsReal) /\ WritesAreAuthorised
<1> QED
  BY ClusterIsAMainServer, OwnersAlwaysPrivileged, SuccessesAreReal, WritesHaveBeenAsked, PTL
     DEF ClusterIsMainSystem

(* And as long as SELECTs do not fail, main server and sub servers together *)
(* keep one register, in which no two accounts have the same name.          *)
THEOREM ClusterIsARegister ==
  ASSUME ~ReadsMayFail
  PROVE  ClusterSpec => []PassportUnique /\ ImplementsRegistry
<1> QED
  BY ClusterIsAMainServer, PassportsStayUnique, HandlersAreARegister, PTL
     DEF ClusterIsMainSystem

-----------------------------------------------------------------------------
(* Who may change a firewall                                                *)

(* From the lookup of the account on, a handler's level is that of the      *)
(* account it runs for, and it goes on to ufw with one of at most 2 only.   *)
LevelOf(m) ==
  /\ subpc[m] \in {"Server_GetRootpwd", "Decide", "ExecuteCMD"} =>
       subreq[m].op = "ufw_portinfo" \/
       \E u \in users : u.user_id = subreq[m].uid /\ u.qx_level = level[m]
  /\ subpc[m] \in {"FindUser", "Server_GetRootpwd", "Decide", "ExecuteCMD"} =>
       subreq[m].op # "Client_Ping"
  /\ subpc[m] = "ExecuteCMD" => ~TooLow(level[m])

LevelInv == \A m \in Machines : LevelOf(m)

(* The handler's own steps, none of which touches an account.               *)
LEMMA LevelSubStep ==
  ASSUME Domains, NEW m \in Machines, LevelOf(m), SubStepOf(m), UNCHANGED users
  PROVE  LevelOf(m)'
<1> USE DEF Domains, LevelOf, SubGoto, SubAnswer, SubDie
<1>1. CASE OnTime1s(m) \/ CrashSub(m) \/ RestartSub(m)
  BY <1>1 DEF OnTime1s, CrashSub, RestartSub
<1>2. CASE ReportStep(m)
  BY <1>2 DEF ReportStep, ServerIsRegister, CollectInfo, SetServerInfo
<1>3. CASE SubDispatch(m)
  <2>1. PICK r \in SubRequests :
          /\ subreq' = [subreq EXCEPT ![m] = r]
          /\ SubGoto(m, CASE r.op = "Client_Ping"  -> "Client_Ping"
                          [] r.op = "ufw_portinfo" -> "Server_GetRootpwd"
                          [] OTHER                 -> "FindUser")
    BY <1>3 DEF SubDispatch
  <2>2. CASE r.op = "Client_Ping"
    BY <2>1, <2>2
  <2>3. CASE r.op = "ufw_portinfo"
    BY <2>1, <2>3
  <2>4. CASE r.op \notin {"Client_Ping", "ufw_portinfo"}
    BY <2>1, <2>4
  <2> QED
    BY <2>2, <2>3, <2>4
<1>4. CASE FindUser(m)
  <2>1. PICK rows \in Select(UsersByUid(subreq[m].uid)) :
          \/ SubDie(m)
          \/ /\ \E u \in rows : level' = [level EXCEPT ![m] = u.qx_level]
             /\ SubGoto(m, "Server_GetRootpwd")
             /\ UNCHANGED <<subreq, ident, stamp, pwd, answer, fw, tables>>
    BY <1>4 DEF FindUser
  <2>2. \A u \in rows : u \in users /\ u.user_id = subreq[m].uid
    BY SelectedRows DEF UsersByUid
  <2> QED
    BY <1>4, <2>1, <2>2 DEF FindUser
<1>5. CASE Server_GetRootpwd(m)
  BY <1>5 DEF Server_GetRootpwd
<1>6. CASE Decide(m)
  BY <1>6 DEF Decide
<1>7. CASE ExecuteCMD(m)
  BY <1>7 DEF ExecuteCMD
<1>8. CASE Client_Ping(m) \/ SubSendPacket(m)
  BY <1>8 DEF Client_Ping, SubSendPacket
<1> QED
  BY <1>1, <1>2, <1>3, <1>4, <1>5, <1>6, <1>7, <1>8 DEF SubStepOf, PacketStep

(* The main server may insert accounts and change passwords meanwhile, but  *)
(* an account keeps its id and its level.                                   *)
LEMMA LevelMainStep ==
  ASSUME LevelInv, AccountsStay, UNCHANGED subVars
  PROVE  LevelInv'
BY DEF LevelInv, LevelOf, AccountsStay, subVars

LEMMA LevelStep ==
  ASSUME ClusterInv, LevelInv, [ClusterNext]_clusterVars
  PROVE  LevelInv'
<1>1. CASE SubNext
  <2>1. PICK m \in Machines : SubStepOf(m)
    BY <1>1, SubNextIsAStep
  <2>2. Domains /\ UNCHANGED users
    BY <1>1, SubNextIsAStep, TypesByMachine DEF ClusterInv
  <2>3. \A n \in Machines : LevelOf(n)
    BY DEF LevelInv
  <2>4. \A n \in Machines \ {m} : LevelOf(n)'
    BY <2>1, <2>2, <2>3, OthersStay DEF ThreadVars, LevelOf
  <2>5. \A n \in Machines : LevelOf(n)'
    BY <2>1, <2>2, <2>3, <2>4, LevelSubStep
  <2> QED
    BY <2>5 DEF LevelInv
<1>2. CASE MainNext /\ UNCHANGED subVars
  BY <1>2, UsersStep, LevelMainStep DEF ClusterInv
<1>3. CASE UNCHANGED <<users, subVars>>
  BY <1>3, LevelMainStep DEF AccountsStay
<1> QED
  BY <1>1, <1>2, <1>3 DEF ClusterNext, clusterVars, tables

(* What FirewallAuthorised says of a step.                                  *)
FirewallsAsked ==
  \A m \in Machines : fw'[m] # fw[m] =>
    /\ subreq[m].op \in {"ufw_close", "ufw_open", "addport", "delport"}
    /\ \E u \in users : u.user_id = subreq[m].uid /\ u.qx_level <= 2
    /\ pwd[m] \cap SudoPwds[m] # {}

LEMMA FirewallStep ==
  ASSUME ClusterInv, LevelInv, [ClusterNext]_clusterVars
  PROVE  FirewallsAsked
<1>1. Domains
  BY TypesByMachine DEF ClusterInv
<1>2. ASSUME NEW m \in Machines, fw'[m] # fw[m], SubNext
      PROVE  ExecuteCMD(m)
  <2>1. PICK n \in Machines : SubStepOf(n)
    BY <1>2, SubNextIsAStep
  <2>2. n = m
    BY <1>1, <1>2, <2>1, OthersStay DEF ThreadVars
  <2> QED
    BY <1>2, <2>1, <2>2 DEF SubStepOf, OnTime1s, ReportStep, ServerIsRegister, CollectInfo,
      SetServerInfo, SubDispatch, PacketStep, Client_Ping, FindUser, Server_GetRootpwd,
      Decide, SubSendPacket, CrashSub, RestartSub, SubDie
<1>3. ASSUME NEW m \in Machines, fw'[m] # fw[m], ExecuteCMD(m)
      PROVE  /\ subreq[m].op \in {"ufw_close", "ufw_open", "addport", "delport"}
             /\ \E u \in users : u.user_id = subreq[m].uid /\ u.qx_level <= 2
             /\ pwd[m] \cap SudoPwds[m] # {}
  <2>1. PICK p \in pwd[m] :
          fw' = IF p \in SudoPwds[m] THEN [fw EXCEPT ![m] = Ufw(@, subreq[m])] ELSE fw
    BY <1>3 DEF ExecuteCMD
  <2>2. p \in SudoPwds[m] /\ Ufw(fw[m], subreq[m]) # fw[m]
    BY <1>1, <1>3, <2>1 DEF Domains
  <2>3. subreq[m].op \in {"ufw_close", "ufw_open", "addport", "delport"}
    BY <2>2 DEF Ufw
  <2>4. PICK u \in users : u.user_id = subreq[m].uid /\ u.qx_level = level[m]
    BY <1>3, <2>3 DEF LevelInv, LevelOf, ExecuteCMD
  <2>5. u.qx_level \in Int
    BY UserNumbers DEF ClusterInv, OwnersInv, TypeInv, MainTypeOK, DBTypeOK
  <2>6. ~(u.qx_level > 2)
    BY <1>3, <2>4 DEF LevelInv, LevelOf, ExecuteCMD, TooLow
  <2> QED
    BY <2>2, <2>3, <2>4, <2>5, <2>6
<1> QED
  BY <1>2, <1>3 DEF FirewallsAsked, ClusterNext, clusterVars, subVars

(* The level is read in one statement, the password in another and ufw runs *)
(* after both, while the main server adds and removes rows; still a         *)
(* firewall changes only for an account that exists and has the level, and  *)
(* with a password that sudo takes.                                         *)
THEOREM FirewallsAreAuthorised == ClusterSpec => FirewallAuthorised
<1>1. ClusterInit => LevelInv
  BY DEF ClusterInit, SubInit, LevelInv, LevelOf
<1>2. ClusterInv /\ LevelInv /\ [ClusterNext]_clusterVars => LevelInv'
  BY LevelStep
<1>3. ClusterInv /\ LevelInv /\ [ClusterNext]_clusterVars => [FirewallsAsked]_<<tables, subVars>>
  BY FirewallStep
<1> QED
  BY <1>1, <1>2, <1>3, ClusterInvariance, PTL
     DEF ClusterSpec, FirewallAuthorised, FirewallsAsked

-----------------------------------------------------------------------------
(* Stamps                                                                   *)

(* What a row shows of a machine, and what its next report will say, is no  *)
(* later than the machine's clock.                                          *)
ShownOf(m) ==
  /\ \A s \in servers : s.server_info = m => s.last_update_time <= stamp[m]
  /\ (\E s \in servers : s.server_info = m) \/ subpc[m] = "SetServerInfo" =>
       stamp[m] <= now + Skew[m]

StampInv == \A m \in Machines : ShownOf(m)

(* A report leaves the rows it does not match, and shows its own machine.   *)
LEMMA ReportShows ==
  ASSUME DBTypeOK, NEW m \in Machines, SetServerInfo(m)
  PROVE  \A t \in servers' :
           t \in servers \/ (t.server_info = m /\ t.last_update_time = stamp[m])
<1>1. PICK c \in RunCommand(TRUE), row \in ident[m] :
        servers' = IF c.applied THEN WithReport(row.uid, row.sid, m, stamp[m]) ELSE servers
  BY DEF SetServerInfo
<1>2. ASSUME NEW s \in servers
      PROVE  LET t == [s EXCEPT !.server_info = m, !.last_update_time = stamp[m]]
             IN  t.server_info = m /\ t.last_update_time = stamp[m]
  BY DEF DBTypeOK, ServerRow
<1> QED
  BY <1>1, <1>2 DEF WithReport

(* A new row shows no machine.                                              *)
LEMMA NewRowsShowNothing ==
  ASSUME MainNext
  PROVE  \A t \in servers' : t \in servers \/ t.server_info = NoInfo
<1>1. CASE AddServerInsert
  <2>1. servers' = servers \/ servers' = WithServer(req.uid, req.sid, req.ip, req.linux_pwd)
    BY <1>1 DEF AddServerInsert
  <2> QED
    BY <2>1 DEF WithServer
<1>2. CASE DelServerDelete
  BY <1>2 DEF DelServerDelete, WithoutServer
<1> QED
  BY <1>1, <1>2, Writers

LEMMA StampNumbers ==
  ASSUME ClusterInv, NEW m \in Machines
  PROVE  /\ stamp[m] \in Int /\ now \in Int /\ Skew[m] \in Int
         /\ m # NoInfo
         /\ \A s \in servers : s.last_update_time \in Int
<1>1. Stamps \subseteq Int /\ m # NoInfo
  BY DBAssumption
<1>2. DBTypeOK
  BY DEF ClusterInv, OwnersInv, TypeInv, MainTypeOK
<1>3. stamp[m] \in Int
  BY <1>1 DEF ClusterInv, SubTypeOK
<1>4. Skew[m] \in Int
  BY SubAssumption
<1>5. \A s \in servers : s.last_update_time \in Int
  BY <1>1, <1>2 DEF DBTypeOK, ServerRow
<1> QED
  BY <1>1, <1>2, <1>3, <1>4, <1>5 DEF DBTypeOK

LEMMA StampStep ==
  ASSUME ClusterInv, StampInv, [ClusterNext]_clusterVars
  PROVE  StampInv'
<1>1. SUFFICES ASSUME NEW m \in Machines PROVE ShownOf(m)'
  BY DEF StampInv
<1>2. ShownOf(m) /\ DBTypeOK /\ Domains
  BY TypesByMachine DEF StampInv, ClusterInv, OwnersInv, TypeInv, MainTypeOK
<1>3. CASE MainNext /\ UNCHANGED subVars
  <2>1. UNCHANGED <<now, stamp, subpc>>
    BY <1>3 DEF MainNext, subVars
  <2> QED
    BY <1>2, <1>3, <2>1, NewRowsShowNothing, StampNumbers DEF ShownOf
<1>4. CASE Tick /\ UNCHANGED <<tables, mainVars, subVars>>
  <2>1. now' = now + 1 /\ UNCHANGED <<servers, stamp, subpc>>
    BY <1>4 DEF Tick, tables, subVars
  <2> QED
    BY <1>2, <2>1, StampNumbers DEF ShownOf
<1>5. CASE SubNext
  <2>1. PICK n \in Machines : SubStepOf(n)
    BY <1>5, SubNextIsAStep
  <2>2. UNCHANGED now
    BY <1>5, SubNextIsAStep
  <2>3. CASE SetServerInfo(n)
    <3>1. UNCHANGED stamp /\ subpc[n] = "SetServerInfo" /\ subpc' = [subpc EXCEPT ![n] = "idle"]
      BY <2>3 DEF SetServerInfo, SubGoto
    <3>2. \A t \in servers' :
            t \in servers \/ (t.server_info = n /\ t.last_update_time = stamp[n])
      BY <1>2, <2>3, ReportShows
    <3>3. CASE n = m
      BY <1>2, <2>2, <3>1, <3>2, <3>3, StampNumbers DEF ShownOf
    <3>4. CASE n # m
      BY <1>2, <2>2, <3>1, <3>2, <3>4, StampNumbers DEF ShownOf, Domains
    <3> QED
      BY <3>3, <3>4
  <2>4. CASE CollectInfo(n)
    <3>1. /\ stamp' = [stamp EXCEPT ![n] = now + Skew[n]] /\ UNCHANGED servers
          /\ subpc[n] = "CollectInfo" /\ subpc' = [subpc EXCEPT ![n] = "SetServerInfo"]
      BY <2>4 DEF CollectInfo, SubGoto, tables
    <3>2. CASE n = m
      <4>1. stamp'[m] = now + Skew[m]
        BY <1>2, <3>1, <3>2 DEF Domains
      <4>2. \A s \in servers : s.server_info = m => s.last_update_time <= now + Skew[m]
        BY <1>2, StampNumbers DEF ShownOf
      <4> QED
        BY <2>2, <3>1, <4>1, <4>2, StampNumbers DEF ShownOf
    <3>3. CASE n # m
      BY <1>2, <2>2, <3>1, <3>3 DEF ShownOf, Domains
    <3> QED
      BY <3>2, <3>3
  <2>5. ~SetServerInfo(n) /\ ~CollectInfo(n) =>
          UNCHANGED <<servers, stamp>> /\ (subpc'[m] = "SetServerInfo" => subpc[m] = "SetServerInfo")
    <3>1. ~SetServerInfo(n) /\ ~CollectInfo(n) => UNCHANGED <<servers, stamp>>
      BY <2>1 DEF SubStepOf, OnTime1s, ReportStep, ServerIsRegister, SubDispatch, PacketStep,
        Client_Ping, FindUser, Server_GetRootpwd, Decide, ExecuteCMD, SubSendPacket, CrashSub,
        RestartSub, SubDie, tables
    <3>2. CASE n # m
      BY <1>2, <2>1, <3>1, <3>2, OthersStay DEF ThreadVars
    <3>3. CASE n = m
      <4>1. ~SetServerInfo(n) /\ ~CollectInfo(n) => subpc'[n] # "SetServerInfo"
        BY <1>2, <2>1 DEF SubStepOf, OnTime1s, ReportStep, ServerIsRegister, SubDispatch,
          PacketStep, Client_Ping, FindUser, Server_GetRootpwd, Decide, ExecuteCMD,
          SubSendPacket, CrashSub, RestartSub, SubDie, SubGoto, SubAnswer, Domains
      <4> QED
        BY <3>1, <3>3, <4>1
    <3> QED
      BY <3>2, <3>3
  <2> QED
    BY <1>2, <2>2, <2>3, <2>4, <2>5 DEF ShownOf
<1>6. CASE UNCHANGED clusterVars
  BY <1>2, <1>6 DEF ShownOf, clusterVars, tables, subVars
<1> QED
  BY <1>3, <1>4, <1>5, <1>6 DEF ClusterNext

(* The time in a row is never ahead of the machine whose information it     *)
(* shows, although a report may land in a row that was added under the same *)
(* id while it was on its way, and clocks may disagree.                     *)
THEOREM StampsStayReal == ClusterSpec => []StampsAreReal
<1>1. ClusterInit => StampInv
  BY SubAssumption DEF ClusterInit, MainInit, DBInit, SubInit, StampInv, ShownOf
<1>2. ClusterInv /\ StampInv /\ [ClusterNext]_clusterVars => StampInv'
  BY StampStep
<1>3. ClusterInv /\ StampInv => StampsAreReal
  BY DEF ClusterInv, OwnersInv, TypeInv, MainTypeOK, DBTypeOK, ServerRow, StampInv, ShownOf,
         StampsAreReal
<1> QED
  BY <1>1, <1>2, <1>3, ClusterInvariance, PTL DEF ClusterSpec

-----------------------------------------------------------------------------
(* Shown on line                                                            *)

(* The clock of a run: later than the stamp of a new row by more than the   *)
(* limit, and not so late that the difference comes round.                  *)
ClockInRange ==
  /\ OldStamp + 3 < StartTime /\ StartTime <= MaxTime
  /\ MaxTime - OldStamp < TimeMod

Silent(rows) == \A s \in rows : s.server_info = NoInfo => s.last_update_time = OldStamp

SearchSteps == {"SearchServerFind", "SearchServerTime"}

(* SearchServerInfo has written nothing before its last step, and no other  *)
(* handler runs for its packet.                                             *)
SearchInv ==
  /\ pc \in SearchSteps => reply = NoReply
  /\ pc \in {"idle", "down"} => reply = NoReply
  /\ pc \in Steps \ (SearchSteps \cup {"idle", "down", "SendPacket"}) =>
       req.op # "SearchServerInfo"

(* A row nobody reported to still has its first stamp, in the table and in  *)
(* the copies a handler holds.                                              *)
OnlineInv ==
  /\ now \in StartTime .. MaxTime
  /\ Silent(servers)
  /\ pc \in {"SearchServerTime", "ListServersLine"} => Silent(found)
  /\ \A s \in reply.online : s.server_info # NoInfo
  /\ SearchInv
  /\ pc = "SendPacket" /\ req.op = "SearchServerInfo" /\ reply.status = <<0>> =>
       \A s \in reply.rows : s.server_info # NoInfo

(* The arithmetic: the first stamp is more than three seconds old.          *)
LEMMA SilentIsTimedOut ==
  ASSUME ClockInRange, OnlineInv, NEW s, s.last_update_time = OldStamp
  PROVE  TimedOut(s)
<1>1. OldStamp \in Int /\ StartTime \in Int /\ MaxTime \in Int /\ TimeMod \in Int
  BY DBAssumption
<1>2. now \in Int /\ now - OldStamp > 3 /\ now - OldStamp < TimeMod
  BY <1>1 DEF ClockInRange, OnlineInv
<1>3. (now - OldStamp) % TimeMod = now - OldStamp
  BY <1>1, <1>2
<1> QED
  BY <1>2, <1>3 DEF TimedOut, Elapsed

LEMMA OnlineClock ==
  ASSUME ClockInRange, OnlineInv, [MainNext \/ Environment]_allVars
  PROVE  now' \in StartTime .. MaxTime
<1>1. StartTime \in Int /\ MaxTime \in Int
  BY DBAssumption
<1>2. CASE UNCHANGED now
  BY <1>2 DEF OnlineInv
<1>3. CASE Tick
  BY <1>1, <1>3 DEF OnlineInv, Tick
<1> QED
  BY <1>2, <1>3 DEF MainNext, Environment, SubServerReports, allVars

LEMMA SilentStep ==
  ASSUME OwnersInv, OnlineInv, [MainNext \/ Environment]_allVars
  PROVE  Silent(servers')
<1>1. Silent(servers) /\ DBTypeOK
  BY DEF OnlineInv, OwnersInv, TypeInv, MainTypeOK
<1>2. CASE UNCHANGED servers
  BY <1>1, <1>2
<1>3. CASE AddServerInsert /\ ~UNCHANGED servers
  <2>1. servers' = WithServer(req.uid, req.sid, req.ip, req.linux_pwd)
    BY <1>3 DEF AddServerInsert
  <2> QED
    BY <1>1, <2>1 DEF WithServer, Silent
<1>4. CASE DelServerDelete
  BY <1>1, <1>4 DEF DelServerDelete, WithoutServer, Silent
<1>5. CASE SubServerReports
  <2>1. PICK r \in servers, m \in Machines, t \in Stamps :
          servers' = WithReport(r.user_id, r.server_id, m, t)
    BY <1>5 DEF SubServerReports
  <2>2. \A s \in servers : [s EXCEPT !.server_info = m, !.last_update_time = t].server_info = m
    BY <1>1 DEF DBTypeOK, ServerRow
  <2>3. m # NoInfo
    BY DBAssumption
  <2> QED
    BY <1>1, <2>1, <2>2, <2>3 DEF WithReport, Silent
<1> QED
  BY <1>2, <1>3, <1>4, <1>5, Writers DEF Environment, allVars, tables

(* The other handlers answer other packets, and show no row as on line.     *)
OtherStep ==
  /\ req' = req /\ pc' \in Steps \ (SearchSteps \cup {"idle", "down", "ListServersLine"})
  /\ reply'.online = reply.online
  /\ pc \notin SearchSteps \cup {"idle", "down", "SendPacket"}

LEMMA OthersShowNothing ==
  ASSUME OwnersInv, AccountStep \/ MachineStep \/ NginxStep,
         ~(SearchServerFind \/ SearchServerTime \/ ListServersFind \/ ListServersLine)
  PROVE  Die \/ OtherStep
<1> DEFINE answered == /\ pc' = "SendPacket" /\ req' = req
                       /\ reply'.online = reply.online
           moved == /\ pc' \in Steps \ (SearchSteps \cup {"idle", "down", "ListServersLine"})
                    /\ req' = req /\ reply'.online = reply.online
<1>1. reply \in Reply
  BY DEF OwnersInv, TypeInv, MainTypeOK
<1>2. ASSUME NEW status, NEW rows, AnswerRows(status, rows) PROVE answered
  BY <1>1, <1>2 DEF Reply, AnswerRows
<1>3. ASSUME NEW status, Answer(status) PROVE answered
  BY <1>2, <1>3 DEF Answer
<1>4. ASSUME NEW rows,
             NEW step \in Steps \ (SearchSteps \cup {"idle", "down", "ListServersLine"}),
             Goto(step, rows)
      PROVE  moved
  BY <1>4 DEF Goto
<1>5. answered => moved
  BY DEF Steps, SearchSteps
<1>6. \A step : step \in {"RegisterFindUser", "SetUserLevel", "SetUserPassport",
        "SetUserInsert", "UpdatePasswordUpdate", "RepeatFindUser", "RepeatFindServers",
        "AddServerInsert", "DelServerFind", "DelServerDelete", "NginxTestScript"} =>
        step \in Steps \ (SearchSteps \cup {"idle", "down", "ListServersLine"})
  BY DEF Steps, SearchSteps
<1> HIDE DEF answered, moved
<1>7. CASE AccountStep
  <2>1. ASSUME RegisterFindUser PROVE moved
    <3>1. \A status : [reply EXCEPT !.status = status].online = reply.online
      BY <1>1 DEF Reply
    <3>2. \/ answered
          \/ pc' = "SetUserLevel" /\ req' = req /\ reply'.online = reply.online
      BY <1>3, <2>1, <3>1 DEF RegisterFindUser
    <3> QED
      BY <1>5, <1>6, <3>2 DEF moved
  <2>2. Die \/ moved
    <3>1. ASSUME PassportInfoLogin \/ HasQuanxian PROVE moved
      BY <1>3, <1>5, <3>1 DEF PassportInfoLogin, HasQuanxian
    <3>2. ASSUME GetUserInfoList PROVE Die \/ moved
      BY <1>3, <1>5, <3>2 DEF GetUserInfoList
    <3>3. ASSUME RegisterFindPassport PROVE moved
      BY <1>4, <1>6, <3>3 DEF RegisterFindPassport
    <3>4. ASSUME SetUserLevel \/ SetUserPassport PROVE moved
      BY <1>3, <1>4, <1>5, <1>6, <3>4 DEF SetUserLevel, SetUserPassport
    <3>5. ASSUME SetUserInsert \/ UpdatePasswordUpdate PROVE moved
      BY <1>3, <1>5, <3>5 DEF SetUserInsert, UpdatePasswordUpdate
    <3>6. ASSUME UpdatePasswordFindUser PROVE moved
      BY <1>3, <1>4, <1>5, <1>6, <3>6 DEF UpdatePasswordFindUser
    <3> QED
      BY <1>7, <2>1, <3>1, <3>2, <3>3, <3>4, <3>5, <3>6 DEF AccountStep
  <2> QED
    BY <1>7, <2>2 DEF moved, OtherStep, SearchSteps, AccountStep, PassportInfoLogin,
      HasQuanxian, GetUserInfoList, RegisterFindPassport, RegisterFindUser, SetUserLevel,
      SetUserPassport, SetUserInsert, UpdatePasswordFindUser, UpdatePasswordUpdate
<1>8. CASE MachineStep
  <2>1. Die \/ moved
    BY <1>2, <1>3, <1>4, <1>5, <1>6, <1>8 DEF MachineStep, AddServerFindUser, RepeatFindUser,
      RepeatFindServers, AddServerInsert, GetServerIPBySid, DelServerFindUser, DelServerFind,
      DelServerDelete
  <2> QED
    BY <1>8, <2>1 DEF moved, OtherStep, SearchSteps, MachineStep, AddServerFindUser,
      RepeatFindUser, RepeatFindServers, AddServerInsert, GetServerIPBySid, DelServerFindUser,
      DelServerFind, DelServerDelete
<1>9. CASE NginxStep
  <2>1. Die \/ moved
    BY <1>2, <1>3, <1>4, <1>5, <1>6, <1>9 DEF NginxStep, NginxTestFindUser, NginxTestScript,
      ReloadNginx
  <2> QED
    BY <1>9, <2>1 DEF moved, OtherStep, SearchSteps, NginxStep, NginxTestFindUser,
      NginxTestScript, ReloadNginx
<1> QED
  BY <1>7, <1>8, <1>9

(* The bookkeeping of SearchServerInfo.                                     *)
LEMMA SearchStep ==
  ASSUME OwnersInv, SearchInv, MainNext
  PROVE  SearchInv'
<1> USE DEF SearchInv, SearchSteps
<1>0. pc \in Steps
  BY DEF OwnersInv, TypeInv, MainTypeOK
<1>1. CASE SearchServerFind \/ SearchServerTime
  BY <1>1 DEF SearchServerFind, SearchServerTime, Answer, AnswerRows, Goto
<1>2. CASE ListServersFind \/ ListServersLine
  BY <1>0, <1>2 DEF ListServersFind, ListServersLine, Goto
<1>3. CASE Die
  BY <1>3 DEF Die
<1>4. CASE OtherStep
  BY <1>0, <1>4 DEF OtherStep
<1>5. CASE Dispatch
  <2>1. PICK r \in Requests : req' = r /\ pc' = Entry(r.op)
    BY <1>5 DEF Dispatch
  <2>2. r.op \in {"PassportInfoLogin", "RegisterNewPassport", "AddServerInfo",
                  "UpdatePassword", "SearchServerInfo", "DelServer", "GetUserInfoList",
                  "NginxTest", "HasQuanxian", "GetServerIPBySid", "GetAllServerInfoList",
                  "ReloadNginx"}
    BY MainAssumption DEF Request
  <2>3. reply' = NoReply
    BY <1>5 DEF Dispatch
  <2>4. pc' # "SearchServerFind" => req'.op # "SearchServerInfo"
    BY <2>1, <2>2 DEF Entry
  <2> QED
    BY <2>3, <2>4
<1>6. CASE SendPacket
  BY <1>6 DEF SendPacket
<1>7. CASE RestartMain
  BY <1>7 DEF RestartMain
<1> QED
  BY <1>1, <1>2, <1>3, <1>4, <1>5, <1>6, <1>7, OthersShowNothing DEF MainNext, CrashMain

(* The steps of the handlers that show rows.                                *)
LEMMA OnlineSearch ==
  ASSUME ClockInRange, OwnersInv, OnlineInv, SearchServerFind \/ SearchServerTime
  PROVE  /\ Silent(servers') /\ now' = now => OnlineInv'
<1> USE DEF SearchInv, SearchSteps, Steps
<1>1. now' = now /\ now \in StartTime .. MaxTime => now' \in StartTime .. MaxTime
  OBVIOUS
<1>2. CASE SearchServerFind
  <2>1. reply = NoReply /\ Silent(servers) /\ pc = "SearchServerFind" /\ UNCHANGED req
    BY <1>2 DEF OnlineInv, SearchServerFind, Answer, AnswerRows, Goto
  <2>2. PICK rows \in Select(ServersOf(req.uid) \cap ServersBySid(req.sid)) :
          Answer(<< 1 >>) \/ \E s \in rows : Goto("SearchServerTime", {s})
    BY <1>2 DEF SearchServerFind
  <2>3. CASE Answer(<< 1 >>)
    <3>1. reply'.rows = {} /\ reply'.online = {} /\ pc' = "SendPacket"
      BY <2>1, <2>3 DEF Answer, AnswerRows, NoReply
    <3> QED
      BY <2>1, <3>1 DEF OnlineInv
  <2>4. ASSUME NEW s \in rows, Goto("SearchServerTime", {s})
        PROVE  Silent(servers') /\ now' = now => OnlineInv'
    <3>1. s \in servers
      BY SelectedRows DEF ServersOf, ServersBySid
    <3> QED
      BY <2>1, <2>4, <3>1 DEF OnlineInv, Goto, Silent
  <2> QED
    BY <2>2, <2>3, <2>4
<1>3. CASE SearchServerTime
  <2>1. reply = NoReply /\ Silent(found)
    BY <1>3 DEF OnlineInv, SearchServerTime
  <2>2. PICK s \in found : IF TimedOut(s) THEN AnswerRows(<< 2, 0 >>, {s})
                                          ELSE AnswerRows(<< 0 >>, {s})
    BY <1>3 DEF SearchServerTime
  <2>3. pc' = "SendPacket" /\ reply'.online = {} /\ reply'.rows = {s}
    BY <2>1, <2>2 DEF AnswerRows, NoReply
  <2>4. TimedOut(s) => reply'.status # << 0 >>
    <3>1. << 2, 0 >> \in Seq(Int) /\ << >> \o << 2, 0 >> = << 2, 0 >>
      OBVIOUS
    <3>2. TimedOut(s) => reply'.status = << 2, 0 >>
      BY <2>1, <2>2, <3>1 DEF AnswerRows, NoReply
    <3> QED
      BY <3>2
  <2>5. ~TimedOut(s) => s.server_info # NoInfo
    BY <2>1, SilentIsTimedOut DEF Silent
  <2> QED
    BY <2>3, <2>4, <2>5 DEF OnlineInv
<1> QED
  BY <1>2, <1>3

LEMMA OnlineList ==
  ASSUME ClockInRange, OwnersInv, OnlineInv, ListServersFind \/ ListServersLine
  PROVE  Silent(servers') /\ now' = now => OnlineInv'
<1> USE DEF SearchInv, SearchSteps, Steps
<1>1. reply.online \in SUBSET ServerRow /\ reply = [status |-> reply.status, rows |-> reply.rows,
                                                    online |-> reply.online]
  BY DEF OwnersInv, TypeInv, MainTypeOK, Reply
<1>2. req.op # "SearchServerInfo" /\ \A s \in reply.online : s.server_info # NoInfo
  BY DEF OnlineInv, ListServersFind, ListServersLine
<1>3. CASE ListServersFind
  <2>1. PICK rows \in Select(servers) : Goto("ListServersLine", rows)
    BY <1>3 DEF ListServersFind
  <2>2. rows \subseteq servers
    BY SelectedRows
  <2> QED
    BY <1>2, <2>1, <2>2 DEF OnlineInv, Goto, Silent
<1>4. CASE ListServersLine
  <2>1. CASE pc' = "SendPacket" /\ UNCHANGED <<req, found, reply>>
    BY <1>2, <2>1 DEF OnlineInv
  <2>2. ASSUME NEW s \in found,
               /\ found' = found \ {s}
               /\ reply' = [reply EXCEPT !.rows = @ \cup {s},
                                         !.online = IF TimedOut(s) THEN @ ELSE @ \cup {s}]
               /\ UNCHANGED <<pc, req>>
        PROVE  Silent(servers') /\ now' = now => OnlineInv'
    <3>1. Silent(found) /\ pc = "ListServersLine"
      BY <1>4 DEF OnlineInv, ListServersLine
    <3>2. ~TimedOut(s) => s.server_info # NoInfo
      BY <3>1, SilentIsTimedOut DEF Silent
    <3>3. reply'.online = IF TimedOut(s) THEN reply.online ELSE reply.online \cup {s}
      BY <1>1, <2>2
    <3>4. \A t \in reply'.online : t.server_info # NoInfo
      BY <1>2, <3>2, <3>3
    <3>5. Silent(found')
      BY <2>2, <3>1 DEF Silent
    <3> QED
      BY <1>2, <2>2, <3>1, <3>4, <3>5 DEF OnlineInv
  <2> QED
    BY <1>4, <2>1, <2>2 DEF ListServersLine
<1> QED
  BY <1>3, <1>4

LEMMA OnlineMainStep ==
  ASSUME ClockInRange, OwnersInv, OnlineInv, MainNext,
         Silent(servers'), now' \in StartTime .. MaxTime
  PROVE  OnlineInv'
<1>1. CASE SearchServerFind \/ SearchServerTime \/ ListServersFind \/ ListServersLine
  BY <1>1, OnlineSearch, OnlineList DEF MainNext
<1>a. SearchInv'
  BY SearchStep DEF OnlineInv
<1>2. CASE Die
  BY <1>a, <1>2 DEF Die, OnlineInv, NoReply, NoRequest
<1>3. CASE OtherStep
  <2>1. pc \in Steps
    BY DEF OwnersInv, TypeInv, MainTypeOK
  <2>2. req.op # "SearchServerInfo"
    BY <1>3, <2>1 DEF OtherStep, OnlineInv, SearchInv
  <2> QED
    BY <1>a, <1>3, <2>2 DEF OtherStep, OnlineInv, SearchSteps
<1>4. CASE Dispatch \/ SendPacket \/ RestartMain
  <2>1. reply' = NoReply
    BY <1>4 DEF Dispatch, SendPacket, RestartMain, OnlineInv, SearchInv
  <2>2. pc' \notin {"SearchServerTime", "ListServersLine", "SendPacket"}
    <3>1. CASE Dispatch
      <4>1. PICK r \in Requests : pc' = Entry(r.op)
        BY <3>1 DEF Dispatch
      <4>2. r.op \in {"PassportInfoLogin", "RegisterNewPassport", "AddServerInfo",
                      "UpdatePassword", "SearchServerInfo", "DelServer", "GetUserInfoList",
                      "NginxTest", "HasQuanxian", "GetServerIPBySid", "GetAllServerInfoList",
                      "ReloadNginx"}
        BY MainAssumption DEF Request
      <4> QED
        BY <4>1, <4>2 DEF Entry
    <3> QED
      BY <1>4, <3>1 DEF SendPacket, RestartMain
  <2> QED
    BY <1>a, <2>1, <2>2 DEF OnlineInv, NoReply
<1> QED
  BY <1>1, <1>2, <1>3, <1>4, OthersShowNothing DEF MainNext, CrashMain

LEMMA OnlineStep ==
  ASSUME ClockInRange, OwnersInv, OnlineInv, [MainNext \/ Environment]_allVars
  PROVE  OnlineInv'
<1>1. Silent(servers') /\ now' \in StartTime .. MaxTime
  BY SilentStep, OnlineClock
<1>2. CASE MainNext
  BY <1>1, <1>2, OnlineMainStep
<1>3. CASE UNCHANGED mainVars
  BY <1>1, <1>3 DEF OnlineInv, SearchInv, mainVars
<1> QED
  BY <1>2, <1>3 DEF Environment, allVars

(* A machine is shown on line, or its information handed out as valid, only *)
(* when one of its reports has reached the row, although the row is read in *)
(* one step and the clock in another: as long as the clock is past the      *)
(* first stamp of a row, and the unsigned difference does not come round.   *)
THEOREM OnlineMeansReported ==
  ASSUME ClockInRange
  PROVE  ClusterSpec => []OnlineHasReported
<1>1. MainInit => OnlineInv
  BY DBAssumption DEF ClockInRange, MainInit, DBInit, OnlineInv, SearchInv, Silent, NoReply, SearchSteps
<1>2. OwnersInv /\ OnlineInv /\ [MainNext \/ Environment]_allVars => OnlineInv'
  BY OnlineStep
<1>3. OnlineInv => OnlineHasReported
  BY DEF OnlineInv, OnlineHasReported
<1>4. MainInit => OwnersInv
  BY InitOwnersInv
<1>5. OwnersInv /\ [MainNext \/ Environment]_allVars => OwnersInv'
  BY OwnersInvStep
<1> QED
  BY <1>1, <1>2, <1>3, <1>4, <1>5, ClusterIsAMainServer, PTL DEF MainSpec, ClusterIsMainSystem

-----------------------------------------------------------------------------
(* Said to have disconnected                                                *)

(* A row shows no machine a time that its clock had not reached.             *)
Past(rows) ==
  \A s \in rows : s.server_info # NoInfo => s.last_update_time <= now + Skew[s.server_info]

(* Nor does the copy of a row that SearchServerInfo holds while it asks for  *)
(* the time.                                                                *)
OfflineInv ==
  /\ pc = "SearchServerTime" => Past(found)
  /\ SearchInv
  /\ OfflineMeansSilent

LEMMA TableIsPast == ASSUME ClusterInv, StampInv PROVE Past(servers)
<1> SUFFICES ASSUME NEW s \in servers, s.server_info # NoInfo
             PROVE  s.last_update_time <= now + Skew[s.server_info]
  BY DEF Past
<1>1. s.server_info \in Machines
  BY DEF ClusterInv, OwnersInv, TypeInv, MainTypeOK, DBTypeOK, ServerRow
<1>2. /\ s.last_update_time <= stamp[s.server_info]
      /\ stamp[s.server_info] <= now + Skew[s.server_info]
  BY <1>1 DEF StampInv, ShownOf
<1> QED
  BY <1>1, <1>2, StampNumbers

(* The arithmetic: an unsigned difference of numbers in order is at most    *)
(* their difference.                                                        *)
LEMMA TimedOutIsSilent ==
  ASSUME now \in Int, NEW s, s.last_update_time \in Int, s.last_update_time <= now,
         TimedOut(s)
  PROVE  now - s.last_update_time > 3
<1> DEFINE d == now - s.last_update_time
<1>1. d \in Nat /\ TimeMod \in Nat \ {0}
  BY DBAssumption
<1>2. d % TimeMod > 3
  BY DEF TimedOut, Elapsed
<1> HIDE DEF d
<1>3. d < TimeMod => d > 3
  BY <1>1, <1>2
<1>4. ASSUME d >= TimeMod PROVE d > 3
  <2>1. d % TimeMod < TimeMod /\ d % TimeMod \in Int
    BY <1>1
  <2> QED
    BY <1>1, <1>2, <1>4, <2>1
<1> QED
  BY <1>1, <1>3, <1>4 DEF d

LEMMA RowTimes ==
  ASSUME OwnersInv
  PROVE  /\ now \in Int /\ \A m \in Machines : Skew[m] \in Int
         /\ \A s \in servers : s.last_update_time \in Int
         /\ pc = "SearchServerTime" =>
              \A s \in found : /\ s.last_update_time \in Int
                              /\ s.server_info \in Machines \cup {NoInfo}
<1>1. Stamps \subseteq Int /\ \A m \in Machines : Skew[m] \in Int
  BY DBAssumption, SubAssumption
<1>2. \A s \in ServerRow : s.last_update_time \in Int /\ s.server_info \in Machines \cup {NoInfo}
  BY <1>1 DEF ServerRow
<1>3. servers \subseteq ServerRow /\ now \in Int
  BY DEF OwnersInv, TypeInv, MainTypeOK, DBTypeOK
<1>4. pc = "SearchServerTime" => found \subseteq ServerRow
  BY DEF OwnersInv, TypeInv, MainTypeOK
<1> QED
  BY <1>1, <1>2, <1>3, <1>4

(* What a search of the main server holds and answers.                      *)
LEMMA OfflineSearch ==
  ASSUME OwnersInv, OfflineInv, Past(servers), SearchServerFind \/ SearchServerTime,
         UNCHANGED now
  PROVE  (pc' = "SearchServerTime" => Past(found)') /\ OfflineMeansSilent'
<1>1. reply = NoReply
  BY DEF OfflineInv, SearchInv, SearchSteps, SearchServerFind, SearchServerTime
<1>2. CASE SearchServerFind
  <2>1. PICK rows \in Select(ServersOf(req.uid) \cap ServersBySid(req.sid)) :
          Answer(<< 1 >>) \/ \E s \in rows : Goto("SearchServerTime", {s})
    BY <1>2 DEF SearchServerFind
  <2>2. CASE Answer(<< 1 >>)
    <3>1. reply'.status = << 1 >> /\ pc' = "SendPacket"
      BY <1>1, <2>2, StatusOne DEF Answer, AnswerRows
    <3> QED
      BY <3>1 DEF OfflineMeansSilent
  <2>3. ASSUME NEW s \in rows, Goto("SearchServerTime", {s})
        PROVE  pc' = "SearchServerTime" /\ Past(found)'
    <3>1. s \in servers
      BY SelectedRows DEF ServersOf, ServersBySid
    <3> QED
      BY <2>3, <3>1 DEF OfflineInv, Past, Goto
  <2> QED
    BY <2>1, <2>2, <2>3 DEF OfflineMeansSilent
<1>3. CASE SearchServerTime
  <2>1. PICK s \in found : IF TimedOut(s) THEN AnswerRows(<< 2, 0 >>, {s})
                                          ELSE AnswerRows(<< 0 >>, {s})
    BY <1>3 DEF SearchServerTime
  <2>2. pc' = "SendPacket" /\ reply'.rows = {s}
    BY <1>1, <2>1 DEF AnswerRows, NoReply
  <2>3. CASE TimedOut(s)
    <3>1. s \in found /\ s.last_update_time \in Int /\ now \in Int
          /\ s.server_info \in Machines \cup {NoInfo}
      BY <1>3, RowTimes DEF SearchServerTime
    <3>2. ASSUME s.server_info # NoInfo, ~(Skew[s.server_info] > 0)
          PROVE  now - s.last_update_time > 3
      <4>1. Skew[s.server_info] \in Int /\ s.last_update_time <= now + Skew[s.server_info]
        BY <1>3, <3>1, <3>2, RowTimes DEF OfflineInv, Past, SearchServerTime
      <4>2. s.last_update_time <= now
        BY <3>1, <3>2, <4>1
      <4> QED
        BY <2>3, <3>1, <4>2, TimedOutIsSilent
    <3> QED
      BY <1>3, <2>2, <3>2 DEF OfflineMeansSilent
  <2>4. CASE ~TimedOut(s)
    <3>1. << 0 >> \in Seq(Int) /\ << >> \o << 0 >> = << 0 >>
      OBVIOUS
    <3>2. reply'.status = << 0 >>
      BY <1>1, <2>1, <2>4, <3>1 DEF AnswerRows, NoReply
    <3> QED
      BY <2>2, <3>2 DEF OfflineMeansSilent
  <2> QED
    BY <2>2, <2>3, <2>4
<1> QED
  BY <1>2, <1>3

(* Nobody else holds a row at SearchServerTime or answers a search.         *)
LEMMA OthersDoNotSearch ==
  ASSUME OwnersInv, SearchInv, MainNext, ~(SearchServerFind \/ SearchServerTime)
  PROVE  /\ pc' # "SearchServerTime"
         /\ ~(pc' = "SendPacket" /\ req'.op = "SearchServerInfo")
<1>0. pc \in Steps
  BY DEF OwnersInv, TypeInv, MainTypeOK
<1>1. CASE ListServersFind \/ ListServersLine
  BY <1>0, <1>1 DEF ListServersFind, ListServersLine, Goto, SearchInv, SearchSteps
<1>2. CASE Die
  BY <1>2 DEF Die
<1>3. CASE OtherStep
  BY <1>0, <1>3 DEF OtherStep, SearchInv, SearchSteps
<1>4. CASE Dispatch
  <2>1. PICK r \in Requests : pc' = Entry(r.op)
    BY <1>4 DEF Dispatch
  <2>2. r.op \in {"PassportInfoLogin", "RegisterNewPassport", "AddServerInfo",
                  "UpdatePassword", "SearchServerInfo", "DelServer", "GetUserInfoList",
                  "NginxTest", "HasQuanxian", "GetServerIPBySid", "GetAllServerInfoList",
                  "ReloadNginx"}
    BY MainAssumption DEF Request
  <2> QED
    BY <2>1, <2>2 DEF Entry
<1>5. CASE SendPacket \/ RestartMain
  BY <1>5 DEF SendPacket, RestartMain
<1> QED
  BY <1>1, <1>2, <1>3, <1>4, <1>5, OthersShowNothing DEF MainNext, CrashMain

LEMMA OfflineMainStep ==
  ASSUME OwnersInv, OfflineInv, Past(servers), MainNext
  PROVE  OfflineInv'
<1>1. UNCHANGED now
  BY DEF MainNext
<1>2. SearchInv'
  BY SearchStep DEF OfflineInv
<1>3. (pc' = "SearchServerTime" => Past(found)') /\ OfflineMeansSilent'
  BY <1>1, OfflineSearch, OthersDoNotSearch DEF OfflineInv, OfflineMeansSilent
<1> QED
  BY <1>2, <1>3 DEF OfflineInv

LEMMA OfflineStep ==
  ASSUME ClusterInv, StampInv, OfflineInv, [ClusterNext]_clusterVars
  PROVE  OfflineInv'
<1>1. CASE MainNext /\ UNCHANGED subVars
  BY <1>1, OfflineMainStep, TableIsPast DEF ClusterInv
<1>2. CASE UNCHANGED <<now, mainVars>>
  BY <1>2 DEF OfflineInv, OfflineMeansSilent, SearchInv, mainVars, Past
<1>3. CASE Tick /\ UNCHANGED <<tables, mainVars, subVars>>
  <2>1. now' = now + 1 /\ UNCHANGED mainVars /\ now \in Int
    BY <1>3, RowTimes DEF Tick, ClusterInv
  <2>2. ASSUME pc = "SearchServerTime" PROVE Past(found)'
    <3> SUFFICES ASSUME NEW s \in found, s.server_info # NoInfo
                 PROVE  s.last_update_time <= now' + Skew[s.server_info]
      BY <2>1 DEF Past, mainVars
    <3>1. /\ s.last_update_time \in Int /\ Skew[s.server_info] \in Int
          /\ s.last_update_time <= now + Skew[s.server_info]
      BY <2>2, RowTimes DEF ClusterInv, OfflineInv, Past
    <3> QED
      BY <2>1, <3>1
  <2>3. \A s \in reply.rows : s.last_update_time \in Int
    <3>1. reply.rows \subseteq ServerRow
      BY DEF ClusterInv, OwnersInv, TypeInv, MainTypeOK, Reply
    <3>2. Stamps \subseteq Int
      BY DBAssumption
    <3> QED
      BY <3>1, <3>2 DEF ServerRow
  <2>4. OfflineMeansSilent'
    <3> SUFFICES ASSUME OfflineMeansSilent, NEW s \in reply.rows, now - s.last_update_time > 3
                 PROVE  now' - s.last_update_time > 3
      BY <2>1 DEF OfflineInv, OfflineMeansSilent, mainVars
    <3> QED
      BY <2>1, <2>3
  <2> QED
    BY <2>1, <2>2, <2>4 DEF OfflineInv, SearchInv, mainVars
<1>4. SubNext => UNCHANGED now
  BY SubNextIsAStep
<1> QED
  BY <1>1, <1>2, <1>3, <1>4 DEF ClusterNext, clusterVars

(* A client is told that a machine has disconnected only when the report it *)
(* is shown is more than three seconds old, or when the machine that made   *)
(* it has a clock ahead of the main server's: for any clocks, although the  *)
(* row is read in one step and the clock in another, and although machines  *)
(* may report to rows registered for others.  However long the run, the     *)
(* unsigned difference may come round without breaking it.                  *)
THEOREM OfflineIsSilent == ClusterSpec => []OfflineMeansSilent
<1>1. ClusterInit => OfflineInv
  BY DEF ClusterInit, MainInit, OfflineInv, SearchInv, SearchSteps, OfflineMeansSilent
<1>2. ClusterInit => StampInv
  BY SubAssumption DEF ClusterInit, MainInit, DBInit, SubInit, StampInv, ShownOf
<1>3. ClusterInv /\ StampInv /\ [ClusterNext]_clusterVars => StampInv'
  BY StampStep
<1>4. ClusterInv /\ StampInv /\ OfflineInv /\ [ClusterNext]_clusterVars => OfflineInv'
  BY OfflineStep
<1>5. OfflineInv => OfflineMeansSilent
  BY DEF OfflineInv
<1> QED
  BY <1>1, <1>2, <1>3, <1>4, <1>5, ClusterInvariance, PTL DEF ClusterSpec

-----------------------------------------------------------------------------
(* Whose information a row shows                                            *)

Asked(uid, sid, ip) ==
  \E r \in Requests : r.op = "AddServerInfo" /\ r.uid = uid /\ r.sid = sid /\ r.ip = ip

(* The key that machine m holds for its report has been asked for by some   *)
(* registration of m, matches no row of another machine, and if nobody      *)
(* gives the id up, has not been given up.                                  *)
KeyKept(k, m) ==
  /\ Asked(k.uid, k.sid, m)
  /\ \A s \in servers : s.server_id = k.sid /\ s.user_id = k.uid => s.server_ip = m
  /\ (\A r \in Requests : r.op = "DelServer" => r.sid # k.sid) =>
       \E s \in servers : s.server_id = k.sid

KeptInv ==
  /\ \A s \in servers : Asked(s.user_id, s.server_id, s.server_ip)
  /\ \A m \in Machines : \A k \in ident[m] : KeyKept(k, m)
  /\ InfoIsOwn

(* A new row under a key that a report holds is of the machine that reports:*)
(* either the key's row is still there, and the primary key refuses the new *)
(* one, or all that register under the key mean the same machine.           *)
LEMMA KeptAddition ==
  ASSUME KeysAreKept, WritesInv, KeptInv, UNCHANGED ident,
         AddServerInsert, ~UNCHANGED servers
  PROVE  KeptInv'
<1>1. /\ servers' = WithServer(req.uid, req.sid, req.ip, req.linux_pwd)
      /\ \A s \in servers : s.server_id # req.sid
  BY DEF AddServerInsert, RunCommand, ServersBySid
<1>2. req \in Requests /\ req.op = "AddServerInfo"
  BY DEF WritesInv, OwnersInv, TypeInv, MainTypeOK, OpInv, AddServerSteps, AddServerInsert
<1>3. PICK n : /\ servers' = servers \cup {n} /\ n.user_id = req.uid /\ n.server_id = req.sid
               /\ n.server_ip = req.ip /\ n.server_info = NoInfo
  BY <1>1 DEF WithServer
<1>4. ASSUME NEW m \in Machines, NEW k \in ident[m] PROVE KeyKept(k, m)'
  <2>1. KeyKept(k, m)
    BY DEF KeptInv
  <2>2. ASSUME req.sid = k.sid, req.uid = k.uid PROVE req.ip = m
    <3>1. PICK r \in Requests : /\ r.op = "AddServerInfo" /\ r.uid = k.uid
                                /\ r.sid = k.sid /\ r.ip = m
      BY <2>1 DEF KeyKept, Asked
    <3>2. ~(\A q \in Requests : q.op = "DelServer" => q.sid # k.sid)
      BY <1>1, <2>1, <2>2 DEF KeyKept
    <3>3. k.sid \in ServerIds
      BY <3>1, RequestFields
    <3> QED
      BY <1>2, <2>2, <3>1, <3>2, <3>3 DEF KeysAreKept
  <2> QED
    BY <1>3, <2>1, <2>2 DEF KeyKept, Asked
<1>5. \A s \in servers' : Asked(s.user_id, s.server_id, s.server_ip)
  BY <1>2, <1>3 DEF KeptInv, Asked
<1>6. InfoIsOwn'
  BY <1>3 DEF KeptInv, InfoIsOwn
<1> QED
  BY <1>4, <1>5, <1>6 DEF KeptInv, Asked

LEMMA KeptMainStep ==
  ASSUME KeysAreKept, WritesInv, KeptInv, MainNext, UNCHANGED ident
  PROVE  KeptInv'
<1>1. CASE UNCHANGED servers
  BY <1>1 DEF KeptInv, KeyKept, Asked, InfoIsOwn
<1>2. CASE DelServerDelete /\ ~UNCHANGED servers
  <2>1. req \in Requests /\ req.op = "DelServer"
    BY <1>2 DEF WritesInv, OwnersInv, TypeInv, MainTypeOK, OpInv, DelServerSteps,
                DelServerDelete
  <2>2. servers' = servers \ ServersBySid(req.sid)
    BY <1>2 DEF DelServerDelete, WithoutServer
  <2>3. ASSUME NEW m \in Machines, NEW k \in ident[m] PROVE KeyKept(k, m)'
    BY <2>1, <2>2 DEF KeptInv, KeyKept, Asked, ServersBySid
  <2> QED
    BY <2>2, <2>3 DEF KeptInv, Asked, InfoIsOwn
<1> QED
  BY <1>1, <1>2, KeptAddition, Writers

(* The lookup takes the key of a row of its own machine.                    *)
LEMMA KeptLookup ==
  ASSUME WritesInv, Domains, KeptInv, NEW m \in Machines, ServerIsRegister(m)
  PROVE  KeptInv'
<1>1. UNCHANGED servers
  BY DEF ServerIsRegister, tables
<1>2. CASE UNCHANGED ident
  BY <1>1, <1>2 DEF KeptInv, KeyKept, Asked, InfoIsOwn
<1>3. ASSUME NEW s \in ServersAt(m),
             ident' = [ident EXCEPT ![m] = {[uid |-> s.user_id, sid |-> s.server_id]}]
      PROVE  KeptInv'
  <2>1. s \in servers /\ s.server_ip = m
    BY DEF ServersAt
  <2>2. ASSUME NEW n \in Machines, NEW k \in ident'[n] PROVE KeyKept(k, n)'
    <3>1. CASE n = m
      <4>1. k = [uid |-> s.user_id, sid |-> s.server_id]
        BY <1>3, <2>2, <3>1 DEF Domains
      <4>2. \A t \in servers : t.server_id = s.server_id => t = s
        BY <2>1 DEF WritesInv, UniqueServerIds
      <4> QED
        BY <1>1, <2>1, <3>1, <4>1, <4>2 DEF KeptInv, KeyKept, Asked
    <3>2. CASE n # m
      BY <1>1, <1>3, <2>2, <3>2 DEF Domains, KeptInv, KeyKept, Asked
    <3> QED
      BY <3>1, <3>2
  <2> QED
    BY <1>1, <2>2 DEF KeptInv, Asked, InfoIsOwn
<1> QED
  BY <1>2, <1>3 DEF ServerIsRegister

(* The report lands in rows of its own machine only.                        *)
LEMMA KeptReport ==
  ASSUME DBTypeOK, Domains, KeptInv, NEW m \in Machines, SetServerInfo(m)
  PROVE  KeptInv'
<1>1. PICK c \in RunCommand(TRUE), k \in ident[m] :
        servers' = IF c.applied THEN WithReport(k.uid, k.sid, m, stamp[m]) ELSE servers
  BY DEF SetServerInfo
<1> DEFINE new(s) == IF s.server_id = k.sid /\ s.user_id = k.uid
                       THEN [s EXCEPT !.server_info = m, !.last_update_time = stamp[m]] ELSE s
<1>2. servers' = {new(s) : s \in servers} \/ servers' = servers
  BY <1>1 DEF WithReport
<1>3. \A s \in servers : /\ new(s).server_id = s.server_id /\ new(s).user_id = s.user_id
                         /\ new(s).server_ip = s.server_ip
                         /\ new(s).server_info \in {NoInfo, s.server_ip}
  <2>1. \A s \in servers : s.server_id = k.sid /\ s.user_id = k.uid => s.server_ip = m
    BY DEF KeptInv, KeyKept
  <2> QED
    BY <2>1 DEF DBTypeOK, ServerRow, KeptInv, InfoIsOwn
<1> HIDE DEF new
<1>4. InfoIsOwn' /\ \A s \in servers' : Asked(s.user_id, s.server_id, s.server_ip)
  BY <1>2, <1>3 DEF KeptInv, InfoIsOwn
<1>5. \A n \in Machines : ident'[n] \subseteq ident[n]
  BY DEF SetServerInfo, Domains
<1>6. ASSUME NEW n \in Machines, NEW l \in ident[n] PROVE KeyKept(l, n)'
  <2>1. KeyKept(l, n)
    BY DEF KeptInv
  <2> QED
    BY <1>2, <1>3, <2>1 DEF KeyKept, Asked
<1> QED
  BY <1>4, <1>5, <1>6 DEF KeptInv, Asked

LEMMA KeptStep ==
  ASSUME KeysAreKept, ClusterInv, WritesInv, KeptInv, [ClusterNext]_clusterVars
  PROVE  KeptInv'
<1>1. CASE MainNext /\ UNCHANGED subVars
  BY <1>1, KeptMainStep DEF subVars
<1>2. CASE SubNext
  <2>1. PICK m \in Machines : SubStepOf(m)
    BY <1>2, SubNextIsAStep
  <2>2. Domains /\ DBTypeOK
    BY TypesByMachine DEF ClusterInv, OwnersInv, TypeInv, MainTypeOK
  <2>3. CASE ServerIsRegister(m) \/ SetServerInfo(m)
    BY <2>2, <2>3, KeptLookup, KeptReport
  <2>4. CASE ~(ServerIsRegister(m) \/ SetServerInfo(m))
    <3>1. UNCHANGED servers /\ \A n \in Machines : ident'[n] \subseteq ident[n]
      BY <2>1, <2>2, <2>4 DEF SubStepOf, OnTime1s, ReportStep, CollectInfo, SubDispatch,
        PacketStep, Client_Ping, FindUser, Server_GetRootpwd, Decide, ExecuteCMD,
        SubSendPacket, CrashSub, RestartSub, SubDie, Domains, tables
    <3> QED
      BY <3>1 DEF KeptInv, KeyKept, Asked, InfoIsOwn
  <2> QED
    BY <2>3, <2>4
<1>3. CASE UNCHANGED <<servers, ident>>
  BY <1>3 DEF KeptInv, KeyKept, Asked, InfoIsOwn
<1> QED
  BY <1>1, <1>2, <1>3 DEF ClusterNext, clusterVars, subVars, tables

(* The information in a row is its own machine's, however lookup, script,   *)
(* clock and UPDATE of a report are cut by additions, removals and crashes: *)
(* as long as every id is either never given up, or used by one account for *)
(* one machine only.                                                        *)
THEOREM InfoStaysOwn ==
  ASSUME KeysAreKept
  PROVE  ClusterSpec => []InfoIsOwn
<1>1. ClusterInit => KeptInv
  BY DEF ClusterInit, MainInit, DBInit, SubInit, KeptInv, InfoIsOwn
<1>2. ClusterInv /\ WritesInv /\ KeptInv /\ [ClusterNext]_clusterVars => KeptInv'
  BY KeptStep
<1>3. KeptInv => InfoIsOwn
  BY DEF KeptInv
<1> QED
  BY <1>1, <1>2, <1>3, ClusterInvariance, ClusterIsAMainServer, WritesInvariance, PTL
     DEF ClusterSpec, ClusterIsMainSystem
=============================================================================
