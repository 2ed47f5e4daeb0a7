------------------------------ MODULE Cluster ------------------------------
(***************************************************************************)
(* The deployment: one main server and a sub server on every machine.      *)
(* They never talk to each other; all they share is the database, and the  *)
(* statements of one fall between the statements of another.               *)
(***************************************************************************)
EXTENDS MainServer, SubServer

clusterVars == <<tables, now, mainVars, subVars>>

ClusterInit == MainInit /\ SubInit

ClusterNext ==
  \/ MainNext /\ UNCHANGED subVars
  \/ SubNext /\ UNCHANGED mainVars
  \/ Tick /\ UNCHANGED <<tables, mainVars, subVars>>

ClusterSpec == ClusterInit /\ [][ClusterNext]_clusterVars

(* Fairness.  A statement, a script and a wake-up of the loop end, so every *)
(* step of a thread that has begun something is weakly fair.  The timer     *)
(* waits for the thread to be idle, which packets interrupt again and       *)
(* again; but an expired timer is queued behind a finite number of packets, *)
(* so it runs if the thread is idle infinitely often.                       *)
SubFairness ==
  \A m \in Machines :
    /\ SF_clusterVars(OnTime1s(m) /\ UNCHANGED <<now, mainVars>>)
    /\ WF_clusterVars(ReportStep(m) /\ UNCHANGED <<now, mainVars>>)
    /\ WF_clusterVars(PacketStep(m) /\ UNCHANGED <<now, mainVars>>)
    /\ WF_clusterVars(RestartSub(m) /\ UNCHANGED <<now, mainVars>>)

MainFairness ==
  /\ WF_clusterVars((AccountStep \/ MachineStep \/ NginxStep \/ SendPacket)
                      /\ UNCHANGED <<now, subVars>>)
  /\ WF_clusterVars(RestartMain /\ UNCHANGED <<now, subVars>>)

FairClusterSpec == ClusterSpec /\ SubFairness /\ MainFairness

-----------------------------------------------------------------------------
(* Properties                                                               *)

(* The main server's specification assumes that others only write reports.  *)
(* The sub servers keep to that: the cluster is a main server in such an    *)
(* environment, so what holds there holds here.                             *)
ClusterIsMainSystem == MainSpec

(* A row never claims to have heard from a machine later than that machine  *)
(* last looked at itself, even when a row is removed and another added      *)
(* under its id while a report is on its way.                               *)
StampsAreReal ==
  \A s \in servers : s.server_info # NoInfo => s.last_update_time <= stamp[s.server_info]

(* A machine is shown on line, or its information handed out as valid, only *)
(* after some report has been written to its row.                           *)
OnlineHasReported ==
  pc = "SendPacket" =>
    /\ \A s \in reply.online : s.server_info # NoInfo
    /\ req.op = "SearchServerInfo" /\ reply.status = <<0>> =>
         \A s \in reply.rows : s.server_info # NoInfo

(* A client is told that a machine has disconnected (2) only when the report *)
(* it is shown is more than 3 seconds old, or when the machine that made it  *)
(* has a clock that is ahead of the main server's, which makes the unsigned *)
(* difference wrap: the one machine's clock never counts against another's, *)
(* although each may report to a row that was registered for the other.     *)
OfflineMeansSilent ==
  pc = "SendPacket" /\ req.op = "SearchServerInfo" /\ reply.status = <<2, 0>> =>
    \A s \in reply.rows : s.server_info # NoInfo =>
      now - s.last_update_time > 3 \/ Skew[s.server_info] > 0

(* Clients keep to keys: an id is never given up, or every registration     *)
(* under it by one account is of one machine.                               *)
KeysAreKept ==
  \A sid \in ServerIds :
    \/ \A r \in Requests : r.op = "DelServer" => r.sid # sid
    \/ \A r, q \in Requests :
         /\ r.op = "AddServerInfo" /\ r.sid = sid
         /\ q.op = "AddServerInfo" /\ q.sid = sid /\ q.uid = r.uid
         => q.ip = r.ip

RegisteredOnce(m, sid) ==
  /\ {s.server_id : s \in ServersAt(m)} = {sid}
  /\ Cardinality(ServersAt(m)) = 1

Shows(sid, m) == \E s \in servers : s.server_id = sid /\ s.server_info = m

(* Once a machine is registered for good under one id, and under no other,  *)
(* and its sub server has stopped crashing, its row comes to hold its own   *)
(* information and keeps it, whatever other machine had that id before and  *)
(* had a report on its way.                                                 *)
OwnInfoPrevails ==
  \A m \in Machines, sid \in ServerIds :
    <>[](RegisteredOnce(m, sid) /\ subpc[m] # "down") => <>[]Shows(sid, m)

-----------------------------------------------------------------------------
(* What comments and declarations say, and the code keeps only where clients *)
(* keep to keys (InfoIsOwn), where clocks agree (DisconnectedIsSilent), or   *)
(* not.                                                                     *)

(* "向数据库中写入 server 当前状态" (write the server's current state to the    *)
(* database, subserver/DBHelper.hpp:19): the information in a row is that   *)
(* of the row's own machine.  A report on its way when its row is removed   *)
(* lands in a row added under the same id for another machine.              *)
InfoIsOwn == \A s \in servers : s.server_info \in {NoInfo, s.server_ip}

(* "服务器已经断开" (the server has disconnected, MainSession.cc:260): 2 is    *)
(* written for a machine whose report is more than 3 seconds old.  The      *)
(* machine that OfflineMeansSilent excepts, with a clock that is ahead, is  *)
(* told so of a report it has just made.                                    *)
DisconnectedIsSilent ==
  pc = "SendPacket" /\ req.op = "SearchServerInfo" /\ reply.status = <<2, 0>> =>
    \A s \in reply.rows : now - s.last_update_time > 3

(* "server 需要定时向数据库写当前机器信息" (the server periodically writes its   *)
(* machine's information, subserver/Server.hpp:29): a row that stays is     *)
(* reported to some time.  Of two rows with one address the second never is. *)
EveryRowReported ==
  \A m \in Machines, sid \in ServerIds :
    <>[](subpc[m] # "down" /\ \E s \in ServersAt(m) : s.server_id = sid) => <>Shows(sid, m)

(* Server_GetRootpwd(int sid) (subserver/DBHelper.hpp:23): the password for *)
(* ufw comes from the machine's own row.  The handlers pass uid for sid.    *)
PasswordIsOwn ==
  \A m \in Machines : subpc[m] = "Decide" /\ pwd[m] # {} =>
    \E s \in ServersAt(m) : s.linux_pwd \in pwd[m]
=============================================================================
