----------------------------- MODULE SubServer -----------------------------
(***************************************************************************)
(* The sub server, one process on every machine: the timer that reports    *)
(* the machine to the shared database every second, and SubServer::        *)
(* Session's handlers, which run ufw with a password read from there.      *)
(* Timer and packets share one thread.  As in the main server an action    *)
(* reaches from one statement or script to the next.                       *)
(***************************************************************************)
EXTENDS SharedDB, Sequences, FiniteSets

CONSTANTS
  SubRequests,  \* the packets clients send to a sub server
  Ports,        \* port numbers
  Skew,         \* per machine, its clock less the main server's
  SudoPwds,     \* per machine, the passwords sudo takes there
  SubMayCrash   \* may a sub server be killed?

VARIABLES
  subpc,   \* per machine, the next step of its thread
  subreq,  \* the packet being handled
  ident,   \* rows ServerIsRegister found: one row (its key columns), or none
  stamp,   \* time(NULL) as last read for a report
  level,   \* s_qxlv of the packet being handled
  pwd,     \* linux_pwd rows the packet's handler has read
  answer,  \* integers written to the packet being built
  fw       \* the machine's firewall: is it on, which ports does it let in

subVars == <<subpc, subreq, ident, stamp, level, pwd, answer, fw>>

SubRequest ==
  [op : {"Client_Ping"}]
    \cup
  [op : {"ufw_portinfo", "ufw_close", "ufw_open"}, uid : Int]
    \cup
  [op : {"addport", "delport"}, uid : Int, port : Ports]

NoSubRequest == [op |-> "none"]

ASSUME SubAssumption ==
  /\ SubRequests \subseteq SubRequest
  /\ Skew \in [Machines -> Int] /\ SudoPwds \in [Machines -> SUBSET LinuxPwds]
  /\ SubMayCrash \in BOOLEAN

Firewall == [on : BOOLEAN, allowed : SUBSET Ports]

SubInit ==
  /\ subpc = [m \in Machines |-> "idle"]
  /\ subreq = [m \in Machines |-> NoSubRequest]
  /\ ident = [m \in Machines |-> {}]
  /\ stamp = [m \in Machines |-> OldStamp]
  /\ level = [m \in Machines |-> 0]
  /\ pwd = [m \in Machines |-> {}]
  /\ answer = [m \in Machines |-> <<>>]
  /\ fw = [m \in Machines |-> [on |-> TRUE, allowed |-> {}]]

-----------------------------------------------------------------------------
(* The report.  Each round looks up which row is this machine's, runs the   *)
(* script, reads the clock, and updates the row by the key found at first.  *)

SubGoto(m, step) == subpc' = [subpc EXCEPT ![m] = step]

OnTime1s(m) ==
  /\ subpc[m] = "idle"
  /\ SubGoto(m, "ServerIsRegister")
  /\ UNCHANGED <<subreq, ident, stamp, level, pwd, answer, fw, tables>>

(* Mutant: (0, 0) is not recognised as none.                                *)
ServerIsRegisterUnchecked(m) ==
  /\ subpc[m] = "ServerIsRegister"
  /\ \/ (ReadsMayFail \/ ServersAt(m) = {}) /\ UNCHANGED ident
     \/ \E s \in ServersAt(m) :
          ident' = [ident EXCEPT ![m] = {[uid |-> s.user_id, sid |-> s.server_id]}]
  /\ SubGoto(m, "CollectInfo")
  /\ UNCHANGED <<subreq, stamp, level, pwd, answer, fw, tables>>

(* Several rows may have this machine's address: the first returned counts. *)
(* (0, 0) stands for none; no account has user_id 0.  When hostname could    *)
(* not be run there is no address to look for, which is a read that fails.  *)
ServerIsRegister(m) ==
  /\ subpc[m] = "ServerIsRegister"
  /\ \/ (ReadsMayFail \/ ServersAt(m) = {}) /\ SubGoto(m, "idle") /\ UNCHANGED ident
     \/ \E s \in ServersAt(m) :
          /\ ident' = [ident EXCEPT ![m] = {[uid |-> s.user_id, sid |-> s.server_id]}]
          /\ SubGoto(m, "CollectInfo")
  /\ UNCHANGED <<subreq, stamp, level, pwd, answer, fw, tables>>

(* The script's output goes into the report as it is, an empty one when the  *)
(* script could not be run as well: server_info says whose report a row     *)
(* shows, not what the report says.                                         *)
CollectInfo(m) ==
  /\ subpc[m] = "CollectInfo"
  /\ now + Skew[m] \in Stamps
  /\ stamp' = [stamp EXCEPT ![m] = now + Skew[m]]
  /\ SubGoto(m, "SetServerInfo")
  /\ UNCHANGED <<subreq, ident, level, pwd, answer, fw, tables>>

(* Mutant: INSERT ... ON DUPLICATE KEY UPDATE in place of UPDATE.           *)
SetServerInfoUpsert(m) ==
  /\ subpc[m] = "SetServerInfo"
  /\ \E row \in ident[m], pw \in LinuxPwds :
       servers' = IF ServersBySid(row.sid) # {} THEN WithReport(row.uid, row.sid, m, stamp[m])
                  ELSE servers \cup {[server_id |-> row.sid, user_id |-> row.uid,
                                      server_ip |-> m, linux_pwd |-> pw, server_info |-> m,
                                      last_update_time |-> stamp[m]]}
  /\ ident' = [ident EXCEPT ![m] = {}]
  /\ SubGoto(m, "idle")
  /\ UNCHANGED <<subreq, stamp, level, pwd, answer, fw, users>>

SetServerInfo(m) ==
  /\ subpc[m] = "SetServerInfo"
  /\ \E c \in RunCommand(TRUE), row \in ident[m] :
       servers' = IF c.applied THEN WithReport(row.uid, row.sid, m, stamp[m]) ELSE servers
  /\ ident' = [ident EXCEPT ![m] = {}]
  /\ SubGoto(m, "idle")
  /\ UNCHANGED <<subreq, stamp, level, pwd, answer, fw, users>>

-----------------------------------------------------------------------------
(* Packets                                                                  *)

SubAnswer(m, status) ==
  /\ SubGoto(m, "SendPacket")
  /\ answer' = [answer EXCEPT ![m] = @ \o status]

(* A read through the null pointer of an empty vector, or a kill.           *)
SubDie(m) ==
  /\ SubGoto(m, "down")
  /\ subreq' = [subreq EXCEPT ![m] = NoSubRequest]
  /\ ident' = [ident EXCEPT ![m] = {}]
  /\ level' = [level EXCEPT ![m] = 0]
  /\ pwd' = [pwd EXCEPT ![m] = {}]
  /\ answer' = [answer EXCEPT ![m] = <<>>]
  /\ UNCHANGED <<stamp, fw, tables>>

SubDispatch(m) ==
  /\ subpc[m] = "idle"
  /\ \E r \in SubRequests :
       /\ subreq' = [subreq EXCEPT ![m] = r]
       /\ SubGoto(m, CASE r.op = "Client_Ping"  -> "Client_Ping"
                       [] r.op = "ufw_portinfo" -> "Server_GetRootpwd"
                       [] OTHER                 -> "FindUser")
  /\ UNCHANGED <<ident, stamp, level, pwd, answer, fw, tables>>

SubSendPacket(m) ==
  /\ subpc[m] = "SendPacket"
  /\ SubGoto(m, "idle")
  /\ subreq' = [subreq EXCEPT ![m] = NoSubRequest]
  /\ level' = [level EXCEPT ![m] = 0]
  /\ pwd' = [pwd EXCEPT ![m] = {}]
  /\ answer' = [answer EXCEPT ![m] = <<>>]
  /\ UNCHANGED <<ident, stamp, fw, tables>>

Client_Ping(m) ==
  /\ subpc[m] = "Client_Ping"
  /\ SubAnswer(m, <<1>>)
  /\ UNCHANGED <<subreq, ident, stamp, level, pwd, fw, tables>>

(* ufw_close, ufw_open, addport and delport take userinfo_vec[0] unchecked. *)
FindUser(m) ==
  /\ subpc[m] = "FindUser"
  /\ \E rows \in Select(UsersByUid(subreq[m].uid)) :
       \/ rows = {} /\ SubDie(m)
       \/ /\ \E u \in rows : level' = [level EXCEPT ![m] = u.qx_level]
          /\ SubGoto(m, "Server_GetRootpwd")
          /\ UNCHANGED <<subreq, ident, stamp, pwd, answer, fw, tables>>

(* The password is looked up by server_id, but every handler passes uid.    *)
Server_GetRootpwd(m) ==
  /\ subpc[m] = "Server_GetRootpwd"
  /\ \E rows \in Select(ServersBySid(subreq[m].uid)) :
       pwd' = [pwd EXCEPT ![m] = {s.linux_pwd : s \in rows}]
  /\ SubGoto(m, "Decide")
  /\ UNCHANGED <<subreq, ident, stamp, level, answer, fw, tables>>

(* Mutant: the limit one too high.                                          *)
TooLowByOne(l) == l > 3

(* A large number is a low level.                                           *)
TooLow(l) == l > 2

(* The requester's level decides, then an empty password vector: it ends    *)
(* ufw_portinfo with 1 and ufw_close and ufw_open with 2, while addport and *)
(* delport write 2 and go on to take pwd[0].                                *)
Decide(m) ==
  /\ subpc[m] = "Decide"
  /\ \/ /\ TooLow(level[m])
        /\ SubAnswer(m, <<1>>) /\ UNCHANGED <<subreq, ident, stamp, level, pwd, fw, tables>>
     \/ /\ ~TooLow(level[m]) /\ pwd[m] = {} /\ subreq[m].op \in {"addport", "delport"}
        /\ SubDie(m)
     \/ /\ ~TooLow(level[m]) /\ pwd[m] = {} /\ subreq[m].op \notin {"addport", "delport"}
        /\ SubAnswer(m, IF subreq[m].op = "ufw_portinfo" THEN <<1>> ELSE <<2>>)
        /\ UNCHANGED <<subreq, ident, stamp, level, pwd, fw, tables>>
     \/ /\ ~TooLow(level[m]) /\ pwd[m] # {}
        /\ SubGoto(m, "ExecuteCMD")
        /\ UNCHANGED <<subreq, ident, stamp, level, pwd, answer, fw, tables>>

(* What ufw.sh makes of the firewall once sudo has let it in.               *)
Ufw(f, r) ==
  CASE r.op = "ufw_close" -> [f EXCEPT !.on = FALSE]
    [] r.op = "ufw_open"  -> [f EXCEPT !.on = TRUE]
    [] r.op = "addport"   -> [f EXCEPT !.allowed = @ \cup {r.port}]
    [] r.op = "delport"   -> [f EXCEPT !.allowed = @ \ {r.port}]
    [] OTHER              -> f

(* The script's exit status is not looked at: 0 is answered in any case.    *)
ExecuteCMD(m) ==
  /\ subpc[m] = "ExecuteCMD"
  /\ \E p \in pwd[m] :
       fw' = IF p \in SudoPwds[m] THEN [fw EXCEPT ![m] = Ufw(@, subreq[m])] ELSE fw
  /\ SubAnswer(m, IF subreq[m].op = "ufw_portinfo" THEN <<2>> ELSE <<0>>)
  /\ UNCHANGED <<subreq, ident, stamp, level, pwd, tables>>

-----------------------------------------------------------------------------

CrashSub(m) == SubMayCrash /\ subpc[m] # "down" /\ SubDie(m)

RestartSub(m) ==
  /\ subpc[m] = "down"
  /\ SubGoto(m, "idle")
  /\ UNCHANGED <<subreq, ident, stamp, level, pwd, answer, fw, tables>>

ReportStep(m) == ServerIsRegister(m) \/ CollectInfo(m) \/ SetServerInfo(m)

PacketStep(m) ==
  \/ Client_Ping(m) \/ FindUser(m) \/ Server_GetRootpwd(m) \/ Decide(m) \/ ExecuteCMD(m)
  \/ SubSendPacket(m)

SubNext ==
  /\ \E m \in Machines :
       \/ OnTime1s(m) \/ ReportStep(m)
       \/ SubDispatch(m) \/ PacketStep(m)
       \/ CrashSub(m) \/ RestartSub(m)
  /\ UNCHANGED now

-----------------------------------------------------------------------------
(* Properties                                                               *)

SubSteps ==
  {"idle", "down", "ServerIsRegister", "CollectInfo", "SetServerInfo", "Client_Ping",
   "FindUser", "Server_GetRootpwd", "Decide", "ExecuteCMD", "SendPacket"}

(* Types.  A thread holds the key of a row exactly between the lookup and   *)
(* the update, and a packet exactly while it handles one.                   *)
SubTypeOK ==
  /\ subpc \in [Machines -> SubSteps]
  /\ subreq \in [Machines -> SubRequests \cup {NoSubRequest}]
  /\ ident \in [Machines -> SUBSET [uid : UserIds, sid : ServerIds]]
  /\ stamp \in [Machines -> Stamps]
  /\ level \in [Machines -> Levels \cup {0}]
  /\ pwd \in [Machines -> SUBSET LinuxPwds]
  /\ answer \in [Machines -> Seq(Int)]
  /\ fw \in [Machines -> Firewall]
  /\ \A m \in Machines :
       /\ (ident[m] # {}) <=> subpc[m] \in {"CollectInfo", "SetServerInfo"}
       /\ (subreq[m] # NoSubRequest) <=>
            subpc[m] \in SubSteps \ {"idle", "down", "ServerIsRegister", "CollectInfo",
                                     "SetServerInfo"}

(* A firewall changes only while a packet asks for it on behalf of an       *)
(* account that exists with a level of at most 2, and only with a password  *)
(* that sudo takes, although level and password come from two statements    *)
(* and the machine may be removed and added again between them.             *)
FirewallAuthorised ==
  [][ \A m \in Machines : fw'[m] # fw[m] =>
        /\ subreq[m].op \in {"ufw_close", "ufw_open", "addport", "delport"}
        /\ \E u \in users : u.user_id = subreq[m].uid /\ u.qx_level <= 2
        /\ pwd[m] \cap SudoPwds[m] # {} ]_<<tables, subVars>>
=============================================================================
