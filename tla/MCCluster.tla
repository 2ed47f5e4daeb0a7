----------------------------- MODULE MCCluster -----------------------------
(* Small instances of the cluster for TLC.                                  *)
EXTENDS Cluster

CONSTANTS m1, m2, noInfo, pwEmpty, pwA, k1, k2

Root   == [user_id |-> 1, passport |-> 100, password |-> pwA, qx_level |-> 0]
Helper == [user_id |-> 2, passport |-> 101, password |-> pwA, qx_level |-> 2]
Guest  == [user_id |-> 3, passport |-> 102, password |-> pwA, qx_level |-> 3]

RootOnly == {Root}
AllUsers == {Root, Helper, Guest}

Same == [m \in Machines |-> 0]
Ahead == [m \in Machines |-> 1]
OneAhead == [m \in Machines |-> IF m = m2 THEN 1 ELSE 0]

OwnSudo == [m \in Machines |-> (IF m = m1 THEN {k1} ELSE {k2}) \cap LinuxPwds]

Add(sids, ips) ==
  [op : {"AddServerInfo"}, uid : {1}, sid : sids, ip : ips, linux_pwd : LinuxPwds]
Del(sids)    == [op : {"DelServer"}, uid : {1}, sid : sids]
Search(sids) == [op : {"SearchServerInfo"}, uid : {1}, sid : sids]
List         == [op : {"GetAllServerInfoList"}]

AddDel  == Add(ServerIds, Machines) \cup Del(ServerIds)
(* Id 7 is never given up; id 8 is always the same machine. *)
Kept    == Add({7}, Machines) \cup Add({8}, {m1}) \cup Del({8})
Watched == AddDel \cup Search(ServerIds) \cup List

(* Each machine registered with the password its own sudo takes. *)
OwnPasswords == {r \in Add(ServerIds, Machines) : r.linux_pwd \in OwnSudo[r.ip]}

(* Packets to a sub server from the three accounts and from nobody. *)
FirewallRequests ==
  [op : {"Client_Ping"}]
    \cup
  [op : {"ufw_portinfo", "ufw_close", "ufw_open"}, uid : {1, 2, 3, 9}]
    \cup
  [op : {"addport", "delport"}, uid : {1, 2, 3, 9}, port : Ports]

Ping       == [op : {"Client_Ping"}]
NoRequests == {}
=============================================================================
