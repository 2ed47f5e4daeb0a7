------------------------------ MODULE Registry ------------------------------
(***************************************************************************)
(* What the two tables are for, without servers, sessions or statements:   *)
(* a register of accounts, and of the machines that administrators put     *)
(* under their care.  Every step is one indivisible change of the register *)
(* made on behalf of an account that is allowed to make it.                *)
(***************************************************************************)
EXTENDS SharedDB

Administrators == {u \in users : u.qx_level <= 1}

RegistryInit ==
  /\ users = InitUsers
  /\ servers = {}

(* An administrator opens an account under a name nobody uses.             *)
CreateAccount ==
  /\ Administrators # {}
  /\ \E u \in UserRow :
       /\ u.password # EmptyPassword
       /\ \A v \in users : v.passport # u.passport /\ v.user_id < u.user_id
       /\ users' = users \cup {u}
  /\ UNCHANGED servers

(* A password changes; the account keeps its id, its name and its level.   *)
ChangePassword ==
  /\ \E u \in users, pwd \in StorablePasswords :
       users' = (users \ {u}) \cup {[u EXCEPT !.password = pwd]}
  /\ UNCHANGED servers

(* An administrator takes a machine into his care, under an unused id.     *)
AddServer ==
  /\ \E s \in ServerRow :
       /\ \E u \in Administrators : u.user_id = s.user_id
       /\ \A t \in servers : t.server_id # s.server_id
       /\ s.server_info = NoInfo /\ s.last_update_time = OldStamp
       /\ servers' = servers \cup {s}
  /\ UNCHANGED users

(* Its owner, still an administrator, releases it.                         *)
RemoveServer ==
  /\ \E s \in servers :
       /\ \E u \in Administrators : u.user_id = s.user_id
       /\ servers' = servers \ {s}
  /\ UNCHANGED users

(* A machine describes itself in one entry, which otherwise stays the same. *)
Report ==
  /\ \E s \in servers, m \in Machines, stamp \in Stamps :
       servers' = (servers \ {s}) \cup
                    {[s EXCEPT !.server_info = m, !.last_update_time = stamp]}
  /\ UNCHANGED users

RegistryNext == CreateAccount \/ ChangePassword \/ AddServer \/ RemoveServer \/ Report

RegistrySpec == RegistryInit /\ [][RegistryNext]_tables
=============================================================================
