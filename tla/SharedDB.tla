------------------------------ MODULE SharedDB ------------------------------
(***************************************************************************)
(* The MySQL database bs_db that the main server and every sub server      *)
(* share, with the wall clock.  The two DBHelper classes send it one SQL   *)
(* statement at a time, each committed on its own: nothing in the code     *)
(* opens a transaction, so a statement is the unit of atomicity.           *)
(*                                                                         *)
(* A table is a set of rows.  The columns kept are those some handler      *)
(* decides on; port, server_level, flag_ufw, linux_username, open_port and *)
(* the ssh columns are only stored or printed.                             *)
(***************************************************************************)
EXTENDS Integers

CONSTANTS
  UserIds,           \* values of user_id, INT UNSIGNED AUTO_INCREMENT
  Passports,         \* account names, an INT column
  Passwords,         \* password strings a client may send
  StorablePasswords, \* those that fit VARCHAR(10)
  EmptyPassword,     \* the empty string
  Levels,            \* permission levels; 0 and 1 administer
  ServerIds,         \* values of server_id
  Machines,          \* server_ip; also names the machine behind that address
  LinuxPwds,         \* values of linux_pwd
  NoInfo,            \* server_info of a row no machine has reported to yet
  Stamps,            \* values of last_update_time, a BIGINT UNSIGNED
  OldStamp,          \* the one a new row is given: long ago
  TimeMod,           \* modulus of uint64_t
  StartTime,         \* the clock when the run starts
  MaxTime,           \* bound of the clock in a run
  InitUsers,         \* accounts created by hand when the database is set up
  ReadsMayFail,      \* may a SELECT fail?
  WritesMayFail      \* may an INSERT, UPDATE or DELETE fail?

VARIABLES
  users,   \* user_info_table
  servers, \* server_info_table
  now      \* seconds, what time(NULL) returns on the main server's host

tables == <<users, servers>>

UserRow == [user_id : UserIds, passport : Passports,
            password : StorablePasswords, qx_level : Levels]

ServerRow == [server_id : ServerIds, user_id : UserIds, server_ip : Machines,
              linux_pwd : LinuxPwds, server_info : Machines \cup {NoInfo},
              last_update_time : Stamps]

UniqueUserIds(U) == \A u, v \in U : u.user_id = v.user_id => u = v

UniquePassports(U) == \A u, v \in U : u.passport = v.passport => u = v

ASSUME DBAssumption ==
  /\ UserIds \subseteq Nat \ {0}
  /\ Passports \subseteq Int
  /\ StorablePasswords \subseteq Passwords
  /\ EmptyPassword \in StorablePasswords
  /\ Levels \subseteq Int
  /\ ServerIds \subseteq Nat
  /\ NoInfo \notin Machines
  /\ Stamps \subseteq Nat /\ OldStamp \in Stamps
  /\ StartTime \in Nat /\ MaxTime \in Nat
  /\ TimeMod \in Nat \ {0}
  /\ InitUsers \subseteq UserRow
  /\ UniqueUserIds(InitUsers) /\ UniquePassports(InitUsers)
  /\ ReadsMayFail \in BOOLEAN /\ WritesMayFail \in BOOLEAN

DBInit ==
  /\ users = InitUsers
  /\ servers = {}
  /\ now = StartTime

-----------------------------------------------------------------------------
(* SELECT statements.  None has an ORDER BY, so which row is result[0] is   *)
(* not determined when several match.                                       *)

(* Mutant: the WHERE clause compares the wrong column.                      *)
UsersByWrongColumn(pp) == {u \in users : u.user_id = pp}

UsersByPassport(pp) == {u \in users : u.passport = pp}
UsersByUid(uid)     == {u \in users : u.user_id = uid}
ServersOf(uid)      == {s \in servers : s.user_id = uid}
ServersBySid(sid)   == {s \in servers : s.server_id = sid}
ServersAt(ip)       == {s \in servers : s.server_ip = ip}

(* The result vectors a SELECT may leave with a caller that ignores what    *)
(* runQuery returns.  A failure is an exception caught in runQuery: the rows *)
(* fetched before it stay in the vector.                                    *)
Select(rows) == IF ReadsMayFail THEN SUBSET rows ELSE {rows}

(* Mutant: a schema without lengths and keys.                               *)
RunCommandUnchecked(accepted) ==
  {c \in [ok : BOOLEAN, applied : BOOLEAN] : c.ok => c.applied}

(* What runCommand(...) may do: ok is what it returns, applied whether the  *)
(* statement took effect.  The answer of a statement that was applied may   *)
(* be lost with the connection; a statement the schema refuses always fails *)
RunCommand(accepted) ==
  {c \in [ok : BOOLEAN, applied : BOOLEAN] :
     /\ c.ok => c.applied
     /\ c.applied => accepted
     /\ accepted /\ ~c.ok => WritesMayFail}

-----------------------------------------------------------------------------
(* INSERT, UPDATE and DELETE, as the new value of a table.                  *)

FreshUserIds == {i \in UserIds : \A u \in users : u.user_id < i}

WithUser(id, pp, pwd, level) ==
  users \cup {[user_id |-> id, passport |-> pp, password |-> pwd, qx_level |-> level]}

(* Mutant: an UPDATE without its WHERE clause.                              *)
WithEveryPassword(uid, pwd, level) ==
  {[u EXCEPT !.password = pwd, !.qx_level = level] : u \in users}

WithPassword(uid, pwd, level) ==
  {IF u.user_id = uid THEN [u EXCEPT !.password = pwd, !.qx_level = level] ELSE u :
     u \in users}

(* Mutant: a new row counts as one just heard of.                           *)
WithServerStamped(uid, sid, ip, pwd) ==
  servers \cup {[server_id |-> sid, user_id |-> uid, server_ip |-> ip, linux_pwd |-> pwd,
                 server_info |-> NoInfo, last_update_time |-> now]}

WithServer(uid, sid, ip, pwd) ==
  servers \cup {[server_id |-> sid, user_id |-> uid, server_ip |-> ip, linux_pwd |-> pwd,
                 server_info |-> NoInfo, last_update_time |-> OldStamp]}

(* Mutant: last_update_time = UNIX_TIMESTAMP(), the database's own clock.   *)
WithReportNow(uid, sid, machine, stamp) ==
  {IF s.server_id = sid /\ s.user_id = uid
     THEN [s EXCEPT !.server_info = machine, !.last_update_time = now] ELSE s :
     s \in servers}

(* Mutant: only the first report is stored.                                 *)
WithFirstReport(uid, sid, machine, stamp) ==
  {IF s.server_id = sid /\ s.user_id = uid /\ s.server_info = NoInfo
     THEN [s EXCEPT !.server_info = machine, !.last_update_time = stamp] ELSE s :
     s \in servers}

WithReport(uid, sid, machine, stamp) ==
  {IF s.server_id = sid /\ s.user_id = uid
     THEN [s EXCEPT !.server_info = machine, !.last_update_time = stamp] ELSE s :
     s \in servers}

(* Mutants: the DELETE compares user_id, or has lost its WHERE clause.      *)
WithoutServersOf(sid) == servers \ ServersOf(sid)
WithoutServers(sid)   == {}

WithoutServer(sid) == servers \ ServersBySid(sid)

-----------------------------------------------------------------------------

(* Mutant: the operands of the subtraction the other way round.             *)
ElapsedBackwards(s) == (s.last_update_time - now) % TimeMod

(* (uint64_t)(time(NULL)) - last_update_time, an unsigned subtraction. *)
Elapsed(s) == (now - s.last_update_time) % TimeMod

Tick ==
  /\ now < MaxTime
  /\ now' = now + 1

DBTypeOK ==
  /\ users \subseteq UserRow
  /\ servers \subseteq ServerRow
  /\ now \in Nat
=============================================================================
