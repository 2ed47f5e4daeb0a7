# A TLA+ model of bs-server

bs-server administers a group of Linux machines. A **main server** keeps accounts
and machines in a MySQL database and answers packets from clients. A **sub
server** on every machine writes that machine's state to the same database once a
second and switches its firewall on request. This directory models the two
servers, what they share, and the network and buffer code under them; TLC checks
the models on small instances, and TLAPS proves some theorems for all.

Paths below are those of the repository, without the leading `src/`.

## 1. The system

| Component | State | Operations | Talks to |
|---|---|---|---|
| Main server handlers, `mainserver/MainSession.cc`, `DBHelper.cc` | none between packets; inside a handler the rows it has read and the reply it builds | 12 opcodes: login, registration, password, permissions, add / search / list / remove a machine, nginx | clients (packets), database (SQL), nginx.sh (popen) |
| Database `bs_db`, `mainserver/DBHelper.cc:39` | `user_info_table`, `server_info_table` | one SQL statement at a time, each committed on its own | both kinds of server |
| Sub server report, `subserver/Server.cc`, `DBHelper.cc` | a timer; the key found by the lookup, until the UPDATE | every second: find own row, run a script, read the clock, UPDATE | database, shell |
| Sub server firewall handlers, `subserver/Session.cc` | the machine's firewall | ping, port list, close, open, add and remove a port | clients, database, `shell/ufw.sh` |
| Session layer, `share/network/` | map of sessions, sockets, receives under way | accept, receive, dispatch, send, close | asio, clients, the handlers |
| Buffer, `share/util/buffer.cc` | bytes, read index, write index | writes, reads, C strings, growth, recycling | every packet goes through one |
| MySQL wrapper, `share/mysql/` | a connection, the prepared statement of a call, its column buffers | query, command, bind, fetch, refetch truncated columns | MySQL |
| nginx script, `shell/nginx.sh`, and the two handlers that run it | the client's text, everything `nginx -t` wrote, the old and the new configuration | test and install a configuration, reload | the main server (a pipe), nginx |
| Information scripts, clock, logger, configuration | none that is used | | |

What is hard here:

* **Interleaving through the database.** Each process has one thread, and one
  handler runs at a time in it, to its end. But a handler is up to five SQL
  statements with no transaction, and any statement of any other process may fall
  between two of them. The tables have a primary key each and nothing else: no
  unique name, no foreign key.
* **Failures one by one.** `runQuery` and `runCommand` catch every exception and
  return a bool that most callers ignore. A SELECT that failed then looks like one
  without rows.
* **Crashes.** An assert in Buffer, `std::stoi` of an empty string and reads from
  empty vectors end the process in the middle of a handler.
* **A stream that is not packets.** The session layer takes whatever one receive
  returns for one packet: after fewer than four bytes it receives no more, an opcode alone
  is handled without its body, and of two packets one is dropped. A reply names no request.
* **Clocks.** A time stamp of one machine's clock is compared with another's in
  unsigned arithmetic, and nothing keeps the clocks together.
* **Lifetimes.** Replies are sent from a local string, and sessions are never
  removed from the map. The MySQL library writes through pointers into vectors that
  are resized while rows are fetched.
* **A script that is cut off.** nginx.sh is fifteen commands on five files with fixed
  names. None looks at whether the one before has worked, two of them can run at once
  after the server was killed, and a reboot ends one anywhere.

What makes each part correct: names of accounts are unique and every machine is
in the care of an administrator (database); an answer says what the tables say, and
only who may changes anything (main server); a row shows its own machine, no later
than it was heard (report); a firewall changes only for who may change it
(firewall handlers); the n-th reply answers the n-th packet of a client that waits for answers, for as long as its packets
arrive in one receive each, and a packet that arrives so is never left lying (session layer); bytes
come out as they went in (Buffer); a query returns the rows of the table, and leaves
the connection ready for the next (MySQL wrapper); nginx has the configuration its
client was told is in use, which the script reads off one word in what nginx wrote (nginx script). The hazards behind these, with their lines, are
listed in `PROJECT.json`.

## 2. The modules

| Module | Models | Its state and actions in the code |
|---|---|---|
| `SharedDB` | both tables, the clock, statements and their failures | `users`, `servers`: the rows of `InitTable`, with the columns some handler decides on. `Select` gives the rows a caller may be left with, `RunCommand` what a command may do and return, `WithServer`, `WithReport`, ... the new table |
| `Registry` | abstract: a register of accounts and machines | one indivisible step per change, by someone who may make it |
| `MainServer` | every handler of the main server | `pc` is the next SQL statement or script, `req` the packet, `found` the rows still held, `reply` the packet built. One action is the code from one statement to the next |
| `SubServer` | report timer and firewall handlers of every machine | `subpc`, `ident` (key found by `ServerIsRegister`), `stamp`, `level`, `pwd`, `fw` (the firewall) |
| `Cluster` | both, interleaved | EXTENDS `MainServer` and `SubServer`; they share `users`, `servers`, `now` |
| `SessionLayer` | `Session_Base` and `Server_Base` | `m_sessionmap`, `socket`, `receiving` (a receive is under way), `waiting` (sends that found no room), `stream` (pieces of packets on their way) |
| `StatementCall` | abstract: one statement, one answer | a call takes a statement, and returns its rows or a failure in one step |
| `MySqlClient` | `DBHelper_Base`, `MySql`, `MySqlPreparedStatement`, `OutputBinder`, and the MySQL library as they use it | `conn`, `unread` (rows the library still holds); `pc` is the place inside `runQuery`; `size`, `buffer`, `parameters`, `bound`, `lengths`, `nullFlags` are the vectors of `setResults` and the library's copy of the bindings. Steps are the calls of the library |
| `ConfigStore` | abstract: a place for one configuration | ask, use, answer, reload |
| `NginxConfig` | `nginx.sh`, `Handler_NginxTest`, `Handler_ReloadNginx` | `tmpConf`, `flag`, `staged`, `myConf`, `backup` are the files, `step` the command each running script executes next; one action per command. `server` and `serving`: is the server up, and which script does it wait for |
| `ByteQueue` | abstract: a queue of bytes | |
| `Buffer` | `ybs::share::util::Buffer` | `buf` is the vector and both indices; one action per method. `call` and `out` record the last call and its result |
| `MainServerProofs`, `MainServerAnswers`, `RegistryProofs`, `ClusterProofs` | theorems about `MainServer`, its answers and writes, `Registry`, and the cluster; each extends the one before, but `ClusterProofs`, which extends `MainServerAnswers` | |
| `SessionLayerProofs`, `BufferProofs`, `MySqlProofs`, `NginxProofs` | theorems about the module of that name | |
| `MC*` | the constants of the runs | |

`MainServer` has an environment of its own (`SubServerReports`, `Tick`), so that it can
be checked and proved about alone; `ClusterIsMainSystem` shows that the real sub
servers are such an environment (and `ClusterProofs` proves it), so that what is proved of
`MainSpec` holds in the cluster. `SessionLayer` stands under both servers: it decides which
packet is handled when, and hands handlers one packet after the other, as
`Dispatch` and `SubDispatch` take one request after the other. `MySqlClient` stands
under `SharedDB`: a statement there is one step that either returns the rows or
`FALSE`, and that either has its effect or not, whatever it returns. That this is what the
wrapper makes of the library's calls is `ImplementsCall`. `NginxConfig` opens up the
script steps of packets 3008 and 3010, which change no table and are one step each in
`MainServer` (`NginxTestScript`, `ReloadNginx`).

### What the models leave out

* Columns nobody decides on, the text of replies, logging.
* Strict SQL mode is assumed: a password longer than ten characters is refused.
  Without it MySQL would cut it.
* `found` keeps the whole row a handler has read, though only some columns are
  used.
* In `SharedDB` each statement fails by itself. In the code a connection that is lost
  stays lost until the process is restarted (`DBHelper_Base.hpp:32`), as it does in
  `MySqlClient`. The executions of the code are among those of `SharedDB`.
* Ids are natural numbers; a negative one sent by a client is stored as a large
  unsigned number (`mainserver/DBHelper.cc:262`). What becomes of such a
  number when it is read back is in `MySqlClient` (`AsInt`).
* `Test_SetUserinfo` (1001) changes nothing, since `runQuery` refuses a statement
  without result columns before it executes. `Handler_DelUser` belongs to no opcode.
  `CloseSession`, `StopEventLoop`, `Server::Connect` and `Handler_Timer_SendToMain_ServerInfo`
  have no caller, and `SessionTimeoutTimer` is started only by a constructor that
  neither program uses.
* In `SessionLayer`: a packet is one some handler answers, and a handler is
  one step. A packet is four pieces, two halves of an opcode and two parts of a body, or
  the first two of them where the handler reads no body; a receive may end behind any piece, of any
  client's packets. A reply is sent whole, has to wait for room, or is sent in part, in which
  case nothing sends the rest.
* In `MySqlClient`: a string is a sequence of characters marked with their row and
  place, so that a byte of the wrong row or place is seen; a number has one bit and a sign.
  `InputBinder` is left out: every statement of the servers is a text made with
  `sprintf`, and no caller passes an argument to bind. So are `operator<<` and the
  formatting of errors. The library never gives more rows than there are.
* The text of a statement and of a shell command is put together with `sprintf`, with
  the packet's strings as they are (`mainserver/DBHelper.cc:183`, `subserver/Session.cc:85`,
  `MainSession.cc:432`). All models take a string for data: a value that stands for
  itself wherever it goes. What a string with quotes in it does to a statement or a
  command line is outside them.
* In `NginxConfig`: the other files of `conf.d` are taken to be valid.
* In `SubServer`: what the information script prints is the machine's name, so `server_info`
  says whose report a row shows and not what it says. An output that stayed empty because the script
  could not be started (`cmd.hpp:22`) is such a report too.
* Not modelled at all. *Clock* (`share/util/clock.hpp`): pure functions of a
  time stamp, called by nothing but the commented-out logger and the session timeout, which
  neither program starts. *Logger*: the file is one comment. *Configuration*: reads a file
  once. *Examples, build files*: no part of the servers. The text the information scripts
  print is formatting; in `SubServer` it is a value per machine.
* In `Buffer`: the heap block `ReadCString` copies to is one byte short
  (`buffer.cc:293`); `memcpy` in `moveForward` is taken to copy in order;
  `ReadString(std::string&)` builds its result from bytes that no NUL ends.
* Nothing in the repository restarts a server. `RestartMain`, `RestartSub` and
  `Restart` are an administrator; only the run with liveness of the cluster assumes that
  he comes.

## 3. The runs

Runs that pass:

| Run | Instance | Shows |
|---|---|---|
| `main_core` | 2 accounts and room for a third, 4 requesters (one unknown), 2 machine ids, 4 passwords (empty, too long), writes fail, crashes | `MainTypeOK`, `PassportUnique`, `OwnersPrivileged`, `SuccessIsReal`, `RefusalsStand`, `WritesAreAuthorised`, and that the handlers implement `Registry` |
| `main_faulty` | one machine id, a clock of two values, SELECTs fail too | `OwnersPrivileged`, `SuccessIsReal`, `RefusalsStand`, `WritesAreAuthorised`: what does not depend on reading everything |
| `cluster_reports` | 2 machines, 1 id, 5 values of the clock, every failure and crash, one machine's clock one second ahead of the main server's | `StampsAreReal`, `OnlineHasReported`, `OfflineMeansSilent`, `ClusterIsMainSystem` |
| `cluster_firewall` | 1 machine, ids equal to two of the uids, levels 0, 2, 3, every failure | `FirewallAuthorised`, `SubTypeOK` |
| `cluster_liveness` | 2 machines, 2 ids, fairness | `OwnInfoPrevails` |
| `session_layer` | 2 connections, 2 packets each, one with a body and one without, both cut anywhere by TCP. One client is polite: it waits for an answer before it sends again; the other sends two at once. Send buffers of two replies. Fairness | `LayerTypeOK`, `RepliesInOrder` and `DeafOnlyIfTorn` for both; `AnswersMatch`, `PoliteNeverStranded` and `PacketsAnswered` for the polite one until one of its packets arrives in two receives (`torn`), whatever the other does |
| `buffer_calls` | 2 byte values, pages of 2, at most 6 bytes, inputs of up to 3, every method | `BufferTypeOK`, and that Buffer implements `ByteQueue` |
| `mysql_calls` | 3 columns (a string, a string that may be NULL, a number), tables of up to 3 rows out of 6, statements that are refused, buffers that begin with 2 bytes, every library call that may fail does, on a live connection too, a connection that may be lost anywhere, fairness | `ClientTypeOK`, `BoundIsLive`, `InSync`, that the wrapper implements `StatementCall`, `CallsAdvance`, `CallsReturn` |
| `nginx_scripts` | 2 scripts at once; two good configurations, a bad one, and a bad one whose complaint quotes the word "successful"; every command that touches a file may fail, the server may be killed, the host may reboot, two of these per execution | `NginxTypeOK`, `ScratchClean`, and that the script implements `ConfigStore` |

Why the bounds are enough. Two statements of one handler are separated by at
most one kind of foreign write, a report, and a report on its way matters when the
row it is for is removed and another added: one id and two machines give that,
two ids give a machine with two rows. The level limits are straddled (1 and 2 in the main
server, 2 and 3 in the sub server). The clock of `cluster_reports` runs over the
three seconds after which a machine counts as disconnected. Two connections show
whether one disturbs the other, and two unanswered packets are the least that can
arrive together. A buffer of six bytes with pages of two has every combination of
free space in front, free space behind, and growth. Rows whose strings fit the
first buffer, fill it, and are one and two bytes longer, followed by shorter and longer
ones, are every way in which a buffer can grow or be left with an older row's bytes;
three rows let one buffer grow twice. Two scripts are as many as can disturb each
other: the server waits for one, and a third finds files as the second does. Two good
configurations are what it takes to replace one by another. Two mishaps (`MaxMishaps`) are
a kill and a failure of what clears up after it, or a failing command and a reboot; the
theorems hold for any number. Bounds that
cut behaviour are guards: `MaxTime`, `Stamps`, `UserIds`, `MaxPackets`,
`MaxFailures`, `MaxBytes`, `MaxMishaps`.

Three histories say when something is promised. `torn` in `SessionLayer` is, per connection, the
first packet that some receive has ended inside of. Nothing the client does keeps TCP from
cutting a packet, and the code has no answer to it (`base_session.cc:115`), so the promises
to a polite client end there, and say so. What is left of them is not empty: other clients' pieces, resets,
failed accepts, full buffers and packets of exactly four bytes go on. `DeafOnlyIfTorn` says that
nothing else stops a connection from receiving. `misused` in `Buffer`
is TRUE once the pointer constructor has been used, which counts its bytes twice, or a
string has been read within the first two bytes with no NUL ahead. Neither server
does either: no caller constructs a buffer from a pointer, and `OnRecv` reads the
opcode before a handler reads a string. A misused buffer is not a queue, as
`claim_written` and `claim_cstring` show; `BufferTypeOK` holds for it all the same.
`disturbed` in `NginxConfig` is TRUE from
a kill, a reboot, a failed command or the start of a second script on, until one script
has run alone from beginning to end: `ScratchClean` says that this one run is enough to
remove everything an earlier one has left. `ConfigStore` adopts a configuration that passes the
script's test, which is not one that nginx accepts: `nginx.sh:11` looks for the word anywhere in
what nginx wrote, and a complaint quotes the text it is about. A configuration with such a
complaint (`Quoting`) may be installed and answered with OK, undisturbed, and both specifications say so.

Runs that end in a violation. Each checks one thing a comment or a declaration says,
and finds an execution of the code that does otherwise:

| Run | What is said | What the code does |
|---|---|---|
| `claim_own_info` | "写入 server 当前状态", `subserver/DBHelper.hpp:19` | a late report describes another machine |
| `claim_own_password` | `Server_GetRootpwd(int sid)`, `subserver/DBHelper.hpp:23` | it is called with a uid |
| `claim_skipped` | content goes to its handler, `base_session.hpp:19` | a packet that comes with another is dropped |

Further configurations of the same kind are kept beside these. They are started
by hand (`tlc -config claim_x.cfg M`, with the module in the second column), and each
ends in a violation of the one property it names. They show what the servers do in the
cases the passing runs exclude (`claim_offline`: `OfflineMeansSilent` without its exception for a clock that is ahead):

| Configuration | Module | What is said | What the code does |
|---|---|---|---|
| `claim_registered` | `MCMain` | "sql执行失败", `mainserver/DBHelper.cc:193` | a failed INSERT is answered as success |
| `claim_passport` | `MCMain` | "账号已经存在", `mainserver/DBHelper.cc:171` | a failed SELECT passes for a free name |
| `claim_offline` | `MCCluster` | "服务器已经断开", `MainSession.cc:260` | said of a machine whose clock is ahead |
| `claim_every_row` | `MCCluster` | "定时向数据库写当前机器信息", `subserver/Server.hpp:29` | the second row of an address is never written |
| `claim_receiving` | `MCSessionLayer` | "重新注册", `base_session.cc:135` | not after one to three bytes |
| `claim_intact` | `MCSessionLayer` | the packet is sent, `base_session.hpp:49` | a reply that waits is sent from a dead string |
| `claim_written` | `MCBuffer` | "可读 = 已写 - 已读", `buffer.cc:85` | `Buffer(begin, len)` counts its bytes twice |
| `claim_cstring` | `MCBuffer` | "读取一个c风格字符串", `buffer.hpp:65` | returns a string where there is no NUL |
| `claim_tested` | `MCNginx` | "获取客户端配置的测试结果", `nginx.sh:10` | a verdict left over in tmp.file accepts the next configuration, good or bad |
| `claim_kept` | `MCNginx` | "恢复nginx配置", `nginx.sh:16` | a reboot between `nginx.sh:19` and `:21` leaves no configuration, and nginx starts without |

The other way round, `cluster_kept` (with `MCCluster`) is `claim_own_info` with clients that keep to
keys: one id is never removed, the other is, but is only ever added for one machine. Every
state of it keeps `InfoIsOwn`, as the theorem `InfoStaysOwn` below says of every such instance.

A comment that puzzled its author is explained by the model: `OutputBinder.cc:99` notes that
`mysql_stmt_fetch` reports truncation when nothing was truncated. A number of 2^31 or more in
an `INT UNSIGNED` column fetched into an `int` does that (`Truncates`), and
`Refetch` then finds no column to fetch again.

Three divergences are visible in the text and need no run: the status 0 is also written
after the status 2 (`MainSession.cc:260`, no `break`), a new password may be empty
(`MainSession.cc:312`, while registration calls it illegal, `mainserver/DBHelper.cc:177`),
and `View` starts at `Begin()` even after a read (`buffer.hpp:83`).

### Fairness

`FairClusterSpec`: a statement, a script and a restart that is possible is
eventually made (weak fairness per action of a thread), because each process runs
one thread that blocks on nothing else. The timer is strongly fair: packets
interrupt the idle thread again and again, but an expired timer waits behind a finite
number of packets in asio's queue. Clients, crashes and the clock have no fairness.
`FairLayerSpec`: asio calls back for a connection that waits, bytes that have
arrived and room that has become free, and clients read their replies.
`FairClientSpec`: the library's calls return (weak fairness of the steps inside a call);
nobody has to make a call, and any of them may return an error, as all do on a connection that is lost.

Deadlock is checked except in the session, buffer and MySQL runs, where all clients
may be done, an assert has ended the process, or a constructor that failed has left a
pointer that ends it.

## 4. The proofs

`tlapm` checks them for all accounts, machines, packets, sizes, statements and failures
that satisfy the assumptions of the modules (`DBAssumption`, `MainAssumption`,
`SubAssumption`, `SessionAssumption`, `BufferAssumption`, `ClientAssumption`,
`NginxAssumption`), which give the constants their types, make `InitUsers` a table that
respects its key and has unique names, and put sizes below the modulus of `size_t`. Six
theorems assume more, and say so. The inductive invariants were
checked by TLC before they were proved.

**Main server** (`MainServerProofs`, `MainServerAnswers`, `RegistryProofs`)

* `TypeCorrect`: `MainSpec => []MainTypeOK`. `MainTypeOK` does not say what op belongs
  to which `pc`, which a step needs to know to read a field of the packet; the
  inductive invariant `TypeInv` adds `OpInv`, the op of each step.
* `OwnersAlwaysPrivileged`: `MainSpec => []OwnersPrivileged`. The level is checked
  four statements before the INSERT. `OwnersInv` adds that the
  requester is an administrator at each of the steps in between; it is kept
  because no step lowers or removes an account, which in turn needs that the row
  `UpdatePassword` has found is still that account's but for its password.
* `PassportsStayUnique`: `~ReadsMayFail => (MainSpec => []PassportUnique)`.
  `PassportInv` adds that the name is free at the step of the INSERT.
  The assumption is needed: `claim_passport` is what happens without it.
* `SuccessesAreReal`: `MainSpec => []SuccessIsReal`. `AnswerInv` adds that a handler whose
  answer claims something has written nothing to it before its last step
  (`Unanswered`), whose packet each step is for (`StepOps`), and that the two new
  passwords agree at the UPDATE.
* `RefusalsAreFinal`: `MainSpec => []RefusalsStand`. A break is missing after the 5 of a
  registration by somebody without the level, and the handler goes on with that 5 in the reply.
  `VerdictInv`: the only step it gets to is `SetUserLevel`, and there the account it looks at
  again still lacks the level, since no step of anybody changes one.
* `WritesHaveBeenAsked`: `MainSpec => WritesAreAuthorised`. `WritesInv` adds that ids
  of machines are unique and that at the DELETE the row with the packet's id, if there is
  one still, is the requester's: the check is a statement earlier.
* `HandlersAreARegister`: `~ReadsMayFail => (MainSpec => ImplementsRegistry)`. Each
  statement that writes is a step of `Registry`, every other a stutter; that it is an
  authorised one follows from `RegisterInv`, the invariants above taken together.

**Cluster** (`ClusterProofs`)

* `ClusterIsAMainServer`: `ClusterSpec => ClusterIsMainSystem`. A step of a sub server
  changes of the main server's variables at most what `SubServerReports` may. With it every
  theorem above holds of `ClusterSpec`. `ClusterInv`, which the next two rest on, is
  `OwnersInv` and `SubTypeOK`.
* `ClusterKeepsPromises`: `ClusterSpec => [](OwnersPrivileged /\ SuccessIsReal) /\ WritesAreAuthorised`, and
  `ClusterIsARegister`: `~ReadsMayFail => (ClusterSpec => []PassportUnique /\ ImplementsRegistry)`: what was
  proved of the main server alone, carried over by that refinement.
* `SubTypesHold`: `ClusterSpec => []SubTypeOK`.
* `FirewallsAreAuthorised`: `ClusterSpec => FirewallAuthorised`. `LevelInv`: from the lookup
  on, the level a handler holds is the account's, and only a level of at most 2 gets as
  far as `ufw`. It stays true while the main server runs, because that never changes a level.
* `StampsStayReal`: `ClusterSpec => []StampsAreReal`. `StampInv`: no row that shows a machine
  is later than the stamp the machine took last, whatever reports were lost.
* `OnlineMeansReported`: `ClockInRange => (ClusterSpec => []OnlineHasReported)`. `OnlineInv`:
  a row without a report has its first stamp, in the table and in the copies a handler
  holds. It is an invariant of `MainSpec`, whose environment writes reports at will. `ClockInRange` says that the clock starts more than three seconds after that stamp
  and does not come round to it.

* `OfflineIsSilent`: `ClusterSpec => []OfflineMeansSilent`, for all clocks. `OfflineInv`: no row, in the
  table or in a handler's hands, has a stamp that its machine's clock has not reached (`Past`), so that for a machine
  that is not ahead what the unsigned difference exceeds, the difference does. The exception is in the property, since the code
  makes it: the difference wraps for a machine that is ahead, and `claim_offline` shows it.
* `InfoStaysOwn`: `KeysAreKept => (ClusterSpec => []InfoIsOwn)`. A report is written by the key found
  two statements and a script before. `KeptInv`: of a key that some report on its way still holds, the row
  there is, or any that can come to be there, is of that machine. `KeysAreKept` asks of the
  clients that an id is never removed, or that each account registers one machine only under it;
  `claim_own_info` is what happens without it.

**Session layer** (`SessionLayerProofs`; `LayerInv` is inductive)

* `LayerTypesHold`: `LayerSpec => []LayerTypeOK`. `MapInv`: a connection has no id until it
  is accepted, and one from then on; ids count up, so that a new one takes nobody's place.
* `RepliesStayInOrder`: `LayerSpec => []RepliesInOrder`. `OrderInv`: pieces still to
  come are in the order they were sent, and no packet whose opcode is still to
  come has been answered. Lemmas about sequences say that sending, receiving up to any
  place, and answering keep that.
* `PoliteAnswersMatch`: `LayerSpec => []AnswersMatch`. `PoliteInv`: of a polite client no packet of which has
  been torn, either one whole packet is on its way, or its answer, or neither, and no answer ever waits for room.

* `PolitePacketsAreHeard`: `LayerSpec => []PoliteNeverStranded`, the safety half of `PacketsAnswered`,
  with the same condition. `HeardInv`: a connection in the backlog belongs to a
  process that runs, and a packet not answered is on its way, or its answer. `FramesInv`: until a receive ends
  inside a packet, a packet begins at the head of the stream and an open connection receives. It rests on both and
  on `PoliteInv`. `OpenIsReceiving`, without the condition, fails (`claim_receiving`).
* `DeafWhenTornOnly`: `LayerSpec => []DeafOnlyIfTorn`, for every client. A receive that may have
  less than four bytes ends inside a packet, since the shortest packet has four.

**Buffer** (`BufferProofs`)

* `IndicesInOrder`: `BufferSpec => []BufferTypeOK`, from lemmas about each
  operator on a buffer (`moveForward`, `Written`, ...). `BufferTypeOK` is inductive.
* `BufferIsAQueue`: `Fits => (BufferSpec => ImplementsByteQueue)`. One lemma per operator
  says what it does to the contents; `QueueStep` puts them together. A string that is not
  there asks for more bytes than there are only while the vector is shorter than `size_t`
  counts, which `QueueInv` adds for a buffer that is not misused. `Fits` asks that of the
  first buffer and of the strings that buffers are made of.

**MySQL wrapper** (`MySqlProofs`; `ClientInv` is inductive)

* `ClientTypesHold`, `FetchesHitLiveBuffers`, `CallsStayInSync`: `ClientSpec` implies
  `[]ClientTypeOK`, `[]BoundIsLive` and `[]InSync`. `PointersInv`: inside the loop the library's
  bindings point at the beginning of each column's present buffer, whole.
* `StatementsAreCalls`: `ClientSpec => ImplementsCall`, whichever calls of the library fail. `InHandInv`: what is in the buffers is the
  beginning of the row that was fetched, and all of it once nothing is truncated or the truncated
  columns have been fetched again. `RowsInv`: the rows the caller has, the one in hand and
  those unread are the statement's.

* `CallsComeToAnEnd`: `ClientSpec => CallsAdvance`, the safety half of `CallsReturn`: `StepsLeft` is a natural
  number that every step of a call lowers. It needs that the rows the
  caller has still to get are those unread on the connection (`CallNumbers`, from `RowsInv`), and that no
  call begins before there is a connection (`ConnInv`); a row is fetched a second time at most once.
  That the library gives no more rows than there are is part of the model.

**nginx script** (`NginxProofs`; `NginxInv` is inductive)

* `NginxTypesHold`, `ScratchIsCleared`: `NginxSpec => []NginxTypeOK`, `[]ScratchClean`. A script that
  runs alone removes each scratch file at the command that is for it, whatever it found
  (`SoundAt`), and one script is alone as long as the server waits for it (`SoundAlone`, `CalmServes`).
* `ScriptIsAStore`: `NginxSpec => ImplementsConfigStore`. `CalmAt` says where the client's text and the
  old configuration are at each command of an undisturbed script. What it adopts is what passes, in the sense
  above; that this be what nginx accepts is not proved, because the script does not see to it.

Model-checked only: `OwnInfoPrevails`, `PacketsAnswered` and `CallsReturn`, which need
fairness, because TLAPS does not handle ENABLED here (of the last two the safety half is proved); and the claims, each of which is the
absence of something, shown by an execution. Every other property of a passing run is proved.

## 5. Plan

Done: every module of the table, their runs, and the theorems above.

Modules that may be added: negative ids with their width in `SharedDB`; the session
timeout, should a program start it; `Clock`, should something call it.
