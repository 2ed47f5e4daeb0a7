---------------------------- MODULE MySqlClient ----------------------------
(***************************************************************************)
(* share/mysql: one connection of a DBHelper, and how a statement runs on   *)
(* it.  The memory that the columns of a row are fetched into is allocated   *)
(* by OutputBinder and written by the MySQL library through the pointers    *)
(* that were bound last; a string that does not fit is fetched again from   *)
(* where the buffer ended, after the buffer has been reallocated.  Every     *)
(* call of the library may fail, whether the connection is lost or not.     *)
(*                                                                         *)
(* Characters are told apart by the row and the position they come from, so  *)
(* the contents of a table are the lengths of its strings and its numbers.  *)
(***************************************************************************)
EXTENDS Integers, Sequences, FiniteSets

CONSTANTS
  Columns,      \* columns of the caller's tuple
  Strings,      \* those that are std::string; the others are int, fetched
                \* from an INT UNSIGNED column
  Nullable,     \* those that are a shared_ptr of one
  Null, None, NoStatement,
  FirstSize,    \* bytes a string is first given, 20 in setParameter
  Half,         \* 2^31
  Statements    \* what the callers send

(* A statement: what the library says of it when it is prepared, and the    *)
(* rows it selects.  A row has the length of a string, a number or Null in   *)
(* each column.                                                             *)
Value == Nat \cup {Null}

ASSUME ClientAssumption ==
  /\ Strings \subseteq Columns /\ Nullable \subseteq Columns
  /\ Null \notin Nat
  /\ None \notin BOOLEAN
  /\ FirstSize \in Nat \ {0} /\ Half \in Nat \ {0}
  /\ NoStatement \notin Statements
  /\ \A s \in Statements :
       /\ s.accepted \in BOOLEAN
       /\ s.parameterCount \in Nat
       /\ s.fieldCount \in Nat
       /\ s.rows \in Seq([Columns -> Value])
       /\ s.fieldCount = 0 => s.rows = <<>>
       /\ \A i \in DOMAIN s.rows : \A c \in Columns \ Strings :
            s.rows[i][c] \in 0 .. 2 * Half - 1 \cup {Null}

VARIABLES
  conn,         \* m_sqlconn: "unset", "up", "lost", or "garbage" when the
                \* constructor that was to set it has thrown
  unread,       \* rows of a result that have not been read from the connection
  pc,           \* where the caller is: "idle", "bind", "execute", "fetched",
                \* "refetched", "return", "throw", "crashed"
  query,        \* the statement
  results,      \* the caller's vector
  answer,       \* what runQuery or runCommand returned, or None
  applied,      \* how often the database has carried the command out
  size,         \* per column, buffers[c].size(); allocations of one column
                \* only grow, so the size also tells them apart
  buffer,       \* per column, the bytes of buffers[c]
  parameters,   \* per column, buffer and buffer_length of the MYSQL_BIND
  bound,        \* the library's copy of parameters
  lengths,      \* per column, what the library says the value's length is
  nullFlags,    \* per column, is the value NULL?
  fetchStatus,  \* "row" (0), "truncated", "nodata", "error", or a number
                \* that is none of these, "unknown"
  row           \* number of the row fetched last

memory   == <<size, buffer, parameters, bound, lengths, nullFlags>>
call     == <<query, results, answer, applied>>
clientVars == <<conn, unread, pc, call, memory, fetchStatus, row>>

(* Where a MYSQL_BIND points: into the allocation of size "of", behind its  *)
(* first "at" bytes, with room for "room".                                  *)
Bind(of, at, room) == [of |-> of, at |-> at, room |-> room]

Unbound == Bind(0, 0, 0)

AtMost(m, n) == IF m < n THEN m ELSE n

Nul == <<0, 0>>

(* The k-th character of a string of row r.                                 *)
Char(r, k) == <<r, k>>

(* The rows as the caller's tuple holds them: a number of the upper half of *)
(* INT UNSIGNED is negative in an int.                                      *)
AsInt(n) == IF n < Half THEN n ELSE n - 2 * Half

Tuple(s, r) ==
  [c \in Columns |->
     IF s.rows[r][c] = Null THEN Null
     ELSE IF c \in Strings THEN [k \in 1 .. s.rows[r][c] |-> Char(r, k)]
     ELSE AsInt(s.rows[r][c])]

-----------------------------------------------------------------------------
(* The MySQL library.  It writes through "bound" alone; what it writes to   *)
(* an allocation that has been freed is seen nowhere.                       *)

Live(c) == bound[c].of = size[c]

(* The bytes of column c after "count" characters of row r, from offset on, *)
(* have been copied behind the first "at" bytes, and a NUL if there is room. *)
Copied(bytes, at, room, r, offset, count) ==
  [k \in DOMAIN bytes |->
     IF k > at /\ k <= at + AtMost(count, room) THEN Char(r, offset + k - at)
     ELSE IF k = at + count + 1 /\ count < room THEN Nul
     ELSE bytes[k]]

FetchedBytes(c, r, value) ==
  CASE value = Null \/ ~Live(c) -> buffer[c]
    [] value # Null /\ Live(c) ->
         IF c \in Strings
           THEN Copied(buffer[c], bound[c].at, bound[c].room, r, 0, value)
           ELSE [k \in DOMAIN buffer[c] |-> value]

Truncates(c, value) ==
  value # Null /\ IF c \in Strings THEN value > bound[c].room ELSE value >= Half

(* mysql_stmt_fetch.                                                        *)
FetchRow ==
  LET r == row + 1
      value(c) == query.rows[r][c]
  IN  /\ row' = r /\ unread' = unread - 1
      /\ fetchStatus' = IF \E c \in Columns : Truncates(c, value(c))
                          THEN "truncated" ELSE "row"
      /\ buffer' = [c \in Columns |-> FetchedBytes(c, r, value(c))]
      /\ nullFlags' = [c \in Columns |-> value(c) = Null]
      /\ lengths' = [c \in Columns |->
           IF value(c) = Null THEN lengths[c]
           ELSE IF c \in Strings THEN value(c) ELSE 1]

FetchStmt ==
  \/ conn = "up" /\ unread > 0 /\ FetchRow
  \/ /\ \/ conn = "up" /\ unread = 0 /\ fetchStatus' = "nodata"
        \/ fetchStatus' \in {"error", "unknown"}
     /\ UNCHANGED <<unread, row, buffer, lengths, nullFlags>>

-----------------------------------------------------------------------------
ClientInit ==
  /\ conn = "unset" /\ unread = 0 /\ pc = "idle"
  /\ query = NoStatement /\ results = <<>> /\ answer = FALSE /\ applied = 0
  /\ size = [c \in Columns |-> 0] /\ buffer = [c \in Columns |-> <<>>]
  /\ parameters = [c \in Columns |-> Unbound] /\ bound = parameters
  /\ lengths = [c \in Columns |-> 0] /\ nullFlags = [c \in Columns |-> FALSE]
  /\ fetchStatus = "row" /\ row = 0

(* The constructor: an exception is caught and m_sqlconn stays unset.       *)
Connect ==
  /\ conn = "unset"
  /\ conn' \in {"up", "garbage"}
  /\ UNCHANGED <<unread, pc, call, memory, fetchStatus, row>>

(* The server ends, or the wire breaks: nothing reconnects.                 *)
LoseConnection ==
  /\ conn = "up" /\ conn' = "lost"
  /\ UNCHANGED <<unread, pc, call, memory, fetchStatus, row>>

(* A call of an object that was never made.                                 *)
CallGarbage ==
  /\ conn = "garbage" /\ pc = "idle" /\ pc' = "crashed"
  /\ UNCHANGED <<conn, unread, call, memory, fetchStatus, row>>

(* A connection that still has rows for somebody else refuses a statement.  *)
Ready == conn = "up" /\ unread = 0

(* MySql::runQuery, to the end of prepareStatement, which throws when the    *)
(* statement is refused or cannot be made.                                  *)
RunQuery(s) ==
  /\ pc = "idle" /\ conn \in {"up", "lost"}
  /\ query' = s /\ results' = <<>> /\ applied' = 0
  /\ \/ Ready /\ s.accepted /\ pc' = "bind" /\ answer' = None
     \/ answer' = FALSE /\ UNCHANGED pc
  /\ UNCHANGED <<conn, unread, memory, fetchStatus, row>>

Throw == pc' = "throw"

(* Mutant: nobody compares the columns with the tuple.                      *)
WrongKindUnchecked == query.fieldCount = 0 \/ query.parameterCount # 0

WrongKind ==
  \/ query.fieldCount = 0
  \/ query.parameterCount # 0
  \/ query.fieldCount # Cardinality(Columns)

(* setParameter: the memory a column begins with.  buffer_length of a number *)
(* is left alone.                                                           *)
SetSize(c) == IF c \in Strings THEN FirstSize ELSE 1

SetParameter(c) == Bind(SetSize(c), 0, IF c \in Strings THEN FirstSize ELSE 0)

(* The counts are checked and mysql_stmt_bind_param is asked, then           *)
(* bindParameters goes through the columns.                                 *)
BindOutputs ==
  /\ pc = "bind"
  /\ \/ Throw /\ UNCHANGED memory
     \/ /\ ~WrongKind /\ pc' = "execute"
        /\ size' = [c \in Columns |-> SetSize(c)]
        /\ buffer' = [c \in Columns |-> [k \in 1 .. SetSize(c) |-> Nul]]
        /\ parameters' = [c \in Columns |-> SetParameter(c)]
        /\ UNCHANGED <<bound, lengths, nullFlags>>
  /\ UNCHANGED <<conn, unread, call, fetchStatus, row>>

(* bindAndExecuteStatement, but for the first fetch.  The bind may fail, and *)
(* the statement, on any connection.                                        *)
BindAndExecute ==
  /\ pc = "execute" /\ row' = 0
  /\ \/ bound' \in {bound, parameters} /\ Throw /\ UNCHANGED unread
     \/ conn = "up" /\ bound' = parameters /\ pc' = "fetch" /\ unread' = Len(query.rows)
  /\ UNCHANGED <<conn, call, size, buffer, parameters, lengths, nullFlags, fetchStatus>>

Fetch ==
  /\ pc = "fetch" /\ pc' = "fetched"
  /\ FetchStmt
  /\ UNCHANGED <<conn, call, size, parameters, bound>>

TruncatedColumns == {c \in Columns : lengths[c] > size[c]}

(* Mutant: the part that is missing is taken from the beginning.            *)
RefetchedWhole(c) ==
  Copied([k \in 1 .. lengths[c] + 1 |-> IF k <= size[c] THEN buffer[c][k] ELSE Nul],
         size[c], lengths[c] - size[c], row, 0, lengths[c])

(* The buffer of a truncated column after resize and mysql_stmt_fetch_column *)
(* from the old size on.                                                     *)
Refetched(c) ==
  Copied([k \in 1 .. lengths[c] + 1 |-> IF k <= size[c] THEN buffer[c][k] ELSE Nul],
         size[c], lengths[c] - size[c], row, size[c], lengths[c] - size[c])

(* Every truncated buffer is resized, filled and pointed at from its        *)
(* beginning.                                                               *)
Regrow ==
  /\ size' = [c \in Columns |->
       IF c \in TruncatedColumns THEN lengths[c] + 1 ELSE size[c]]
  /\ buffer' = [c \in Columns |->
       IF c \in TruncatedColumns THEN Refetched(c) ELSE buffer[c]]
  /\ parameters' = [c \in Columns |->
       IF c \in TruncatedColumns THEN Bind(lengths[c] + 1, 0, lengths[c] + 1)
                                 ELSE parameters[c]]

(* Mutant: the buffers are not bound again.                                 *)
RefetchUnbound ==
  /\ pc = "fetched" /\ fetchStatus = "truncated"
  /\ pc' = "refetched" /\ Regrow
  /\ UNCHANGED <<conn, unread, call, bound, lengths, nullFlags, fetchStatus, row>>

(* refetchTruncatedColumns.  When a number was out of range there may be    *)
(* none, and nothing is asked of the library.  What an exception of         *)
(* mysql_stmt_fetch_column or of the second bind leaves in the buffers is   *)
(* freed unread.                                                            *)
Refetch ==
  /\ pc = "fetched" /\ fetchStatus = "truncated"
  /\ \/ /\ pc' = "refetched" /\ Regrow
        /\ bound' = IF TruncatedColumns = {} THEN bound ELSE parameters'
        /\ UNCHANGED <<lengths, nullFlags>>
     \/ TruncatedColumns # {} /\ Throw /\ UNCHANGED memory
  /\ UNCHANGED <<conn, unread, call, fetchStatus, row>>

(* setResult: what is read back of a column.                                *)
ReadBack(c) ==
  IF nullFlags[c] THEN Null
  ELSE IF c \in Strings
    THEN [k \in 1 .. lengths[c] |-> IF k <= size[c] THEN buffer[c][k] ELSE Nul]
  ELSE AsInt(buffer[c][1])

(* setResultTuple and push_back; a NULL is only for a pointer.              *)
SetResult ==
  /\ \/ pc = "fetched" /\ fetchStatus = "row"
     \/ pc = "refetched"
  /\ IF \E c \in Columns \ Nullable : nullFlags[c]
       THEN Throw /\ UNCHANGED results
       ELSE /\ results' = Append(results, [c \in Columns |-> ReadBack(c)])
            /\ pc' = "fetch"
  /\ UNCHANGED <<conn, unread, query, answer, applied, memory, fetchStatus, row>>

FetchEnds == pc = "fetched" /\ fetchStatus \notin {"row", "truncated"}

(* Mutant: whatever is not the end of the data goes on.                    *)
CheckFetchErrorNever ==
  /\ FetchEnds
  /\ pc' = IF fetchStatus = "nodata" THEN "return" ELSE "fetch"
  /\ UNCHANGED <<conn, unread, call, memory, fetchStatus, row>>

(* throwIfFetchError.  A status that is not documented is asserted not to   *)
(* come; a build without assertions throws.                                 *)
CheckFetchError ==
  /\ FetchEnds
  /\ \/ fetchStatus = "nodata" /\ pc' = "return"
     \/ fetchStatus # "nodata" /\ Throw
     \/ fetchStatus = "unknown" /\ pc' = "crashed"
  /\ UNCHANGED <<conn, unread, call, memory, fetchStatus, row>>

(* The vectors are freed, ~MySqlPreparedStatement reads what is left of the  *)
(* result, and DBHelper_Base::runQuery catches the exception.               *)
Return ==
  /\ pc \in {"return", "throw"} /\ pc' = "idle"
  /\ unread' = 0 /\ answer' = (pc = "return")
  /\ size' = [c \in Columns |-> 0] /\ buffer' = [c \in Columns |-> <<>>]
  /\ parameters' = [c \in Columns |-> Unbound] /\ bound' = parameters'
  /\ lengths' = [c \in Columns |-> 0] /\ nullFlags' = [c \in Columns |-> FALSE]
  /\ fetchStatus' = "row" /\ row' = 0
  /\ UNCHANGED <<conn, query, results, applied>>

(* Mutant: what a SELECT returned is not stored and freed.                  *)
RunCommandUnfreed(s) ==
  /\ pc = "idle" /\ conn \in {"up", "lost"}
  /\ query' = s /\ results' = <<>>
  /\ IF Ready /\ s.accepted
       THEN IF s.fieldCount = 0
              THEN \/ applied' = 1 /\ answer' = TRUE /\ UNCHANGED <<conn, unread>>
                   \/ applied' \in {0, 1} /\ answer' = FALSE /\ conn' = "lost"
                      /\ UNCHANGED unread
              ELSE applied' = 0 /\ answer' = FALSE /\ unread' = Len(s.rows)
                   /\ UNCHANGED conn
       ELSE applied' = 0 /\ answer' = FALSE /\ UNCHANGED <<conn, unread>>
  /\ UNCHANGED <<pc, memory, fetchStatus, row>>

(* It returns nothing, and its text has no "?", which is a mistake in a text *)
(* that is not prepared.                                                    *)
IsCommand(s) == s.fieldCount = 0 /\ s.parameterCount = 0

(* MySql::runCommand(const char* ), which sends the text as it is.  MySQL    *)
(* may refuse it, and the connection may go before it arrives or before the *)
(* answer does.  What a SELECT returned is stored and freed before the      *)
(* exception.                                                               *)
RunCommand(s) ==
  /\ pc = "idle" /\ conn \in {"up", "lost"}
  /\ query' = s /\ results' = <<>>
  /\ \/ applied' = 0 /\ answer' = FALSE /\ UNCHANGED conn
     \/ /\ Ready /\ s.accepted /\ IsCommand(s)
        /\ \/ applied' = 1 /\ answer' = TRUE /\ UNCHANGED conn
           \/ applied' \in {0, 1} /\ answer' = FALSE /\ conn' = "lost"
  /\ UNCHANGED <<unread, pc, memory, fetchStatus, row>>

Steps ==
  \/ BindOutputs \/ BindAndExecute \/ Fetch \/ Refetch \/ SetResult
  \/ CheckFetchError \/ Return

ClientNext ==
  \/ Connect \/ LoseConnection \/ CallGarbage
  \/ \E s \in Statements : RunQuery(s) \/ RunCommand(s)
  \/ Steps

ClientSpec == ClientInit /\ [][ClientNext]_clientVars

(* The library's calls return, and the thread that made them goes on.       *)
FairClientSpec == ClientSpec /\ WF_clientVars(Steps)

-----------------------------------------------------------------------------
(* Properties                                                               *)

Rows == 0 .. Len(query.rows)

InLoop == {"fetch", "fetched", "refetched"}

(* Types, where in a call which part of the state is alive, and that no     *)
(* statement whose columns are not the tuple's is ever executed             *)
(* (throwIfParameterCountWrong).                                            *)
ClientTypeOK ==
  /\ conn \in {"unset", "up", "lost", "garbage"}
  /\ pc \in {"idle", "bind", "execute", "return", "throw", "crashed"} \cup InLoop
  /\ query \in Statements \cup {NoStatement}
  /\ query = NoStatement => pc \in {"idle", "crashed"}
  /\ pc \in {"execute"} \cup InLoop => query.fieldCount = Cardinality(Columns)
  /\ answer \in {None, TRUE, FALSE}
  /\ pc = "idle" => answer # None
  /\ pc \notin {"idle", "crashed"} => answer = None
  /\ applied \in {0, 1}
  /\ unread \in Nat /\ row \in Nat
  /\ size \in [Columns -> Nat]
  /\ DOMAIN buffer = Columns /\ \A c \in Columns : DOMAIN buffer[c] = 1 .. size[c]
  /\ parameters \in [Columns -> [of : Nat, at : Nat, room : Nat]]
  /\ bound \in [Columns -> [of : Nat, at : Nat, room : Nat]]
  /\ lengths \in [Columns -> Nat] /\ nullFlags \in [Columns -> BOOLEAN]
  /\ fetchStatus \in {"row", "truncated", "nodata", "error", "unknown"}

(* Whenever a row is fetched the library writes to the buffers that          *)
(* setResults will read, at their beginning, and never past their end: the   *)
(* pointers bound last are those of the last resize.                        *)
BoundIsLive ==
  pc = "fetch" => \A c \in Columns :
    Live(c) /\ bound[c].at = 0 /\ (c \in Strings => bound[c].room = size[c])

(* Between calls no rows are left on the connection, also when a failing     *)
(* fetch, column or bind or a NULL ended the last one in the middle of its   *)
(* rows: MySQL would refuse every later statement.                          *)
InSync == pc \in {"idle", "bind", "execute"} => unread = 0

Commands == {s \in Statements : s.fieldCount = 0}

Wanted == [s \in Statements |-> [r \in DOMAIN s.rows |-> Tuple(s, r)]]

(* One statement, one answer, and the rows are the table's: strings of any  *)
(* length whole, whatever the row before left in the buffer.                *)
Call == INSTANCE StatementCall WITH
  statement <- query, got <- results, verdict <- answer

ImplementsCall == Call!CallSpec

(* How many steps a call can still take: three for a row that is fetched,   *)
(* fetched again and read back, a few around the loop, and one in which the *)
(* connection is lost.                                                      *)
RowsLeft == Len(query.rows) - row

StepsLeft ==
  (IF conn = "up" THEN 1 ELSE 0) +
    CASE pc = "bind"      -> 3 * Len(query.rows) + 5
      [] pc = "execute"   -> 3 * Len(query.rows) + 4
      [] pc = "fetch"     -> 3 * RowsLeft + 3
      [] pc = "fetched"   -> IF fetchStatus \in {"row", "truncated"} THEN 3 * RowsLeft + 5 ELSE 2
      [] pc = "refetched" -> 3 * RowsLeft + 4
      [] pc \in {"return", "throw"} -> 1
      [] OTHER            -> 0

(* Every step of a call, whichever call of the library fails and wherever    *)
(* the connection is lost, brings its end nearer: setResults cannot go round *)
(* once more after a failure, and not more often than there are rows.       *)
CallsAdvance ==
  [][answer = None => 0 <= StepsLeft' /\ StepsLeft' < StepsLeft]_clientVars

(* A call returns, also when the connection is lost in the middle of it,     *)
(* unless the assertion of throwIfFetchError has ended the program.         *)
CallsReturn == pc = "bind" ~> pc = "idle" \/ (pc = "crashed" /\ fetchStatus = "unknown")
=============================================================================
